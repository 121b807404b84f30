------------------------------- MODULE CSVImport -------------------------------
(***************************************************************************)
(* The preview of a CSV inventory: a bounded read, checks of the whole     *)
(* file and of its header, then one record after the other.  A record is   *)
(* "bad" if the CSV reader cannot parse it, "unknown" if its asset_type is *)
(* none of the domain's, and "good" otherwise.                             *)
(***************************************************************************)
EXTENDS Naturals, Sequences

CONSTANTS
    MaxRows,
    MaxRecords    \* bound on the records of a file

VARIABLES
    file,      \* its defect as a whole, and its records
    row,       \* the record to read next; 0 before the header is read
    assets,    \* rows that became observations, in order
    errors,    \* rows with an error message, in order
    outcome    \* "running", "refused" or "ok"

vars == <<file, row, assets, errors, outcome>>

Records == {"good", "unknown", "bad"}
Defects == {"none", "bytes", "encoding", "header", "columns"}

Init ==
    /\ file \in [defect : Defects, records : UNION {[1..n -> Records] : n \in 0..MaxRecords}]
    /\ row = 0
    /\ assets = << >> /\ errors = << >>
    /\ outcome = "running"

Reading == outcome = "running" /\ row \in 1..Len(file.records)
Record == file.records[row]

Refuse == outcome' = "refused" /\ UNCHANGED <<file, row, assets, errors>>

Check ==
    /\ row = 0 /\ outcome = "running"
    /\ IF file.defect = "none"
       THEN row' = 1 /\ UNCHANGED <<file, assets, errors, outcome>>
       ELSE Refuse

TooManyVariant == Record # "bad" /\ row > MaxRows + 1
TooMany == Record # "bad" /\ row > MaxRows

Exceed == Reading /\ TooMany /\ Refuse

Report ==
    /\ Reading /\ ~TooMany /\ Record # "good"
    /\ errors' = Append(errors, row)
    /\ row' = row + 1
    /\ UNCHANGED <<file, assets, outcome>>

Keep ==
    /\ Reading /\ ~TooMany /\ Record = "good"
    /\ assets' = Append(assets, row)
    /\ row' = row + 1
    /\ UNCHANGED <<file, errors, outcome>>

Finish ==
    /\ outcome = "running" /\ row = Len(file.records) + 1
    /\ outcome' = "ok"
    /\ UNCHANGED <<file, row, assets, errors>>

Next == Check \/ Exceed \/ Report \/ Keep \/ Finish

Spec == Init /\ [][Next]_vars

=============================================================================
