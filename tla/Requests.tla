------------------------------- MODULE Requests -------------------------------
(***************************************************************************)
(* A browser request that is answered from a computation: the routes of    *)
(* App.api lead it to a graph query (Traversal) or to the preview of a     *)
(* CSV or a JSON inventory.  A preview shares nothing with other           *)
(* requests, so each behaviour is that of one request.                     *)
(***************************************************************************)
EXTENDS Traversal, Sequences

CONSTANTS
    MaxRows, MaxRecords,                                          \* of CSVImport
    MaxNesting, MaxItems, Quote, Escape, Open, Close, Other       \* of JSONImport

ASSUME RequestsAssumption ==
    /\ MaxRows \in Nat \ {0} /\ MaxRecords \in Nat /\ MaxNesting \in Nat \ {0} /\ MaxItems \in Nat
    /\ Quote \notin {Escape, Open, Close, Other} /\ Escape \notin {Open, Close, Other}
    /\ Open \notin {Close, Other} /\ Close # Other

VARIABLES
    route,
    file, row, assets, errors, table,                  \* of CSVImport, with its outcome
    text, nesting, pos, d, max, in, esc, document      \* of JSONImport, with its outcome

CSV == INSTANCE CSVImport WITH outcome <- table
JSON == INSTANCE JSONImport WITH outcome <- document, MaxDepth <- MaxNesting

csv == <<file, row, assets, errors, table>>
json == <<text, nesting, pos, d, max, in, esc, document>>
request == <<vars, route, csv, json>>

NoCSV == file = "none" /\ row = 0 /\ assets = <<>> /\ errors = <<>> /\ table = "none"

NoJSON ==
    /\ text = <<>> /\ nesting = 0 /\ pos = 0 /\ d = 0 /\ max = 0
    /\ in = FALSE /\ esc = FALSE /\ document = "none"

NoGraph ==
    /\ edges = {} /\ stable = {} /\ ever = {} /\ changes = 0
    /\ asked = [depth |-> Absent, nodes |-> Absent] /\ reverse = FALSE
    /\ level = 0 /\ nodes = {} /\ frontier = {} /\ relationships = {} /\ outcome = "none"

RequestsInit ==
    \/ route = "graph" /\ Init /\ NoCSV /\ NoJSON
    \/ route = "csv" /\ NoGraph /\ CSV!Init /\ NoJSON
    \/ route = "json" /\ NoGraph /\ NoCSV /\ JSON!Init

RequestsNext ==
    /\ UNCHANGED route
    /\ \/ route = "graph" /\ Next /\ UNCHANGED <<csv, json>>
       \/ route = "csv" /\ CSV!Next /\ UNCHANGED <<vars, json>>
       \/ route = "json" /\ JSON!Next /\ UNCHANGED <<vars, csv>>

RequestsSpec == RequestsInit /\ [][RequestsNext]_request

-----------------------------------------------------------------------------
InOrder(rows, wanted) ==
    /\ {rows[i] : i \in DOMAIN rows} = wanted
    /\ \A i, j \in DOMAIN rows : i < j => rows[i] < rows[j]

(* A preview is of the whole file: each record is either an observation or *)
(* an error, in the file's order, and a file with a readable record past   *)
(* the row limit is never previewed, not even in part.                     *)
PreviewsAreWhole ==
    table = "ok" =>
        /\ file.defect = "none"
        /\ InOrder(assets, {i \in DOMAIN file.records : file.records[i] = "good"})
        /\ InOrder(errors, {i \in DOMAIN file.records : file.records[i] # "good"})
        /\ \A i \in DOMAIN file.records : i > MaxRows => file.records[i] = "bad"

(* The scan of a JSON document finds exactly its nesting: none deeper than *)
(* the limit is handed to the decoder and none within it is refused as too *)
(* deep, whatever its strings hold.                                        *)
DepthIsNesting ==
    document \notin {"none", "scanning", "large"} =>
        /\ max = nesting /\ d = 0 /\ ~in
        /\ document = "deep" <=> nesting > MaxNesting

=============================================================================
