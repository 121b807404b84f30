------------------------------ MODULE Protocol ------------------------------
(***************************************************************************)
(* What the collector and the control plane share: the snapshot envelope   *)
(* (internal/domain/model.go) and the wall clock.                          *)
(*                                                                         *)
(* The clock is coarse, a tick being the better part of a day: the replay  *)
(* window is 24 hours and the spool keeps a snapshot for seven days.  The  *)
(* snapshot ID is made of the sequence number alone, so the number stands  *)
(* for it.  The signed content is stood for by the envelope as a whole:    *)
(* two envelopes are equal exactly when their content hashes are.          *)
(***************************************************************************)
EXTENDS Naturals

CONSTANTS
    Collectors,   \* enrolled collectors, each with its one connector
    Contents,     \* what discovery may find, see Snapshots
    Ahead,        \* how far each collector's clock is ahead of the control plane's
    MaxTime,      \* bound on all clocks
    MaxSequence,  \* bound on sequence numbers
    MaxRuns,      \* bound on the discoveries of a collector
    NoSnapshot

(* A "malformed" snapshot fails validSnapshotContract; a "conflicting" one *)
(* satisfies it and is then rejected by ApplyPostgres.                     *)
Snapshots ==
    [by : Collectors, seq : 1..MaxSequence, taken : 0..MaxTime, run : 1..MaxRuns, content : Contents]

ASSUME ProtocolAssumption ==
    /\ Contents \subseteq {"good", "malformed", "conflicting"}
    /\ Ahead \in [Collectors -> 0..MaxTime]
    /\ MaxTime \in Nat
    /\ MaxSequence \in Nat
    /\ MaxRuns \in Nat
    /\ NoSnapshot \notin Snapshots

VARIABLE now

Tick ==
    /\ \A c \in Collectors : now + Ahead[c] < MaxTime
    /\ now' = now + 1

=============================================================================
