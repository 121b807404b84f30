---------------------------- MODULE SnapshotLog ----------------------------
(***************************************************************************)
(* What delivery promises: the snapshots a collector queues are entered in *)
(* a log, each at most once, in the order of their sequence numbers, and a *)
(* queued snapshot leaves the queue in no other way than into the log.     *)
(***************************************************************************)
EXTENDS Naturals

CONSTANTS Collectors, Snapshots

VARIABLES
    queued,  \* the snapshots of each collector that are not in the log
    log      \* the snapshots of each collector that are

vars == <<queued, log>>

Init ==
    /\ queued = [c \in Collectors |-> {}]
    /\ log = [c \in Collectors |-> {}]

Queue(c, s) ==
    /\ s.by = c
    /\ s \notin log[c]
    /\ queued' = [queued EXCEPT ![c] = @ \cup {s}]
    /\ UNCHANGED log

Enter(c, s) ==
    /\ s \in queued[c]
    /\ \A t \in log[c] : t.seq < s.seq
    /\ log' = [log EXCEPT ![c] = @ \cup {s}]
    /\ queued' = [queued EXCEPT ![c] = @ \ {s}]

Next ==
    \E c \in Collectors :
        \/ \E s \in Snapshots : Queue(c, s)
        \/ \E s \in queued[c] : Enter(c, s)

Spec == Init /\ [][Next]_vars

=============================================================================
