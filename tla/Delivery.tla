------------------------------ MODULE Delivery ------------------------------
(***************************************************************************)
(* Collectors and the control plane over a network that may lose a request *)
(* or its answer: Collector and Ingest composed.                           *)
(*                                                                         *)
(* While up is false anything may be lost and any process may stop; while  *)
(* it is true requests and answers arrive.  A client that gives up leaves  *)
(* its handler running: the retry of a snapshot overlaps the first try.    *)
(***************************************************************************)
EXTENDS Collector, Ingest

CONSTANT Crashes  \* do collectors stop and start over?

VARIABLES
    up,    \* connectivity, and processes that run
    asked  \* the request each collector waits for

vars == <<now, collectorVars, ingestVars, up, asked>>

Init ==
    /\ now = 0
    /\ CollectorInit
    /\ IngestInit
    /\ up \in BOOLEAN
    /\ asked = [c \in Collectors |-> NoRequest]

Await(c, r) == asked' = [asked EXCEPT ![c] = r]

Run(c) ==
    /\ CollectorStep(c)
    /\ UNCHANGED <<now, ingestVars, up, asked>>

Send(c, r) ==
    /\ PostOldest(c)
    /\ Arrive(r, Oldest(c))
    /\ Await(c, r)
    /\ UNCHANGED <<now, up>>

Handle(r) ==
    /\ Admit(r) \/ Lock(r) \/ Stage(r)
    /\ UNCHANGED <<now, collectorVars, up, asked>>

(* The handler's answer reaches the client if it still waits for it.       *)
Answer(r, accepted) ==
    LET c == Sender(r) IN
    \/ /\ asked[c] = r
       /\ Hear(c, accepted)
       /\ Await(c, NoRequest)
    \/ /\ asked[c] = r => ~up
       /\ UNCHANGED <<collectorVars, asked>>

Accept(r) ==
    /\ Repeat(r) \/ Commit(r)
    /\ Answer(r, TRUE)
    /\ UNCHANGED <<now, up>>

Decline(r) ==
    /\ Refuse(r) \/ Reject(r) \/ ApplyFails(r)
    /\ Answer(r, FALSE)
    /\ UNCHANGED <<now, up>>

Break(r) ==
    /\ ~up
    /\ Fail(r)
    /\ Answer(r, FALSE)
    /\ UNCHANGED <<now, up>>

Pending(c) == \E r \in Requests : r = asked[c] /\ stage[r] # "none" /\ Sender(r) = c

(* The 60 second timeout of the client, or no connection at all.           *)
Timeout(c) ==
    /\ up => ~Pending(c)
    /\ Hear(c, FALSE)
    /\ Await(c, NoRequest)
    /\ UNCHANGED <<now, ingestVars, up>>

Crash(c) ==
    /\ Crashes
    /\ ~up
    /\ Interrupt(c)
    /\ Await(c, NoRequest)
    /\ UNCHANGED <<now, ingestVars, up>>

(* Timeouts end a request within a minute, so that no tick, of the better  *)
(* part of a day, passes while one is under way.                           *)
Quiet ==
    /\ \A c \in Collectors : at[c] = "asleep"
    /\ \A r \in Requests : stage[r] = "none"

Environment ==
    \/ Quiet /\ Tick /\ UNCHANGED <<collectorVars, ingestVars, up, asked>>
    \/ up' = ~up /\ UNCHANGED <<now, collectorVars, ingestVars, asked>>
    \/ \E c \in Collectors : Revoke(c) /\ UNCHANGED <<now, collectorVars, up, asked>>

Next ==
    \/ \E c \in Collectors :
          \/ Run(c) \/ Timeout(c) \/ Crash(c)
          \/ \E r \in Requests : Send(c, r)
    \/ \E r \in Requests : Handle(r) \/ Accept(r) \/ Decline(r) \/ Break(r)
    \/ Environment

Spec == Init /\ [][Next]_vars

(* A process that can take a step takes it: the collector's loop and the   *)
(* handlers run in goroutines nothing suspends, and a client waits for an  *)
(* answer no longer than its timeout.                                      *)
Fairness ==
    /\ \A c \in Collectors :
          /\ WF_vars(Run(c))
          /\ WF_vars(Timeout(c))
          /\ WF_vars(\E r \in Requests : Send(c, r))
    /\ \A r \in Requests : WF_vars(Handle(r) \/ Accept(r) \/ Decline(r))

FairSpec == Spec /\ Fairness

-----------------------------------------------------------------------------

TypeOK ==
    /\ now \in Nat
    /\ sequence \in [Collectors -> 0..MaxSequence]
    /\ spool \in [Collectors -> SUBSET Snapshots]
    /\ orphans \in [Collectors -> 0..MaxOrphans]
    /\ runs \in [Collectors -> 0..MaxRuns]
    /\ at \in [Collectors -> Places]
    /\ discovered \in [Collectors -> BOOLEAN]
    /\ fresh \in [Collectors -> Snapshots \cup {NoSnapshot}]
    /\ stage \in [Requests -> Stages]
    /\ carried \in [Requests -> Snapshots \cup {NoSnapshot}]
    /\ history \in [Collectors -> SUBSET Snapshots]
    /\ trusted \in [Collectors -> BOOLEAN]
    /\ up \in BOOLEAN
    /\ asked \in [Collectors -> Requests \cup {NoRequest}]

(* Because a round starts with a flush that must succeed, the spool never  *)
(* holds more than one snapshot, whatever crashes and losses there are:    *)
(* the byte limit of queueSnapshot is met by one snapshot and by files     *)
(* left pending, never by a backlog.                                       *)
SpoolHoldsOne == \A c \in Collectors : Cardinality(spool[c]) <= 1

(* While its sequence file can be read, a collector's own earlier numbers  *)
(* never make the replay check of collectorSnapshot turn a snapshot away:  *)
(* clocks set back, crashes between nextSequence and queueSnapshot and     *)
(* retries that overlap all considered.                                    *)
OwnNumbersAdvance ==
    ~Unreadable => \A r \in Requests : InTransaction(r) =>
        \/ carried[r] \in history[Sender(r)]
        \/ \A s \in history[Sender(r)] : s.seq < carried[r].seq

(* A snapshot ID, made from the sequence number alone, names one snapshot  *)
(* over all collectors and organizations.                                  *)
IDsAreGlobal ==
    \A c, d \in Collectors : \A s \in history[c], t \in history[d] : s.seq = t.seq => s = t

(* Queued snapshots enter source_snapshots in the order of their numbers,  *)
(* at most once, and leave the spool only after they have: for every loss, *)
(* duplication and crash, delivery implements SnapshotLog.                 *)
Log == INSTANCE SnapshotLog WITH
          queued <- [c \in Collectors |-> spool[c] \ history[c]],
          log <- history

ImplementsLog == Log!Spec

(* The answer to a snapshot that has been applied before is an error only  *)
(* past the replay window: a collector that missed the first answer gets   *)
(* past it.                                                                *)
RepeatsAreAnswered ==
    [][\A r \in Requests :
          Decline(r) /\ trusted[Sender(r)] /\ asked[Sender(r)] = r /\ carried[r] \in history[Sender(r)]
             => ~Timely(carried[r])]_vars

(* Once connectivity is restored for good, a collector whose credential    *)
(* stands gets its spool accepted and goes back to discovering, unless the *)
(* outage has outlasted the replay window for what is in the spool.        *)
RestoredCollectorsDiscover ==
    \A c \in Collectors :
        <>[](up /\ trusted[c] /\ \A s \in spool[c] : Timely(s)) => []<>(at[c] = "discover")

(* After a revocation the requests already past the check come to an end   *)
(* and no other gets past it: collectorSnapshot checks the credential and  *)
(* the connector before it takes the lock, and not again.                  *)
RevocationTakesHold ==
    \A c \in Collectors :
        ~trusted[c] ~> [](\A r \in Requests : stage[r] \in {"admitted", "locked", "staged"} => Sender(r) # c)

=============================================================================
