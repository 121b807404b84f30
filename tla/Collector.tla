----------------------------- MODULE Collector ------------------------------
(***************************************************************************)
(* The collector's loop: cmd/infragraph-collector/main.go.                 *)
(*                                                                         *)
(* A round is a flush of the spool, a discovery, the queueing of what it   *)
(* found, and a second flush.  An error ends the round.  The heartbeats    *)
(* around it are sent and their outcome is not looked at.                  *)
(***************************************************************************)
EXTENDS Protocol, FiniteSets

CONSTANTS
    Readings,   \* what time.Now().UnixNano() may read: the clock may be set back
    Unreadable, \* may the sequence file fail to be read or parsed?
    SpoolLimit, \* INFRAGRAPH_COLLECTOR_MAX_SPOOL_BYTES, in snapshots
    MaxAge,     \* INFRAGRAPH_COLLECTOR_MAX_SPOOL_AGE
    MaxOrphans  \* bound on left-over pending files

ASSUME CollectorAssumption ==
    /\ Readings \subseteq 1..MaxSequence
    /\ Unreadable \in BOOLEAN
    /\ SpoolLimit \in Nat
    /\ MaxAge \in Nat
    /\ MaxOrphans \in Nat

VARIABLES
    sequence,   \* the number in the sequence file, 0 when there is none
    spool,      \* the .json files of the spool directory
    orphans,    \* its .pending files, left by a write that was cut short
    runs,       \* discoveries made, so that no two envelopes are alike
    at,         \* where the process is in its loop
    discovered, \* has this round's discovery been queued?
    fresh       \* the snapshot between nextSequence and queueSnapshot

collectorVars == <<sequence, spool, orphans, runs, at, discovered, fresh>>

Places == {"asleep", "flush", "post", "remove", "discover", "queue"}

CollectorInit ==
    /\ sequence = [c \in Collectors |-> 0]
    /\ spool = [c \in Collectors |-> {}]
    /\ orphans = [c \in Collectors |-> 0]
    /\ runs = [c \in Collectors |-> 0]
    /\ at = [c \in Collectors |-> "asleep"]
    /\ discovered = [c \in Collectors |-> FALSE]
    /\ fresh = [c \in Collectors |-> NoSnapshot]

Go(c, place) == at' = [at EXCEPT ![c] = place]

(* File names start with the zero-padded number, so ReadDir lists them in  *)
(* the order of the numbers.                                               *)
Oldest(c) == CHOOSE s \in spool[c] : \A t \in spool[c] : s.seq <= t.seq

(* The file was written the moment the snapshot was taken.                 *)
Expired(c) == now + Ahead[c] > Oldest(c).taken + MaxAge

Wake(c) ==
    /\ at[c] = "asleep"
    /\ Go(c, "flush")
    /\ discovered' = [discovered EXCEPT ![c] = FALSE]
    /\ UNCHANGED <<sequence, spool, orphans, runs, fresh>>

(* flushSpool with nothing left to send.  The first flush of a round leads *)
(* to runOnce, the second ends it.                                         *)
FlushedVariant(c) ==
    /\ at[c] = "flush"
    /\ spool[c] = {} \/ ~discovered[c]
    /\ Go(c, IF discovered[c] THEN "asleep" ELSE "discover")
    /\ UNCHANGED <<sequence, spool, orphans, runs, discovered, fresh>>

Flushed(c) ==
    /\ at[c] = "flush"
    /\ spool[c] = {}
    /\ Go(c, IF discovered[c] THEN "asleep" ELSE "discover")
    /\ UNCHANGED <<sequence, spool, orphans, runs, discovered, fresh>>

RefuseExpired(c) ==
    /\ at[c] = "flush"
    /\ spool[c] # {}
    /\ Expired(c)
    /\ Go(c, "asleep")
    /\ UNCHANGED <<sequence, spool, orphans, runs, discovered, fresh>>

PostOldest(c) ==
    /\ at[c] = "flush"
    /\ spool[c] # {}
    /\ ~Expired(c)
    /\ Go(c, "post")
    /\ UNCHANGED <<sequence, spool, orphans, runs, discovered, fresh>>

(* postBytes returns: an error is a refusal, a timeout or no connection.   *)
Hear(c, accepted) ==
    /\ at[c] = "post"
    /\ Go(c, IF accepted THEN "remove" ELSE "asleep")
    /\ UNCHANGED <<sequence, spool, orphans, runs, discovered, fresh>>

RemoveOldest(c) ==
    /\ at[c] = "remove"
    /\ spool' = [spool EXCEPT ![c] = @ \ {Oldest(c)}]
    /\ Go(c, "flush")
    /\ UNCHANGED <<sequence, orphans, runs, discovered, fresh>>

(* The number after previous, by a clock that shows reading.               *)
NextSequenceVariant(previous, reading) == reading

NextSequence(previous, reading) ==
    IF reading <= previous THEN previous + 1 ELSE reading

(* runOnce up to the signature.  A sequence file that cannot be read or    *)
(* parsed counts as 0.                                                     *)
Discover(c) ==
    /\ at[c] = "discover"
    /\ runs[c] < MaxRuns
    /\ \E reading \in Readings, content \in Contents :
       \E previous \in {sequence[c]} \cup (IF Unreadable THEN {0} ELSE {}) :
          LET number == NextSequence(previous, reading) IN
          /\ number <= MaxSequence
          /\ sequence' = [sequence EXCEPT ![c] = number]
          /\ fresh' = [fresh EXCEPT ![c] =
                [by |-> c, seq |-> number, taken |-> now + Ahead[c], run |-> runs[c] + 1, content |-> content]]
    /\ runs' = [runs EXCEPT ![c] = @ + 1]
    /\ Go(c, "queue")
    /\ UNCHANGED <<spool, orphans, discovered>>

DiscoverFails(c) ==
    /\ at[c] = "discover"
    /\ Go(c, "asleep")
    /\ UNCHANGED <<sequence, spool, orphans, runs, discovered, fresh>>

(* Every file of the directory counts, pending ones included.              *)
HasRoom(c) == Cardinality(spool[c]) + orphans[c] + 1 <= SpoolLimit

QueueSnapshot(c) ==
    /\ at[c] = "queue"
    /\ fresh' = [fresh EXCEPT ![c] = NoSnapshot]
    /\ IF HasRoom(c)
       THEN /\ spool' = [spool EXCEPT ![c] = @ \cup {fresh[c]}]
            /\ discovered' = [discovered EXCEPT ![c] = TRUE]
            /\ Go(c, "flush")
       ELSE /\ Go(c, "asleep")
            /\ UNCHANGED <<spool, discovered>>
    /\ UNCHANGED <<sequence, orphans, runs>>

(* The process ends, or a file operation fails, and the loop starts over.  *)
(* Nothing removes the pending file of a write that was cut short.         *)
Interrupt(c) ==
    /\ at[c] # "asleep"
    /\ Go(c, "asleep")
    /\ fresh' = [fresh EXCEPT ![c] = NoSnapshot]
    /\ \/ UNCHANGED orphans
       \/ /\ at[c] = "queue"
          /\ HasRoom(c)
          /\ orphans[c] < MaxOrphans
          /\ orphans' = [orphans EXCEPT ![c] = @ + 1]
    /\ UNCHANGED <<sequence, spool, runs, discovered>>

CollectorStep(c) ==
    \/ Wake(c) \/ Flushed(c) \/ RefuseExpired(c) \/ RemoveOldest(c)
    \/ Discover(c) \/ DiscoverFails(c) \/ QueueSnapshot(c)

=============================================================================
