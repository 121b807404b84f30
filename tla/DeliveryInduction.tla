------------------------- MODULE DeliveryInduction --------------------------
(***************************************************************************)
(* The inductive invariant behind the properties of Delivery: where a      *)
(* snapshot may be between the collector's spool, the requests in flight   *)
(* and the connector's history.                                            *)
(***************************************************************************)
EXTENDS Delivery

\* A collector discovers and queues with an empty spool, and sends from a
\* spool with one snapshot.
SpoolMatches(c) ==
    /\ at[c] \in {"discover", "queue"} => spool[c] = {}
    /\ at[c] \in {"post", "remove"} => spool[c] # {}
    /\ \A s, t \in spool[c] : s = t

\* Snapshots are kept by the collector that made them, and its latest is
\* younger than all it has handed on.
Owned(c) ==
    /\ \A s \in spool[c] \cup history[c] : s.by = c /\ s.run <= runs[c]
    /\ at[c] = "queue" =>
          /\ fresh[c] \in Snapshots
          /\ fresh[c].by = c
          /\ \A s \in history[c] : s.run < fresh[c].run
          /\ fresh[c].run = runs[c]

\* A snapshot leaves the spool only for the history.
Delivered(c) == at[c] = "remove" => spool[c] \subseteq history[c]

\* What is in flight is in the spool still or in the history by now; the
\* request a collector waits for carries what is in its spool.
InFlight(r) ==
    stage[r] # "none" =>
        /\ carried[r] \in Snapshots
        /\ carried[r] \in spool[Sender(r)] \cup history[Sender(r)]
        /\ at[Sender(r)] = "post" /\ asked[Sender(r)] = r => carried[r] \in spool[Sender(r)]

\* The advisory lock: a connector has one transaction at a time, so what was
\* read of its history when a row was staged holds to the commit.
Exclusive(r) ==
    /\ InTransaction(r) =>
          \A q \in Requests : InTransaction(q) /\ Sender(q) = Sender(r) => q = r
    /\ stage[r] = "staged" => \A t \in history[Sender(r)] : t.seq < carried[r].seq

Clocks == \A c \in Collectors : now + Ahead[c] <= MaxTime

IInv ==
    /\ TypeOK
    /\ Clocks
    /\ \A c \in Collectors : SpoolMatches(c) /\ Owned(c) /\ Delivered(c)
    /\ \A r \in Requests : InFlight(r) /\ Exclusive(r)

\* While the sequence file can be read, numbers only grow.
Numbered(c) ==
    /\ \A s \in spool[c] \cup history[c] : s.seq <= sequence[c]
    /\ at[c] = "queue" => fresh[c].seq = sequence[c] /\ \A t \in history[c] : t.seq < fresh[c].seq
    /\ \A s \in spool[c] : s \in history[c] \/ \A t \in history[c] : t.seq < s.seq

NumbersInv == ~Unreadable => \A c \in Collectors : Numbered(c)

\* The primary key of source_snapshots, over all organizations: a staged row
\* has an ID no committed row and no other staged row has.
KeysInv ==
    /\ IDsAreGlobal
    /\ \A r \in Requests : stage[r] = "staged" =>
          /\ \A c \in Collectors : \A t \in history[c] : t.seq # carried[r].seq
          /\ \A q \in Requests : stage[q] = "staged" /\ carried[q].seq = carried[r].seq => q = r

\* What was admitted, and so all that is committed, meets the contract.
AdmittedInv ==
    /\ \A r \in Requests : stage[r] \in {"admitted", "locked", "staged"} => carried[r].content # "malformed"
    /\ \A c \in Collectors : \A s \in history[c] : s.content # "malformed"

=============================================================================
