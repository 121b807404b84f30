--------------------------- MODULE DeliveryProofs ---------------------------
(***************************************************************************)
(* Proofs about Delivery, for all collectors, requests, clocks, limits and *)
(* bounds: the inductive invariant; a spool holds one snapshot; a          *)
(* collector's own numbers never turn its snapshots away; a snapshot ID    *)
(* names one snapshot; what was applied before is answered; delivery       *)
(* implements SnapshotLog.                                                 *)
(***************************************************************************)
EXTENDS DeliveryInduction, FiniteSetTheorems, TLAPS

\* What the invariant says of one collector, and of one request.
Collected(c) == SpoolMatches(c) /\ Owned(c) /\ Delivered(c)
Requested(r) == InFlight(r) /\ Exclusive(r)

\* Snapshots have fields of their types.
LEMMA SnapshotFields ==
    ASSUME NEW s \in Snapshots
    PROVE  s.by \in Collectors /\ s.seq \in Nat /\ s.run \in Nat
  BY ProtocolAssumption DEF Snapshots

\* A fresh start: no spool file, no request, no accepted snapshot.
LEMMA InitIInv == Init => IInv
  <1> SUFFICES ASSUME Init PROVE IInv
    OBVIOUS
  <1> USE DEF Init, CollectorInit, IngestInit
  <1>0. 0 \in 0..MaxSequence /\ 0 \in 0..MaxOrphans /\ 0 \in 0..MaxRuns
    BY ProtocolAssumption, CollectorAssumption
  <1>1. TypeOK
    BY Zenon, <1>0 DEF TypeOK, Places, Stages
  <1>2. Clocks
    <2> SUFFICES ASSUME NEW c \in Collectors PROVE now + Ahead[c] <= MaxTime
      BY Zenon DEF Clocks
    <2>1. Ahead[c] \in 0..MaxTime /\ MaxTime \in Nat
      BY Zenon, ProtocolAssumption
    <2> QED
      BY <2>1
  <1>3. \A c \in Collectors : Collected(c)
    BY Zenon DEF Collected, SpoolMatches, Owned, Delivered
  <1>4. \A r \in Requests : Requested(r)
    BY Zenon DEF Requested, InFlight, Exclusive, InTransaction
  <1> QED
    BY Zenon, <1>1, <1>2, <1>3, <1>4 DEF IInv, Collected, Requested

\* Steps that only move a collector in its loop, to a place where it neither
\* sends nor has sent nor is about to queue.
LEMMA MovePreserves ==
    ASSUME IInv, TypeOK', Clocks',
           NEW c \in Collectors, NEW place \in Places \ {"post", "remove", "queue"},
           Go(c, place), place = "discover" => spool[c] = {},
           UNCHANGED <<spool, history, stage, carried, runs>>,
           UNCHANGED fresh \/ fresh' = [fresh EXCEPT ![c] = NoSnapshot],
           UNCHANGED asked \/ asked' = [asked EXCEPT ![c] = NoRequest]
    PROVE  IInv'
  <1>1. ASSUME NEW d \in Collectors PROVE Collected(d)'
    BY DEF IInv, TypeOK, Collected, SpoolMatches, Owned, Delivered, Go
  <1>2. ASSUME NEW r \in Requests PROVE Requested(r)'
    BY Zenon, SnapshotFields, IngestAssumption
       DEF IInv, TypeOK, Requested, InFlight, Exclusive, InTransaction, Sender, Go
  <1> QED
    BY Zenon, <1>1, <1>2 DEF IInv, Collected, Requested

\* The steps of runOnce that queue nothing, send nothing and remove nothing.
LEMMA LoopPreserves ==
    ASSUME IInv, NEW c \in Collectors, UNCHANGED <<now, ingestVars, up, asked>>,
           Wake(c) \/ Flushed(c) \/ RefuseExpired(c) \/ DiscoverFails(c)
    PROVE  IInv'
  <1>1. PICK place \in Places \ {"post", "remove", "queue"} :
            Go(c, place) /\ (place = "discover" => spool[c] = {})
    BY DEF Wake, Flushed, RefuseExpired, DiscoverFails, Places
  <1>2. UNCHANGED <<sequence, spool, orphans, runs, fresh>>
    BY Zenon DEF Wake, Flushed, RefuseExpired, DiscoverFails
  <1>3. TypeOK' /\ Clocks'
    BY Zenon, <1>1, <1>2
       DEF IInv, TypeOK, Clocks, ingestVars, Go, Wake, Flushed, RefuseExpired, DiscoverFails
  <1> QED
    BY Zenon, <1>1, <1>2, <1>3, MovePreserves DEF ingestVars

\* A new snapshot is numbered past the last, unless the state cannot be read.
LEMMA DiscoverPreserves ==
    ASSUME IInv, NEW c \in Collectors, Discover(c), UNCHANGED <<now, ingestVars, up, asked>>
    PROVE  IInv' /\ fresh'[c].seq = sequence'[c] /\ (~Unreadable => sequence[c] < sequence'[c])
  <1>1. PICK reading \in Readings, content \in Contents, previous \in {sequence[c]} \cup (IF Unreadable THEN {0} ELSE {}) :
            LET number == NextSequence(previous, reading) IN
            /\ number <= MaxSequence
            /\ sequence' = [sequence EXCEPT ![c] = number]
            /\ fresh' = [fresh EXCEPT ![c] =
                  [by |-> c, seq |-> number, taken |-> now + Ahead[c], run |-> runs[c] + 1, content |-> content]]
    BY Zenon DEF Discover
  <1> DEFINE number == NextSequence(previous, reading)
  <1>2. number \in 1..MaxSequence /\ (~Unreadable => sequence[c] < number)
    BY <1>1, ProtocolAssumption, CollectorAssumption DEF NextSequence, IInv, TypeOK
  <1>3. now + Ahead[c] \in 0..MaxTime /\ runs[c] + 1 \in 1..MaxRuns
    <2>1. Ahead[c] \in 0..MaxTime /\ MaxTime \in Nat /\ MaxRuns \in Nat
      BY Zenon, ProtocolAssumption
    <2>2. now \in Nat /\ now + Ahead[c] <= MaxTime /\ runs[c] \in 0..MaxRuns /\ runs[c] < MaxRuns
      BY Zenon DEF IInv, TypeOK, Clocks, Discover
    <2> QED
      BY <2>1, <2>2
  <1> HIDE DEF number
  <1>4. fresh'[c] = [by |-> c, seq |-> number, taken |-> now + Ahead[c], run |-> runs[c] + 1, content |-> content]
    BY Zenon, <1>1 DEF IInv, TypeOK, number
  <1>5. fresh'[c] \in Snapshots
    BY <1>2, <1>3, <1>4 DEF Snapshots
  <1>6. fresh'[c].by = c /\ fresh'[c].seq = number /\ fresh'[c].run = runs[c] + 1
    BY <1>4
  <1>7. sequence'[c] = number
    BY Zenon, <1>1 DEF IInv, TypeOK, number
  <1>8. /\ sequence' = [sequence EXCEPT ![c] = number] 
        /\ fresh' = [fresh EXCEPT ![c] = fresh'[c]]
    BY SMTT(30), <1>1, <1>4 DEF number, IInv, TypeOK
  <1>9. TypeOK' /\ Clocks'
    BY SMTT(30), <1>2, <1>3, <1>5, <1>8, ProtocolAssumption DEF IInv, TypeOK, Clocks, ingestVars, Discover, Go, Places
  <1>10. ASSUME NEW d \in Collectors PROVE Collected(d)'
    BY SMTT(30), <1>5, <1>6, <1>8, SnapshotFields
       DEF IInv, TypeOK, Collected, SpoolMatches, Owned, Delivered, Discover, Go, ingestVars
  <1>11. ASSUME NEW r \in Requests PROVE Requested(r)'
    BY Zenon, SnapshotFields
       DEF IInv, TypeOK, Requested, InFlight, Exclusive, InTransaction, Sender, Discover, Go, ingestVars
  <1> QED
    BY Zenon, <1>2, <1>6, <1>7, <1>9, <1>10, <1>11 DEF IInv, Collected, Requested

\* It goes to a spool that is empty.
LEMMA QueuePreserves ==
    ASSUME IInv, NEW c \in Collectors, QueueSnapshot(c), UNCHANGED <<now, ingestVars, up, asked>>
    PROVE  IInv'
  <1>1. fresh[c] \in Snapshots /\ spool[c] = {}
    BY Zenon DEF IInv, Owned, SpoolMatches, QueueSnapshot
  <1>2. TypeOK' /\ Clocks'
    <2>1. spool' \in [Collectors -> SUBSET Snapshots]
      BY <1>1 DEF IInv, TypeOK, QueueSnapshot
    <2>2. at' \in [Collectors -> Places] /\ discovered' \in [Collectors -> BOOLEAN]
      BY Zenon DEF IInv, TypeOK, QueueSnapshot, Go, Places
    <2>3. fresh' \in [Collectors -> Snapshots \cup {NoSnapshot}] /\ UNCHANGED <<sequence, orphans, runs>>
      BY Zenon DEF IInv, TypeOK, QueueSnapshot
    <2> QED
      BY Zenon, <2>1, <2>2, <2>3 DEF IInv, TypeOK, Clocks, ingestVars
  <1>3. CASE ~HasRoom(c)
    BY ZenonT(30), <1>2, <1>3, MovePreserves DEF QueueSnapshot, ingestVars, Places
  <1>4. CASE HasRoom(c)
    <2>1. spool' = [spool EXCEPT ![c] = {fresh[c]}] /\ Go(c, "flush")
      BY Zenon, <1>1, <1>4 DEF QueueSnapshot, IInv, TypeOK
    <2>2. ASSUME NEW d \in Collectors PROVE Collected(d)'
      BY SMTT(30), <1>1, <2>1, SnapshotFields
         DEF IInv, TypeOK, Collected, SpoolMatches, Owned, Delivered, QueueSnapshot, Go, ingestVars
    <2>3. ASSUME NEW r \in Requests PROVE Requested(r)'
      BY Zenon, <1>1, <2>1, SnapshotFields
         DEF IInv, TypeOK, Requested, InFlight, Exclusive, InTransaction, Sender, Go, ingestVars
    <2> QED
      BY Zenon, <1>2, <2>2, <2>3 DEF IInv, Collected, Requested
  <1> QED
    BY Zenon, <1>3, <1>4

\* Only what the server has applied leaves the spool.
LEMMA RemovePreserves ==
    ASSUME IInv, NEW c \in Collectors, RemoveOldest(c), UNCHANGED <<now, ingestVars, up, asked>>
    PROVE  IInv'
  <1>1. spool' = [spool EXCEPT ![c] = spool'[c]] /\ spool'[c] \subseteq spool[c] /\ spool[c] \subseteq history[c]
    BY Zenon DEF IInv, TypeOK, RemoveOldest, Delivered
  <1>2. TypeOK' /\ Clocks'
    BY SMTT(30), <1>1 DEF IInv, TypeOK, Clocks, ingestVars, RemoveOldest, Go, Places
  <1>3. ASSUME NEW d \in Collectors PROVE Collected(d)'
    BY <1>1
       DEF IInv, TypeOK, Collected, SpoolMatches, Owned, Delivered, RemoveOldest, Go, ingestVars
  <1>4. ASSUME NEW r \in Requests PROVE Requested(r)'
    BY Zenon, <1>1, SnapshotFields
       DEF IInv, TypeOK, Requested, InFlight, Exclusive, InTransaction, Sender, RemoveOldest, Go, ingestVars
  <1> QED
    BY Zenon, <1>2, <1>3, <1>4 DEF IInv, Collected, Requested

\* There is an oldest snapshot in a spool that is not empty.
LEMMA OldestIsQueued ==
    ASSUME IInv, NEW c \in Collectors, spool[c] # {}
    PROVE  Oldest(c) \in spool[c]
  <1>1. PICK s \in spool[c] : \A t \in spool[c] : s = t
    BY Zenon DEF IInv, SpoolMatches
  <1>2. s.seq \in Nat
    BY Zenon, SnapshotFields DEF IInv, TypeOK
  <1>3. \A t \in spool[c] : s.seq <= t.seq
    BY <1>1, <1>2
  <1> QED
    BY Zenon, <1>1, <1>3 DEF Oldest

\* A request carries a snapshot of its collector's spool.
LEMMA SendPreserves ==
    ASSUME IInv, NEW c \in Collectors, NEW r \in Requests, Send(c, r)
    PROVE  IInv'
  <1>1. Oldest(c) \in spool[c] /\ Oldest(c) \in Snapshots /\ Oldest(c).by = c
    BY SMTT(30), OldestIsQueued DEF Send, PostOldest, IInv, TypeOK, Owned
  <1>2. TypeOK' /\ Clocks'
    BY Zenon, <1>1 DEF IInv, TypeOK, Clocks, Send, PostOldest, Arrive, Await, Go, Places, Stages
  <1>3. ASSUME NEW d \in Collectors PROVE Collected(d)'
    BY DEF IInv, TypeOK, Collected, SpoolMatches, Owned, Delivered, Send, PostOldest, Arrive, Go
  <1>4. ASSUME NEW q \in Requests PROVE Requested(q)'
    BY SMTT(30), <1>1, SnapshotFields
       DEF IInv, TypeOK, Requested, InFlight, Exclusive, InTransaction, Sender, Send, PostOldest, Arrive, Await, Go
  <1> QED
    BY Zenon, <1>2, <1>3, <1>4 DEF IInv, Collected, Requested

\* A collector hears an error, or gives up: by Timeout, or by Crash.
LEMMA GiveUpPreserves ==
    ASSUME IInv, NEW c \in Collectors, Timeout(c) \/ Crash(c)
    PROVE  IInv'
  <1>1. Go(c, "asleep") /\ UNCHANGED <<now, sequence, spool, runs, discovered, ingestVars, up>>
    BY Zenon DEF Timeout, Hear, Crash, Interrupt
  <1>2. asked' = [asked EXCEPT ![c] = NoRequest]
    BY Zenon DEF Timeout, Crash, Await
  <1>3. UNCHANGED fresh \/ fresh' = [fresh EXCEPT ![c] = NoSnapshot]
    BY Zenon DEF Timeout, Hear, Crash, Interrupt
  <1>4. orphans' \in [Collectors -> 0..MaxOrphans]
    BY CollectorAssumption DEF IInv, TypeOK, Timeout, Hear, Crash, Interrupt
  <1>5. TypeOK' /\ Clocks'
    BY Zenon, <1>1, <1>2, <1>3, <1>4 DEF IInv, TypeOK, Clocks, ingestVars, Go, Places
  <1> QED
    BY Zenon, <1>1, <1>2, <1>3, <1>5, MovePreserves DEF Places, ingestVars

\* A handler goes on to its next stage.
LEMMA HandlePreserves ==
    ASSUME IInv, NEW r \in Requests, Handle(r)
    PROVE  IInv'
  <1>1. PICK s \in {"admitted", "locked", "staged"} :
            /\ Advance(r, s)
            /\ stage[r] \in {"sent", "admitted", "locked"}
            /\ s \in {"locked", "staged"} =>
                  InTransaction(r) \/ \A q \in Requests : InTransaction(q) => Sender(q) # Sender(r)
            /\ s = "staged" => \A t \in history[Sender(r)] : t.seq < carried[r].seq
    BY Zenon DEF Handle, Admit, Lock, Stage, Stageable, Sender, InTransaction
  <1>2. UNCHANGED <<now, collectorVars, up, asked, history, trusted>>
    BY Zenon DEF Handle, Admit, Lock, Stage
  <1>3. TypeOK' /\ Clocks'
    BY SMTT(30), <1>1, <1>2 DEF IInv, TypeOK, Clocks, collectorVars, Advance, Stages
  <1>4. ASSUME NEW d \in Collectors PROVE Collected(d)'
    BY SMTT(30), <1>2 DEF IInv, Collected, SpoolMatches, Owned, Delivered, collectorVars
  <1>5. ASSUME NEW q \in Requests PROVE Requested(q)'
    BY Zenon, <1>1, <1>2 DEF IInv, TypeOK, Requested, InFlight, Exclusive, InTransaction, Sender, Advance, collectorVars
  <1> QED
    BY Zenon, <1>3, <1>4, <1>5 DEF IInv, Collected, Requested

\* A handler returns an error, which its client may hear.
LEMMA RefusalPreserves ==
    ASSUME IInv, NEW r \in Requests, Decline(r) \/ Break(r)
    PROVE  IInv'
  <1>1. stage[r] # "none" /\ Return(r) /\ UNCHANGED <<now, up, history, trusted>>
    BY ZenonT(30) DEF Decline, Break, Refuse, Reject, ApplyFails, Fail
  <1>2. PICK c \in Collectors : c = Sender(r)
    BY ZenonT(30), <1>1, SnapshotFields DEF IInv, InFlight, Sender
  <1>3. \/ Go(c, "asleep") /\ asked' = [asked EXCEPT ![c] = NoRequest]
        \/ UNCHANGED <<at, asked>>
    BY Zenon, <1>2 DEF Decline, Break, Answer, Hear, Await, collectorVars
  <1>4. UNCHANGED <<sequence, spool, orphans, runs, discovered, fresh>>
    BY Zenon DEF Decline, Break, Answer, Hear, collectorVars
  <1>5. TypeOK' /\ Clocks'
    BY SMTT(30), <1>1, <1>3, <1>4 DEF IInv, TypeOK, Clocks, Return, Go, Places, Stages
  <1>6. ASSUME NEW d \in Collectors PROVE Collected(d)'
    BY SMTT(30), <1>1, <1>3, <1>4 DEF IInv, TypeOK, Collected, SpoolMatches, Owned, Delivered, Go
  <1>7. ASSUME NEW q \in Requests PROVE Requested(q)'
    BY SMTT(30), <1>1, <1>2, <1>3, <1>4, SnapshotFields, IngestAssumption
       DEF IInv, TypeOK, Requested, InFlight, Exclusive, InTransaction, Sender, Return, Go
  <1> QED
    BY SMTT(30), <1>5, <1>6, <1>7 DEF IInv, Collected, Requested

\* A handler accepts a snapshot: it is in the history then, and the only new
\* one there.  It was not there before if this is a commit.
LEMMA AcceptEnters ==
    ASSUME IInv, NEW r \in Requests, Accept(r)
    PROVE  LET c == Sender(r) IN
           /\ c \in Collectors
           /\ carried[r] \in Snapshots
           /\ InTransaction(r) /\ Return(r)
           /\ carried[r].by = c
           /\ carried[r] \in spool[c] \cup history[c]
           /\ history' = [history EXCEPT ![c] = @ \cup {carried[r]}]
           /\ carried[r] \in history[c] \/ \A t \in history[c] : t.seq < carried[r].seq
           /\ UNCHANGED <<now, up, trusted>>
  <1> DEFINE c == Sender(r)
  <1>1. InTransaction(r) /\ Return(r) /\ UNCHANGED <<now, up, trusted>>
    BY Zenon DEF Accept, Repeat, Commit, InTransaction
  <1>2. carried[r] \in Snapshots /\ c \in Collectors /\ carried[r] \in spool[c] \cup history[c]
    BY SMTT(30), <1>1, SnapshotFields DEF IInv, InFlight, InTransaction, Sender
  <1>3. CASE Repeat(r)
    <2>1. PICK d \in Collectors : carried[r] \in history[d]
      BY Zenon, <1>3 DEF Repeat, Known
    <2>2. d = c
      BY Zenon, <2>1 DEF IInv, Owned, Sender
    <2>3. history' = [history EXCEPT ![c] = @ \cup {carried[r]}]
      BY SMTT(30), <1>2, <1>3, <2>1, <2>2 DEF Repeat, IInv, TypeOK
    <2> QED
      BY Zenon, <1>1, <1>2, <2>1, <2>2, <2>3 DEF Sender
  <1>4. CASE Commit(r)
    <2>1. \A t \in history[c] : t.seq < carried[r].seq
      BY Zenon, <1>4 DEF Commit, IInv, Exclusive
    <2> QED
      BY SMTT(30), <1>1, <1>2, <1>4, <2>1 DEF Commit, Sender
  <1> QED
    BY Zenon, <1>3, <1>4 DEF Accept

\* The answer of acceptance reaches a client whose snapshot is in the
\* history.
LEMMA AcceptPreserves ==
    ASSUME IInv, NEW r \in Requests, Accept(r)
    PROVE  IInv'
  <1> DEFINE s == carried[r]
  <1>1. PICK c \in Collectors : c = Sender(r)
    BY Zenon, AcceptEnters
  <1>2. /\ s \in Snapshots /\ s.by = c
        /\ InTransaction(r) /\ Return(r)
        /\ s \in spool[c] \cup history[c]
        /\ history' = [history EXCEPT ![c] = @ \cup {s}]
        /\ UNCHANGED <<now, up, trusted>>
    BY Zenon, <1>1, AcceptEnters
  <1>3. \/ Go(c, "remove") /\ asked[c] = r /\ at[c] = "post" /\ asked' = [asked EXCEPT ![c] = NoRequest]
        \/ UNCHANGED <<at, asked>>
    BY Zenon, <1>1 DEF Accept, Answer, Hear, Await, collectorVars
  <1>4. UNCHANGED <<sequence, spool, orphans, runs, discovered, fresh>>
    BY SMTT(30) DEF Accept, Answer, Hear, collectorVars
  <1>5. Go(c, "remove") /\ asked[c] = r /\ at[c] = "post" => spool[c] = {s}
    BY SMTT(30), <1>1, <1>2 DEF IInv, InFlight, InTransaction, SpoolMatches
  <1>6. TypeOK' /\ Clocks'
    <2>1. history' \in [Collectors -> SUBSET Snapshots] /\ UNCHANGED <<now, up, trusted>>
      BY <1>2 DEF IInv, TypeOK
    <2>2. at' \in [Collectors -> Places] /\ asked' \in [Collectors -> Requests \cup {NoRequest}]
      BY Zenon, <1>3 DEF IInv, TypeOK, Go, Places
    <2>3. stage' \in [Requests -> Stages] /\ carried' \in [Requests -> Snapshots \cup {NoSnapshot}]
      BY SMTT(30), <1>2 DEF IInv, TypeOK, Return, Stages
    <2> QED
      BY SMTT(30), <1>4, <2>1, <2>2, <2>3 DEF IInv, TypeOK, Clocks
  <1>7. s.run <= runs[c] /\ (at[c] = "queue" => s \in history[c])
    BY SMTT(30), <1>2 DEF IInv, Owned, SpoolMatches
  <1>8. ASSUME NEW d \in Collectors PROVE Collected(d)'
    <2>1. Collected(d)
      BY Zenon DEF IInv, Collected
    <2>2. CASE d # c
      <3>1. history'[d] = history[d] /\ at'[d] = at[d]
        BY Zenon, <1>2, <1>3, <2>2 DEF IInv, TypeOK, Go
      <3> QED
        BY Zenon, <1>4, <2>1, <3>1 DEF Collected, SpoolMatches, Owned, Delivered
    <2>3. CASE d = c
      <3>1. history'[d] = history[d] \cup {s}
        BY Zenon, <1>2, <2>3 DEF IInv, TypeOK
      <3>2. at'[d] = at[d] \/ (at'[d] = "remove" /\ spool[d] = {s} /\ at[d] = "post")
        <4>1. Go(c, "remove") => at'[c] = "remove"
          BY Zenon DEF IInv, TypeOK, Go
        <4>2. CASE UNCHANGED <<at, asked>>
          BY Zenon, <4>2
        <4>3. CASE Go(c, "remove") /\ asked[c] = r /\ at[c] = "post"
          BY Zenon, <1>5, <2>3, <4>1, <4>3
        <4> QED
          BY Zenon, <1>3, <4>2, <4>3
      <3>3. at[d] = "queue" => s \in history[d]
        BY Zenon, <1>7, <2>3
      <3>4. s.by = d /\ s.run <= runs[d]
        BY Zenon, <1>2, <1>7, <2>3
      <3>5. SpoolMatches(d)'
        BY Zenon, <1>4, <2>1, <3>2 DEF Collected, SpoolMatches
      <3>6. Owned(d)'
        BY Zenon, <1>4, <2>1, <3>1, <3>2, <3>3, <3>4 DEF Collected, Owned
      <3>7. Delivered(d)'
        BY Zenon, <1>4, <2>1, <3>1, <3>2 DEF Collected, Delivered
      <3> QED
        BY Zenon, <3>5, <3>6, <3>7 DEF Collected
    <2> QED
      BY Zenon, <2>2, <2>3
  <1>9. ASSUME NEW q \in Requests PROVE Requested(q)'
    BY SMTT(30), <1>1, <1>2, <1>3, <1>4, SnapshotFields, IngestAssumption
       DEF IInv, TypeOK, Requested, InFlight, Exclusive, InTransaction, Sender, Return, Go
  <1> QED
    BY SMTT(30), <1>6, <1>8, <1>9 DEF IInv, Collected, Requested

\* Steps that leave spool, history and requests alone.
LEMMA FramePreserves ==
    ASSUME IInv, TypeOK', Clocks',
           UNCHANGED <<spool, history, stage, carried, at, asked, runs, fresh>>
    PROVE  IInv'
  <1>1. ASSUME NEW d \in Collectors PROVE Collected(d)'
    <2>1. SpoolMatches(d) /\ Owned(d) /\ Delivered(d)
      BY SMTT(30) DEF IInv
    <2> QED
      BY Zenon, <2>1 DEF Collected, SpoolMatches, Owned, Delivered
  <1>2. ASSUME NEW q \in Requests PROVE Requested(q)'
    <2>1. InFlight(q) /\ Exclusive(q)
      BY Zenon DEF IInv
    <2> QED
      BY Zenon, <2>1 DEF Requested, InFlight, Exclusive, InTransaction, Sender
  <1> QED
    BY SMTT(30), <1>1, <1>2 DEF IInv, Collected, Requested

\* Clocks advance, credentials are revoked, the connection comes and goes.
LEMMA EnvironmentPreserves ==
    ASSUME IInv, Environment
    PROVE  IInv'
  <1>1. now' \in Nat /\ Clocks'
    <2>1. ASSUME NEW c \in Collectors PROVE Ahead[c] \in 0..MaxTime /\ MaxTime \in Nat
      BY Zenon, ProtocolAssumption
    <2> QED
      BY <2>1 DEF IInv, TypeOK, Clocks, Environment, Tick
  <1>2. UNCHANGED <<collectorVars, asked, stage, carried, history>>
    BY Zenon DEF Environment, Revoke, ingestVars
  <1>3. trusted' \in [Collectors -> BOOLEAN] /\ up' \in BOOLEAN
    BY Zenon DEF IInv, TypeOK, Environment, Revoke, ingestVars
  <1>4. TypeOK'
    BY Zenon, <1>1, <1>2, <1>3 DEF IInv, TypeOK, collectorVars
  <1> QED
    BY Zenon, <1>1, <1>2, <1>4, FramePreserves DEF collectorVars

\* All steps.
LEMMA StepPreserves == IInv /\ [Next]_vars => IInv'
  <1> SUFFICES ASSUME IInv, [Next]_vars PROVE IInv'
    OBVIOUS
  <1>1. CASE UNCHANGED vars
    <2>1. TypeOK' /\ Clocks'
      BY SMTT(30), <1>1 DEF IInv, TypeOK, Clocks, vars, collectorVars, ingestVars
    <2> QED
      BY SMTT(30), <1>1, <2>1, FramePreserves DEF vars, collectorVars, ingestVars
  <1>2. ASSUME NEW c \in Collectors, Run(c) PROVE IInv'
    BY ZenonT(30), <1>2, LoopPreserves, DiscoverPreserves, QueuePreserves, RemovePreserves DEF Run, CollectorStep
  <1>3. ASSUME NEW c \in Collectors, Timeout(c) \/ Crash(c) PROVE IInv'
    BY Zenon, <1>3, GiveUpPreserves
  <1>4. ASSUME NEW c \in Collectors, NEW r \in Requests, Send(c, r) PROVE IInv'
    BY Zenon, <1>4, SendPreserves
  <1>5. ASSUME NEW r \in Requests, Handle(r) PROVE IInv'
    BY Zenon, <1>5, HandlePreserves
  <1>6. ASSUME NEW r \in Requests, Accept(r) PROVE IInv'
    BY Zenon, <1>6, AcceptPreserves
  <1>7. ASSUME NEW r \in Requests, Decline(r) \/ Break(r) PROVE IInv'
    BY Zenon, <1>7, RefusalPreserves
  <1>8. CASE Environment
    BY Zenon, <1>8, EnvironmentPreserves
  <1> QED
    BY Zenon, <1>1, <1>2, <1>3, <1>4, <1>5, <1>6, <1>7, <1>8 DEF Next

(* What holds of spool, requests in flight and history at any time.        *)
THEOREM DeliveryInvariant == Spec => []IInv
  BY InitIInv, StepPreserves, PTL DEF Spec

(* SpoolHoldsOne for all collectors: the first flush of a round must get   *)
(* through before runOnce discovers, so no backlog builds up.              *)
THEOREM SpoolIsBounded == Spec => []SpoolHoldsOne
  <1>1. IInv => SpoolHoldsOne
    <2> SUFFICES ASSUME IInv, NEW c \in Collectors PROVE Cardinality(spool[c]) <= 1
      BY Zenon DEF SpoolHoldsOne
    <2>1. CASE spool[c] = {}
      BY <2>1, FS_EmptySet
    <2>2. CASE spool[c] # {}
      <3>1. PICK s : spool[c] = {s}
        BY <2>2 DEF IInv, SpoolMatches
      <3> QED
        BY <3>1, FS_Singleton
    <2> QED
      BY Zenon, <2>1, <2>2
  <1> QED
    BY <1>1, DeliveryInvariant, PTL

\* No number has been used.
LEMMA InitNumbers == Init => NumbersInv
  BY Zenon DEF Init, CollectorInit, IngestInit, NumbersInv, Numbered

\* While the state can be read, numbers in use are at most the collector's
\* last and are not used again.
LEMMA NumbersStep ==
    ASSUME IInv, IInv', NumbersInv, [Next]_vars
    PROVE  NumbersInv'
  <1> SUFFICES ASSUME ~Unreadable, NEW d \in Collectors PROVE Numbered(d)'
    BY Zenon DEF NumbersInv
  <1>0. Numbered(d)
    BY Zenon DEF NumbersInv
  <1>1. UNCHANGED <<sequence, spool, history, fresh>> /\ (at'[d] = "queue" => at[d] = "queue") => Numbered(d)'
    BY Zenon, <1>0 DEF Numbered
  <1>2. CASE UNCHANGED vars
    BY Zenon, <1>1, <1>2 DEF vars, collectorVars, ingestVars
  <1>t. /\ at \in [Collectors -> Places] /\ sequence \in [Collectors -> Nat]
        /\ spool \in [Collectors -> SUBSET Snapshots] /\ history \in [Collectors -> SUBSET Snapshots]
        /\ fresh \in [Collectors -> Snapshots \cup {NoSnapshot}]
    <2>1. \A n \in 0..MaxSequence : n \in Nat
      OBVIOUS
    <2> QED
      BY Zenon, <2>1 DEF IInv, TypeOK
  \* A step of another collector.
  <1>o. ASSUME NEW c \in Collectors, c # d, UNCHANGED history,
               \E p \in Places : at' = [at EXCEPT ![c] = p],
               UNCHANGED sequence \/ \E n \in Nat : sequence' = [sequence EXCEPT ![c] = n],
               UNCHANGED spool \/ \E t : spool' = [spool EXCEPT ![c] = t],
               UNCHANGED fresh \/ \E t : fresh' = [fresh EXCEPT ![c] = t]
        PROVE  Numbered(d)'
    <2>1. at'[d] = at[d] /\ sequence'[d] = sequence[d] /\ spool'[d] = spool[d] /\ fresh'[d] = fresh[d]
      BY Zenon, <1>o, <1>t
    <2> QED
      BY Zenon, <1>0, <1>o, <2>1 DEF Numbered
  <1>3. ASSUME NEW c \in Collectors, UNCHANGED <<now, ingestVars, up, asked>>,
               Wake(c) \/ Flushed(c) \/ RefuseExpired(c) \/ DiscoverFails(c)
        PROVE  Numbered(d)'
    <2>1. UNCHANGED <<sequence, spool, history, fresh>>
      BY Zenon, <1>3 DEF Wake, Flushed, RefuseExpired, DiscoverFails, ingestVars
    <2>2. \E p \in {"flush", "asleep", "discover"} : at' = [at EXCEPT ![c] = p]
      BY Zenon, <1>3 DEF Wake, Flushed, RefuseExpired, DiscoverFails, Go
    <2>3. at'[d] = "queue" => at[d] = "queue"
      BY Zenon, <1>t, <2>2
    <2> QED
      BY Zenon, <1>1, <2>1, <2>3
  <1>4. ASSUME NEW c \in Collectors, Discover(c), UNCHANGED <<now, ingestVars, up, asked>>
        PROVE  Numbered(d)'
    <2>1. fresh'[c].seq = sequence'[c] /\ sequence[c] < sequence'[c]
      BY Zenon, <1>4, DiscoverPreserves
    <2>2. /\ \E n : sequence' = [sequence EXCEPT ![c] = n]
          /\ \E f : fresh' = [fresh EXCEPT ![c] = f]
          /\ at' = [at EXCEPT ![c] = "queue"] /\ UNCHANGED <<spool, history>>
      BY Zenon, <1>4 DEF Discover, Go, ingestVars
    <2>3. sequence' \in [Collectors -> Nat]
      <3>1. \A n \in 0..MaxSequence : n \in Nat
        OBVIOUS
      <3> QED
        BY Zenon, <3>1 DEF IInv, TypeOK
    <2>4. CASE c # d
      BY Zenon, <1>o, <2>2, <2>3, <2>4 DEF Places
    <2>5. CASE c = d
      <3>1. \A s \in spool[c] \cup history[c] : s.seq \in Nat /\ s.seq <= sequence[c]
        BY Zenon, <1>0, <1>t, <2>5, SnapshotFields DEF Numbered
      <3>2. \A s \in spool[c] \cup history[c] : s.seq < sequence'[c] /\ s.seq <= sequence'[c]
        BY <1>t, <2>1, <2>3, <3>1
      <3> QED
        BY Zenon, <1>0, <2>1, <2>2, <2>5, <3>2 DEF Numbered
    <2> QED
      BY Zenon, <2>4, <2>5
  <1>5. ASSUME NEW c \in Collectors, QueueSnapshot(c), UNCHANGED <<now, ingestVars, up, asked>>
        PROVE  Numbered(d)'
    <2>1. fresh[c] \in Snapshots
      BY Zenon, <1>5 DEF QueueSnapshot, IInv, Owned
    <2>2. /\ at[c] = "queue" /\ \E p \in {"flush", "asleep"} : at' = [at EXCEPT ![c] = p]
          /\ UNCHANGED <<sequence, history>> /\ fresh' = [fresh EXCEPT ![c] = NoSnapshot]
          /\ UNCHANGED spool \/ spool' = [spool EXCEPT ![c] = @ \cup {fresh[c]}]
      BY Zenon, <1>5 DEF QueueSnapshot, Go, ingestVars
    <2>3. CASE c # d
      BY Zenon, <1>o, <2>2, <2>3 DEF Places
    <2>4. CASE c = d
      <3>1. at'[d] # "queue" /\ spool'[d] \subseteq spool[d] \cup {fresh[d]}
        BY Zenon, <1>t, <2>2, <2>4
      <3>2. /\ sequence[d] \in Nat /\ fresh[d].seq = sequence[d]
            /\ \A t \in history[d] : t.seq < fresh[d].seq
        BY Zenon, <1>0, <1>t, <2>2, <2>4 DEF Numbered
      <3>3. fresh[d].seq <= sequence[d]
        BY <3>2
      <3> QED
        BY Zenon, <1>0, <2>2, <3>1, <3>2, <3>3 DEF Numbered
    <2> QED
      BY Zenon, <2>3, <2>4
  <1>6. ASSUME NEW c \in Collectors, RemoveOldest(c), UNCHANGED <<now, ingestVars, up, asked>>
        PROVE  Numbered(d)'
    <2>1. /\ UNCHANGED <<sequence, history, fresh>> /\ at' = [at EXCEPT ![c] = "flush"]
          /\ \E t : spool' = [spool EXCEPT ![c] = spool[c] \ t]
      BY Zenon, <1>6 DEF RemoveOldest, Go, ingestVars
    <2>2. spool'[d] \subseteq spool[d] /\ (at'[d] = "queue" => at[d] = "queue")
      BY Zenon, <1>t, <2>1
    <2> QED
      BY Zenon, <1>0, <2>1, <2>2 DEF Numbered
  <1>7. ASSUME NEW c \in Collectors, Timeout(c) \/ Crash(c)
        PROVE  Numbered(d)'
    <2>1. UNCHANGED <<sequence, spool, history>> /\ Go(c, "asleep")
      BY Zenon, <1>7 DEF Timeout, Hear, Crash, Interrupt, ingestVars
    <2>2. UNCHANGED fresh \/ fresh' = [fresh EXCEPT ![c] = NoSnapshot]
      BY Zenon, <1>7 DEF Timeout, Hear, Crash, Interrupt
    <2> QED
      BY Zenon, <1>0, <2>1, <2>2 DEF Numbered, Go, IInv, TypeOK
  <1>8. ASSUME NEW c \in Collectors, NEW r \in Requests, Send(c, r)
        PROVE  Numbered(d)'
    <2>1. UNCHANGED <<sequence, spool, history, fresh>> /\ (at'[d] = "queue" => at[d] = "queue")
      BY Zenon, <1>8 DEF Send, PostOldest, Arrive, Go, IInv, TypeOK
    <2> QED
      BY Zenon, <1>1, <2>1
  <1>9. ASSUME NEW r \in Requests, Handle(r) \/ Decline(r) \/ Break(r)
        PROVE  Numbered(d)'
    <2>1. UNCHANGED <<sequence, spool, history, fresh>>
      BY SMTT(30), <1>9 DEF Handle, Admit, Lock, Stage, Decline, Break, Refuse, Reject, ApplyFails, Fail,
                  Answer, Hear, collectorVars
    <2>2. at'[d] = "queue" => at[d] = "queue"
      BY Zenon, <1>9 DEF Handle, Decline, Break, Answer, Hear, Go, collectorVars, IInv, TypeOK
    <2> QED
      BY Zenon, <1>1, <2>1, <2>2
  <1>10. ASSUME NEW r \in Requests, Accept(r)
         PROVE  Numbered(d)'
    <2> DEFINE s == carried[r]
    <2>1. PICK c \in Collectors : c = Sender(r)
      BY Zenon, <1>10, AcceptEnters
    <2>2. /\ s \in spool[c] \cup history[c]
          /\ history' = [history EXCEPT ![c] = @ \cup {s}]
          /\ s \in history[c] \/ \A t \in history[c] : t.seq < s.seq
      BY Zenon, <1>10, <2>1, AcceptEnters
    <2>3. UNCHANGED <<sequence, spool, fresh>>
      BY Zenon, <1>10 DEF Accept, Answer, Hear, collectorVars
    <2>4. at'[d] = "queue" => at[d] = "queue"
      BY SMTT(30), <1>10 DEF Accept, Answer, Hear, Go, collectorVars, IInv, TypeOK
    <2>5. at[c] = "queue" => s \in history[c]
      BY Zenon, <2>2 DEF IInv, SpoolMatches
    <2>6. \A t \in spool[c] : t = s \/ s \in history[c]
      BY Zenon, <2>2 DEF IInv, SpoolMatches
    <2> QED
      BY SMTT(30), <1>0, <2>2, <2>3, <2>4, <2>5, <2>6 DEF Numbered, IInv, TypeOK
  <1>11. CASE Environment
    <2>1. UNCHANGED <<sequence, spool, history, fresh, at>>
      BY Zenon, <1>11 DEF Environment, Revoke, collectorVars, ingestVars
    <2> QED
      BY Zenon, <1>1, <2>1
  <1> QED
    BY Zenon, <1>2, <1>3, <1>4, <1>5, <1>6, <1>7, <1>8, <1>9, <1>10, <1>11 DEF Next, Run, CollectorStep

(* OwnNumbersAdvance for all collectors: with a sequence file that can be  *)
(* read, nextSequence and the lock of collectorSnapshot keep a collector's *)
(* own numbers from turning its snapshots away.                            *)
THEOREM NumbersAdvance == Spec => []OwnNumbersAdvance
  <1>1. IInv /\ NumbersInv => OwnNumbersAdvance
    BY Zenon, SnapshotFields DEF IInv, NumbersInv, Numbered, InFlight, InTransaction, Sender, OwnNumbersAdvance
  <1>2. IInv /\ IInv' /\ NumbersInv /\ [Next]_vars => NumbersInv'
    BY Zenon, NumbersStep
  <1> QED
    BY <1>1, <1>2, InitNumbers, DeliveryInvariant, PTL DEF Spec

\* No ID has been used.
LEMMA InitKeys == Init => KeysInv
  BY Zenon DEF Init, CollectorInit, IngestInit, KeysInv, IDsAreGlobal

\* An ID is inserted by one transaction, and stays.
LEMMA KeysStep ==
    ASSUME IInv, KeysInv, [Next]_vars
    PROVE  KeysInv'
  <1> DEFINE Kept == \A q \in Requests : stage'[q] = "staged" => stage[q] = "staged" /\ carried'[q] = carried[q]
  <1>1. UNCHANGED history /\ Kept => KeysInv'
    BY Zenon DEF KeysInv, IDsAreGlobal
  <1>2. CASE UNCHANGED vars
    BY Zenon, <1>1, <1>2 DEF vars, ingestVars
  <1>3. ASSUME NEW c \in Collectors, Run(c) \/ Timeout(c) \/ Crash(c)
        PROVE  KeysInv'
    BY Zenon, <1>1, <1>3 DEF Run, Timeout, Crash, ingestVars
  <1>4. ASSUME NEW c \in Collectors, NEW r \in Requests, Send(c, r)
        PROVE  KeysInv'
    BY Zenon, <1>1, <1>4 DEF Send, Arrive, IInv, TypeOK
  <1>5. ASSUME NEW r \in Requests, Decline(r) \/ Break(r) \/ Admit(r) \/ Lock(r) \/ Repeat(r)
        PROVE  KeysInv'
    BY Zenon, <1>1, <1>5 DEF Decline, Break, Refuse, Reject, ApplyFails, Fail, Return, Admit, Lock, Repeat, Advance,
                      IInv, TypeOK
  <1>6. ASSUME NEW r \in Requests, Stage(r)
        PROVE  KeysInv'
    <2>1. /\ UNCHANGED <<history, carried>>
          /\ stage' = [stage EXCEPT ![r] = "staged"]
          /\ \A q \in Requests : stage[q] = "staged" => carried[q].seq # carried[r].seq
          /\ \A c \in Collectors : \A t \in history[c] : t.seq # carried[r].seq
      BY Zenon, <1>6 DEF Stage, Stageable, Advance
    <2> QED
      BY <2>1 DEF KeysInv, IDsAreGlobal, IInv, TypeOK
  <1>7. ASSUME NEW r \in Requests, Commit(r)
        PROVE  KeysInv'
    <2> DEFINE s == carried[r]
    <2>1. PICK c \in Collectors : c = Sender(r)
      BY Zenon, <1>7, SnapshotFields DEF Commit, IInv, InFlight, Sender
    <2>2. /\ history' = [history EXCEPT ![c] = @ \cup {s}]
          /\ stage' = [stage EXCEPT ![r] = "none"]
          /\ carried' = [carried EXCEPT ![r] = NoSnapshot]
          /\ stage[r] = "staged"
      BY Zenon, <1>7, <2>1 DEF Commit, Return
    <2>3. \A d \in Collectors : \A t \in history'[d] : t = s \/ t \in history[d]
      BY Zenon, <2>2 DEF IInv, TypeOK
    <2>4. IDsAreGlobal'
      BY <2>2, <2>3 DEF KeysInv, IDsAreGlobal
    <2>5. ASSUME NEW q \in Requests, stage'[q] = "staged"
          PROVE  q # r /\ stage[q] = "staged" /\ carried'[q] = carried[q]
      BY Zenon, <2>2, <2>5 DEF IInv, TypeOK
    <2> QED
      BY <2>2, <2>3, <2>4, <2>5 DEF KeysInv
  <1>8. CASE Environment
    BY Zenon, <1>1, <1>8 DEF Environment, Revoke, ingestVars
  <1> QED
    BY Zenon, <1>2, <1>3, <1>4, <1>5, <1>6, <1>7, <1>8 DEF Next, Handle, Accept

(* IDsAreGlobal for all collectors and organizations: the ID runOnce makes *)
(* from the sequence number alone never comes to name two snapshots,       *)
(* though collectorSnapshot looks it up in one organization only.          *)
THEOREM IDsUnique == Spec => []IDsAreGlobal
  <1>1. KeysInv => IDsAreGlobal
    BY Zenon DEF KeysInv
  <1>2. IInv /\ KeysInv /\ [Next]_vars => KeysInv'
    BY Zenon, KeysStep
  <1> QED
    BY <1>1, <1>2, InitKeys, DeliveryInvariant, PTL DEF Spec

\* The refinement mapping of the spools.
Queued == [c \in Collectors |-> spool[c] \ history[c]]

\* Init implements the log's.
LEMMA InitRefines == Init => Log!Init
  BY DEF Init, CollectorInit, IngestInit, Log!Init

\* All steps but three leave spool and history alone.
LEMMA OtherStepsStutter ==
    ASSUME UNCHANGED <<spool, history>>
    PROVE  UNCHANGED Log!vars
  BY Zenon DEF Log!vars

\* Queueing is the log's, or a stutter if the spool is full.
LEMMA QueueRefines ==
    ASSUME IInv, NEW c \in Collectors, QueueSnapshot(c), UNCHANGED history
    PROVE  Log!Next \/ UNCHANGED Log!vars
  <1>1. CASE ~HasRoom(c)
    BY Zenon, <1>1, OtherStepsStutter DEF QueueSnapshot
  <1>2. CASE HasRoom(c)
    <2>1. fresh[c] \in Snapshots /\ fresh[c].by = c /\ \A s \in history[c] : s.run < fresh[c].run
      BY Zenon DEF QueueSnapshot, IInv, Owned
    <2>2. fresh[c] \notin history[c]
      BY <2>1, SnapshotFields
    <2>3. spool' = [spool EXCEPT ![c] = @ \cup {fresh[c]}]
      BY Zenon, <1>2 DEF QueueSnapshot
    <2>4. Queued' = [Queued EXCEPT ![c] = @ \cup {fresh[c]}]
      <3>1. ASSUME NEW d \in Collectors
            PROVE  spool'[d] \ history[d] =
                     IF d = c THEN (spool[c] \ history[c]) \cup {fresh[c]} ELSE spool[d] \ history[d]
        BY <2>2, <2>3 DEF IInv, TypeOK
      <3> QED
        BY Zenon, <3>1 DEF Queued
    <2>5. Log!Queue(c, fresh[c])
      BY Zenon, <2>1, <2>2, <2>4 DEF Log!Queue, Queued
    <2> QED
      BY Zenon, <2>1, <2>5 DEF Log!Next, Log!Queue
  <1> QED
    BY Zenon, <1>1, <1>2

\* Removing what has been applied is a stutter.
LEMMA RemoveRefines ==
    ASSUME IInv, NEW c \in Collectors, RemoveOldest(c), UNCHANGED history
    PROVE  UNCHANGED Log!vars
  <1>1. spool[c] \subseteq history[c] /\ spool' = [spool EXCEPT ![c] = @ \ {Oldest(c)}]
    BY Zenon DEF IInv, Delivered, RemoveOldest
  <1>2. Queued' = Queued
    BY Zenon, <1>1 DEF IInv, TypeOK, Queued
  <1> QED
    BY Zenon, <1>2 DEF Log!vars, Queued

\* Committing is the log's append; answering a repeat is a stutter.
LEMMA AcceptRefines ==
    ASSUME IInv, NEW r \in Requests, Accept(r)
    PROVE  Log!Next \/ UNCHANGED Log!vars
  <1> DEFINE s == carried[r]
  <1>1. PICK c \in Collectors : c = Sender(r)
    BY Zenon, AcceptEnters
  <1>2. /\ s \in spool[c] \cup history[c]
        /\ history' = [history EXCEPT ![c] = @ \cup {s}]
        /\ s \in history[c] \/ \A t \in history[c] : t.seq < s.seq
    BY Zenon, <1>1, AcceptEnters
  <1>3. UNCHANGED spool
    BY Zenon DEF Accept, Answer, Hear, collectorVars
  <1>4. CASE s \in history[c]
    <2>1. UNCHANGED history
      BY SMTT(30), <1>2, <1>4 DEF IInv, TypeOK
    <2> QED
      BY Zenon, <1>3, <2>1, OtherStepsStutter
  <1>5. CASE s \notin history[c]
    <2>1. s \in Queued[c]
      BY Zenon, <1>2, <1>5 DEF Queued
    <2>2. Queued' = [Queued EXCEPT ![c] = @ \ {s}]
      BY Zenon, <1>2, <1>3 DEF Queued, IInv, TypeOK
    <2>3. Log!Enter(c, s)
      BY Zenon, <1>2, <1>5, <2>1, <2>2 DEF Log!Enter, Queued
    <2> QED
      BY Zenon, <2>1, <2>3 DEF Log!Next, Log!Enter, Queued
  <1> QED
    BY Zenon, <1>4, <1>5

\* All steps.
LEMMA StepRefines ==
    ASSUME IInv, [Next]_vars
    PROVE  [Log!Next]_(Log!vars)
  <1>1. CASE UNCHANGED vars
    BY Zenon, <1>1, OtherStepsStutter DEF vars, collectorVars, ingestVars
  <1>2. ASSUME NEW c \in Collectors, Run(c) PROVE [Log!Next]_(Log!vars)
    <2>1. UNCHANGED history
      BY Zenon, <1>2 DEF Run, ingestVars
    <2>2. CASE QueueSnapshot(c)
      BY Zenon, <2>1, <2>2, QueueRefines
    <2>3. CASE RemoveOldest(c)
      BY Zenon, <2>1, <2>3, RemoveRefines
    <2>4. CASE ~QueueSnapshot(c) /\ ~RemoveOldest(c)
      <3>1. UNCHANGED spool
        BY Zenon, <1>2, <2>4 DEF Run, CollectorStep, Wake, Flushed, RefuseExpired, Discover, DiscoverFails
      <3> QED
        BY SMTT(30), <2>1, <3>1, OtherStepsStutter
    <2> QED
      BY Zenon, <2>2, <2>3, <2>4
  <1>3. ASSUME NEW c \in Collectors, Timeout(c) \/ Crash(c) PROVE [Log!Next]_(Log!vars)
    BY SMTT(30), <1>3, OtherStepsStutter DEF Timeout, Hear, Crash, Interrupt, ingestVars
  <1>4. ASSUME NEW c \in Collectors, NEW r \in Requests, Send(c, r) PROVE [Log!Next]_(Log!vars)
    BY Zenon, <1>4, OtherStepsStutter DEF Send, PostOldest, Arrive
  <1>5. ASSUME NEW r \in Requests, Accept(r) PROVE [Log!Next]_(Log!vars)
    BY Zenon, <1>5, AcceptRefines
  <1>6. ASSUME NEW r \in Requests, Handle(r) \/ Decline(r) \/ Break(r) PROVE [Log!Next]_(Log!vars)
    <2>1. UNCHANGED <<spool, history>>
      BY Zenon, <1>6 DEF Handle, Admit, Lock, Stage, Decline, Break, Refuse, Reject, ApplyFails, Fail,
                  Answer, Hear, collectorVars
    <2> QED
      BY SMTT(30), <2>1, OtherStepsStutter
  <1>7. CASE Environment
    BY Zenon, <1>7, OtherStepsStutter DEF Environment, Revoke, collectorVars, ingestVars
  <1> QED
    BY Zenon, <1>1, <1>2, <1>3, <1>4, <1>5, <1>6, <1>7 DEF Next

(* ImplementsLog for all collectors, requests and bounds: what leaves the  *)
(* spool has been committed, once, in the order of the numbers, for every  *)
(* loss, repetition and crash between flushSpool and collectorSnapshot.    *)
THEOREM DeliveryImplementsLog == Spec => ImplementsLog
  <1>1. IInv /\ [Next]_vars => [Log!Next]_(Log!vars)
    BY Zenon, StepRefines
  <1> QED
    BY <1>1, InitRefines, DeliveryInvariant, PTL DEF Spec, ImplementsLog, Log!Spec

-----------------------------------------------------------------------------
\* No malformed snapshot gets past Validate.
LEMMA AdmittedStep ==
    ASSUME IInv, AdmittedInv, [Next]_vars
    PROVE  AdmittedInv'
  <1>1. CASE UNCHANGED ingestVars
    BY Zenon, <1>1 DEF AdmittedInv, ingestVars
  <1>2. ASSUME NEW r \in Requests, NEW s, Arrive(r, s)
        PROVE  AdmittedInv'
    BY <1>2 DEF Arrive, AdmittedInv, IInv, TypeOK
  <1>3. ASSUME NEW r \in Requests, Admit(r) \/ Lock(r) \/ Stage(r)
        PROVE  AdmittedInv'
    <2>1. /\ UNCHANGED <<carried, history>> /\ stage' = [stage EXCEPT ![r] = stage'[r]]
          /\ stage[r] # "sent" => stage[r] \in {"admitted", "locked"}
          /\ stage[r] = "sent" => carried[r].content # "malformed"
      BY <1>3 DEF Admit, Lock, Stage, Advance, Admissible, IInv, TypeOK
    <2> QED
      BY <2>1 DEF AdmittedInv, IInv, TypeOK
  <1>4. ASSUME NEW r \in Requests, Repeat(r) \/ Refuse(r) \/ Reject(r) \/ ApplyFails(r) \/ Fail(r) \/ Commit(r)
        PROVE  AdmittedInv'
    <2>1. \A q \in Requests : q # r => stage'[q] = stage[q] /\ carried'[q] = carried[q]
      BY <1>4 DEF Repeat, Refuse, Reject, ApplyFails, Fail, Commit, Return, IInv, TypeOK
    <2>2. stage'[r] = "none"
      BY <1>4 DEF Repeat, Refuse, Reject, ApplyFails, Fail, Commit, Return, IInv, TypeOK
    <2>3. \A c \in Collectors : history'[c] = history[c] \/
             (stage[r] = "staged" /\ history'[c] \subseteq history[c] \cup {carried[r]})
      BY <1>4 DEF Repeat, Refuse, Reject, ApplyFails, Fail, Commit, IInv, TypeOK
    <2> QED
      BY <2>1, <2>2, <2>3 DEF AdmittedInv
  <1>5. CASE \E c \in Collectors : Revoke(c)
    BY Zenon, <1>5 DEF Revoke, AdmittedInv
  <1> QED
    BY Zenon, <1>1, <1>2, <1>3, <1>4, <1>5
       DEF Next, vars, Run, Timeout, Crash, Send, Handle, Accept, Decline, Break, Environment

(* RepeatsAreAnswered for all collectors and requests, whatever is lost,   *)
(* repeated or overlaps: collectorSnapshot answers a snapshot it has       *)
(* applied before with success while the credential stands and the         *)
(* snapshot is within the replay window.                                   *)
THEOREM RepeatsAnswered == Spec => RepeatsAreAnswered
  <1> DEFINE Answered == \A r \in Requests :
          Decline(r) /\ trusted[Sender(r)] /\ asked[Sender(r)] = r /\ carried[r] \in history[Sender(r)]
             => ~Timely(carried[r])
  <1>1. Init => AdmittedInv
    BY DEF Init, IngestInit, AdmittedInv
  <1>2. ASSUME IInv, AdmittedInv, NEW r \in Requests, Decline(r), trusted[Sender(r)],
               carried[r] \in history[Sender(r)]
        PROVE  ~Timely(carried[r])
    <2>1. stage[r] # "none"
      BY Zenon, <1>2 DEF Decline, Refuse, Reject, ApplyFails
    <2>2. carried[r] \in Snapshots /\ Sender(r) \in Collectors /\ carried[r].seq \in Nat
      BY Zenon, <1>2, <2>1, SnapshotFields DEF IInv, InFlight, Sender
    <2>3. CASE Refuse(r)
      BY Zenon, <1>2, <2>2, <2>3 DEF Refuse, Admissible, CollectorPrincipal, AdmittedInv, Sender
    <2>4. CASE Reject(r)
      BY Zenon, <1>2, <2>2, <2>4 DEF Reject, Known, Sender
    <2>5. CASE ApplyFails(r)
      <3>1. carried[r].seq < carried[r].seq
        BY Zenon, <1>2, <2>5 DEF ApplyFails, IInv, Exclusive
      <3> QED
        BY <2>2, <3>1
    <2> QED
      BY Zenon, <1>2, <2>3, <2>4, <2>5 DEF Decline
  <1>3. IInv /\ AdmittedInv /\ [Next]_vars => [Answered]_vars
    BY Zenon, <1>2
  <1>4. IInv /\ AdmittedInv /\ [Next]_vars => AdmittedInv'
    BY Zenon, AdmittedStep
  <1> QED
    BY <1>1, <1>3, <1>4, DeliveryInvariant, PTL DEF Spec, RepeatsAreAnswered

=============================================================================
