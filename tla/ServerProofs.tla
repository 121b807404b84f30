----------------------------- MODULE ServerProofs -----------------------------
(***************************************************************************)
(* The server's processes, for any number of them and of migrations and    *)
(* events: migrations run once and in order before a process serves, and   *)
(* the audit chain links and verifies.                                     *)
(***************************************************************************)
EXTENDS Server, TLAPS

\* What a runner of Migrate and an Append may be doing, and what an event
\* holds.
Activities == {"down", "waiting", "check", "apply", "serving"}
Stages == {"idle", "stamped", "locked", "inserted"}
Hashes == Seq(Nat \X Nat)
Events == [id : Nat, at : Nat, previous : Hashes, hash : Hashes]

\* Types of Migrate's variables, and of the audit chain's.
MigrateTyped ==
    /\ schema \in Seq(Nat)
    /\ recorded \in SUBSET Nat
    /\ lock \in SUBSET Runners
    /\ at \in [Runners -> Activities]
    /\ place \in [Runners -> Nat \ {0}]

\* Types of the variables of the audit chain.
AuditTyped ==
    /\ clock \in Nat
    /\ rows \in Seq(Events)
    /\ stage \in [Runners -> Stages]
    /\ draft \in [Runners -> Events]

\* The advisory lock of Migrate: who walks the migrations holds it alone.
LockInv ==
    \A r \in Runners :
        /\ at[r] \in {"check", "apply"} <=> r \in lock
        /\ r \in lock => lock = {r}

\* What a runner has walked past is recorded, and what it is about to apply
\* is not.
WalkInv ==
    \A r \in Runners :
        /\ at[r] = "waiting" => place[r] = 1
        /\ at[r] \in {"check", "apply"} => 1..(place[r] - 1) \subseteq recorded
        /\ at[r] = "apply" => place[r] \notin recorded
        /\ at[r] = "serving" => 1..Known[r] \subseteq recorded
        /\ stage[r] # "idle" => at[r] = "serving"

\* The advisory lock of Append: between its INSERT and its end a transaction
\* is alone, and its event links to the latest committed one.
LinkInv ==
    /\ \A v, w \in Runners :
        stage[v] \in {"locked", "inserted"} /\ stage[w] \in {"locked", "inserted"} => v = w
    /\ \A w \in Runners : stage[w] = "inserted" =>
        draft[w].previous = Audit!LastHash(Audit!Committed)

\* A stored hash is that of the previous one and of the event's ID and time.
Hashed(e) == \E t \in Nat : e.hash = Audit!AuditHash(e.previous, e.id, t)

HashInv ==
    /\ \A i \in DOMAIN rows : Hashed(rows[i])
    /\ \A w \in Runners : stage[w] = "inserted" => Hashed(draft[w])

\* Event IDs are new, so of any two events one is later, and there is a
\* latest one.
LatestInv ==
    /\ Audit!Committed # {} =>
        \E e \in Audit!Committed : \A f \in Audit!Committed \ {e} : Audit!Before(f, e)
    /\ \A w \in Runners : stage[w] # "idle" =>
        /\ \A e \in Audit!Committed : e.id # draft[w].id
        /\ \A v \in Runners \ {w} : stage[v] # "idle" => draft[v].id # draft[w].id

\* The inductive invariants of the two.
MigrateInv == MigrateTyped /\ LockInv /\ WalkInv /\ OnceInOrder
AuditInv == AuditTyped /\ LinkInv /\ LinksToLatest /\ HashInv /\ LatestInv

-----------------------------------------------------------------------------
\* A migration is put in place after those before it.
LEMMA SchemaAppend ==
    ASSUME MigrateTyped, NEW n \in Nat
    PROVE  /\ Append(schema, n) \in Seq(Nat)
           /\ Len(schema) \in Nat
           /\ Len(Append(schema, n)) = Len(schema) + 1
           /\ DOMAIN schema = 1..Len(schema)
           /\ DOMAIN Append(schema, n) = 1..(Len(schema) + 1)
           /\ \A i \in 1..Len(schema) : Append(schema, n)[i] = schema[i]
           /\ Append(schema, n)[Len(schema) + 1] = n
  BY DEF MigrateTyped

\* No migration has been applied, no process runs.
LEMMA MigrateInit ==
    ASSUME ServerInit
    PROVE  MigrateInv
  BY DEF ServerInit, Init, Audit!Init, MigrateInv, MigrateTyped, LockInv, WalkInv, OnceInOrder, Activities

\* A step of the audit chain, and one in which nothing happens, leave the
\* tables and the runners of Migrate alone.
LEMMA MigrateUnchanged ==
    ASSUME MigrateInv, UNCHANGED vars, \A r \in Runners : stage'[r] # "idle" => at[r] = "serving"
    PROVE  MigrateInv'
  BY Zenon DEF MigrateInv, MigrateTyped, LockInv, WalkInv, OnceInOrder, vars

\* The runner comes to the migration after the last one in place.
LEMMA ApplyNext ==
    ASSUME MigrateInv, NEW r \in Runners, at[r] = "apply"
    PROVE  place[r] = Len(schema) + 1
  <1>1. 1..(place[r] - 1) \subseteq 1..Len(schema) /\ place[r] \notin 1..Len(schema)
    BY Zenon DEF MigrateInv, WalkInv, OnceInOrder
  <1>2. Len(schema) \in Nat /\ place[r] \in Nat \ {0}
    BY DEF MigrateInv, MigrateTyped
  <1>3. place[r] - 1 = 0 \/ place[r] - 1 \in 1..(place[r] - 1)
    BY <1>2
  <1> QED
    BY <1>1, <1>2, <1>3

\* A process starts, waits for the lock and walks the migrations.
LEMMA BringUpKeeps ==
    ASSUME MigrateInv, NEW r \in Runners, BringUp(r)
    PROVE  MigrateInv'
  <1>1. CASE Start(r)
    BY <1>1 DEF Start, Go, BringUp, audit, MigrateInv, MigrateTyped, LockInv, WalkInv, OnceInOrder, Activities
  <1>2. CASE Lock(r)
    BY <1>2 DEF Lock, Go, BringUp, audit, MigrateInv, MigrateTyped, LockInv, WalkInv, OnceInOrder, Activities
  <1>3. CASE Skip(r)
    BY <1>3 DEF Skip, BringUp, audit, MigrateInv, MigrateTyped, LockInv, WalkInv, OnceInOrder, Activities
  <1>4. CASE Begin(r)
    BY Zenon, <1>4 DEF Begin, Go, BringUp, audit, MigrateInv, MigrateTyped, LockInv, WalkInv, OnceInOrder, Activities
  <1>5. CASE Apply(r)
    <2>1. place[r] = Len(schema) + 1 /\ schema' = Append(schema, place[r])
      BY Zenon, <1>5, ApplyNext DEF Apply, Go
    <2>2. place[r] \in Nat
      BY Zenon DEF MigrateInv, MigrateTyped
    <2>3. MigrateTyped'
      <3>1. schema' \in Seq(Nat)
        BY Zenon, <2>1, <2>2, SchemaAppend DEF MigrateInv
      <3>2. place' \in [Runners -> Nat \ {0}]
        BY <1>5 DEF Apply, MigrateInv, MigrateTyped
      <3>3. at' \in [Runners -> Activities] /\ lock' \in SUBSET Runners
        BY Zenon, <1>5 DEF Apply, Go, MigrateInv, MigrateTyped, Activities
      <3>4. recorded' \in SUBSET Nat
        BY Zenon, <1>5, <2>2 DEF Apply, MigrateInv, MigrateTyped
      <3> QED
        BY Zenon, <3>1, <3>2, <3>3, <3>4 DEF MigrateTyped
    <2>4. OnceInOrder'
      <3>1. /\ Len(schema) \in Nat
            /\ Len(schema') = Len(schema) + 1
            /\ DOMAIN schema = 1..Len(schema)
            /\ DOMAIN schema' = 1..(Len(schema) + 1)
            /\ \A i \in 1..Len(schema) : schema'[i] = schema[i]
            /\ schema'[Len(schema) + 1] = Len(schema) + 1
        BY Zenon, <2>1, <2>2, SchemaAppend DEF MigrateInv
      <3>2. recorded' = recorded \cup {Len(schema) + 1}
        BY Zenon, <1>5, <2>1 DEF Apply
      <3> QED
        BY <3>1, <3>2 DEF MigrateInv, OnceInOrder
    <2>5. LockInv'
      BY Zenon, <1>5 DEF Apply, Go, MigrateInv, MigrateTyped, LockInv
    <2>6. WalkInv'
      BY <1>5 DEF Apply, Go, BringUp, audit, MigrateInv, MigrateTyped, LockInv, WalkInv
    <2> QED
      BY Zenon, <2>3, <2>4, <2>5, <2>6 DEF MigrateInv
  <1>6. CASE Finish(r)
    <2>1. 1..Known[r] \subseteq recorded
      <3>1. at[r] = "check" /\ place[r] > Known[r]
        BY Zenon, <1>6 DEF Finish, Go
      <3>2. 1..(place[r] - 1) \subseteq recorded
        BY Zenon, <3>1 DEF MigrateInv, WalkInv
      <3>3. place[r] \in Nat /\ Known[r] \in Nat
        BY Zenon, MigrateAssumption DEF MigrateInv, MigrateTyped
      <3> QED
        BY <3>1, <3>2, <3>3
    <2>2. MigrateTyped' /\ OnceInOrder'
      BY Zenon, <1>6 DEF Finish, Go, MigrateInv, MigrateTyped, OnceInOrder, Activities
    <2>3. LockInv'
      BY Zenon, <1>6 DEF Finish, Go, MigrateInv, MigrateTyped, LockInv
    <2>4. WalkInv'
      BY Zenon, <1>6, <2>1 DEF Finish, Go, BringUp, audit, MigrateInv, MigrateTyped, WalkInv
    <2> QED
      BY Zenon, <2>2, <2>3, <2>4 DEF MigrateInv
  <1> QED
    BY Zenon, <1>1, <1>2, <1>3, <1>4, <1>5, <1>6 DEF BringUp, Run

\* It ends, and what it had open is rolled back.
LEMMA GoDownKeeps ==
    ASSUME MigrateInv, AuditTyped, NEW r \in Runners, GoDown(r)
    PROVE  MigrateInv'
  <1>1. MigrateTyped' /\ OnceInOrder' /\ LockInv'
    BY Zenon DEF GoDown, Stop, MigrateInv, MigrateTyped, OnceInOrder, LockInv, Activities
  <1>2. stage' = [stage EXCEPT ![r] = "idle"]
    BY Zenon DEF GoDown, audit, Audit!Rollback, Audit!Go, AuditTyped
  <1>3. WalkInv'
    BY Zenon, <1>2 DEF GoDown, Stop, MigrateInv, MigrateTyped, AuditTyped, WalkInv
  <1> QED
    BY Zenon, <1>1, <1>3 DEF MigrateInv

\* Only a process that serves appends events.
LEMMA ServeKeeps ==
    ASSUME MigrateInv, AuditTyped, NEW r \in Runners, Serve(r)
    PROVE  MigrateInv'
  <1>1. \E s \in Stages : stage' = [stage EXCEPT ![r] = s]
    BY Zenon DEF Serve, Audit!Stamp, Audit!Lock, Audit!Insert, Audit!Commit, Audit!Rollback, Audit!Go, Stages
  <1>2. \A q \in Runners : stage'[q] # "idle" => at[q] = "serving"
    BY Zenon, <1>1 DEF Serve, AuditTyped, MigrateInv, WalkInv
  <1> QED
    BY Zenon, <1>2, MigrateUnchanged DEF Serve

\* All steps.
LEMMA MigrateStep ==
    ASSUME MigrateInv, AuditTyped, [ServerNext]_processes
    PROVE  MigrateInv'
  <1>1. CASE UNCHANGED processes \/ (Audit!Tick /\ UNCHANGED vars)
    <2>1. \A q \in Runners : stage'[q] # "idle" => at[q] = "serving"
      BY Zenon, <1>1 DEF processes, audit, Audit!Tick, MigrateInv, WalkInv
    <2> QED
      BY Zenon, <1>1, <2>1, MigrateUnchanged DEF processes
  <1>2. ASSUME NEW r \in Runners, BringUp(r) \/ Serve(r) \/ GoDown(r)
        PROVE  MigrateInv'
    BY Zenon, <1>2, BringUpKeeps, ServeKeeps, GoDownKeeps
  <1> QED
    BY Zenon, <1>1, <1>2 DEF ServerNext

-----------------------------------------------------------------------------
\* A committed event comes after the rows before it.
LEMMA RowsAppend ==
    ASSUME AuditTyped, NEW e \in Events
    PROVE  /\ Append(rows, e) \in Seq(Events)
           /\ Len(rows) \in Nat
           /\ DOMAIN rows = 1..Len(rows)
           /\ DOMAIN Append(rows, e) = 1..(Len(rows) + 1)
           /\ \A i \in 1..Len(rows) : Append(rows, e)[i] = rows[i]
           /\ Append(rows, e)[Len(rows) + 1] = e
  BY DEF AuditTyped

\* The rows are events.
LEMMA CommittedTyped ==
    ASSUME AuditTyped
    PROVE  Audit!Committed \subseteq Events
  BY DEF AuditTyped, Audit!Committed

\* So is the empty one.
LEMMA NoDraftTyped == Audit!NoDraft \in Events
  <1>1. << >> \in Hashes
    BY DEF Hashes
  <1> QED
    BY Zenon, <1>1 DEF Audit!NoDraft, Events

\* The chain is empty.
LEMMA AuditInit ==
    ASSUME ServerInit
    PROVE  AuditInv
  <1>1. AuditTyped
    BY NoDraftTyped DEF ServerInit, Audit!Init, AuditTyped, Stages
  <1>2. rows = << >> /\ \A w \in Runners : stage[w] = "idle"
    BY Zenon DEF ServerInit, Audit!Init
  <1>3. Audit!Committed = {}
    BY <1>2 DEF Audit!Committed
  <1> QED
    BY <1>1, <1>2, <1>3 DEF AuditInv, LinkInv, LinksToLatest, HashInv, LatestInv

\* LastHash is a stored hash, or empty.
LEMMA LastHashTyped ==
    ASSUME AuditInv
    PROVE  Audit!LastHash(Audit!Committed) \in Hashes
  <1> DEFINE latest == CHOOSE e \in Audit!Committed : \A f \in Audit!Committed \ {e} : Audit!Before(f, e)
  <1>1. CASE Audit!Committed = {}
    BY <1>1 DEF Audit!LastHash, Hashes
  <1>2. CASE Audit!Committed # {}
    <2>1. latest \in Audit!Committed
      BY Zenon, <1>2 DEF AuditInv, LatestInv
    <2>2. latest \in Events
      BY Zenon, <2>1, CommittedTyped DEF AuditInv
    <2>3. latest.hash \in Hashes
      BY Zenon, <2>2 DEF Events
    <2> QED
      BY Zenon, <1>2, <2>3 DEF Audit!LastHash
  <1> QED
    BY Zenon, <1>1, <1>2

\* No step but a commit touches the committed rows.
LEMMA StampKeeps ==
    ASSUME AuditInv, NEW w \in Runners, NEW id \in Audit!IDs, Audit!Stamp(w, id)
    PROVE  AuditInv'
  <1> DEFINE e == [Audit!NoDraft EXCEPT !.id = id, !.at = clock]
  <1>1. id \in Nat
    BY ServerAssumption DEF Audit!IDs
  <1>2. e \in Events /\ e.id = id
    BY Zenon, <1>1, NoDraftTyped DEF AuditInv, AuditTyped, Events, Audit!NoDraft
  <1>3. /\ draft' = [draft EXCEPT ![w] = e] /\ stage' = [stage EXCEPT ![w] = "stamped"]
        /\ clock' = clock /\ rows' = rows /\ stage[w] = "idle"
        /\ \A f \in Audit!Committed : f.id # id
        /\ \A v \in Runners : draft[v].id # id
    BY Zenon DEF Audit!Stamp, Audit!Go
  <1> HIDE DEF e
  <1>4. Audit!Committed' = Audit!Committed
    BY Zenon, <1>3 DEF Audit!Committed
  <1>5. AuditTyped'
    BY Zenon, <1>2, <1>3 DEF AuditInv, AuditTyped, Stages
  <1>6. LinkInv'
    BY Zenon, <1>3, <1>4 DEF AuditInv, AuditTyped, LinkInv
  <1>7. LinksToLatest' /\ HashInv'
    BY Zenon, <1>3 DEF AuditInv, AuditTyped, LinksToLatest, HashInv
  <1>8. LatestInv'
    BY Zenon, <1>2, <1>3, <1>4 DEF AuditInv, AuditTyped, LatestInv
  <1> QED
    BY Zenon, <1>5, <1>6, <1>7, <1>8 DEF AuditInv

\* It takes the advisory lock.
LEMMA LockKeeps ==
    ASSUME AuditInv, NEW w \in Runners, Audit!Lock(w)
    PROVE  AuditInv'
  <1>1. /\ stage' = [stage EXCEPT ![w] = "locked"] /\ UNCHANGED <<clock, rows, draft>>
        /\ stage[w] = "stamped" /\ \A v \in Runners : stage[v] \notin {"locked", "inserted"}
    BY Zenon DEF Audit!Lock, Audit!Go
  <1>2. Audit!Committed' = Audit!Committed
    BY Zenon, <1>1 DEF Audit!Committed
  <1>3. AuditTyped' /\ LinkInv' /\ LinksToLatest' /\ HashInv'
    BY <1>1, <1>2 DEF AuditInv, AuditTyped, Stages, LinkInv, LinksToLatest, HashInv
  <1>4. LatestInv'
    BY Zenon, <1>1, <1>2 DEF AuditInv, AuditTyped, LatestInv
  <1> QED
    BY Zenon, <1>3, <1>4 DEF AuditInv

\* It reads the latest event and inserts its own, linked to it.
LEMMA InsertKeeps ==
    ASSUME AuditInv, NEW w \in Runners, Audit!Insert(w)
    PROVE  AuditInv'
  <1> DEFINE previous == Audit!LastHash(Audit!Committed)
             e == draft[w]
             f == [id |-> e.id, at |-> Audit!Stored(e.at), previous |-> previous,
                   hash |-> Audit!AuditHash(previous, e.id, e.at)]
  <1>1. /\ stage' = [stage EXCEPT ![w] = "inserted"] /\ draft' = [draft EXCEPT ![w] = f]
        /\ UNCHANGED <<clock, rows>> /\ stage[w] = "locked"
    BY Zenon DEF Audit!Insert, Audit!Go
  <1>2. e \in Events /\ e.id \in Nat /\ e.at \in Nat
    BY Zenon DEF AuditInv, AuditTyped, Events
  <1>3. previous \in Hashes
    BY Zenon, LastHashTyped
  <1>4. Audit!Stored(e.at) \in Nat
    BY <1>2, ServerAssumption DEF Audit!Stored
  <1>5. Audit!AuditHash(previous, e.id, e.at) \in Hashes
    <2> HIDE DEF e, previous
    <2> QED
      BY <1>2, <1>3 DEF Audit!AuditHash, Hashes
  <1>6. f \in Events /\ f.id = draft[w].id /\ f.previous = previous /\ Hashed(f)
    <2> HIDE DEF previous
    <2>1. f \in Events /\ f.id = draft[w].id /\ f.previous = previous
      BY Zenon, <1>2, <1>3, <1>4, <1>5 DEF Events
    <2>2. f.hash = Audit!AuditHash(f.previous, f.id, e.at)
      BY Zenon, <2>1
    <2> QED
      BY Zenon, <1>2, <2>1, <2>2 DEF Hashed
  <1>7. Audit!Committed' = Audit!Committed
    BY Zenon, <1>1 DEF Audit!Committed
  <1> HIDE DEF f, e
  <1>8. AuditTyped'
    BY Zenon, <1>1, <1>6 DEF AuditInv, AuditTyped, Stages
  <1>9. LinkInv'
    BY Zenon, <1>1, <1>6, <1>7 DEF AuditInv, AuditTyped, LinkInv
  <1>10. LinksToLatest'
    BY Zenon, <1>1 DEF AuditInv, LinksToLatest
  <1>11. HashInv'
    BY Zenon, <1>1, <1>6 DEF AuditInv, AuditTyped, HashInv
  <1>12. LatestInv'
    BY <1>1, <1>6, <1>7 DEF AuditInv, AuditTyped, LatestInv
  <1> QED
    BY Zenon, <1>8, <1>9, <1>10, <1>11, <1>12 DEF AuditInv

\* The transaction ends without a row.
LEMMA RollbackKeeps ==
    ASSUME AuditInv, NEW w \in Runners, Audit!Rollback(w)
    PROVE  AuditInv'
  <1>1. /\ stage' = [stage EXCEPT ![w] = "idle"] /\ draft' = [draft EXCEPT ![w] = Audit!NoDraft]
        /\ UNCHANGED <<clock, rows>>
    BY Zenon DEF Audit!Rollback, Audit!Go
  <1>2. Audit!Committed' = Audit!Committed
    BY Zenon, <1>1 DEF Audit!Committed
  <1>3. AuditTyped'
    BY Zenon, <1>1, NoDraftTyped DEF AuditInv, AuditTyped, Stages
  <1>4. LinkInv' /\ LinksToLatest' /\ HashInv'
    BY <1>1, <1>2 DEF AuditInv, AuditTyped, LinkInv, LinksToLatest, HashInv
  <1>5. LatestInv'
    BY Zenon, <1>1, <1>2 DEF AuditInv, AuditTyped, LatestInv
  <1> QED
    BY Zenon, <1>3, <1>4, <1>5 DEF AuditInv

\* Or with it: the event is the latest by then, or stands before a later one,
\* and the others are as they were.
LEMMA CommitKeeps ==
    ASSUME AuditInv, NEW w \in Runners, Audit!Commit(w)
    PROVE  AuditInv'
  <1> DEFINE e == draft[w]
             n == Len(rows)
  <1>1. /\ stage' = [stage EXCEPT ![w] = "idle"] /\ draft' = [draft EXCEPT ![w] = Audit!NoDraft]
        /\ rows' = Append(rows, e) /\ clock' = clock /\ stage[w] = "inserted"
    BY Zenon DEF Audit!Commit, Audit!Go
  <1>2. e \in Events /\ Hashed(e) /\ e.previous = Audit!LastHash(Audit!Committed)
    BY Zenon, <1>1 DEF AuditInv, AuditTyped, HashInv, LinkInv
  <1>3. /\ rows' \in Seq(Events) /\ n \in Nat
        /\ DOMAIN rows = 1..n /\ DOMAIN rows' = 1..(n + 1)
        /\ \A i \in 1..n : rows'[i] = rows[i]
        /\ rows'[n + 1] = e
    BY Zenon, <1>1, <1>2, RowsAppend DEF AuditInv
  <1> HIDE DEF e, n
  <1>4. Audit!Committed' = Audit!Committed \cup {e}
    BY <1>3 DEF Audit!Committed
  <1>5. Audit!Committed = {rows[j] : j \in 1..n}
    BY Zenon, <1>3 DEF Audit!Committed
  <1>6. \A i \in 1..(n + 1) : {rows'[j] : j \in 1..(i - 1)} = {rows[j] : j \in 1..(i - 1)}
    BY <1>3
  <1>7. AuditTyped'
    BY Zenon, <1>1, <1>3, NoDraftTyped DEF AuditInv, AuditTyped, Stages
  <1>8. LinkInv'
    BY Zenon, <1>1 DEF AuditInv, AuditTyped, LinkInv
  <1>9. LinksToLatest'
    <2> SUFFICES ASSUME NEW i \in 1..(n + 1)
                 PROVE  rows'[i].previous = Audit!LastHash({rows'[j] : j \in 1..(i - 1)})
      BY Zenon, <1>3 DEF LinksToLatest
    <2>1. CASE i = n + 1
      <3>1. i - 1 = n
        BY <1>3, <2>1
      <3>2. {rows'[j] : j \in 1..(i - 1)} = Audit!Committed
        BY Zenon, <1>5, <1>6, <3>1
      <3> QED
        BY Zenon, <1>2, <1>3, <2>1, <3>2
    <2>2. CASE i \in 1..n
      BY Zenon, <1>3, <1>6, <2>2 DEF AuditInv, LinksToLatest
    <2>3. i = n + 1 \/ i \in 1..n
      <3>1. n \in Nat
        BY Zenon, <1>3
      <3> QED
        BY <3>1
    <2> QED
      BY Zenon, <2>1, <2>2, <2>3
  <1>10. HashInv'
    BY <1>1, <1>2, <1>3 DEF AuditInv, AuditTyped, HashInv
  <1>11. LatestInv'
    <2>1. \A v \in Runners : stage'[v] # "idle" =>
            v # w /\ stage[v] # "idle" /\ draft'[v] = draft[v]
      BY Zenon, <1>1 DEF AuditInv, AuditTyped
    <2>2. \E x \in Audit!Committed' : \A f \in Audit!Committed' \ {x} : Audit!Before(f, x)
      <3>1. CASE Audit!Committed = {}
        BY Zenon, <1>4, <3>1
      <3>2. CASE Audit!Committed # {}
        <4>1. PICK x \in Audit!Committed : \A f \in Audit!Committed \ {x} : Audit!Before(f, x)
          BY Zenon, <3>2 DEF AuditInv, LatestInv
        <4>2. x.id # e.id
          BY Zenon, <1>1 DEF AuditInv, LatestInv, e
        <4>3. Audit!Committed \subseteq Events
          BY Zenon, CommittedTyped DEF AuditInv
        <4>4. \A g \in Events : g.at \in Nat /\ g.id \in Nat
          BY Zenon DEF Events
        <4>5. CASE Audit!Before(e, x)
          BY Zenon, <1>4, <4>1, <4>5
        <4>6. CASE ~Audit!Before(e, x)
          <5>1. Audit!Before(x, e)
            BY <1>2, <4>2, <4>3, <4>4, <4>6 DEF Audit!Before
          <5>2. \A f \in Audit!Committed : Audit!Before(f, e)
            BY <1>2, <4>1, <4>3, <4>4, <5>1 DEF Audit!Before
          <5> QED
            BY Zenon, <1>4, <5>2
        <4> QED
          BY Zenon, <4>5, <4>6
      <3> QED
        BY Zenon, <3>1, <3>2
    <2>3. \A v \in Runners : stage'[v] # "idle" => draft[v].id # e.id
      BY Zenon, <1>1, <2>1 DEF AuditInv, LatestInv, e
    <2>4. \A v \in Runners : stage'[v] # "idle" =>
            /\ \A f \in Audit!Committed' : f.id # draft'[v].id
            /\ \A u \in Runners \ {v} : stage'[u] # "idle" => draft'[u].id # draft'[v].id
      BY <1>4, <2>1, <2>3 DEF AuditInv, LatestInv
    <2> QED
      BY Zenon, <2>2, <2>4 DEF LatestInv
  <1> QED
    BY Zenon, <1>7, <1>8, <1>9, <1>10, <1>11 DEF AuditInv

\* Steps that append nothing.
LEMMA AuditUnchanged ==
    ASSUME AuditInv, UNCHANGED <<rows, stage, draft>>, clock' \in Nat
    PROVE  AuditInv'
  <1>1. Audit!Committed' = Audit!Committed
    BY Zenon DEF Audit!Committed
  <1> QED
    BY <1>1 DEF AuditInv, AuditTyped, LinkInv, LinksToLatest, HashInv, LatestInv

\* All steps.
LEMMA AuditStep ==
    ASSUME AuditInv, [ServerNext]_processes
    PROVE  AuditInv'
  <1>1. clock \in Nat
    BY Zenon DEF AuditInv, AuditTyped
  <1>2. ASSUME UNCHANGED audit PROVE AuditInv'
    BY Zenon, <1>1, <1>2, AuditUnchanged DEF audit
  <1>3. CASE Audit!Tick
    BY <1>1, <1>3, AuditUnchanged DEF Audit!Tick
  <1>4. ASSUME NEW r \in Runners, Serve(r) PROVE AuditInv'
    BY Zenon, <1>4, StampKeeps, LockKeeps, InsertKeeps, CommitKeeps, RollbackKeeps DEF Serve
  <1>5. ASSUME NEW r \in Runners, GoDown(r) PROVE AuditInv'
    BY Zenon, <1>2, <1>5, RollbackKeeps DEF GoDown
  <1>6. ASSUME NEW r \in Runners, BringUp(r) PROVE AuditInv'
    BY Zenon, <1>2, <1>6 DEF BringUp
  <1>7. CASE UNCHANGED processes
    BY Zenon, <1>2, <1>7 DEF processes
  <1> QED
    BY Zenon, <1>3, <1>4, <1>5, <1>6, <1>7 DEF ServerNext

\* However processes of two releases overlap, fail and die.
THEOREM ServerInvariant == ServerSpec => [](MigrateInv /\ AuditInv)
  <1>1. ServerInit => MigrateInv /\ AuditInv
    BY Zenon, MigrateInit, AuditInit
  <1>2. MigrateInv /\ AuditInv /\ [ServerNext]_processes => (MigrateInv /\ AuditInv)'
    BY Zenon, MigrateStep, AuditStep DEF AuditInv
  <1> QED
    BY <1>1, <1>2, PTL DEF ServerSpec

(* OnceInOrder for any number of processes and migrations: whatever        *)
(* processes start at once, Migrate applies each migration once and in     *)
(* order, and records what it has applied.                                 *)
THEOREM MigrationsRunOnce == ServerSpec => []OnceInOrder
  <1>1. MigrateInv => OnceInOrder
    BY Zenon DEF MigrateInv
  <1> QED
    BY <1>1, ServerInvariant, PTL

(* ServingIsMigrated for any number of processes: one that serves has      *)
(* found or put in place every migration it knows.                         *)
THEOREM ServingMigrated == ServerSpec => []ServingIsMigrated
  <1>1. MigrateInv => ServingIsMigrated
    BY Zenon DEF MigrateInv, WalkInv, ServingIsMigrated
  <1> QED
    BY <1>1, ServerInvariant, PTL

(* LinksToLatest for any number of processes: the event a process appends  *)
(* holds the hash of the event that was the latest when it was inserted.   *)
THEOREM AppendsLink == ServerSpec => []LinksToLatest
  <1>1. AuditInv => LinksToLatest
    BY Zenon DEF AuditInv
  <1> QED
    BY <1>1, ServerInvariant, PTL

-----------------------------------------------------------------------------
\* Verify asks of an event what its predecessor in the order of commits says.
LEMMA OrderedLast ==
    ASSUME AuditInv, CommittedInOrder, NEW i \in DOMAIN rows
    PROVE  Audit!LastHash({rows[j] : j \in 1..(i - 1)}) = IF i = 1 THEN << >> ELSE rows[i - 1].hash
  <1> DEFINE before == {rows[j] : j \in 1..(i - 1)}
  <1>1. DOMAIN rows = 1..Len(rows) /\ Len(rows) \in Nat /\ \A j \in DOMAIN rows : rows[j] \in Events
    BY DEF AuditInv, AuditTyped
  <1>2. CASE i = 1
    BY <1>2 DEF Audit!LastHash
  <1>3. CASE i # 1
    <2> DEFINE last == rows[i - 1]
    <2>1. i - 1 \in 1..(i - 1) /\ i - 1 \in DOMAIN rows /\ 1..(i - 1) \subseteq DOMAIN rows
      BY <1>1, <1>3
    <2>2. last \in before /\ before \subseteq Events
      BY Zenon, <1>1, <2>1
    <2>3. \A f \in before \ {last} : Audit!Before(f, last)
      BY <1>1, <2>1 DEF CommittedInOrder
    <2>4. \A g \in Events : g.at \in Nat /\ g.id \in Nat
      BY Zenon DEF Events
    <2> HIDE DEF last, before
    <2>5. \A e \in before : (\A f \in before \ {e} : Audit!Before(f, e)) => e = last
      BY <2>2, <2>3, <2>4 DEF Audit!Before
    <2>6. (CHOOSE e \in before : \A f \in before \ {e} : Audit!Before(f, e)) = last
      BY Zenon, <2>2, <2>3, <2>5
    <2>7. Audit!LastHash(before) = last.hash
      BY Zenon, <2>2, <2>6 DEF Audit!LastHash
    <2> QED
      BY Zenon, <1>3, <2>7 DEF last, before
  <1> QED
    BY Zenon, <1>2, <1>3

\* The time that was hashed is the second half of the hash's last element.
LEMMA HashKeepsTime ==
    ASSUME NEW e \in Events, Hashed(e)
    PROVE  KeepsItsTime(e) <=> e.hash = Audit!AuditHash(e.previous, e.id, e.at)
  <1>1. PICK t \in Nat : e.hash = Append(e.previous, <<e.id, t>>)
    BY Zenon DEF Hashed, Audit!AuditHash
  <1>2. e.previous \in Seq(Nat \X Nat) /\ e.id \in Nat /\ e.at \in Nat
    BY Zenon DEF Events, Hashes
  <1>3. ASSUME NEW u \in Nat, e.hash = Append(e.previous, <<e.id, u>>)
        PROVE  e.hash[Len(e.hash)][2] = u
    BY <1>2, <1>3
  <1>4. KeepsItsTime(e) <=> t = e.at
    BY Zenon, <1>1, <1>3 DEF KeepsItsTime
  <1> QED
    BY Zenon, <1>1, <1>2, <1>3, <1>4 DEF Audit!AuditHash, KeepsItsTime

(* OrderedChainsVerify for chains of any length: if events were committed  *)
(* in the order of their times, Verify accepts the chain exactly if every  *)
(* event keeps its time when it is stored.                                 *)
THEOREM OrderedVerify == ServerSpec => []OrderedChainsVerify
  <1>1. AuditInv => OrderedChainsVerify
    <2> SUFFICES ASSUME AuditInv, CommittedInOrder
                 PROVE  Audit!Verify(rows) <=> \A i \in DOMAIN rows : KeepsItsTime(rows[i])
      BY Zenon DEF OrderedChainsVerify
    <2>1. \A i \in DOMAIN rows : rows[i] \in Events /\ Hashed(rows[i])
      BY DEF AuditInv, AuditTyped, HashInv
    <2>2. \A i \in DOMAIN rows :
            rows[i].previous = IF i = 1 THEN << >> ELSE rows[i - 1].hash
      BY Zenon, OrderedLast DEF AuditInv, LinksToLatest
    <2>3. \A i \in DOMAIN rows :
            KeepsItsTime(rows[i]) <=> rows[i].hash = Audit!AuditHash(rows[i].previous, rows[i].id, rows[i].at)
      BY Zenon, <2>1, HashKeepsTime
    <2> QED
      BY Zenon, <2>2, <2>3 DEF Audit!Verify
  <1> QED
    BY <1>1, ServerInvariant, PTL

\* The event after the gap names a hash that is longer by one than what
\* Verify now expects.
LEMMA GapShows ==
    ASSUME AuditTyped, Audit!Verify(rows), NEW i \in 1..(Len(rows) - 1),
           NEW left, i \in DOMAIN left, left[i] = rows[i + 1], i # 1 => left[i - 1] = rows[i - 1]
    PROVE  ~Audit!Verify(left)
  <1> DEFINE previous == IF i = 1 THEN << >> ELSE rows[i - 1].hash
  <1>0. DOMAIN rows = 1..Len(rows) /\ Len(rows) \in Nat
    BY DEF AuditTyped
  <1>1. i \in DOMAIN rows /\ i + 1 \in DOMAIN rows /\ i + 1 # 1 /\ (i + 1) - 1 = i
    BY <1>0
  <1>2. rows[i] \in Events
    BY <1>1 DEF AuditTyped
  <1>3. rows[i].previous = previous /\ rows[i].hash = Append(previous, <<rows[i].id, rows[i].at>>)
    BY Zenon, <1>1 DEF Audit!Verify, Audit!AuditHash
  <1>4. rows[i + 1].previous = rows[i].hash
    <2>1. \A k \in DOMAIN rows : k # 1 => rows[k].previous = rows[k - 1].hash
      BY Zenon DEF Audit!Verify
    <2>2. rows[i + 1].previous = rows[(i + 1) - 1].hash
      BY Zenon, <1>1, <2>1
    <2> QED
      BY Zenon, <1>1, <2>2
  <1>5. Audit!Verify(left) => rows[i + 1].previous = previous
    BY Zenon DEF Audit!Verify
  <1>6. rows[i].previous \in Seq(Nat \X Nat) /\ rows[i].id \in Nat /\ rows[i].at \in Nat
    BY Zenon, <1>2 DEF Events, Hashes
  <1> HIDE DEF previous
  <1> QED
    BY <1>3, <1>4, <1>5, <1>6

(* RemovalShows for chains of any length: a chain that verifies no longer  *)
(* does when an event other than the last is gone.                         *)
THEOREM RemovalsShow == ServerSpec => []RemovalShows
  <1>1. ASSUME AuditTyped, NEW i \in 1..(Len(rows) - 1)
        PROVE  LET left == SubSeq(rows, 1, i - 1) \o SubSeq(rows, i + 1, Len(rows))
               IN /\ i \in DOMAIN left /\ left[i] = rows[i + 1]
                  /\ i # 1 => left[i - 1] = rows[i - 1]
    <2> DEFINE s == SubSeq(rows, 1, i - 1)
               t == SubSeq(rows, i + 1, Len(rows))
    <2>1. rows \in Seq(Events) /\ Len(rows) \in Nat
      BY <1>1 DEF AuditTyped
    <2>2. s \in Seq(Events) /\ Len(s) = i - 1 /\ (i # 1 => s[i - 1] = rows[i - 1])
      BY <2>1
    <2>3. t \in Seq(Events) /\ Len(t) = Len(rows) - i /\ t[1] = rows[i + 1]
      BY <2>1
    <2> HIDE DEF s, t
    <2>4. /\ i \in DOMAIN (s \o t) /\ (s \o t)[i] = t[1]
          /\ i # 1 => (s \o t)[i - 1] = s[i - 1]
      BY <2>1, <2>2, <2>3
    <2> QED
      BY Zenon, <2>2, <2>3, <2>4 DEF s, t
  <1>2. AuditInv => RemovalShows
    BY Zenon, <1>1, GapShows DEF AuditInv, RemovalShows
  <1> QED
    BY <1>2, ServerInvariant, PTL

=============================================================================
