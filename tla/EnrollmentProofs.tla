--------------------------- MODULE EnrollmentProofs ---------------------------
(***************************************************************************)
(* Enrollment for any number of hosts, tokens and overlapping attempts: a  *)
(* token enrols one collector, and a host keeps an identity of its own.    *)
(***************************************************************************)
EXTENDS Enrollment, TLAPS

Stages == {"idle", "begun", "spent", "inserted", "done", "refused"}
Places == {"down", "asking", "saving", "running"}
Rows == [token : Tokens, host : Hosts, by : Requests]

Typed ==
    /\ used \in SUBSET Tokens
    /\ collectors \in Seq(Rows)
    /\ stage \in [Requests -> Stages]
    /\ from \in [Requests -> Hosts]
    /\ at \in [Hosts -> Places]
    /\ asked \in [Hosts -> Requests \cup {NoRequest}]
    /\ got \in [Hosts -> Int]
    /\ file \in [Hosts -> Int]

\* The row lock of the token: between the UPDATE and the commit of a handler
\* no other one holds the token, and nobody has spent it.
Held(r) ==
    stage[r] \in {"spent", "inserted"} =>
        /\ Token(r) \notin used
        /\ \A q \in Requests : stage[q] \in {"spent", "inserted"} /\ Token(q) = Token(r) => q = r

TokensInv == TokensEnrolOne /\ \A r \in Requests : Held(r)

\* The last collector a handler has inserted is that of its present attempt.
Inserted(r) ==
    stage[r] = "done" =>
        \E i \in DOMAIN collectors :
            /\ collectors[i].by = r /\ collectors[i].host = from[r]
            /\ \A j \in DOMAIN collectors : collectors[j].by = r => j <= i

OwnID(h, i) == i \in DOMAIN collectors /\ collectors[i].host = h

Kept(h) ==
    /\ at[h] = "asking" => asked[h] \in Requests /\ stage[asked[h]] # "idle" /\ from[asked[h]] = h
    /\ asked[h] # NoRequest => at[h] = "asking"
    /\ at[h] = "saving" => OwnID(h, got[h])
    /\ at[h] # "saving" => got[h] = 0
    /\ file[h] \in {Absent, Torn} \/ OwnID(h, file[h])
    /\ at[h] = "running" => file[h] > 0

IdentitiesInv == (\A r \in Requests : Inserted(r)) /\ \A h \in Hosts : Kept(h)

-----------------------------------------------------------------------------
LEMMA InitTyped == Init => Typed
  <1>1. (CHOOSE h \in Hosts : TRUE) \in Hosts
    BY Zenon, EnrollmentAssumption
  <1>2. <<>> \in Seq(Rows)
    OBVIOUS
  <1>3. Init => from \in [Requests -> Hosts]
    BY Zenon, <1>1 DEF Init
  <1>4. Init => /\ used = {} /\ collectors = <<>>
                /\ stage = [r \in Requests |-> "idle"]
                /\ at = [h \in Hosts |-> "down"]
                /\ asked = [h \in Hosts |-> NoRequest]
                /\ got = [h \in Hosts |-> 0]
                /\ file = [h \in Hosts |-> 0]
    BY Zenon DEF Init, Absent
  <1> QED
    BY <1>2, <1>3, <1>4 DEF Typed, Stages, Places

LEMMA AppendRow ==
    ASSUME Typed, NEW row \in Rows
    PROVE  /\ Append(collectors, row) \in Seq(Rows)
           /\ Len(collectors) \in Nat
           /\ DOMAIN collectors = 1..Len(collectors)
           /\ DOMAIN Append(collectors, row) = 1..(Len(collectors) + 1)
           /\ \A i \in DOMAIN collectors : Append(collectors, row)[i] = collectors[i]
           /\ Append(collectors, row)[Len(collectors) + 1] = row
  BY DEF Typed

LEMMA CommitAppends ==
    ASSUME Typed, NEW r \in Requests, Commit(r)
    PROVE  \E row \in Rows :
             /\ row = [token |-> Token(r), host |-> from[r], by |-> r]
             /\ collectors' = Append(collectors, row)
  BY Zenon, EnrollmentAssumption DEF Commit, Token, Typed, Rows

\* The answer a host hears holds the id of a collector inserted for it.
LEMMA HearPicks ==
    ASSUME Typed, IdentitiesInv, NEW h \in Hosts, Hear(h)
    PROVE  /\ asked[h] \in Requests
           /\ \E i \in DOMAIN collectors :
                i \in Nat \ {0} /\ collectors[i].host = h /\ got' = [got EXCEPT ![h] = i]
  <1> DEFINE q == asked[h]
             Last(i) == /\ collectors[i].by = q
                        /\ \A j \in DOMAIN collectors : collectors[j].by = q => j <= i
  <1>1. q \in Requests /\ from[q] = h /\ stage[q] = "done"
    BY Zenon DEF Hear, IdentitiesInv, Kept
  <1>2. PICK k \in DOMAIN collectors : Last(k) /\ collectors[k].host = h
    BY <1>1 DEF IdentitiesInv, Inserted
  <1>3. DOMAIN collectors = 1..Len(collectors) /\ Len(collectors) \in Nat
    BY DEF Typed
  <1>4. \A i \in DOMAIN collectors : Last(i) => i = k
    BY <1>2, <1>3
  <1>5. (CHOOSE i \in DOMAIN collectors : Last(i)) = k
    BY Zenon, <1>2, <1>4
  <1>6. got' = [got EXCEPT ![h] = k]
    BY Zenon, <1>5 DEF Hear
  <1>7. k \in Nat \ {0}
    BY <1>3
  <1> QED
    BY Zenon, <1>1, <1>2, <1>6, <1>7

LEMMA TypedStep ==
    ASSUME Typed, IdentitiesInv, [Next]_vars
    PROVE  Typed'
  <1>1. CASE UNCHANGED vars
    BY Zenon, <1>1 DEF vars, database, handlers, hosts, Typed
  <1>2. CASE Tick
    BY Zenon, <1>2 DEF Tick, database, handlers, hosts, Typed
  <1>3. ASSUME NEW t \in Tokens, Bootstrap(t) PROVE Typed'
    BY Zenon, <1>3 DEF Bootstrap, handlers, hosts, Typed
  <1>4. ASSUME NEW r \in Requests, Spend(r) \/ Invalid(r) \/ Insert(r) \/ Fail(r) \/ Unheard(r)
        PROVE  Typed'
    BY Zenon, <1>4 DEF Spend, Invalid, Insert, Fail, Unheard, Step, database, hosts, Typed, Stages
  <1>5. ASSUME NEW r \in Requests, Commit(r) PROVE Typed'
    <2>1. collectors' \in Seq(Rows)
      BY Zenon, <1>5, CommitAppends, AppendRow
    <2>2. Token(r) \in Tokens
      BY Zenon, EnrollmentAssumption DEF Token, Typed
    <2> QED
      BY Zenon, <1>5, <2>1, <2>2 DEF Commit, Step, hosts, Typed, Stages
  <1>6. ASSUME NEW h \in Hosts, NEW r \in Requests, Ask(h, r) PROVE Typed'
    BY Zenon, <1>6 DEF Ask, Step, database, Typed, Stages, Places
  <1>7. ASSUME NEW h \in Hosts, Hear(h) PROVE Typed'
    <2>1. PICK i \in Int : asked[h] \in Requests /\ got' = [got EXCEPT ![h] = i]
      BY <1>7, HearPicks
    <2>2. /\ at' = [at EXCEPT ![h] = "saving"]
          /\ asked' = [asked EXCEPT ![h] = NoRequest]
          /\ stage' = [stage EXCEPT ![asked[h]] = "idle"]
          /\ UNCHANGED <<used, collectors, from, file>>
      BY Zenon, <1>7 DEF Hear, database
    <2> QED
      BY Zenon, <2>1, <2>2 DEF Typed, Stages, Places
  <1>8. ASSUME NEW h \in Hosts, HearRefusal(h) PROVE Typed'
    <2>1. asked[h] \in Requests
      BY Zenon, <1>8 DEF HearRefusal, IdentitiesInv, Kept
    <2> QED
      BY Zenon, <1>8, <2>1 DEF HearRefusal, database, Typed, Stages, Places
  <1>9. ASSUME NEW h \in Hosts, Create(h) \/ Fill(h) \/ Load(h) \/ Stop(h) PROVE Typed'
    <2>1. CASE Create(h)
      BY <2>1 DEF Create, database, handlers, Typed, Torn
    <2>2. CASE Fill(h)
      BY <2>2 DEF Fill, database, handlers, Typed, Places
    <2>3. CASE Load(h)
      BY Zenon, <2>3 DEF Load, database, handlers, Typed, Places
    <2>4. CASE Stop(h)
      BY <2>4 DEF Stop, database, handlers, Typed, Places
    <2> QED
      BY Zenon, <1>9, <2>1, <2>2, <2>3, <2>4
  <1> QED
    BY Zenon, <1>1, <1>2, <1>3, <1>4, <1>5, <1>6, <1>7, <1>8, <1>9 DEF Next, Handle, Start

-----------------------------------------------------------------------------
LEMMA TokensStep ==
    ASSUME Typed, IdentitiesInv, TokensInv, [Next]_vars
    PROVE  TokensInv'
  <1> DEFINE Holds(r) == stage[r] \in {"spent", "inserted"}
  \* Most steps let go of tokens and change no row.
  <1>1. ASSUME UNCHANGED <<used, collectors>>,
               \A r \in Requests : Holds(r)' => Holds(r) /\ from'[r] = from[r]
        PROVE  TokensInv'
    BY <1>1 DEF TokensInv, TokensEnrolOne, Held, Token
  <1>2. CASE UNCHANGED vars \/ Tick \/ \E t \in Tokens : Bootstrap(t)
    BY Zenon, <1>1, <1>2 DEF vars, database, handlers, Tick, Bootstrap
  <1>3. ASSUME NEW r \in Requests, Invalid(r) \/ Insert(r) \/ Fail(r) \/ Unheard(r)
        PROVE  TokensInv'
    BY Zenon, <1>1, <1>3 DEF Invalid, Insert, Fail, Unheard, Step, database, Typed
  <1>4. ASSUME NEW r \in Requests, Spend(r)
        PROVE  TokensInv'
    <2>1. /\ stage' = [stage EXCEPT ![r] = "spent"]
          /\ UNCHANGED <<used, collectors, from>>
          /\ Token(r) \notin used
          /\ \A q \in Requests : Holds(q) => Token(q) # Token(r)
      BY Zenon, <1>4 DEF Spend, Step, Holders, database
    <2> QED
      BY <2>1 DEF TokensInv, TokensEnrolOne, Held, Token, Typed
  <1>5. ASSUME NEW r \in Requests, Commit(r)
        PROVE  TokensInv'
    <2>1. PICK row \in Rows : row.token = Token(r) /\ collectors' = Append(collectors, row)
      BY Zenon, <1>5, CommitAppends
    <2>2. /\ used' = used \cup {Token(r)}
          /\ stage[r] = "inserted" /\ stage' = [stage EXCEPT ![r] = "done"]
          /\ UNCHANGED from
      BY Zenon, <1>5 DEF Commit, Step
    <2>3. Token(r) \notin used /\ \A i \in DOMAIN collectors : collectors[i].token # Token(r)
      BY Zenon, <2>2 DEF TokensInv, TokensEnrolOne, Held
    <2>4. TokensEnrolOne'
      <3>1. \A i \in DOMAIN collectors' :
              \/ i \in DOMAIN collectors /\ collectors'[i] = collectors[i]
              \/ i = Len(collectors) + 1 /\ collectors'[i].token = Token(r)
        BY <2>1, AppendRow
      <3>2. DOMAIN collectors \subseteq DOMAIN collectors' /\ Len(collectors) + 1 \in DOMAIN collectors'
        BY <2>1, AppendRow
      <3>3. \A i \in DOMAIN collectors : collectors'[i] = collectors[i]
        BY Zenon, <2>1, AppendRow
      <3>4. collectors'[Len(collectors) + 1].token = Token(r)
        BY Zenon, <2>1, AppendRow
      <3>5. \A i, j \in DOMAIN collectors' : collectors'[i].token = collectors'[j].token => i = j
        BY Zenon, <2>3, <3>1 DEF TokensInv, TokensEnrolOne
      <3>6. used' = {collectors'[i].token : i \in DOMAIN collectors'}
        BY <2>2, <3>1, <3>2, <3>3, <3>4 DEF TokensInv, TokensEnrolOne
      <3> QED
        BY Zenon, <3>5, <3>6 DEF TokensEnrolOne
    <2>5. \A q \in Requests : Held(q)'
      BY Zenon, <2>2 DEF TokensInv, Held, Token, Typed
    <2> QED
      BY Zenon, <2>4, <2>5 DEF TokensInv
  <1>6. ASSUME NEW h \in Hosts, NEW r \in Requests, Ask(h, r)
        PROVE  TokensInv'
    BY Zenon, <1>1, <1>6 DEF Ask, Step, database, Typed
  <1>7. ASSUME NEW h \in Hosts, Hear(h) \/ HearRefusal(h)
        PROVE  TokensInv'
    BY Zenon, <1>1, <1>7 DEF Hear, HearRefusal, database, Typed
  <1>8. ASSUME NEW h \in Hosts, Create(h) \/ Fill(h) \/ Load(h) \/ Stop(h)
        PROVE  TokensInv'
    BY Zenon, <1>1, <1>8 DEF Create, Fill, Load, Stop, database, handlers
  <1> QED
    BY Zenon, <1>2, <1>3, <1>4, <1>5, <1>6, <1>7, <1>8 DEF Next, Handle, Start

-----------------------------------------------------------------------------
\* Collectors are only added, so what is known of one stays true.
LEMMA RowsStay ==
    ASSUME Typed, NEW r \in Requests, Commit(r)
    PROVE  /\ \A h \in Hosts, i \in Int : OwnID(h, i) => OwnID(h, i)'
           /\ \A q \in Requests : Inserted(q) => Inserted(q)'
  <1>1. PICK row \in Rows : row.by = r /\ row.host = from[r] /\ collectors' = Append(collectors, row)
    BY Zenon, CommitAppends
  <1> DEFINE n == Len(collectors) + 1
  <1>2. /\ n \in Nat /\ DOMAIN collectors = 1..(n - 1) /\ DOMAIN collectors' = 1..n
        /\ \A i \in DOMAIN collectors : collectors'[i] = collectors[i]
        /\ collectors'[n] = row
    BY <1>1, AppendRow
  <1>3. stage' = [stage EXCEPT ![r] = "done"] /\ UNCHANGED from
    BY Zenon DEF Commit, Step
  <1>4. \A h \in Hosts, i \in Int : OwnID(h, i) => OwnID(h, i)'
    BY <1>2 DEF OwnID
  <1>5. ASSUME NEW q \in Requests, Inserted(q) PROVE Inserted(q)'
    <2>1. CASE q = r
      BY <1>1, <1>2, <1>3, <2>1 DEF Inserted
    <2>2. CASE q # r /\ stage[q] = "done"
      <3>1. PICK i \in DOMAIN collectors :
              /\ collectors[i].by = q /\ collectors[i].host = from[q]
              /\ \A j \in DOMAIN collectors : collectors[j].by = q => j <= i
        BY Zenon, <1>5, <2>2 DEF Inserted
      <3>2. i \in DOMAIN collectors' /\ collectors'[i] = collectors[i]
        BY <1>2
      <3>3. \A j \in DOMAIN collectors' : collectors'[j].by = q => j \in DOMAIN collectors /\ j <= i
        BY <1>1, <1>2, <2>2, <3>1
      <3> QED
        BY Zenon, <1>3, <3>1, <3>2, <3>3 DEF Inserted
    <2>3. CASE q # r /\ stage[q] # "done"
      BY Zenon, <1>3, <2>3 DEF Inserted, Typed
    <2> QED
      BY Zenon, <2>1, <2>2, <2>3
  <1> QED
    BY Zenon, <1>4, <1>5

LEMMA IdentitiesStep ==
    ASSUME Typed, IdentitiesInv, [Next]_vars
    PROVE  IdentitiesInv'
  \* A step of no handler and no host.
  <1>1. CASE UNCHANGED vars \/ Tick \/ \E t \in Tokens : Bootstrap(t)
    <2>1. UNCHANGED <<collectors, handlers, hosts>>
      BY Zenon, <1>1 DEF vars, database, Tick, Bootstrap
    <2> QED
      BY Zenon, <2>1 DEF handlers, hosts, IdentitiesInv, Inserted, Kept, OwnID
  <1>2. ASSUME NEW r \in Requests, Spend(r) \/ Invalid(r) \/ Insert(r) \/ Fail(r)
        PROVE  IdentitiesInv'
    <2>1. /\ UNCHANGED <<collectors, from, at, asked, got, file>>
          /\ \E s \in {"spent", "refused", "inserted"} : stage' = [stage EXCEPT ![r] = s]
      BY Zenon, <1>2 DEF Spend, Invalid, Insert, Fail, Step, database, hosts
    <2> QED
      BY <2>1 DEF IdentitiesInv, Inserted, Kept, OwnID, Typed
  <1>3. ASSUME NEW r \in Requests, Unheard(r)
        PROVE  IdentitiesInv'
    BY <1>3 DEF Unheard, database, hosts, IdentitiesInv, Inserted, Kept, OwnID, Typed
  <1>4. ASSUME NEW r \in Requests, Commit(r)
        PROVE  IdentitiesInv'
    <2>1. /\ UNCHANGED <<from, at, asked, got, file>>
          /\ stage' = [stage EXCEPT ![r] = "done"]
      BY Zenon, <1>4 DEF Commit, Step, hosts
    <2>2. \A q \in Requests : Inserted(q)'
      BY Zenon, <1>4, RowsStay DEF IdentitiesInv
    <2>3. \A h \in Hosts : OwnID(h, got[h]) => OwnID(h, got[h])'
      BY Zenon, <1>4, <2>1, RowsStay DEF Typed
    <2>4. \A h \in Hosts : OwnID(h, file[h]) => OwnID(h, file[h])'
      BY Zenon, <1>4, <2>1, RowsStay DEF Typed
    <2>5. ASSUME NEW h \in Hosts PROVE Kept(h)'
      BY Zenon, <2>1, <2>3, <2>4 DEF IdentitiesInv, Kept, Typed
    <2> QED
      BY Zenon, <2>2, <2>5 DEF IdentitiesInv
  <1>5. ASSUME NEW h \in Hosts, NEW r \in Requests, Ask(h, r)
        PROVE  IdentitiesInv'
    <2>1. /\ at[h] = "down" /\ at' = [at EXCEPT ![h] = "asking"]
          /\ stage[r] = "idle" /\ stage' = [stage EXCEPT ![r] = "begun"]
          /\ asked' = [asked EXCEPT ![h] = r]
          /\ from' = [from EXCEPT ![r] = h]
          /\ UNCHANGED <<collectors, got, file>>
      BY Zenon, <1>5 DEF Ask, Step, database
    <2>2. \A q \in Requests : Inserted(q)'
      BY Zenon, <2>1 DEF IdentitiesInv, Inserted, Typed
    <2>3. ASSUME NEW g \in Hosts PROVE Kept(g)'
      <3>1. Kept(g)
        BY Zenon DEF IdentitiesInv
      <3>2. CASE g = h
        BY Zenon, EnrollmentAssumption, <2>1, <3>1, <3>2 DEF Kept, OwnID, Typed
      <3>3. CASE g # h
        BY Zenon, <2>1, <3>1, <3>3 DEF Kept, OwnID, Typed
      <3> QED
        BY Zenon, <3>2, <3>3
    <2> QED
      BY Zenon, <2>2, <2>3 DEF IdentitiesInv
  <1>6. ASSUME NEW h \in Hosts, Hear(h)
        PROVE  IdentitiesInv'
    <2>1. PICK i \in DOMAIN collectors :
            asked[h] \in Requests /\ collectors[i].host = h /\ got' = [got EXCEPT ![h] = i]
      BY Zenon, <1>6, HearPicks
    <2>2. /\ at[h] = "asking" /\ at' = [at EXCEPT ![h] = "saving"]
          /\ asked' = [asked EXCEPT ![h] = NoRequest]
          /\ stage' = [stage EXCEPT ![asked[h]] = "idle"]
          /\ UNCHANGED <<collectors, from, file>>
      BY Zenon, <1>6 DEF Hear, database
    <2> QED
      BY <2>1, <2>2 DEF IdentitiesInv, Inserted, Kept, OwnID, Typed
  <1>7. ASSUME NEW h \in Hosts, HearRefusal(h)
        PROVE  IdentitiesInv'
    BY <1>7 DEF HearRefusal, database, IdentitiesInv, Inserted, Kept, OwnID, Typed
  <1>8. ASSUME NEW h \in Hosts, Create(h) \/ Fill(h) \/ Load(h) \/ Stop(h)
        PROVE  IdentitiesInv'
    <2>1. UNCHANGED <<collectors, stage, from>>
      BY Zenon, <1>8 DEF Create, Fill, Load, Stop, database, handlers
    <2>2. \A q \in Requests : Inserted(q)'
      BY Zenon, <2>1 DEF IdentitiesInv, Inserted
    <2>3. \A i \in DOMAIN collectors : i > 0
      BY DEF Typed
    <2>4. ASSUME NEW g \in Hosts, g # h PROVE Kept(g)'
      <3>1. Kept(g)
        BY Zenon DEF IdentitiesInv
      <3>2. at'[g] = at[g] /\ asked'[g] = asked[g] /\ got'[g] = got[g] /\ file'[g] = file[g]
        BY <1>8, <2>4 DEF Create, Fill, Load, Stop, Typed
      <3> QED
        BY Zenon, <2>1, <3>1, <3>2 DEF Kept, OwnID
    <2>5. Kept(h)
      BY Zenon DEF IdentitiesInv
    <2>6. ASSUME Create(h) PROVE Kept(h)'
      BY Zenon, <2>1, <2>5, <2>6 DEF Create, Kept, OwnID, Typed, Torn
    <2>7. ASSUME Fill(h) PROVE Kept(h)'
      BY Zenon, <2>1, <2>3, <2>5, <2>7 DEF Fill, Kept, OwnID, Typed
    <2>8. ASSUME Load(h) PROVE Kept(h)'
      BY Zenon, <2>1, <2>3, <2>5, <2>8 DEF Load, Kept, OwnID, Typed
    <2>9. ASSUME Stop(h) PROVE Kept(h)'
      BY Zenon, <2>1, <2>5, <2>9 DEF Stop, Kept, OwnID, Typed
    <2> QED
      BY Zenon, <1>8, <2>2, <2>4, <2>6, <2>7, <2>8, <2>9 DEF IdentitiesInv
  <1> QED
    BY Zenon, <1>1, <1>2, <1>3, <1>4, <1>5, <1>6, <1>7, <1>8 DEF Next, Handle, Start

-----------------------------------------------------------------------------
EnrollmentInv == Typed /\ TokensInv /\ IdentitiesInv

(* The invariant the other two rest on, for any hosts, tokens, handlers    *)
(* and lifetimes: types, the row lock of a token between the UPDATE and    *)
(* the commit of enroll, and whose collector a handler or a host holds.    *)
THEOREM EnrollmentInvariant == Spec => []EnrollmentInv
  <1>1. Init => TokensInv
    BY DEF Init, TokensInv, TokensEnrolOne, Held
  <1>2. Init => IdentitiesInv
    BY Zenon DEF Init, IdentitiesInv, Inserted, Kept
  <1>3. EnrollmentInv /\ [Next]_vars => EnrollmentInv'
    BY Zenon, TypedStep, TokensStep, IdentitiesStep DEF EnrollmentInv
  <1> QED
    BY <1>1, <1>2, <1>3, InitTyped, PTL DEF Spec, EnrollmentInv

(* TokensEnrolOne for any number of hosts and overlapping attempts: enroll *)
(* inserts one collector for a token and sets used_at exactly then.        *)
THEOREM TokensEnrol == Spec => []TokensEnrolOne
  <1>1. EnrollmentInv => TokensEnrolOne
    BY Zenon DEF EnrollmentInv, TokensInv
  <1> QED
    BY <1>1, EnrollmentInvariant, PTL

(* IdentitiesAreOwn for any number of hosts and overlapping attempts:      *)
(* loadOrEnroll saves, loads and runs with an identity issued to its host. *)
THEOREM IdentitiesOwn == Spec => []IdentitiesAreOwn
  <1>1. ASSUME EnrollmentInv PROVE IdentitiesAreOwn
    <2> SUFFICES ASSUME NEW h \in Hosts
                 PROVE  /\ file[h] > 0 => collectors[file[h]].host = h
                        /\ got[h] > 0 => collectors[got[h]].host = h
                        /\ at[h] = "running" => file[h] > 0
      BY Zenon DEF IdentitiesAreOwn
    <2>1. Kept(h)
      BY Zenon, <1>1 DEF EnrollmentInv, IdentitiesInv
    <2>2. file[h] > 0 => collectors[file[h]].host = h
      BY <2>1 DEF Kept, OwnID, Absent, Torn
    <2>3. got[h] > 0 => collectors[got[h]].host = h
      BY <2>1 DEF Kept, OwnID
    <2> QED
      BY Zenon, <2>1, <2>2, <2>3 DEF Kept
  <1> QED
    BY <1>1, EnrollmentInvariant, PTL

=============================================================================
