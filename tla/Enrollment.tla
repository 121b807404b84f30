------------------------------ MODULE Enrollment ------------------------------
(***************************************************************************)
(* How a collector gets its identity: the bootstrap command issues a       *)
(* token, loadOrEnroll posts it with a fresh public key, the handler       *)
(* enroll spends it in one transaction with the rows of the new collector, *)
(* and the collector keeps the answer in identity.json.  Attempts overlap: *)
(* two hosts may hold one token, and a host that gave up may ask again     *)
(* while the handler of its first attempt still runs.                      *)
(***************************************************************************)
EXTENDS Integers, Sequences

CONSTANTS
    Hosts,      \* data directories of collectors
    Tokens,     \* enrollment tokens, each of an organization of its own
    TokenOf,    \* the token a host is configured with
    Requests,   \* handlers of enroll that may run at once
    Lifetime,   \* -collector-token-ttl
    MaxTime,    \* bound on the clock
    NoRequest

ASSUME EnrollmentAssumption ==
    /\ Hosts # {} /\ TokenOf \in [Hosts -> Tokens]
    /\ NoRequest \notin Requests
    /\ Lifetime \in Nat \ {0} /\ MaxTime \in Nat

VARIABLES
    now,
    expires,      \* expires_at of a token, 0 before it is issued
    used,         \* tokens with used_at set
    collectors,   \* the enrolled collectors in order; a collector's id is its place
    stage,        \* of a handler
    from,         \* the host a handler answers
    began,        \* now() of a handler's transaction
    at,           \* what a host is doing
    asked,        \* the handler a host waits for
    got,          \* the id in the answer a host is saving
    file          \* identity.json: absent, cut short, or an id

database == <<expires, used, collectors>>
handlers == <<stage, from, began>>
hosts == <<at, asked, got, file>>
vars == <<now, database, handlers, hosts>>

Absent == 0
Torn == -1

Init ==
    /\ now = 0
    /\ expires = [t \in Tokens |-> 0]
    /\ used = {}
    /\ collectors = <<>>
    /\ stage = [r \in Requests |-> "idle"]
    /\ from = [r \in Requests |-> CHOOSE h \in Hosts : TRUE]
    /\ began = [r \in Requests |-> 0]
    /\ at = [h \in Hosts |-> "down"]
    /\ asked = [h \in Hosts |-> NoRequest]
    /\ got = [h \in Hosts |-> 0]
    /\ file = [h \in Hosts |-> Absent]

Tick ==
    /\ now < MaxTime
    /\ now' = now + 1
    /\ UNCHANGED <<database, handlers, hosts>>

(* The organization's rows are new, so there is one token for each.        *)
Bootstrap(t) ==
    /\ expires[t] = 0
    /\ expires' = [expires EXCEPT ![t] = now + Lifetime]
    /\ UNCHANGED <<now, used, collectors, handlers, hosts>>

-----------------------------------------------------------------------------
(* The handler.                                                            *)

Step(r, source, target) ==
    /\ stage[r] = source
    /\ stage' = [stage EXCEPT ![r] = target]

Token(r) == TokenOf[from[r]]

(* The handlers whose transaction holds the row of a token.                *)
Holders(t) == {r \in Requests : stage[r] \in {"spent", "inserted"} /\ Token(r) = t}

(* The UPDATE waits for the row and looks at used_at again once it has it. *)
Spend(r) ==
    /\ Step(r, "begun", "spent")
    /\ Holders(Token(r)) = {}
    /\ Token(r) \notin used
    /\ expires[Token(r)] > began[r]
    /\ UNCHANGED <<now, database, from, began, hosts>>

Invalid(r) ==
    /\ Step(r, "begun", "refused")
    /\ Holders(Token(r)) = {}
    /\ Token(r) \in used \/ expires[Token(r)] <= began[r]
    /\ UNCHANGED <<now, database, from, began, hosts>>

Insert(r) ==
    /\ Step(r, "spent", "inserted")
    /\ UNCHANGED <<now, database, from, began, hosts>>

CommitVariant(r) ==
    /\ Step(r, "inserted", "done")
    /\ collectors' = Append(collectors, [token |-> Token(r), host |-> from[r], by |-> r])
    /\ UNCHANGED <<now, expires, used, from, began, hosts>>

Commit(r) ==
    /\ Step(r, "inserted", "done")
    /\ used' = used \cup {Token(r)}
    /\ collectors' = Append(collectors, [token |-> Token(r), host |-> from[r], by |-> r])
    /\ UNCHANGED <<now, expires, from, began, hosts>>

FailVariant(r) ==
    /\ stage[r] \in {"begun", "spent", "inserted"}
    /\ stage' = [stage EXCEPT ![r] = "refused"]
    /\ used' = used \cup {Token(r)}
    /\ UNCHANGED <<now, expires, collectors, from, began, hosts>>

(* Rate limit, bad key, bad connector type or an error of the database:    *)
(* whatever the transaction did is rolled back.                            *)
Fail(r) ==
    /\ stage[r] \in {"begun", "spent", "inserted"}
    /\ stage' = [stage EXCEPT ![r] = "refused"]
    /\ UNCHANGED <<now, database, from, began, hosts>>

(* An answer nobody waits for any more.                                    *)
Unheard(r) ==
    /\ stage[r] \in {"done", "refused"}
    /\ \A h \in Hosts : asked[h] # r
    /\ stage' = [stage EXCEPT ![r] = "idle"]
    /\ UNCHANGED <<now, database, from, began, hosts>>

-----------------------------------------------------------------------------
(* The collector's start.                                                  *)

Ask(h, r) ==
    /\ at[h] = "down" /\ file[h] = Absent /\ expires[TokenOf[h]] # 0
    /\ Step(r, "idle", "begun")
    /\ at' = [at EXCEPT ![h] = "asking"]
    /\ asked' = [asked EXCEPT ![h] = r]
    /\ from' = [from EXCEPT ![r] = h]
    /\ began' = [began EXCEPT ![r] = now]
    /\ UNCHANGED <<now, database, got, file>>

(* The id a handler answers with is the one it has inserted.               *)
Hear(h) ==
    /\ at[h] = "asking" /\ stage[asked[h]] = "done"
    /\ at' = [at EXCEPT ![h] = "saving"]
    /\ got' = [got EXCEPT ![h] =
                CHOOSE i \in DOMAIN collectors :
                    /\ collectors[i].by = asked[h]
                    /\ \A j \in DOMAIN collectors : collectors[j].by = asked[h] => j <= i]
    /\ asked' = [asked EXCEPT ![h] = NoRequest]
    /\ stage' = [stage EXCEPT ![asked[h]] = "idle"]
    /\ UNCHANGED <<now, database, from, began, file>>

HearRefusal(h) ==
    /\ at[h] = "asking" /\ stage[asked[h]] = "refused"
    /\ at' = [at EXCEPT ![h] = "down"]
    /\ asked' = [asked EXCEPT ![h] = NoRequest]
    /\ stage' = [stage EXCEPT ![asked[h]] = "idle"]
    /\ UNCHANGED <<now, database, from, began, got, file>>

(* os.WriteFile creates the file and then fills it.                        *)
Create(h) ==
    /\ at[h] = "saving" /\ file[h] = Absent
    /\ file' = [file EXCEPT ![h] = Torn]
    /\ UNCHANGED <<now, database, handlers, at, asked, got>>

Fill(h) ==
    /\ at[h] = "saving" /\ file[h] = Torn
    /\ file' = [file EXCEPT ![h] = got[h]]
    /\ at' = [at EXCEPT ![h] = "running"]
    /\ got' = [got EXCEPT ![h] = 0]
    /\ UNCHANGED <<now, database, handlers, asked>>

LoadVariant(h) ==
    /\ at[h] = "down" /\ file[h] # Absent
    /\ at' = [at EXCEPT ![h] = "running"]
    /\ UNCHANGED <<now, database, handlers, asked, got, file>>

(* A file that does not decode, or is incomplete, ends the start.          *)
Load(h) ==
    /\ at[h] = "down" /\ file[h] \notin {Absent, Torn}
    /\ at' = [at EXCEPT ![h] = "running"]
    /\ UNCHANGED <<now, database, handlers, asked, got, file>>

(* The answer is lost or late, or the collector is killed.                 *)
Stop(h) ==
    /\ at[h] # "down"
    /\ at' = [at EXCEPT ![h] = "down"]
    /\ asked' = [asked EXCEPT ![h] = NoRequest]
    /\ got' = [got EXCEPT ![h] = 0]
    /\ UNCHANGED <<now, database, handlers, file>>

-----------------------------------------------------------------------------
Handle(r) == Spend(r) \/ Invalid(r) \/ Insert(r) \/ Commit(r) \/ Fail(r) \/ Unheard(r)

Start(h) ==
    \/ \E r \in Requests : Ask(h, r)
    \/ Hear(h) \/ HearRefusal(h) \/ Create(h) \/ Fill(h) \/ Load(h)

Next ==
    \/ Tick
    \/ \E t \in Tokens : Bootstrap(t)
    \/ \E r \in Requests : Handle(r)
    \/ \E h \in Hosts : Start(h) \/ Stop(h)

Spec == Init /\ [][Next]_vars

(* Handlers end, collectors are started again when they exit, and an       *)
(* enrollment is not broken off every time it is tried.                    *)
FairSpec ==
    /\ Spec
    /\ \A r \in Requests :
        /\ WF_vars(Handle(r))
        /\ SF_vars(Spend(r)) /\ SF_vars(Insert(r)) /\ SF_vars(Commit(r))
    /\ \A h \in Hosts : WF_vars(Start(h))

-----------------------------------------------------------------------------
(* A token stands for one collector: of the attempts that carry it, those  *)
(* of two hosts or of one host twice, one inserts a collector, and it is   *)
(* spent exactly when it has (the UPDATE and the INSERTs of enroll are one *)
(* transaction).                                                           *)
TokensEnrolOne ==
    /\ \A i, j \in DOMAIN collectors :
        collectors[i].token = collectors[j].token => i = j
    /\ used = {collectors[i].token : i \in DOMAIN collectors}

(* The identity a host runs with or keeps is that of a collector enrolled  *)
(* for this host, so no two hosts sign with one identity, whichever order  *)
(* the handlers end in.                                                    *)
IdentitiesAreOwn ==
    \A h \in Hosts :
        /\ file[h] > 0 => collectors[file[h]].host = h
        /\ got[h] > 0 => collectors[got[h]].host = h
        /\ at[h] = "running" => file[h] > 0

(* An attempt that fails does not cost the token: an issued token ends up  *)
(* spent on a collector unless its lifetime ends first.                    *)
TokensAreSpent ==
    \A t \in Tokens :
        expires[t] # 0 ~> (expires[t] <= now \/ \E i \in DOMAIN collectors : collectors[i].token = t)

=============================================================================
