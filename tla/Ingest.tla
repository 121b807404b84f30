------------------------------- MODULE Ingest -------------------------------
(***************************************************************************)
(* The control plane's snapshot endpoint: collectorSnapshot in             *)
(* internal/app/app.go.                                                    *)
(*                                                                         *)
(* Each request is handled by a goroutine of its own.  Up to the beginning *)
(* of its transaction a handler reads committed rows; from there on it     *)
(* holds the advisory lock of its connector.  The rows of source_snapshots *)
(* become visible when the transaction commits, and a row's ID is unique   *)
(* over all organizations.                                                 *)
(***************************************************************************)
EXTENDS Protocol

CONSTANTS
    Requests,     \* requests in flight at a time
    OrgOf,        \* the organization of each collector
    ReplayWindow, \* 24 hours
    Tolerance,    \* five minutes
    NoRequest

ASSUME IngestAssumption ==
    /\ ReplayWindow \in Nat
    /\ Tolerance \in Nat
    /\ NoRequest \notin Requests

VARIABLES
    stage,    \* how far the handler of each request has come
    carried,  \* the snapshot each request carries
    history,  \* the rows of source_snapshots of each collector's connector
    trusted   \* credential not revoked, connector enabled and bound to it

ingestVars == <<stage, carried, history, trusted>>

Stages == {"none", "sent", "admitted", "locked", "staged"}

IngestInit ==
    /\ stage = [r \in Requests |-> "none"]
    /\ carried = [r \in Requests |-> NoSnapshot]
    /\ history = [c \in Collectors |-> {}]
    /\ trusted = [c \in Collectors |-> TRUE]

Sender(r) == carried[r].by

Advance(r, s) ==
    /\ stage' = [stage EXCEPT ![r] = s]
    /\ UNCHANGED carried

(* The handler returns; the deferred Rollback ends its transaction.        *)
Return(r) ==
    /\ stage' = [stage EXCEPT ![r] = "none"]
    /\ carried' = [carried EXCEPT ![r] = NoSnapshot]

Arrive(r, s) ==
    /\ stage[r] = "none"
    /\ stage' = [stage EXCEPT ![r] = "sent"]
    /\ carried' = [carried EXCEPT ![r] = s]
    /\ UNCHANGED <<history, trusted>>

(* The credential, and the connector bound to it, as committed rows.       *)
CollectorPrincipal(c) == trusted[c]

(* The replay window, and the tolerance for clocks that run ahead.         *)
Timely(s) ==
    /\ now <= s.taken + ReplayWindow
    /\ s.taken <= now + Tolerance

(* The checks made before the transaction: collectorPrincipal, the binding *)
(* of the snapshot and of its connector, the contract, the replay window.  *)
AdmissibleVariant(s) == s.content # "malformed" /\ Timely(s)

Admissible(s) ==
    /\ CollectorPrincipal(s.by)
    /\ s.content # "malformed"
    /\ Timely(s)

Admit(r) ==
    /\ stage[r] = "sent"
    /\ Admissible(carried[r])
    /\ Advance(r, "admitted")
    /\ UNCHANGED <<history, trusted>>

Refuse(r) ==
    /\ stage[r] = "sent"
    /\ ~Admissible(carried[r])
    /\ Return(r)
    /\ UNCHANGED <<history, trusted>>

InTransaction(r) == stage[r] \in {"locked", "staged"}

Lock(r) ==
    /\ stage[r] = "admitted"
    /\ \A q \in Requests : InTransaction(q) => Sender(q) # Sender(r)
    /\ Advance(r, "locked")
    /\ UNCHANGED <<history, trusted>>

KnownVariant(s) == {}

(* The row the history query finds: by ID, in the sender's organization.   *)
Known(s) ==
    {t \in UNION {history[c] : c \in {d \in Collectors : OrgOf[d] = OrgOf[s.by]}} : t.seq = s.seq}

(* Same ID and content: the stored status is answered, nothing is applied. *)
Repeat(r) ==
    /\ stage[r] = "locked"
    /\ carried[r] \in Known(carried[r])
    /\ Return(r)
    /\ UNCHANGED <<history, trusted>>

(* The INSERT of the RUNNING row goes through: the number is past the      *)
(* connector's greatest and the ID is not taken in any organization.       *)
StageableVariant(s) == \A c \in Collectors : \A t \in history[c] : t.seq # s.seq

Stageable(s) ==
    /\ \A t \in history[s.by] : t.seq < s.seq
    /\ \A c \in Collectors : \A t \in history[c] : t.seq # s.seq

(* 409 snapshot_identity_conflict or snapshot_replay, 422 for a taken ID.  *)
Reject(r) ==
    /\ stage[r] = "locked"
    /\ carried[r] \notin Known(carried[r])
    /\ ~Stageable(carried[r])
    /\ Return(r)
    /\ UNCHANGED <<history, trusted>>

(* An INSERT waits for an open transaction that has inserted the same ID.  *)
Stage(r) ==
    /\ stage[r] = "locked"
    /\ Known(carried[r]) = {}
    /\ Stageable(carried[r])
    /\ \A q \in Requests : stage[q] = "staged" => carried[q].seq # carried[r].seq
    /\ Advance(r, "staged")
    /\ UNCHANGED <<history, trusted>>

(* ApplyPostgres, the SUCCEEDED status, the audit event and the commit.    *)
Commit(r) ==
    /\ stage[r] = "staged"
    /\ carried[r].content # "conflicting"
    /\ history' = [history EXCEPT ![Sender(r)] = @ \cup {carried[r]}]
    /\ Return(r)
    /\ UNCHANGED trusted

ApplyFails(r) ==
    /\ stage[r] = "staged"
    /\ carried[r].content = "conflicting"
    /\ Return(r)
    /\ UNCHANGED <<history, trusted>>

(* The rate limit, a database error, a restart, or the end of the          *)
(* request's context when the client hangs up.                             *)
Fail(r) ==
    /\ stage[r] # "none"
    /\ Return(r)
    /\ UNCHANGED <<history, trusted>>

(* External: an operator revokes the credential or disables the connector. *)
Revoke(c) ==
    /\ trusted[c]
    /\ trusted' = [trusted EXCEPT ![c] = FALSE]
    /\ UNCHANGED <<stage, carried, history>>

=============================================================================
