----------------------------- MODULE AuditChain -----------------------------
(***************************************************************************)
(* The audit chain of one organization: Append and Verify in               *)
(* internal/audit/audit.go, Append being the last statement group of the   *)
(* transactions of internal/app/app.go that append.                        *)
(*                                                                         *)
(* A hash is stood for by what is hashed: the previous hash and the        *)
(* canonical content, here the event's ID and time.  occurred_at keeps     *)
(* microseconds and the canonical content has nanoseconds; Precision is    *)
(* the number of instants that are stored as one.                          *)
(***************************************************************************)
EXTENDS Naturals, Sequences

CONSTANTS
    Writers,    \* transactions that append
    Precision,  \* a positive number
    MaxTime,    \* bound on the clock
    MaxEvents   \* bound on the events

VARIABLES
    clock,
    rows,   \* audit_events, in the order the rows were committed
    stage,  \* how far each transaction is in Append
    draft   \* its event

vars == <<clock, rows, stage, draft>>

IDs == 1..MaxEvents

Committed == {rows[i] : i \in DOMAIN rows}

NoDraft == [id |-> 0, at |-> 0, previous |-> << >>, hash |-> << >>]

(* time.Time to timestamptz.                                               *)
Stored(t) == (t \div Precision) * Precision

AuditHash(previous, id, time) == Append(previous, <<id, time>>)

Before(e, f) == e.at < f.at \/ (e.at = f.at /\ e.id < f.id)

(* ORDER BY occurred_at DESC, id DESC LIMIT 1                              *)
LastHash(events) ==
    IF events = {} THEN << >>
    ELSE (CHOOSE e \in events : \A f \in events \ {e} : Before(f, e)).hash

Init ==
    /\ clock = 0
    /\ rows = << >>
    /\ stage = [w \in Writers |-> "idle"]
    /\ draft = [w \in Writers |-> NoDraft]

Go(w, s) == stage' = [stage EXCEPT ![w] = s]

(* The event is given its ID and, before any lock, its time.               *)
Stamp(w, id) ==
    /\ stage[w] = "idle"
    /\ \A e \in Committed : e.id # id
    /\ \A v \in Writers : draft[v].id # id
    /\ draft' = [draft EXCEPT ![w] = [NoDraft EXCEPT !.id = id, !.at = clock]]
    /\ Go(w, "stamped")
    /\ UNCHANGED <<clock, rows>>

LockVariant(w) ==
    /\ stage[w] = "stamped"
    /\ Go(w, "locked")
    /\ UNCHANGED <<clock, rows, draft>>

(* pg_advisory_xact_lock on audit|organization, held to the commit.        *)
Lock(w) ==
    /\ stage[w] = "stamped"
    /\ \A v \in Writers : stage[v] \notin {"locked", "inserted"}
    /\ Go(w, "locked")
    /\ UNCHANGED <<clock, rows, draft>>

Insert(w) ==
    LET previous == LastHash(Committed)
        e == draft[w]
    IN
    /\ stage[w] = "locked"
    /\ draft' = [draft EXCEPT ![w] =
          [id |-> e.id, at |-> Stored(e.at), previous |-> previous, hash |-> AuditHash(previous, e.id, e.at)]]
    /\ Go(w, "inserted")
    /\ UNCHANGED <<clock, rows>>

Commit(w) ==
    /\ stage[w] = "inserted"
    /\ rows' = Append(rows, draft[w])
    /\ draft' = [draft EXCEPT ![w] = NoDraft]
    /\ Go(w, "idle")
    /\ UNCHANGED clock

Rollback(w) ==
    /\ stage[w] # "idle"
    /\ draft' = [draft EXCEPT ![w] = NoDraft]
    /\ Go(w, "idle")
    /\ UNCHANGED <<clock, rows>>

Tick ==
    /\ clock < MaxTime
    /\ clock' = clock + 1
    /\ UNCHANGED <<rows, stage, draft>>

Next ==
    \/ \E w \in Writers :
          \/ \E id \in IDs : Stamp(w, id)
          \/ Lock(w) \/ Insert(w) \/ Commit(w) \/ Rollback(w)
    \/ Tick

Spec == Init /\ [][Next]_vars

(* Every event must name its predecessor's hash and carry its own.         *)
VerifyVariant(events) ==
    \A i \in DOMAIN events :
        events[i].hash = AuditHash(events[i].previous, events[i].id, events[i].at)

Verify(events) ==
    \A i \in DOMAIN events :
        LET previous == IF i = 1 THEN << >> ELSE events[i - 1].hash IN
        /\ events[i].previous = previous
        /\ events[i].hash = AuditHash(previous, events[i].id, events[i].at)

=============================================================================
