------------------------------- MODULE Migrate -------------------------------
(***************************************************************************)
(* DB.Migrate, run at the start of every API process and of the bootstrap  *)
(* command.  A runner takes a session-level advisory lock, walks its       *)
(* migrations in order, skips those recorded in schema_migrations and runs *)
(* each other one in a transaction with its record.  Binaries of two       *)
(* releases may start together: each knows a prefix of the migrations.     *)
(***************************************************************************)
EXTENDS Naturals, Sequences

CONSTANTS
    Runners,
    Known,      \* how many migrations a runner's binary embeds
    MaxStarts   \* bound on the starts of a runner

ASSUME MigrateAssumption == Known \in [Runners -> Nat] /\ MaxStarts \in Nat

VARIABLES
    schema,     \* the migrations whose SQL took effect, in the order they did
    recorded,   \* schema_migrations
    lock,       \* the runners that hold the advisory lock
    at,         \* what a runner is doing
    place,      \* the migration a runner has come to
    starts

vars == <<schema, recorded, lock, at, place, starts>>

Init ==
    /\ schema = <<>>
    /\ recorded = {}
    /\ lock = {}
    /\ at = [r \in Runners |-> "down"]
    /\ place = [r \in Runners |-> 1]
    /\ starts = [r \in Runners |-> 0]

Go(r, source, target) == at[r] = source /\ at' = [at EXCEPT ![r] = target]

Start(r) ==
    /\ Go(r, "down", "waiting")
    /\ starts[r] < MaxStarts
    /\ starts' = [starts EXCEPT ![r] = @ + 1]
    /\ place' = [place EXCEPT ![r] = 1]
    /\ UNCHANGED <<schema, recorded, lock>>

LockVariant(r) ==
    /\ Go(r, "waiting", "check")
    /\ lock' = lock \cup {r}
    /\ UNCHANGED <<schema, recorded, place, starts>>

Lock(r) ==
    /\ Go(r, "waiting", "check")
    /\ lock = {}
    /\ lock' = lock \cup {r}
    /\ UNCHANGED <<schema, recorded, place, starts>>

Skip(r) ==
    /\ at[r] = "check" /\ place[r] <= Known[r] /\ place[r] \in recorded
    /\ place' = [place EXCEPT ![r] = @ + 1]
    /\ UNCHANGED <<schema, recorded, lock, at, starts>>

Begin(r) ==
    /\ place[r] <= Known[r] /\ place[r] \notin recorded
    /\ Go(r, "check", "apply")
    /\ UNCHANGED <<schema, recorded, lock, place, starts>>

ApplyVariant(r) ==
    /\ Go(r, "apply", "check")
    /\ schema' = Append(schema, place[r])
    /\ place' = [place EXCEPT ![r] = @ + 1]
    /\ UNCHANGED <<recorded, lock, starts>>

(* The script and the record of it commit together.                        *)
Apply(r) ==
    /\ Go(r, "apply", "check")
    /\ schema' = Append(schema, place[r])
    /\ recorded' = recorded \cup {place[r]}
    /\ place' = [place EXCEPT ![r] = @ + 1]
    /\ UNCHANGED <<lock, starts>>

FinishVariant(r) ==
    /\ place[r] > Known[r]
    /\ Go(r, "check", "serving")
    /\ UNCHANGED <<schema, recorded, lock, place, starts>>

(* The deferred unlock, and the caller goes on.                            *)
Finish(r) ==
    /\ place[r] > Known[r]
    /\ Go(r, "check", "serving")
    /\ lock' = lock \ {r}
    /\ UNCHANGED <<schema, recorded, place, starts>>

(* An error rolls back and unlocks; a process that dies takes its          *)
(* session, and with it transaction and lock, with it.                     *)
Stop(r) ==
    /\ at[r] # "down"
    /\ at' = [at EXCEPT ![r] = "down"]
    /\ lock' = lock \ {r}
    /\ UNCHANGED <<schema, recorded, place, starts>>

Run(r) == Lock(r) \/ Skip(r) \/ Begin(r) \/ Apply(r) \/ Finish(r)

Next == \E r \in Runners : Start(r) \/ Run(r) \/ Stop(r)

Spec == Init /\ [][Next]_vars

=============================================================================
