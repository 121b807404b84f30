-------------------------------- MODULE Server --------------------------------
(***************************************************************************)
(* API processes from their start on: each brings the schema up to date    *)
(* (Migrate) and then serves snapshots, the transactions of which append   *)
(* to the audit chain (AuditChain).  A process that stops rolls its        *)
(* transaction back and drops the locks of its session.  A process has one *)
(* appending transaction at a time, which its own others would wait for.   *)
(***************************************************************************)
EXTENDS Migrate

CONSTANTS Precision, MaxTime, MaxEvents    \* of AuditChain

ASSUME ServerAssumption ==
    Precision \in Nat \ {0} /\ MaxTime \in Nat /\ MaxEvents \in Nat

VARIABLES clock, rows, stage, draft    \* of AuditChain

Audit == INSTANCE AuditChain WITH Writers <- Runners

audit == <<clock, rows, stage, draft>>
processes == <<vars, audit>>

ServerInit == Init /\ Audit!Init

(* Start, and the run of Migrate up to serving.                            *)
BringUp(r) == (Start(r) \/ Run(r)) /\ UNCHANGED audit

Serve(r) ==
    /\ at[r] = "serving"
    /\ UNCHANGED vars
    /\ \/ \E id \in Audit!IDs : Audit!Stamp(r, id)
       \/ Audit!Lock(r) \/ Audit!Insert(r) \/ Audit!Commit(r) \/ Audit!Rollback(r)

GoDown(r) ==
    /\ Stop(r)
    /\ IF stage[r] = "idle" THEN UNCHANGED audit ELSE Audit!Rollback(r)

ServerNext ==
    \/ \E r \in Runners : BringUp(r) \/ Serve(r) \/ GoDown(r)
    \/ Audit!Tick /\ UNCHANGED vars

(* The database grants the lock to those who wait for it, and a process    *)
(* that has begun to migrate goes on.                                      *)
ServerSpec ==
    /\ ServerInit /\ [][ServerNext]_processes
    /\ \A r \in Runners :
        /\ WF_processes(Run(r) /\ UNCHANGED audit)
        /\ SF_processes(Lock(r) /\ UNCHANGED audit)

-----------------------------------------------------------------------------
(* Whichever runners overlap, fail or die, every migration takes effect    *)
(* once and in order, and is recorded exactly when it has.                 *)
OnceInOrder ==
    /\ \A i \in DOMAIN schema : schema[i] = i
    /\ recorded = 1..Len(schema)

(* A process serves, and appends events, only with every migration it      *)
(* knows in place.                                                         *)
ServingIsMigrated ==
    \A r \in Runners :
        at[r] = "serving" \/ stage[r] # "idle" => \A v \in 1..Known[r] : v \in recorded

(* A runner that waits for another one gets to serve, unless it is stopped *)
(* itself.                                                                 *)
RunnersServe ==
    \A r \in Runners : at[r] = "waiting" ~> at[r] \in {"serving", "down"}

(* Appending is serialized: however transactions interleave, roll back and *)
(* die with their process, an event links to the latest, by time, of the   *)
(* events committed before it (Append in audit.go and its advisory lock).  *)
LinksToLatest ==
    \A i \in DOMAIN rows :
        rows[i].previous = Audit!LastHash({rows[j] : j \in 1..(i - 1)})

CommittedInOrder == \A i, j \in DOMAIN rows : i < j => Audit!Before(rows[i], rows[j])

(* Whether the time that was hashed is the time that was stored.           *)
KeepsItsTime(e) == e.hash[Len(e.hash)][2] = e.at

(* When the transactions commit in the order of their events' times,       *)
(* Verify accepts the stored chain exactly if no event's time had digits   *)
(* the column does not keep.                                               *)
OrderedChainsVerify ==
    CommittedInOrder => (Audit!Verify(rows) <=> \A i \in DOMAIN rows : KeepsItsTime(rows[i]))

(* From a chain that Verify accepts no event but the last can be taken     *)
(* out unnoticed.                                                          *)
RemovalShows ==
    Audit!Verify(rows) =>
        \A i \in 1..(Len(rows) - 1) :
            ~Audit!Verify(SubSeq(rows, 1, i - 1) \o SubSeq(rows, i + 1, Len(rows)))

=============================================================================
