------------------------------- MODULE Sessions -------------------------------
(***************************************************************************)
(* The browser's way in, for one user with a second factor: login checks   *)
(* the password, verifySecondFactor spends a recovery code or checks a     *)
(* TOTP code, and a session row is inserted.  Requests look their session  *)
(* up, then the user's permissions, and are then served.  Logins and       *)
(* requests overlap with each other, with logout, and with an operator who *)
(* deactivates the user or takes a role away.  Statements run one by one,  *)
(* none of this is a transaction.                                          *)
(***************************************************************************)
EXTENDS Integers

CONSTANTS
    Logins,     \* login handlers, each run once
    Views,      \* requests that may be in flight
    Codes,      \* recovery codes of the user
    Drift,      \* TOTP steps by which a code may be early or late
    Lifetime,   \* of a session
    MaxTime,    \* bound on the clock, in TOTP steps
    NoCode, NoLogin

ASSUME SessionsAssumption ==
    Drift \in Nat /\ Lifetime \in Nat /\ MaxTime \in Nat /\ NoCode \notin Codes /\ NoLogin \notin Logins

VARIABLES
    now,
    active,     \* users.active
    granted,    \* whether the user's roles give the permission requests need
    unused,     \* recovery codes with used_at null
    stage,      \* of a login
    given,      \* the recovery code and the TOTP code, named by its step, of a login
    by,         \* the second factor a login passed with
    opened,     \* when a login's session was inserted; -1 before
    revoked,    \* the logins whose session has revoked_at set
    view,       \* of a request: what it has done, and the login whose session it carries
    allowed     \* whether the permission is in a request's principal

user == <<active, granted>>
logins == <<unused, stage, given, by, opened>>
vars == <<now, user, logins, revoked, view, allowed>>

Init ==
    /\ now = 0
    /\ active = TRUE /\ granted = TRUE
    /\ unused = Codes
    /\ stage = [l \in Logins |-> "idle"]
    /\ given = [l \in Logins |-> <<NoCode, 0>>]
    /\ by = [l \in Logins |-> "none"]
    /\ opened = [l \in Logins |-> -1]
    /\ revoked = {}
    /\ view = [v \in Views |-> <<"idle", NoLogin>>]
    /\ allowed = [v \in Views |-> FALSE]

Tick == now < MaxTime /\ now' = now + 1 /\ UNCHANGED <<user, logins, revoked, view, allowed>>

(* An operator's SQL.                                                      *)
Administer ==
    /\ active' \in BOOLEAN /\ granted' \in BOOLEAN
    /\ UNCHANGED <<now, logins, revoked, view, allowed>>

-----------------------------------------------------------------------------
Go(l, source, target) == stage[l] = source /\ stage' = [stage EXCEPT ![l] = target]

(* The rate limit, the user's row and the password.                        *)
Submit(l, code, step) ==
    /\ Go(l, "idle", IF active THEN "code" ELSE "refused")
    /\ given' = [given EXCEPT ![l] = <<code, step>>]
    /\ UNCHANGED <<now, user, unused, by, opened, revoked, view, allowed>>

SpendCodeVariant(l) ==
    /\ Go(l, "code", IF given[l][1] \in Codes THEN "passed" ELSE "totp")
    /\ unused' = unused \ {given[l][1]}
    /\ by' = [by EXCEPT ![l] = "code"]
    /\ UNCHANGED <<now, user, given, opened, revoked, view, allowed>>

(* One UPDATE: the code is spent by the login that finds it unused.        *)
SpendCode(l) ==
    /\ Go(l, "code", IF given[l][1] \in unused THEN "passed" ELSE "totp")
    /\ unused' = unused \ {given[l][1]}
    /\ by' = [by EXCEPT ![l] = IF given[l][1] \in unused THEN "code" ELSE "none"]
    /\ UNCHANGED <<now, user, given, opened, revoked, view, allowed>>

VerifyTOTP(step) == step \in (now - Drift)..(now + Drift)

CheckTOTP(l) ==
    /\ Go(l, "totp", IF VerifyTOTP(given[l][2]) THEN "passed" ELSE "refused")
    /\ by' = [by EXCEPT ![l] = "totp"]
    /\ UNCHANGED <<now, user, unused, given, opened, revoked, view, allowed>>

Open(l) ==
    /\ Go(l, "passed", "open")
    /\ opened' = [opened EXCEPT ![l] = now]
    /\ UNCHANGED <<now, user, unused, given, by, revoked, view, allowed>>

(* A database error; a code that was spent stays spent.                    *)
OpenFails(l) ==
    /\ stage[l] \in {"code", "totp", "passed"}
    /\ stage' = [stage EXCEPT ![l] = "refused"]
    /\ UNCHANGED <<now, user, unused, given, by, opened, revoked, view, allowed>>

-----------------------------------------------------------------------------
LiveVariant(l) == opened[l] >= 0 /\ now < opened[l] + Lifetime /\ active
Live(l) == opened[l] >= 0 /\ l \notin revoked /\ now < opened[l] + Lifetime /\ active

Lookup(v, l) ==
    /\ view[v][1] = "idle" /\ Live(l)
    /\ view' = [view EXCEPT ![v] = <<"found", l>>]
    /\ UNCHANGED <<now, user, logins, revoked, allowed>>

(* An error of this query leaves the principal without permissions.        *)
ReadRoles(v) ==
    /\ view[v][1] = "found"
    /\ view' = [view EXCEPT ![v][1] = "ready"]
    /\ allowed' = [allowed EXCEPT ![v] = granted]
    /\ UNCHANGED <<now, user, logins, revoked>>

Serve(v) ==
    /\ view[v][1] = "ready" /\ allowed[v]
    /\ view' = [view EXCEPT ![v] = <<"idle", NoLogin>>]
    /\ allowed' = [allowed EXCEPT ![v] = FALSE]
    /\ UNCHANGED <<now, user, logins, revoked>>

(* No CSRF token, no permission, or an error.                              *)
Refuse(v) ==
    /\ view[v][1] \in {"found", "ready"}
    /\ view' = [view EXCEPT ![v] = <<"idle", NoLogin>>]
    /\ allowed' = [allowed EXCEPT ![v] = FALSE]
    /\ UNCHANGED <<now, user, logins, revoked>>

Logout(v) ==
    /\ view[v][1] = "ready"
    /\ revoked' = revoked \cup {view[v][2]}
    /\ view' = [view EXCEPT ![v] = <<"idle", NoLogin>>]
    /\ allowed' = [allowed EXCEPT ![v] = FALSE]
    /\ UNCHANGED <<now, user, logins>>

-----------------------------------------------------------------------------
Next ==
    \/ Tick \/ Administer
    \/ \E l \in Logins :
        \/ \E code \in Codes \cup {NoCode}, step \in 0..now : Submit(l, code, step)
        \/ SpendCode(l) \/ CheckTOTP(l) \/ Open(l) \/ OpenFails(l)
    \/ \E v \in Views :
        \/ \E l \in Logins : Lookup(v, l)
        \/ ReadRoles(v) \/ Serve(v) \/ Refuse(v) \/ Logout(v)

Spec == Init /\ [][Next]_vars

(* A request that has begun is answered.                                   *)
FairSpec ==
    Spec /\ \A v \in Views : WF_vars(ReadRoles(v)) /\ WF_vars(Serve(v) \/ Refuse(v) \/ Logout(v))

-----------------------------------------------------------------------------
(* A recovery code opens one session, however many logins carry it at      *)
(* once (the UPDATE in verifySecondFactor); the others need a TOTP code.   *)
CodesOpenOne ==
    \A k, l \in Logins :
        /\ opened[k] >= 0 /\ opened[l] >= 0
        /\ by[k] = "code" /\ by[l] = "code" /\ given[k][1] = given[l][1]
        => k = l

(* Logging out takes hold: the requests of the session that were looked up *)
(* before come to an end, and no others follow, though the user is         *)
(* deactivated and activated, or logs in again, in the meantime.           *)
LogoutTakesHold ==
    \A l \in Logins : l \in revoked ~> [](\A v \in Views : view[v][2] # l)

=============================================================================
