---------------------------- MODULE SessionsProofs ---------------------------
(***************************************************************************)
(* Logins with a second factor, for any number of them at once: a recovery *)
(* code opens one session.                                                 *)
(***************************************************************************)
EXTENDS Sessions, TLAPS

\* What a login may be doing.
LoginStages == {"idle", "code", "totp", "passed", "open", "refused"}

\* A login that passed with a recovery code took it out of the unused ones,
\* and no other login has taken it.
SpentInv ==
    /\ stage \in [Logins -> LoginStages]
    /\ by \in [Logins -> {"none", "code", "totp"}]
    /\ given \in [Logins -> (Codes \cup {NoCode}) \X Nat]
    /\ now \in Nat
    /\ \A l \in Logins :
        /\ stage[l] \in {"idle", "code", "totp"} => by[l] = "none"
        /\ by[l] = "code" => given[l][1] \notin unused
    /\ \A k, l \in Logins :
        by[k] = "code" /\ by[l] = "code" /\ given[k][1] = given[l][1] => k = l

\* Every code is unused.
LEMMA SpentInit == Init => SpentInv
  BY DEF Init, SpentInv, LoginStages

\* A code is spent by the one UPDATE that finds it unused.
LEMMA SpentStep ==
    ASSUME SpentInv, [Next]_vars
    PROVE  SpentInv'
  <1>1. CASE Tick
    BY <1>1 DEF Tick, logins, SpentInv
  <1>2. ASSUME Administer \/ UNCHANGED vars \/ \E v \in Views :
            (\E l \in Logins : Lookup(v, l)) \/ ReadRoles(v) \/ Serve(v) \/ Refuse(v) \/ Logout(v)
        PROVE  SpentInv'
    <2>1. UNCHANGED <<now, stage, by, given, unused>>
      BY Zenon, <1>2 DEF Administer, vars, Lookup, ReadRoles, Serve, Refuse, Logout, logins
    <2> QED
      BY Zenon, <2>1 DEF SpentInv
  <1>3. ASSUME NEW l \in Logins, NEW code \in Codes \cup {NoCode}, NEW step \in 0..now, Submit(l, code, step)
        PROVE  SpentInv'
    <2>1. /\ stage[l] = "idle" /\ UNCHANGED <<now, unused, by>>
          /\ given' = [given EXCEPT ![l] = <<code, step>>]
          /\ \E s \in {"code", "refused"} : stage' = [stage EXCEPT ![l] = s]
      BY Zenon, <1>3 DEF Submit, Go
    <2> QED
      BY <2>1 DEF SpentInv, LoginStages
  <1>4. ASSUME NEW l \in Logins, SpendCode(l) PROVE SpentInv'
    <2>1. CASE given[l][1] \in unused
      BY <1>4, <2>1 DEF SpendCode, Go, SpentInv, LoginStages
    <2>2. CASE given[l][1] \notin unused
      BY Zenon, <1>4, <2>2 DEF SpendCode, Go, SpentInv, LoginStages
    <2> QED
      BY Zenon, <2>1, <2>2
  <1>5. ASSUME NEW l \in Logins, CheckTOTP(l) \/ Open(l) \/ OpenFails(l) PROVE SpentInv'
    <2>1. CASE CheckTOTP(l)
      <3>1. /\ UNCHANGED <<now, unused, given>> /\ by' = [by EXCEPT ![l] = "totp"]
            /\ \E s \in {"passed", "refused"} : stage' = [stage EXCEPT ![l] = s]
        BY Zenon, <2>1 DEF CheckTOTP, Go
      <3> QED
        BY <3>1 DEF SpentInv, LoginStages
    <2>2. CASE Open(l) \/ OpenFails(l)
      BY <2>2 DEF Open, OpenFails, Go, SpentInv, LoginStages
    <2> QED
      BY Zenon, <1>5, <2>1, <2>2
  <1> QED
    BY Zenon, <1>1, <1>2, <1>3, <1>4, <1>5 DEF Next

(* CodesOpenOne for any number of logins at once: a recovery code opens    *)
(* one session, because verifySecondFactor spends it in one UPDATE before  *)
(* the session is inserted.                                                *)
THEOREM CodesOpen == Spec => []CodesOpenOne
  <1>1. SpentInv => CodesOpenOne
    BY Zenon DEF SpentInv, CodesOpenOne
  <1> QED
    BY <1>1, SpentInit, SpentStep, PTL DEF Spec

=============================================================================
