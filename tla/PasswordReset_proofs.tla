------------------------ MODULE PasswordReset_proofs ------------------------
(***************************************************************************)
(* Theorems about PasswordReset, for any number of codes and requests, any *)
(* limit of attempts and any lifetime, with failures at every call.        *)
(***************************************************************************)
EXTENDS PasswordReset, TLAPS

\* A code that has been stored and is not accepted any more.
Dead(c) == c \in Issued /\ ~Active(c)

\* What a request knows by the label it is at.
RequestInv(r) ==
    /\ req[r].codes \subseteq Issued
    /\ req[r].pc \in {"lookup", "write", "consume", "clear", "sweep"} => ~req[r].locked
    /\ req[r].pc = "lockout" => req[r].locked
    /\ req[r].pc \in {"write", "consume"} => req[r].code \in Code
    /\ \/ req[r].pc = "forgotCreate"
       \/ req[r].pc = "reply" /\ req[r].locked
       => \A c \in req[r].codes : Dead(c)
    /\ \/ req[r].pc \in {"clear", "sweep"}
       \/ req[r].pc = "reply" /\ ~req[r].locked
       => req[r].code \in Code /\ Dead(req[r].code)

\* The inductive invariant.
ResetInv ==
    /\ TypeOK
    /\ \A r \in Request : RequestInv(r)
    /\ \A c \in Code : \A d \in prior[c] : Dead(d)
    /\ \A c \in answered : Dead(c)

------------------------------------------------------------------------------
\* Types

LEMMA InitTyping == Init => TypeOK
  BY PasswordResetAssumption
     DEF Init, TypeOK, AccountState, CodeState, RequestState, Label, Idle,
         Key, NoKey, Cap

LEMMA GotoTyping ==
  ASSUME TypeOK, NEW r \in Request, NEW label \in Label, Goto(r, label)
  PROVE  req' \in [Request -> RequestState]
  BY DEF TypeOK, Goto, RequestState

LEMMA FinishTyping ==
  ASSUME TypeOK, NEW r \in Request, Finish(r)
  PROVE  req' \in [Request -> RequestState]
  BY DEF TypeOK, Finish, Idle, RequestState, Label

LEMMA RevokeTyping ==
  ASSUME TypeOK, RevokeActive
  PROVE  code' \in [Code -> CodeState]
  BY DEF TypeOK, RevokeActive, CodeState

LEMMA CounterTyping ==
  ASSUME NEW k \in Key(Cap, TenMinutes)
  PROVE  /\ IncrWithExpiry(k, TenMinutes, Cap) \in Key(Cap, TenMinutes)
         /\ Elapse(k) \in Key(Cap, TenMinutes)
         /\ NoKey \in Key(Cap, TenMinutes)
  BY PasswordResetAssumption DEF Key, IncrWithExpiry, Elapse, NoKey, Cap

LEMMA Typing == ResetInv /\ [Next]_vars => TypeOK'
<1> SUFFICES ASSUME ResetInv, [Next]_vars PROVE TypeOK'
    OBVIOUS
<1>0. TypeOK
  BY DEF ResetInv
<1>1. ASSUME NEW r \in Request, ForgotPassword(r) PROVE TypeOK'
  BY <1>0, <1>1 DEF ForgotPassword, TypeOK, RequestState, Label, Issued
<1>2. ASSUME NEW r \in Request, NEW c \in Issued \cup {NoCode}, ResetPassword(r, c)
      PROVE  TypeOK'
  <2>1. attempts' \in Key(Cap, TenMinutes)
    BY <1>0, <1>2, CounterTyping DEF ResetPassword, TypeOK
  <2>2. req' \in [Request -> RequestState]
    BY <1>0, <1>2 DEF ResetPassword, TypeOK, RequestState, Label, Issued
  <2> QED
    BY <1>0, <1>2, <2>1, <2>2 DEF ResetPassword, TypeOK
<1>3. ASSUME NEW r \in Request, ForgotRevoke(r) PROVE TypeOK'
  BY <1>0, <1>3, RevokeTyping, GotoTyping DEF ForgotRevoke, TypeOK, Label
<1>4. ASSUME NEW r \in Request, NEW c \in Code, ForgotCreate(r, c) PROVE TypeOK'
  <2>1. code' \in [Code -> CodeState]
    BY <1>0, <1>4, PasswordResetAssumption DEF ForgotCreate, TypeOK, CodeState, Lifetime
  <2>2. prior' \in [Code -> SUBSET Code]
    BY <1>0, <1>4 DEF ForgotCreate, TypeOK, RequestState
  <2> QED
    BY <1>0, <1>4, <2>1, <2>2, FinishTyping DEF ForgotCreate, TypeOK
<1>5. ASSUME NEW r \in Request, FindUser(r) PROVE TypeOK'
  BY <1>0, <1>5, GotoTyping, FinishTyping DEF FindUser, TypeOK, Label
<1>6. ASSUME NEW r \in Request, Lockout(r) PROVE TypeOK'
  BY <1>0, <1>6, RevokeTyping, GotoTyping DEF Lockout, TypeOK, Label
<1>7. ASSUME NEW r \in Request, Lookup(r) PROVE TypeOK'
  BY <1>0, <1>7, GotoTyping, FinishTyping DEF Lookup, TypeOK, Label
<1>8. ASSUME NEW r \in Request, WritePassword(r) PROVE TypeOK'
  <2>1. used' \in [Code -> 0..2]
    <3>1. req[r].code \in Code
      BY <1>8 DEF WritePassword, ResetInv, RequestInv, InFlight
    <3>2. used[req[r].code] \in 0..2 /\ used \in [Code -> 0..2]
      BY <1>0, <3>1 DEF TypeOK
    <3>3. CASE used' = used
      BY <3>2, <3>3
    <3>4. CASE used[req[r].code] # 2 /\ used' = [used EXCEPT ![req[r].code] = @ + 1]
      <4>1. used[req[r].code] + 1 \in 0..2
        BY <3>2, <3>4
      <4> QED
        BY <3>1, <3>2, <3>4, <4>1
    <3> QED
      BY <1>8, <3>3, <3>4 DEF WritePassword
  <2> QED
    BY <1>0, <1>8, <2>1, GotoTyping DEF WritePassword, TypeOK, Label
<1>9. ASSUME NEW r \in Request, Consume(r) PROVE TypeOK'
  <2>1. code' \in [Code -> CodeState]
    BY <1>0, <1>9 DEF Consume, TypeOK, CodeState
  <2> QED
    BY <1>0, <1>9, <2>1, GotoTyping DEF Consume, TypeOK, Label
<1>10. ASSUME NEW r \in Request, Clear(r) PROVE TypeOK'
  BY <1>0, <1>10, GotoTyping, CounterTyping DEF Clear, TypeOK, Label
<1>11. ASSUME NEW r \in Request, Sweep(r) PROVE TypeOK'
  BY <1>0, <1>11, RevokeTyping, GotoTyping DEF Sweep, TypeOK, Label
<1>12. ASSUME NEW r \in Request, Reply(r) PROVE TypeOK'
  BY <1>0, <1>12, FinishTyping DEF Reply, TypeOK, ResetInv, RequestInv, InFlight
<1>13. CASE SetPassword \/ DeleteUser
  BY <1>0, <1>13 DEF SetPassword, DeleteUser, TypeOK, AccountState
<1>14. CASE SweepElsewhere
  BY <1>0, <1>14, RevokeTyping DEF SweepElsewhere, TypeOK
<1>15. ASSUME NEW r \in Request, Fail(r) PROVE TypeOK'
  BY <1>0, <1>15, FinishTyping DEF Fail, TypeOK
<1>16. CASE Tick
  <2>1. code' \in [Code -> CodeState]
    <3>1. ASSUME NEW c \in Code
          PROVE  [doc  |-> code[c].doc,
                  life |-> IF code[c].life = 0 THEN 0 ELSE code[c].life - 1] \in CodeState
      <4>1. /\ code[c].doc \in {"absent", "active", "revoked"}
            /\ code[c].life \in 0..TenMinutes
        BY <1>0 DEF TypeOK, CodeState
      <4>2. (IF code[c].life = 0 THEN 0 ELSE code[c].life - 1) \in 0..TenMinutes
        BY <4>1, PasswordResetAssumption
      <4> QED
        BY <4>1, <4>2 DEF CodeState
    <3> QED
      BY <1>16, <3>1 DEF Tick
  <2> QED
    BY <1>0, <1>16, <2>1, CounterTyping DEF Tick, TypeOK
<1>17. CASE UNCHANGED vars
  BY <1>0, <1>17 DEF vars, TypeOK
<1> QED
  BY <1>1, <1>2, <1>3, <1>4, <1>5, <1>6, <1>7, <1>8, <1>9, <1>10, <1>11, <1>12,
     <1>13, <1>14, <1>15, <1>16, <1>17 DEF Next, Step
------------------------------------------------------------------------------
\* What every step does to the codes

\* A stored code stays stored, and a dead one stays dead.
LEMMA DeadForGood ==
  ASSUME TypeOK, [Next]_vars
  PROVE  /\ Issued \subseteq Issued'
         /\ \A c \in Code : Dead(c) => Dead(c)'
<1> USE DEF Issued, Active, Dead, RevokeActive
<1>0. code \in [Code -> CodeState]
  BY DEF TypeOK
<1>1. CASE UNCHANGED code
  BY <1>1
<1>2. CASE RevokeActive
  BY <1>0, <1>2
<1>3. ASSUME NEW r \in Request, NEW c \in Code, ForgotCreate(r, c)
      PROVE  /\ Issued \subseteq Issued'
             /\ \A d \in Code : Dead(d) => Dead(d)'
  BY <1>0, <1>3 DEF ForgotCreate
<1>4. ASSUME NEW r \in Request, Consume(r)
      PROVE  /\ Issued \subseteq Issued'
             /\ \A c \in Code : Dead(c) => Dead(c)'
  BY <1>0, <1>4 DEF Consume
<1>5. CASE Tick
  BY <1>0, <1>5 DEF Tick
<1> QED
  BY <1>1, <1>2, <1>3, <1>4, <1>5
     DEF Next, Step, vars, ForgotPassword, ResetPassword, ForgotRevoke, FindUser,
         Lockout, Lookup, WritePassword, Clear, Sweep, Reply, SetPassword,
         DeleteUser, SweepElsewhere, Fail

\* Revoking what is active kills every stored code.
LEMMA RevokeKills ==
  ASSUME TypeOK, RevokeActive
  PROVE  \A c \in Issued : Dead(c)'
  BY DEF TypeOK, RevokeActive, Issued, Active, Dead

\* A request that does not step still knows what it knew.
LEMMA OthersKnow ==
  ASSUME TypeOK, [Next]_vars, NEW r \in Request, RequestInv(r), req'[r] = req[r]
  PROVE  RequestInv(r)'
<1>1. /\ req[r].codes \subseteq Issued
      /\ Issued \subseteq Issued'
      /\ Issued \subseteq Code
      /\ \A c \in Code : Dead(c) => Dead(c)'
  BY DeadForGood DEF RequestInv, Issued
<1> QED
  BY <1>1 DEF RequestInv

LEMMA InitInv == Init => ResetInv
<1> SUFFICES ASSUME Init PROVE ResetInv
    OBVIOUS
<1>1. \A r \in Request : RequestInv(r)
  BY DEF Init, RequestInv, Idle
<1> QED
  BY <1>1, InitTyping DEF Init, ResetInv

\* Each step of a request leaves it knowing what its next label takes for
\* granted, and touches no other request.
LEMMA StepKnows ==
  ASSUME ResetInv, [Next]_vars, NEW r \in Request, NEW q \in Request
  PROVE  RequestInv(r)'
<1>0. /\ TypeOK
      /\ RequestInv(r)
      /\ RequestInv(q)
      /\ req \in [Request -> RequestState]
      /\ Issued \subseteq Code
      /\ Issued \subseteq Issued'
      /\ \A c \in Code : Dead(c) => Dead(c)'
  BY DeadForGood DEF ResetInv, TypeOK, Issued
<1>1. CASE req'[r] = req[r]
  BY <1>0, <1>1, OthersKnow
<1> USE DEF RequestInv, InFlight
<1>2. CASE Finish(r)
  BY <1>0, <1>2 DEF Finish, Idle
<1>3. CASE ForgotPassword(r)
  BY <1>0, <1>3 DEF ForgotPassword
<1>4. ASSUME NEW c \in Issued \cup {NoCode}, ResetPassword(r, c) PROVE RequestInv(r)'
  <2>1. req'[r] = [pc |-> "findUser", code |-> c, codes |-> Issued,
                   locked |-> attempts'.n > MAX_OTP_ATTEMPTS]
    BY <1>0, <1>4 DEF ResetPassword
  <2> QED
    BY <1>0, <2>1
<1>5. CASE ForgotRevoke(r)
  <2>1. \A c \in Issued : Dead(c)'
    BY <1>0, <1>5, RevokeKills DEF ForgotRevoke
  <2> QED
    BY <1>0, <1>5, <2>1 DEF ForgotRevoke, Goto
<1>6. CASE FindUser(r)
  <2>1. CASE Goto(r, "lockout") /\ req[r].locked
    BY <1>0, <2>1 DEF Goto
  <2>2. CASE Goto(r, "lookup") /\ ~req[r].locked
    BY <1>0, <2>2 DEF Goto
  <2> QED
    BY <1>2, <1>6, <2>1, <2>2 DEF FindUser
<1>7. CASE Lockout(r)
  <2>1. \A c \in Issued : Dead(c)'
    BY <1>0, <1>7, RevokeKills DEF Lockout
  <2> QED
    <3>1. Goto(r, "reply") /\ req[r].locked
      BY <1>0, <1>7 DEF Lockout
    <3> QED
      BY <1>0, <2>1, <3>1 DEF Goto
<1>8. CASE Lookup(r)
  <2>1. CASE Goto(r, "write") /\ req[r].code \in Code
    BY <1>0, <1>8, <2>1 DEF Lookup, Goto
  <2> QED
    BY <1>2, <1>8, <2>1 DEF Lookup, Accepts, FindActiveUserToken
<1>9. CASE WritePassword(r)
  BY <1>0, <1>9 DEF WritePassword, Goto
<1>10. CASE Consume(r)
  <2>1. Dead(req[r].code)'
    <3>1. req[r].code \in Code
      BY <1>0, <1>10 DEF Consume
    <3>2. code'[req[r].code].doc = "revoked"
      BY <1>0, <1>10, <3>1 DEF Consume, TypeOK
    <3> QED
      BY <1>0, <1>10, <3>1, <3>2 DEF Consume, Goto, Dead, Issued, Active
  <2> QED
    BY <1>0, <1>10, <2>1 DEF Consume, Goto
<1>11. CASE Clear(r)
  BY <1>0, <1>11 DEF Clear, Goto
<1>12. CASE Sweep(r)
  BY <1>0, <1>12 DEF Sweep, Goto
<1>13. ASSUME NEW p \in Request,
              \/ ForgotPassword(p)
              \/ \E c \in Issued \cup {NoCode} : ResetPassword(p, c)
              \/ Step(p)
              \/ Fail(p)
       PROVE  p = r \/ req'[r] = req[r]
  BY <1>0, <1>13
     DEF ForgotPassword, ResetPassword, Step, Fail, ForgotRevoke, ForgotCreate,
         FindUser, Lockout, Lookup, WritePassword, Consume, Clear, Sweep, Reply,
         Goto, Finish
<1>14. CASE Step(r) \/ Fail(r)
  BY <1>2, <1>5, <1>6, <1>7, <1>8, <1>9, <1>10, <1>11, <1>12, <1>14
     DEF Step, Fail, ForgotCreate, Reply
<1>15. CASE SetPassword \/ DeleteUser \/ SweepElsewhere \/ Tick \/ UNCHANGED vars
  BY <1>1, <1>15 DEF SetPassword, DeleteUser, SweepElsewhere, Tick, vars
<1> QED
  BY <1>1, <1>3, <1>4, <1>13, <1>14, <1>15 DEF Next

LEMMA StepInv == ResetInv /\ [Next]_vars => ResetInv'
<1> SUFFICES ASSUME ResetInv, [Next]_vars PROVE ResetInv'
    OBVIOUS
<1>1. TypeOK'
  BY Typing
<1>2. (\A r \in Request : RequestInv(r))'
  BY StepKnows
<1>3. /\ TypeOK
      /\ \A c \in Code : prior[c] \subseteq Code
      /\ answered \subseteq Code
      /\ Issued \subseteq Code
      /\ \A c \in Code : Dead(c) => Dead(c)'
      /\ \A c \in Code : \A d \in prior[c] : Dead(d)
      /\ \A c \in answered : Dead(c)
  BY DeadForGood DEF ResetInv, TypeOK, Issued
<1>4. (\A c \in Code : \A d \in prior[c] : Dead(d))'
  <2>1. CASE UNCHANGED prior
    BY <1>3, <2>1
  <2>2. ASSUME NEW r \in Request, NEW c \in Code, ForgotCreate(r, c)
        PROVE  (\A e \in Code : \A d \in prior[e] : Dead(d))'
    <3>1. /\ \A d \in req[r].codes : Dead(d)
          /\ req[r].codes \subseteq Code
      BY <2>2, <1>3 DEF ResetInv, RequestInv, ForgotCreate, InFlight
    <3>2. prior' = [prior EXCEPT ![c] = req[r].codes] /\ prior \in [Code -> SUBSET Code]
      BY <2>2, <1>3 DEF ForgotCreate, TypeOK
    <3>3. \A e \in Code : prior'[e] = prior[e] \/ prior'[e] = req[r].codes
      BY <3>2
    <3> QED
      BY <1>3, <3>1, <3>3
  <2> QED
    BY <2>1, <2>2
       DEF Next, Step, vars, ForgotPassword, ResetPassword, ForgotRevoke, FindUser,
           Lockout, Lookup, WritePassword, Consume, Clear, Sweep, Reply, SetPassword,
           DeleteUser, SweepElsewhere, Fail, Tick
<1>5. (\A c \in answered : Dead(c))'
  <2>1. CASE UNCHANGED answered
    BY <1>3, <2>1
  <2>2. ASSUME NEW r \in Request, Reply(r)
        PROVE  (\A c \in answered : Dead(c))'
    <3>1. ~req[r].locked => req[r].code \in Code /\ Dead(req[r].code)
      BY <2>2 DEF ResetInv, RequestInv, Reply, InFlight
    <3> QED
      BY <1>3, <2>2, <3>1 DEF Reply
  <2> QED
    BY <2>1, <2>2
       DEF Next, Step, vars, ForgotPassword, ResetPassword, ForgotRevoke, FindUser,
           ForgotCreate, Lockout, Lookup, WritePassword, Consume, Clear, Sweep,
           SetPassword, DeleteUser, SweepElsewhere, Fail, Tick
<1> QED
  BY <1>1, <1>2, <1>4, <1>5 DEF ResetInv

------------------------------------------------------------------------------
LEMMA ResetAlways == Spec => []ResetInv
  BY InitInv, StepInv, PTL DEF Spec

\* The account, the codes, the counter and the requests have their declared
\* shapes, whatever the limit of attempts and the lifetime of a code.
THEOREM ResetTypes == Spec => []TypeOK
<1>1. ResetInv => TypeOK
  BY DEF ResetInv
<1> QED
  BY <1>1, ResetAlways, PTL

\* A stored code retires every code that existed when it was asked for.
THEOREM NewCodesRetireOldOnes == Spec => []NewCodeRetiresOld
<1>1. ResetInv => NewCodeRetiresOld
  BY DEF ResetInv, NewCodeRetiresOld, Dead
<1> QED
  BY <1>1, InitInv, StepInv, PTL DEF Spec

\* An attempt over the limit, once answered, has retired every code that existed
\* when it arrived.
THEOREM LockoutsRetireCodes == Spec => []LockoutRetiresCodes
<1>1. ResetInv => LockoutRetiresCodes
  BY DEF ResetInv, RequestInv, LockoutRetiresCodes, InFlight, Dead
<1> QED
  BY <1>1, InitInv, StepInv, PTL DEF Spec

\* A code whose reset has been answered is never accepted again.
THEOREM SpentCodesStaySpent == Spec => AnsweredCodeIsSpent
<1>1. ResetInv /\ [Next]_vars =>
        [\A r \in Request :
            Lookup(r) /\ Accepts(r) => req[r].code \notin answered]_vars
  BY DEF ResetInv, Accepts, FindActiveUserToken, Dead
<1> QED
  BY <1>1, InitInv, StepInv, PTL DEF Spec, AnsweredCodeIsSpent

------------------------------------------------------------------------------
\* While an account is Google-only it has no codes, no request is about to make
\* one, and no reset is past its lookup.
GoogleInv ==
    account = "google" =>
        /\ Issued = {}
        /\ \A c \in Code : used[c] = 0
        /\ \A r \in Request :
              req[r].pc \in {"idle", "findUser", "lockout", "lookup", "reply"}

LEMMA GoogleStep == ResetInv /\ GoogleInv /\ [Next]_vars => GoogleInv'
<1> SUFFICES ASSUME ResetInv, GoogleInv, [Next]_vars, account' = "google"
             PROVE  GoogleInv'
    BY DEF GoogleInv
<1>0. /\ req \in [Request -> RequestState]
      /\ code \in [Code -> CodeState]
  BY DEF ResetInv, TypeOK
<1>1. account = "google"
  BY DEF Next, Step, vars, ForgotPassword, ResetPassword, ForgotRevoke, FindUser,
         ForgotCreate, Lockout, Lookup, WritePassword, Consume, Clear, Sweep, Reply,
         SetPassword, DeleteUser, SweepElsewhere, Fail, Tick
<1>2. /\ Issued = {}
      /\ \A c \in Code : used[c] = 0
      /\ \A r \in Request :
            req[r].pc \in {"idle", "findUser", "lockout", "lookup", "reply"}
  BY <1>1 DEF GoogleInv
<1>3. \A c \in Code : ~Active(c)
  BY <1>2 DEF Issued, Active
<1>4. UNCHANGED used
  BY <1>2 DEF Next, Step, vars, ForgotPassword, ResetPassword, ForgotRevoke, FindUser,
         ForgotCreate, Lockout, Lookup, WritePassword, Consume, Clear, Sweep, Reply,
         SetPassword, DeleteUser, SweepElsewhere, Fail, Tick, InFlight
<1>5. Issued' = {}
  <2>1. CASE UNCHANGED code
    BY <1>2, <2>1 DEF Issued
  <2>2. CASE RevokeActive
    BY <1>0, <1>2, <1>3, <2>2 DEF RevokeActive, Issued
  <2>3. CASE Tick
    BY <1>0, <1>2, <2>3 DEF Tick, Issued
  <2> QED
    BY <1>2, <2>1, <2>2, <2>3
       DEF Next, Step, vars, ForgotPassword, ResetPassword, ForgotRevoke, FindUser,
           ForgotCreate, Lockout, Lookup, WritePassword, Consume, Clear, Sweep, Reply,
           SetPassword, DeleteUser, SweepElsewhere, Fail, InFlight
<1>6. ASSUME NEW r \in Request
      PROVE  req'[r].pc \in {"idle", "findUser", "lockout", "lookup", "reply"}
  <2>0. req[r].pc \in {"idle", "findUser", "lockout", "lookup", "reply"}
    BY <1>2
  <2>1. CASE req'[r] = req[r]
    BY <2>0, <2>1
  <2>2. CASE Finish(r) \/ Goto(r, "lockout") \/ Goto(r, "lookup")
    <3>1. CASE Finish(r)
      BY <1>0, <3>1 DEF Finish, Idle
    <3>2. CASE Goto(r, "lockout")
      BY <1>0, <3>2 DEF Goto
    <3>3. CASE Goto(r, "lookup")
      BY <1>0, <3>3 DEF Goto
    <3> QED
      BY <2>2, <3>1, <3>2, <3>3
  <2>3. CASE FindUser(r) \/ Reply(r) \/ Fail(r)
    BY <2>2, <2>3 DEF FindUser, Reply, Fail
  <2>4. CASE Lockout(r)
    BY <1>0, <2>4 DEF Lockout, Goto
  <2>5. CASE Lookup(r)
    <3>1. ~Accepts(r)
      BY <1>3 DEF Accepts, FindActiveUserToken
    <3> QED
      BY <2>2, <2>5, <3>1 DEF Lookup
  <2>6. ASSUME NEW c \in Issued \cup {NoCode}, ResetPassword(r, c)
        PROVE  req'[r].pc \in {"idle", "findUser", "lockout", "lookup", "reply"}
    BY <1>0, <2>6 DEF ResetPassword
  <2>7. ~ForgotPassword(r)
    BY <1>1 DEF ForgotPassword, MayForget
  <2>8. CASE Step(r)
    BY <2>0, <2>3, <2>4, <2>5, <2>8
       DEF Step, ForgotRevoke, ForgotCreate, WritePassword, Consume, Clear, Sweep,
           InFlight
  <2>9. ASSUME NEW p \in Request, p # r,
              \/ ForgotPassword(p)
              \/ \E c \in Issued \cup {NoCode} : ResetPassword(p, c)
              \/ Step(p)
              \/ Fail(p)
        PROVE  req'[r] = req[r]
    BY <1>0, <2>9
       DEF ForgotPassword, ResetPassword, Step, Fail, ForgotRevoke, ForgotCreate,
           FindUser, Lockout, Lookup, WritePassword, Consume, Clear, Sweep, Reply,
           Goto, Finish
  <2>10. CASE SetPassword \/ DeleteUser \/ SweepElsewhere \/ Tick \/ UNCHANGED vars
    BY <2>1, <2>10 DEF SetPassword, DeleteUser, SweepElsewhere, Tick, vars
  <2> QED
    BY <2>1, <2>3, <2>6, <2>7, <2>8, <2>9, <2>10 DEF Next
<1>7. (\A c \in Code : used[c] = 0)'
  BY <1>2, <1>4
<1> QED
  BY <1>5, <1>6, <1>7 DEF GoogleInv

\* A reset never gives a password to an account that has none.
THEOREM GoogleOnlyStaysGoogleOnly == Spec => []NoPasswordForGoogleOnly
<1>1. Init => GoogleInv
  BY DEF Init, GoogleInv, Issued, Idle
<1>2. GoogleInv => NoPasswordForGoogleOnly
  BY DEF GoogleInv, NoPasswordForGoogleOnly
<1> QED
  BY <1>1, <1>2, InitInv, StepInv, GoogleStep, PTL DEF Spec
==============================================================================
