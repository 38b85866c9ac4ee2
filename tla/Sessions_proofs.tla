-------------------------- MODULE Sessions_proofs --------------------------
(***************************************************************************)
(* Theorems about Sessions, for any users, sessions, requests and failures.*)
(***************************************************************************)
EXTENDS Sessions, TLAPS

------------------------------------------------------------------------------
\* The labels of a request that carries the tokens of a session.
WithTokens == {"loadUser", "verify", "loadOwner", "rotate", "endSession",
               "blacklistOne", "checkPassword"}

\* TypeOK, strengthened to be inductive: logout and refresh look documents up
\* by a session id they must have.
TypeInv ==
    /\ TypeOK
    /\ \A r \in Request : req[r].pc \in WithTokens => req[r].sid \in Session

------------------------------------------------------------------------------
\* The inductive invariant behind OneLivePerFamily

\* The session a request was made with has been stored before.
TokensWereIssued ==
    \A r \in Request : req[r].sid \in Session => Issued(req[r].sid)

\* Every stored session has a family, which is named by a stored session: an
\* unused session id names no family.
FamiliesWereIssued ==
    \A s \in Session : Issued(s) => family[s] \in Session /\ Issued(family[s])

\* While a refresh holds the right to a family's successor, no token of the
\* family is accepted and no other refresh holds the same right.
OneSuccessor ==
    \A r \in Request, f \in Session :
        Renewing(r, f) =>
            /\ \A s \in Session : Active(s) => family[s] # f
            /\ \A q \in Request : Renewing(q, f) => q = r

FamilyInv ==
    /\ TypeInv
    /\ TokensWereIssued
    /\ FamiliesWereIssued
    /\ OneSuccessor
    /\ OneLivePerFamily

------------------------------------------------------------------------------
\* Types

LEMMA InitTyping == Init => TypeOK
  BY DEF Init, TypeOK, AccountState, DocState, RequestState, Op, Label, Idle

LEMMA DeactivateTyping ==
  ASSUME NEW docs \in [Session -> DocState], NEW S
  PROVE  Deactivate(docs, S) \in [Session -> DocState]
  BY DEF Deactivate, DocState

LEMMA GotoTyping ==
  ASSUME TypeOK, NEW r \in Request, NEW label \in Label, Goto(r, label)
  PROVE  req' \in [Request -> RequestState]
  BY DEF TypeOK, Goto, RequestState

LEMMA BecomeTyping ==
  ASSUME TypeOK, NEW r \in Request, NEW o \in Op, NEW label \in Label,
         NEW s \in Session \cup {NoSession}, NEW u \in User \cup {NoUser},
         Become(r, o, label, s, u)
  PROVE  req' \in [Request -> RequestState]
  BY DEF TypeOK, Become, RequestState

LEMMA RequestTyping ==
  ASSUME TypeOK, NEW r \in Request
  PROVE  /\ req[r].op \in Op
         /\ req[r].pc \in Label
         /\ req[r].sid \in Session \cup {NoSession}
         /\ req[r].who \in User \cup {NoUser}
         /\ req[r].snap \subseteq Session
  BY DEF TypeOK, RequestState

LEMMA LogoutDoneTyping ==
  ASSUME TypeOK, NEW r \in Request, LogoutDone(r)
  PROVE  req' \in [Request -> RequestState]
<1>1. "reply" \in Label /\ "findActive" \in Label /\ "sweepAll" \in Op
  BY DEF Label, Op
<1> QED
  BY <1>1, RequestTyping, GotoTyping, BecomeTyping DEF LogoutDone

LEMMA FinishTyping ==
  ASSUME TypeOK, NEW r \in Request, Finish(r)
  PROVE  req' \in [Request -> RequestState]
  BY DEF TypeOK, Finish, Idle, RequestState, Op, Label

LEMMA Typing == TypeInv /\ [Next]_vars => TypeOK'
<1> SUFFICES ASSUME TypeInv, [Next]_vars PROVE TypeOK'
    OBVIOUS
<1>0. TypeOK
  BY DEF TypeInv
<1> USE DEF AccountState, DocState
<1>1. ASSUME NEW r \in Request, NEW u \in User, Login(r, u) PROVE TypeOK'
  BY <1>0, <1>1, BecomeTyping DEF Login, TypeOK, Op, Label
<1>2. ASSUME NEW r \in Request, NEW u \in User, ResetPassword(r, u) PROVE TypeOK'
  BY <1>0, <1>2, BecomeTyping DEF ResetPassword, TypeOK, Op, Label
<1>3. ASSUME NEW r \in Request, NEW s \in Session, RefreshStart(r, s) PROVE TypeOK'
  BY <1>0, <1>3, BecomeTyping DEF RefreshStart, Verify, TypeOK, Op, Label
<1>4. ASSUME NEW r \in Request, NEW s \in Session, NEW o \in Protected,
             Authenticate(r, o, s)
      PROVE  TypeOK'
  BY <1>0, <1>4, BecomeTyping DEF Authenticate, Protected, TypeOK, Op, Label
<1>5. ASSUME NEW r \in Request, NEW s \in Session, Create(r, s) PROVE TypeOK'
  <2>1. req' \in [Request -> RequestState]
    BY <1>0, <1>5, FinishTyping DEF Create
  <2>2. req[r].sid \in Session \cup {NoSession} /\ req[r].who \in User \cup {NoUser}
    BY <1>0 DEF TypeOK, RequestState
  <2> QED
    BY <1>0, <1>5, <2>1, <2>2 DEF Create, TypeOK
<1>6. ASSUME NEW r \in Request, RefreshLoadOwner(r) PROVE TypeOK'
  BY <1>0, <1>6, GotoTyping, FinishTyping DEF RefreshLoadOwner, TypeOK, Label
<1>7. ASSUME NEW r \in Request, RefreshRotate(r) PROVE TypeOK'
  BY <1>0, <1>7, GotoTyping, DeactivateTyping
     DEF RefreshRotate, RevokeSession, TypeOK, Label
<1>8. ASSUME NEW r \in Request, Authorize(r) PROVE TypeOK'
  <2>1. "deleteUser" \in Label /\ "verify" \in Label /\ "checkPassword" \in Label
    BY DEF Label
  <2>2. req[r].who \in User \/ req[r].who = NoUser
    BY <1>0 DEF TypeOK, RequestState
  <2>3. MayDelete(req[r].who) \subseteq User \cup {NoUser}
    BY <2>2 DEF MayDelete
  <2> QED
    BY <1>0, <1>8, <2>1, <2>3, RequestTyping, GotoTyping, FinishTyping, BecomeTyping
       DEF Authorize, TypeOK
<1>9. ASSUME NEW r \in Request, LogoutVerify(r) PROVE TypeOK'
  <2>1. "endSession" \in Label /\ "findActive" \in Label
    BY DEF Label
  <2>2. owner[req[r].sid] \in User \cup {NoUser}
    BY <1>0, <1>9 DEF TypeInv, TypeOK, WithTokens, LogoutVerify, InFlight
  <2> QED
    BY <1>0, <1>9, <2>1, <2>2, RequestTyping, BecomeTyping DEF LogoutVerify, Verify, TypeOK
<1>10. ASSUME NEW r \in Request, LogoutEndSession(r) PROVE TypeOK'
  BY <1>0, <1>10, GotoTyping, DeactivateTyping
     DEF LogoutEndSession, RevokeSession, TypeOK, Label
<1>11. ASSUME NEW r \in Request, LogoutBlacklist(r) PROVE TypeOK'
  BY <1>0, <1>11, LogoutDoneTyping DEF LogoutBlacklist, BlacklistSessions, TypeOK
<1>12. ASSUME NEW r \in Request, ChangePassword(r) PROVE TypeOK'
  BY <1>0, <1>12, GotoTyping, FinishTyping DEF ChangePassword, TypeOK, Label
<1>13. ASSUME NEW r \in Request, DeleteUser(r) PROVE TypeOK'
  BY <1>0, <1>13, GotoTyping, FinishTyping DEF DeleteUser, TypeOK, Label
<1>14. ASSUME NEW r \in Request, SweepFind(r) PROVE TypeOK'
  <2>1. "blacklistAll" \in Label /\ FindActiveTokensByUserId(req[r].who) \subseteq Session
    BY DEF Label, FindActiveTokensByUserId
  <2> QED
    BY <1>0, <1>14, <2>1, RequestTyping DEF SweepFind, TypeOK, RequestState
<1>15. ASSUME NEW r \in Request, SweepBlacklist(r) PROVE TypeOK'
  <2>1. "revokeAll" \in Label
    BY DEF Label
  <2> QED
    BY <1>0, <1>15, <2>1, RequestTyping, BecomeTyping
       DEF SweepBlacklist, BlacklistSessions, TypeOK
<1>16. ASSUME NEW r \in Request, SweepRevoke(r) PROVE TypeOK'
  BY <1>0, <1>16, LogoutDoneTyping, DeactivateTyping
     DEF SweepRevoke, RevokeAllUserTokens, TypeOK
<1>17. ASSUME NEW r \in Request, Reply(r) PROVE TypeOK'
  BY <1>0, <1>17, FinishTyping DEF Reply, TypeOK
<1>18. ASSUME NEW r \in Request, Fail(r) PROVE TypeOK'
  BY <1>0, <1>18, FinishTyping DEF Fail, TypeOK
<1>19. ASSUME NEW u \in User, Bar(u) PROVE TypeOK'
  BY <1>0, <1>19 DEF Bar, TypeOK
<1>20. CASE UNCHANGED vars
  BY <1>0, <1>20 DEF TypeOK, vars
<1> QED
  BY <1>1, <1>2, <1>3, <1>4, <1>5, <1>6, <1>7, <1>8, <1>9, <1>10, <1>11, <1>12,
     <1>13, <1>14, <1>15, <1>16, <1>17, <1>18, <1>19, <1>20
     DEF Next, Arrive, Step

------------------------------------------------------------------------------
\* OneLivePerFamily

\* What a step does to refresh tokens unless it is Create or RefreshRotate: it
\* ends some, and no request gains the right to a successor.
QuietStep ==
    /\ UNCHANGED <<owner, family>>
    /\ \A s \in Session : \/ refresh'[s] = refresh[s]
                          \/ refresh[s] = "active" /\ refresh'[s] = "revoked"
    /\ \A r \in Request :
          \/ req'[r] = req[r]
          \/ /\ req'[r].pc \in WithTokens => req'[r].sid \in Session
             /\ req'[r].sid \in Session => Issued(req'[r].sid)
             /\ req'[r].pc = "create" => req'[r].sid = NoSession
    /\ \A r, q \in Request : req'[r] # req[r] /\ req'[q] # req[q] => r = q
    /\ \/ UNCHANGED refresh
       \/ \A r \in Request : req[r].pc = "create" => req'[r] = req[r]

LEMMA DeactivateEnds ==
  ASSUME TypeOK, NEW S, refresh' = Deactivate(refresh, S)
  PROVE  \A s \in Session : \/ refresh'[s] = refresh[s]
                            \/ refresh[s] = "active" /\ refresh'[s] = "revoked"
  BY DEF Deactivate

LEMMA GotoEffect ==
  ASSUME TypeOK, NEW r \in Request, NEW label \in Label, Goto(r, label)
  PROVE  /\ \A q \in Request : q # r => req'[q] = req[q]
         /\ req'[r].pc = label
         /\ req'[r].sid = req[r].sid
         /\ req'[r].op = req[r].op
         /\ req'[r].who = req[r].who
  BY DEF TypeOK, Goto, RequestState

LEMMA FinishEffect ==
  ASSUME TypeOK, NEW r \in Request, Finish(r)
  PROVE  /\ \A q \in Request : q # r => req'[q] = req[q]
         /\ req'[r] = Idle
  BY DEF TypeOK, Finish

LEMMA BecomeEffect ==
  ASSUME TypeOK, NEW r \in Request, NEW o, NEW label, NEW s, NEW u,
         Become(r, o, label, s, u)
  PROVE  /\ \A q \in Request : q # r => req'[q] = req[q]
         /\ req'[r].op = o
         /\ req'[r].pc = label
         /\ req'[r].sid = s
         /\ req'[r].who = u
         /\ req'[r].snap = {}
  BY DEF TypeOK, Become

LEMMA LogoutDoneEffect ==
  ASSUME TypeOK, NEW r \in Request, LogoutDone(r)
  PROVE  /\ \A q \in Request : q # r => req'[q] = req[q]
         /\ req'[r].pc \in {"reply", "findActive"}
         /\ req'[r].sid = req[r].sid
         /\ req'[r].who = req[r].who
<1>1. "reply" \in Label
  BY DEF Label
<1> QED
  BY <1>1, GotoEffect, BecomeEffect DEF LogoutDone

LEMMA QuietSteps ==
  ASSUME TypeInv, TokensWereIssued, [Next]_vars
  PROVE  \/ \E r \in Request, s \in Session : Create(r, s)
         \/ \E r \in Request : RefreshRotate(r)
         \/ QuietStep
<1>0. TypeOK /\ \A r \in Request : req[r].pc \in WithTokens => req[r].sid \in Session
  BY DEF TypeInv
<1> USE DEF QuietStep
<1>1. ASSUME NEW r \in Request, NEW u \in User, Login(r, u) PROVE QuietStep
  BY SessionsAssumption, <1>0, <1>1, BecomeEffect DEF Login, WithTokens
<1>2. ASSUME NEW r \in Request, NEW u \in User, ResetPassword(r, u) PROVE QuietStep
  BY SessionsAssumption, <1>0, <1>2, BecomeEffect DEF ResetPassword, WithTokens
<1>3. ASSUME NEW r \in Request, NEW s \in Session, RefreshStart(r, s) PROVE QuietStep
  BY <1>0, <1>3, BecomeEffect DEF RefreshStart, Verify, WithTokens
<1>4. ASSUME NEW r \in Request, NEW s \in Session, NEW o \in Protected,
             Authenticate(r, o, s)
      PROVE  QuietStep
  BY <1>0, <1>4, BecomeEffect DEF Authenticate, WithTokens
<1>5. ASSUME NEW r \in Request, RefreshLoadOwner(r) PROVE QuietStep
  BY SessionsAssumption, <1>0, <1>5, GotoEffect, FinishEffect
     DEF RefreshLoadOwner, TokensWereIssued, InFlight, WithTokens, Label, Idle
<1>6. ASSUME NEW r \in Request, Authorize(r) PROVE QuietStep
  BY SessionsAssumption, <1>0, <1>6, GotoEffect, FinishEffect, BecomeEffect
     DEF Authorize, TokensWereIssued, InFlight, WithTokens, Label, Idle
<1>7. ASSUME NEW r \in Request, LogoutVerify(r) PROVE QuietStep
  BY <1>0, <1>7, BecomeEffect
     DEF LogoutVerify, Verify, TokensWereIssued, InFlight, WithTokens
<1>8. ASSUME NEW r \in Request, LogoutEndSession(r) PROVE QuietStep
  BY <1>0, <1>8, GotoEffect, DeactivateEnds
     DEF LogoutEndSession, RevokeSession, TokensWereIssued, InFlight, WithTokens, Label
<1>9. ASSUME NEW r \in Request, LogoutBlacklist(r) PROVE QuietStep
  BY <1>0, <1>9, LogoutDoneEffect
     DEF LogoutBlacklist, TokensWereIssued, WithTokens
<1>10. ASSUME NEW r \in Request, ChangePassword(r) PROVE QuietStep
  BY SessionsAssumption, <1>0, <1>10, GotoEffect, FinishEffect
     DEF ChangePassword, TokensWereIssued, WithTokens, Label, Idle
<1>11. ASSUME NEW r \in Request, DeleteUser(r) PROVE QuietStep
  BY SessionsAssumption, <1>0, <1>11, GotoEffect, FinishEffect
     DEF DeleteUser, TokensWereIssued, WithTokens, Label, Idle
<1>12. ASSUME NEW r \in Request, SweepFind(r) PROVE QuietStep
  BY <1>0, <1>12 DEF SweepFind, TypeOK, TokensWereIssued, WithTokens
<1>13. ASSUME NEW r \in Request, SweepBlacklist(r) PROVE QuietStep
  BY <1>0, <1>13, BecomeEffect DEF SweepBlacklist, TokensWereIssued, WithTokens
<1>14. ASSUME NEW r \in Request, SweepRevoke(r) PROVE QuietStep
  BY <1>0, <1>14, LogoutDoneEffect, DeactivateEnds
     DEF SweepRevoke, RevokeAllUserTokens, TokensWereIssued, InFlight, WithTokens
<1>15. ASSUME NEW r \in Request, Reply(r) PROVE QuietStep
  BY SessionsAssumption, <1>0, <1>15, FinishEffect DEF Reply, WithTokens, Idle
<1>16. ASSUME NEW r \in Request, Fail(r) PROVE QuietStep
  BY SessionsAssumption, <1>0, <1>16, FinishEffect DEF Fail, WithTokens, Idle
<1>17. ASSUME NEW u \in User, Bar(u) PROVE QuietStep
  BY <1>0, <1>17 DEF Bar
<1>18. CASE UNCHANGED vars
  BY <1>18 DEF vars
<1> QED
  BY <1>1, <1>2, <1>3, <1>4, <1>5, <1>6, <1>7, <1>8, <1>9, <1>10, <1>11, <1>12,
     <1>13, <1>14, <1>15, <1>16, <1>17, <1>18
     DEF Next, Arrive, Step

\* A quiet step keeps the strengthened invariant.
LEMMA QuietKeepsFamilies ==
  ASSUME FamilyInv, QuietStep, TypeOK'
  PROVE  FamilyInv'
<1>1. TypeInv'
  BY DEF FamilyInv, TypeInv, QuietStep
<1>2. \A s \in Session : Issued(s) => Issued(s)'
  BY DEF QuietStep, Issued
<1>3. \A s \in Session : Issued(s)' => Issued(s)
  BY DEF QuietStep, Issued
<1>4. \A s \in Session : Active(s)' => Active(s)
  BY DEF QuietStep, Active
<1>5. TokensWereIssued'
  BY <1>2 DEF FamilyInv, TokensWereIssued, QuietStep
<1>6. FamiliesWereIssued'
  BY <1>2, <1>3 DEF FamilyInv, FamiliesWereIssued, QuietStep
<1>7. \A r \in Request, f \in Session : Renewing(r, f)' => Renewing(r, f)
  BY DEF QuietStep, Renewing, InFlight
<1>8. OneSuccessor'
  BY <1>4, <1>7 DEF FamilyInv, OneSuccessor, QuietStep
<1>9. OneLivePerFamily'
  BY <1>4 DEF FamilyInv, OneLivePerFamily, QuietStep
<1> QED
  BY <1>1, <1>5, <1>6, <1>8, <1>9 DEF FamilyInv

\* The winner of the compare-and-set is alone: the session it spent was the
\* only accepted one of its family, so nobody was renewing that family.
LEMMA RotateEffect ==
  ASSUME FamilyInv, NEW r \in Request, RefreshRotate(r), NEW p, p = req[r].sid
  PROVE  /\ p \in Session /\ Issued(p) /\ family[p] \in Session
         /\ UNCHANGED <<owner, family>>
         /\ \A s \in Session : /\ Issued(s)' <=> Issued(s)
                               /\ Active(s)' <=> Active(s) /\ s # p
         /\ \A q \in Request : q # r => req'[q] = req[q]
         /\ req'[r].sid = p
         /\ req'[r].pc = IF Active(p) THEN "create" ELSE "findActive"
         /\ Active(p) => \A q \in Request : ~Renewing(q, family[p])
         /\ \A q \in Request, f \in Session :
               Renewing(q, f)' <=> \/ Renewing(q, f)
                                   \/ q = r /\ Active(p) /\ f = family[p]
<1>0. /\ TypeOK
      /\ p \in Session
      /\ Issued(p)
      /\ p # NoSession
      /\ family[p] \in Session
  BY SessionsAssumption
     DEF FamilyInv, TypeInv, TokensWereIssued, FamiliesWereIssued,
         RefreshRotate, InFlight, WithTokens
<1>1. /\ \A q \in Request : q # r => req'[q] = req[q]
      /\ req'[r].sid = p
      /\ req'[r].pc = IF Active(p) THEN "create" ELSE "findActive"
  BY <1>0, GotoEffect DEF RefreshRotate, RevokeSessionSucceeds, Active, Label
<1>2. /\ UNCHANGED <<owner, family>>
      /\ \A s \in Session : /\ Issued(s)' <=> Issued(s)
                            /\ Active(s)' <=> Active(s) /\ s # p
  BY <1>0 DEF RefreshRotate, RevokeSession, Deactivate, Issued, Active
<1>3. Active(p) => \A q \in Request : ~Renewing(q, family[p])
  BY <1>0 DEF FamilyInv, OneSuccessor
<1>4. req[r].pc = "rotate"
  BY DEF RefreshRotate, InFlight
<1>5. ASSUME NEW q \in Request, NEW f \in Session
      PROVE  Renewing(q, f)' <=> \/ Renewing(q, f)
                                 \/ q = r /\ Active(p) /\ f = family[p]
  <2>1. CASE q = r
    BY <1>0, <1>1, <1>2, <1>4, <2>1 DEF Renewing, InFlight
  <2>2. CASE q # r
    BY <1>1, <1>2, <2>2 DEF Renewing, InFlight
  <2> QED
    BY <2>1, <2>2
<1> QED
  BY <1>0, <1>1, <1>2, <1>3, <1>5

LEMMA RotateKeepsFamilies ==
  ASSUME FamilyInv, NEW r \in Request, RefreshRotate(r), TypeOK'
  PROVE  FamilyInv'
<1> DEFINE p == req[r].sid
<1>0. /\ p \in Session /\ Issued(p) /\ family[p] \in Session
      /\ UNCHANGED <<owner, family>>
      /\ \A s \in Session : /\ Issued(s)' <=> Issued(s)
                            /\ Active(s)' <=> Active(s) /\ s # p
      /\ \A q \in Request : q # r => req'[q] = req[q]
      /\ req'[r].sid = p
      /\ req'[r].pc = IF Active(p) THEN "create" ELSE "findActive"
      /\ Active(p) => \A q \in Request : ~Renewing(q, family[p])
      /\ \A q \in Request, f \in Session :
            Renewing(q, f)' <=> \/ Renewing(q, f)
                                \/ q = r /\ Active(p) /\ f = family[p]
  BY RotateEffect
<1>1. TypeInv'
  BY <1>0 DEF FamilyInv, TypeInv, WithTokens
<1>2. TokensWereIssued'
  BY <1>0 DEF FamilyInv, TokensWereIssued
<1>3. FamiliesWereIssued'
  BY <1>0 DEF FamilyInv, FamiliesWereIssued
<1>4. OneLivePerFamily'
  BY <1>0 DEF FamilyInv, OneLivePerFamily
<1>5. OneSuccessor'
  <2> SUFFICES ASSUME NEW q \in Request, NEW f \in Session, Renewing(q, f)'
               PROVE  /\ \A s \in Session : Active(s)' => family'[s] # f
                      /\ \A x \in Request : Renewing(x, f)' => x = q
    BY DEF OneSuccessor
  <2>1. CASE Renewing(q, f)
    BY <1>0, <2>1 DEF FamilyInv, OneSuccessor
  <2>2. CASE q = r /\ Active(p) /\ f = family[p]
    BY <1>0, <2>2 DEF FamilyInv, OneLivePerFamily
  <2> QED
    BY <1>0, <2>1, <2>2
<1> QED
  BY <1>1, <1>2, <1>3, <1>4, <1>5 DEF FamilyInv

\* A stored session is either the first of a family no session ever named, or
\* the successor that only this request had the right to.
LEMMA CreateEffect ==
  ASSUME FamilyInv, NEW r \in Request, NEW n \in Session, Create(r, n),
         NEW p, p = req[r].sid, NEW f0, f0 = IF p = NoSession THEN n ELSE family[p]
  PROVE  /\ ~Issued(n)
         /\ f0 \in Session /\ (f0 = n \/ Issued(f0))
         /\ IF p = NoSession THEN f0 = n ELSE Renewing(r, f0)
         /\ \A q \in Request : q # r => req'[q] = req[q]
         /\ req'[r] = Idle
         /\ family' = [family EXCEPT ![n] = f0]
         /\ \A s \in Session : /\ Issued(s)' <=> (s = n \/ Issued(s))
                               /\ Active(s)' <=> (s = n \/ Active(s))
                               /\ Active(s) => Issued(s) /\ family[s] # f0
         /\ \A q \in Request, f \in Session :
               Renewing(q, f)' <=> Renewing(q, f) /\ q # r
         /\ \A q \in Request : Renewing(q, f0) => q = r
<1>0. /\ TypeOK
      /\ ~Issued(n)
      /\ p \in Session \cup {NoSession}
      /\ p \in Session => Issued(p) /\ family[p] \in Session /\ Issued(family[p])
  BY RequestTyping
     DEF FamilyInv, TypeInv, TokensWereIssued, FamiliesWereIssued, Create, Issued
<1>1. /\ \A q \in Request : q # r => req'[q] = req[q]
      /\ req'[r] = Idle
  BY <1>0, FinishEffect DEF Create
<1>2. /\ f0 \in Session /\ (f0 = n \/ Issued(f0))
      /\ IF p = NoSession THEN f0 = n ELSE Renewing(r, f0)
  BY <1>0 DEF Renewing, Create
<1>3. /\ family' = [family EXCEPT ![n] = f0]
      /\ \A s \in Session : /\ Issued(s)' <=> (s = n \/ Issued(s))
                            /\ Active(s)' <=> (s = n \/ Active(s))
                            /\ Active(s) => Issued(s)
  BY <1>0 DEF Create, TypeOK, Issued, Active
<1>4. \A s \in Session : Active(s) => family[s] # f0
  <2>1. CASE p = NoSession
    BY <1>0, <1>2, <1>3, <2>1 DEF FamilyInv, FamiliesWereIssued
  <2>2. CASE p # NoSession
    BY <1>2, <2>2 DEF FamilyInv, OneSuccessor
  <2> QED
    BY <2>1, <2>2
<1>5. ASSUME NEW q \in Request, NEW f \in Session
      PROVE  Renewing(q, f)' <=> Renewing(q, f) /\ q # r
  <2>1. CASE q = r
    BY <1>1, <2>1 DEF Renewing, InFlight, Idle
  <2>2. CASE q # r
    <3>1. req[q].sid \in Session \cup {NoSession}
      BY <1>0, RequestTyping
    <3>2. req[q].sid \in Session => req[q].sid # n
      BY <1>0 DEF FamilyInv, TokensWereIssued
    <3>3. req[q].sid \in Session => family'[req[q].sid] = family[req[q].sid]
      BY <1>0, <1>3, <3>2 DEF TypeOK
    <3> QED
      BY <1>1, <2>2, <3>1, <3>3 DEF Renewing, InFlight
  <2> QED
    BY <2>1, <2>2
<1>6. ASSUME NEW q \in Request, Renewing(q, f0) PROVE q = r
  <2>1. CASE p = NoSession
    <3>1. req[q].sid \in Session
      BY <1>0, <1>6, RequestTyping DEF Renewing
    <3>2. Issued(family[req[q].sid])
      BY <3>1 DEF FamilyInv, TokensWereIssued, FamiliesWereIssued
    <3> QED
      BY <1>0, <1>2, <1>6, <2>1, <3>2 DEF Renewing
  <2>2. CASE p # NoSession
    BY <1>2, <1>6, <2>2 DEF FamilyInv, OneSuccessor
  <2> QED
    BY <2>1, <2>2
<1> QED
  BY <1>0, <1>1, <1>2, <1>3, <1>4, <1>5, <1>6

LEMMA CreateKeepsFamilies ==
  ASSUME FamilyInv, NEW r \in Request, NEW n \in Session, Create(r, n), TypeOK'
  PROVE  FamilyInv'
<1> DEFINE p == req[r].sid
           f0 == IF p = NoSession THEN n ELSE family[p]
<1>0. /\ ~Issued(n)
      /\ f0 \in Session /\ (f0 = n \/ Issued(f0))
      /\ \A q \in Request : q # r => req'[q] = req[q]
      /\ req'[r] = Idle
      /\ family' = [family EXCEPT ![n] = f0]
      /\ \A s \in Session : /\ Issued(s)' <=> (s = n \/ Issued(s))
                            /\ Active(s)' <=> (s = n \/ Active(s))
                            /\ Active(s) => Issued(s) /\ family[s] # f0
      /\ \A q \in Request, f \in Session :
            Renewing(q, f)' <=> Renewing(q, f) /\ q # r
      /\ \A q \in Request : Renewing(q, f0) => q = r
  BY CreateEffect
<1>1. /\ family'[n] = f0
      /\ \A s \in Session : s # n => family'[s] = family[s]
  BY <1>0 DEF FamilyInv, TypeInv, TypeOK
<1> HIDE DEF p, f0
<1>2. TypeInv'
  BY <1>0 DEF FamilyInv, TypeInv, WithTokens, Idle
<1>3. TokensWereIssued'
  BY <1>0, SessionsAssumption DEF FamilyInv, TokensWereIssued, Idle
<1>4. FamiliesWereIssued'
  BY <1>0, <1>1 DEF FamilyInv, FamiliesWereIssued
<1>5. OneLivePerFamily'
  BY <1>0, <1>1 DEF FamilyInv, OneLivePerFamily
<1>6. OneSuccessor'
  BY <1>0, <1>1 DEF FamilyInv, OneSuccessor
<1> QED
  BY <1>2, <1>3, <1>4, <1>5, <1>6 DEF FamilyInv

LEMMA FamilyInvariance == FamilyInv /\ [Next]_vars => FamilyInv'
<1> SUFFICES ASSUME FamilyInv, [Next]_vars PROVE FamilyInv'
    OBVIOUS
<1>1. TypeOK'
  BY Typing DEF FamilyInv
<1>2. \/ \E r \in Request, s \in Session : Create(r, s)
      \/ \E r \in Request : RefreshRotate(r)
      \/ QuietStep
  BY QuietSteps DEF FamilyInv
<1> QED
  BY <1>1, <1>2, CreateKeepsFamilies, RotateKeepsFamilies, QuietKeepsFamilies

LEMMA FamilyInit == Init => FamilyInv
<1> SUFFICES ASSUME Init PROVE FamilyInv
    OBVIOUS
<1>1. TypeInv
  BY InitTyping DEF Init, TypeInv, WithTokens, Idle
<1>2. \A s \in Session : ~Issued(s) /\ ~Active(s)
  BY DEF Init, Issued, Active
<1>3. \A r \in Request, f \in Session : ~Renewing(r, f)
  BY DEF Init, Renewing, InFlight, Idle
<1>4. TokensWereIssued
  BY SessionsAssumption DEF Init, TokensWereIssued, Idle
<1> QED
  BY <1>1, <1>2, <1>3, <1>4
     DEF FamilyInv, FamiliesWereIssued, OneSuccessor, OneLivePerFamily

LEMMA FamilyInvHolds == Spec => []FamilyInv
  BY FamilyInit, FamilyInvariance, PTL DEF Spec

\* Every document, account and request keeps the shape the code gives it.
THEOREM TypeSafety == Spec => []TypeOK
<1>1. FamilyInv => TypeOK
  BY DEF FamilyInv, TypeInv
<1> QED
  BY <1>1, FamilyInvHolds, PTL

\* However many refreshes race, and whichever of them fail half-way, a login is
\* never represented by two accepted refresh tokens.
THEOREM RotationIsLinear == Spec => []OneLivePerFamily
<1>1. FamilyInv => OneLivePerFamily
  BY DEF FamilyInv
<1> QED
  BY <1>1, FamilyInvHolds, PTL

------------------------------------------------------------------------------
\* RevocationIsPermanent

\* Every update of the blacklist adds entries or deactivates them.
LEMMA BlacklistOnlyGrows ==
  ASSUME TypeInv, [Next]_vars
  PROVE  \A s \in Session : IsSessionBlacklisted(s) => IsSessionBlacklisted(s)'
<1>1. ASSUME UNCHANGED blacklist
      PROVE  \A s \in Session : IsSessionBlacklisted(s) => IsSessionBlacklisted(s)'
  BY <1>1 DEF IsSessionBlacklisted
<1>2. ASSUME NEW S, BlacklistSessions(S)
      PROVE  \A s \in Session : IsSessionBlacklisted(s) => IsSessionBlacklisted(s)'
  BY <1>2 DEF BlacklistSessions, IsSessionBlacklisted
<1>3. ASSUME NEW S, blacklist' = Deactivate(blacklist, S)
      PROVE  \A s \in Session : IsSessionBlacklisted(s) => IsSessionBlacklisted(s)'
  BY <1>3 DEF Deactivate, IsSessionBlacklisted
<1>4. ASSUME NEW r \in Request, LogoutBlacklist(r) \/ SweepBlacklist(r)
      PROVE  \E S : BlacklistSessions(S)
  BY <1>4 DEF LogoutBlacklist, SweepBlacklist
<1>5. ASSUME NEW r \in Request, SweepRevoke(r)
      PROVE  \E S : blacklist' = Deactivate(blacklist, S)
  BY <1>5 DEF SweepRevoke, RevokeAllUserTokens
<1>6. \/ UNCHANGED blacklist
      \/ \E r \in Request : LogoutBlacklist(r) \/ SweepBlacklist(r) \/ SweepRevoke(r)
  <2>1. ASSUME NEW r \in Request, Arrive(r) PROVE UNCHANGED blacklist
    BY <2>1 DEF Arrive, Login, ResetPassword, RefreshStart, Authenticate
  <2>2. ASSUME NEW r \in Request, Step(r)
        PROVE  \/ UNCHANGED blacklist
               \/ LogoutBlacklist(r) \/ SweepBlacklist(r) \/ SweepRevoke(r)
    BY <2>2 DEF Step, Create, RefreshLoadOwner, RefreshRotate, Authorize,
                LogoutVerify, LogoutEndSession, ChangePassword, DeleteUser,
                SweepFind, Reply
  <2> QED
    BY <2>1, <2>2 DEF Next, Fail, Bar, vars
<1> QED
  BY <1>1, <1>2, <1>3, <1>4, <1>5, <1>6

\* requireAuth never readmits a session it has refused, although the sweeps
\* deactivate the entries of the blacklist along with the tokens.
THEOREM RevocationIsForGood == Spec => RevocationIsPermanent
<1>1. FamilyInv /\ [Next]_vars =>
         [\A s \in Session : IsSessionBlacklisted(s) => IsSessionBlacklisted(s)']_vars
  BY BlacklistOnlyGrows DEF FamilyInv
<1> QED
  BY <1>1, FamilyInvHolds, PTL DEF Spec, RevocationIsPermanent

------------------------------------------------------------------------------
\* Sessions implements SessionFamily: however the requests interleave and fail,
\* what they do to the refresh tokens of one login is what the abstract
\* specification allows.

\* The state of a family, spelled out for the step lemmas.
LEMMA FamilyStateCases ==
  ASSUME FamilyInv, NEW f \in Session
  PROVE  /\ FamilyState(f) = "live" <=>
               \E s \in Session : Active(s) /\ family[s] = f
         /\ FamilyState(f) = "rotating" <=> \E r \in Request : Renewing(r, f)
         /\ FamilyState(f) = "unborn" =>
               \A s \in Session : Issued(s) => family[s] # f
         /\ FamilyState(f) \in {"live", "rotating", "ended", "unborn"}
  BY DEF FamilyState, FamilyInv, OneSuccessor

\* Families of which nothing changes keep their state.
LEMMA FamilyStateKept ==
  ASSUME NEW f \in Session,
         (\E s \in Session : Active(s) /\ family[s] = f)' <=>
            \E s \in Session : Active(s) /\ family[s] = f,
         (\E r \in Request : Renewing(r, f))' <=> \E r \in Request : Renewing(r, f),
         (\E s \in Session : Issued(s) /\ family[s] = f)' <=>
            \E s \in Session : Issued(s) /\ family[s] = f
  PROVE  FamilyState(f)' = FamilyState(f)
  BY DEF FamilyState

\* Create begins a family, or renews the one it had the right to.
LEMMA CreateRefines ==
  ASSUME FamilyInv, FamilyInv', NEW r \in Request, NEW n \in Session, Create(r, n)
  PROVE  \E f \in Session : Families!Begin(f) \/ Families!Renew(f)
<1>0. PICK p, f0 : p = req[r].sid /\ f0 = IF p = NoSession THEN n ELSE family[p]
  OBVIOUS
<1>1. /\ ~Issued(n)
      /\ f0 \in Session /\ (f0 = n \/ Issued(f0))
      /\ IF p = NoSession THEN f0 = n ELSE Renewing(r, f0)
      /\ family' = [family EXCEPT ![n] = f0]
      /\ \A s \in Session : /\ Issued(s)' <=> (s = n \/ Issued(s))
                            /\ Active(s)' <=> (s = n \/ Active(s))
                            /\ Active(s) => Issued(s) /\ family[s] # f0
      /\ \A q \in Request, f \in Session :
            Renewing(q, f)' <=> Renewing(q, f) /\ q # r
      /\ \A q \in Request : Renewing(q, f0) => q = r
  BY <1>0, CreateEffect
<1>2. /\ family'[n] = f0
      /\ \A s \in Session : s # n => family'[s] = family[s]
  BY <1>1 DEF FamilyInv, TypeInv, TypeOK
<1>4. p = NoSession => \A q \in Request, f \in Session : Renewing(q, f) => q # r
  BY <1>0 DEF Renewing
<1>5. \A f \in Session : Renewing(r, f) => f = f0
  BY <1>0 DEF Renewing
<1>6. FamilyState(f0)' = "live"
  BY <1>1, <1>2 DEF FamilyState
<1>7. ASSUME NEW f \in Session, f # f0 PROVE FamilyState(f)' = FamilyState(f)
  <2>1. \A s \in Session : /\ Active(s)' /\ family'[s] = f <=> Active(s) /\ family[s] = f
                           /\ Issued(s)' /\ family'[s] = f <=> Issued(s) /\ family[s] = f
    BY <1>1, <1>2, <1>7
  <2>2. \A q \in Request : Renewing(q, f)' <=> Renewing(q, f)
    BY <1>1, <1>5, <1>7
  <2> QED
    BY <2>1, <2>2, FamilyStateKept
<1>8. FamilyStates' = [FamilyStates EXCEPT ![f0] = "live"]
  BY <1>1, <1>6, <1>7 DEF FamilyStates
<1>9. CASE p = NoSession
  <2>1. \A s \in Session : Issued(s) => family[s] # f0
    BY <1>1, <1>9 DEF FamilyInv, FamiliesWereIssued
  <2>2. \A q \in Request : ~Renewing(q, f0)
    BY <1>1, <1>4, <1>9
  <2>3. FamilyState(f0) = "unborn"
    BY <1>1, <2>1, <2>2 DEF FamilyState
  <2> QED
    BY <1>1, <1>8, <2>3 DEF Families!Begin, FamilyStates
<1>10. CASE p # NoSession
  <2>1. FamilyState(f0) = "rotating"
    BY <1>1, <1>10, FamilyStateCases
  <2> QED
    BY <1>1, <1>8, <2>1 DEF Families!Renew, FamilyStates
<1> QED
  BY <1>9, <1>10

\* The refresh that wins the compare-and-set consumes the family's token; one
\* that loses changes no family.
LEMMA RotateRefines ==
  ASSUME FamilyInv, FamilyInv', NEW r \in Request, RefreshRotate(r)
  PROVE  \/ \E f \in Session : Families!Consume(f)
         \/ UNCHANGED FamilyStates
<1>0. PICK p : p = req[r].sid
  OBVIOUS
<1>1. /\ p \in Session /\ Issued(p) /\ family[p] \in Session
      /\ UNCHANGED <<owner, family>>
      /\ \A s \in Session : /\ Issued(s)' <=> Issued(s)
                            /\ Active(s)' <=> Active(s) /\ s # p
      /\ \A q \in Request, f \in Session :
            Renewing(q, f)' <=> \/ Renewing(q, f)
                                \/ q = r /\ Active(p) /\ f = family[p]
  BY <1>0, RotateEffect
<1>2. CASE Active(p)
  <2>1. FamilyState(family[p]) = "live"
    BY <1>1, <1>2, FamilyStateCases
  <2>2. FamilyState(family[p])' = "rotating"
    <3>1. \A s \in Session : Active(s)' => family'[s] # family[p]
      BY <1>1, <1>2 DEF FamilyInv, OneLivePerFamily
    <3>2. Renewing(r, family[p])'
      BY <1>1, <1>2
    <3> QED
      BY <1>1, <3>1, <3>2 DEF FamilyState
  <2>3. ASSUME NEW f \in Session, f # family[p] PROVE FamilyState(f)' = FamilyState(f)
    <3>1. \A s \in Session : Active(s)' /\ family'[s] = f <=> Active(s) /\ family[s] = f
      BY <1>1, <2>3
    <3>2. \A q \in Request : Renewing(q, f)' <=> Renewing(q, f)
      BY <1>1, <2>3
    <3> QED
      BY <1>1, <3>1, <3>2, FamilyStateKept
  <2>4. FamilyStates' = [FamilyStates EXCEPT ![family[p]] = "rotating"]
    BY <1>1, <2>2, <2>3 DEF FamilyStates
  <2> QED
    BY <1>1, <2>1, <2>4 DEF Families!Consume, FamilyStates
<1>3. CASE ~Active(p)
  <2>1. ASSUME NEW f \in Session PROVE FamilyState(f)' = FamilyState(f)
    <3>1. \A s \in Session : Active(s)' /\ family'[s] = f <=> Active(s) /\ family[s] = f
      BY <1>1, <1>3
    <3>2. \A q \in Request : Renewing(q, f)' <=> Renewing(q, f)
      BY <1>1, <1>3
    <3> QED
      BY <1>1, <3>1, <3>2, FamilyStateKept
  <2> QED
    BY <2>1 DEF FamilyStates
<1> QED
  BY <1>2, <1>3

\* Every other step ends live families, or loses the one whose refresh failed.
LEMMA QuietRefines ==
  ASSUME FamilyInv, FamilyInv', QuietStep
  PROVE  \/ \E F \in SUBSET Families!Live : Families!End(F)
         \/ \E f \in Session : Families!Lose(f)
<1>1. /\ UNCHANGED <<owner, family>>
      /\ \A s \in Session : /\ Issued(s)' <=> Issued(s)
                            /\ Active(s)' => Active(s)
      /\ \A q \in Request, f \in Session : Renewing(q, f)' => Renewing(q, f)
      /\ UNCHANGED refresh => \A s \in Session : Active(s)' <=> Active(s)
  BY DEF QuietStep, Issued, Active, Renewing, InFlight
<1>2. CASE \A q \in Request, f \in Session : Renewing(q, f) => Renewing(q, f)'
  <2> DEFINE F == {f \in Session : FamilyState(f) = "live" /\ FamilyState(f)' # "live"}
  <2>1. ASSUME NEW f \in Session, f \in F PROVE FamilyState(f)' = "ended"
    <3>1. PICK s \in Session : Active(s) /\ family[s] = f
      BY <2>1, FamilyStateCases
    <3>2. \A q \in Request : ~Renewing(q, f)'
      BY <1>1, <2>1, <3>1 DEF FamilyInv, OneSuccessor
    <3>3. Issued(s)' /\ family'[s] = f
      BY <1>1, <3>1 DEF Issued, Active
    <3>4. FamilyState(f)' # "live"
      BY <2>1
    <3> QED
      BY <3>2, <3>3, <3>4 DEF FamilyState
  <2>2. ASSUME NEW f \in Session, f \notin F PROVE FamilyState(f)' = FamilyState(f)
    <3>1. (\E s \in Session : Active(s) /\ family[s] = f)' <=>
             \E s \in Session : Active(s) /\ family[s] = f
      <4>1. (\E s \in Session : Active(s) /\ family[s] = f)' =>
               \E s \in Session : Active(s) /\ family[s] = f
        BY <1>1
      <4>2. (\E s \in Session : Active(s) /\ family[s] = f) =>
               (\E s \in Session : Active(s) /\ family[s] = f)'
        BY <2>2 DEF FamilyState
      <4> QED
        BY <4>1, <4>2
    <3>2. (\E q \in Request : Renewing(q, f))' <=> \E q \in Request : Renewing(q, f)
      BY <1>1, <1>2
    <3>3. (\E s \in Session : Issued(s) /\ family[s] = f)' <=>
             \E s \in Session : Issued(s) /\ family[s] = f
      BY <1>1
    <3> QED
      BY <3>1, <3>2, <3>3, FamilyStateKept
  <2>3. F \subseteq Families!Live
    BY DEF Families!Live, FamilyStates
  <2>4. FamilyStates' = [f \in Session |-> IF f \in F THEN "ended" ELSE FamilyStates[f]]
    BY <2>1, <2>2 DEF FamilyStates
  <2> QED
    BY <2>3, <2>4 DEF Families!End
<1>3. CASE \E q \in Request, f \in Session : Renewing(q, f) /\ ~Renewing(q, f)'
  <2>1. PICK q \in Request, g \in Session : Renewing(q, g) /\ ~Renewing(q, g)'
    BY <1>3
  <2>2. req'[q] # req[q] /\ req[q].pc = "create"
    BY <1>1, <2>1 DEF Renewing, InFlight
  <2>3. UNCHANGED refresh /\ \A x \in Request : x # q => req'[x] = req[x]
    BY <2>2 DEF QuietStep
  <2>4. FamilyState(g) = "rotating"
    BY <2>1, FamilyStateCases
  <2>5. FamilyState(g)' = "ended"
    <3>1. \A x \in Request : ~Renewing(x, g)'
      BY <1>1, <2>1 DEF FamilyInv, OneSuccessor
    <3>2. \A s \in Session : Active(s)' => family'[s] # g
      BY <1>1, <2>1 DEF FamilyInv, OneSuccessor
    <3>3. PICK c \in Session : Issued(c) /\ family[c] = g
      BY <2>1, RequestTyping DEF Renewing, FamilyInv, TypeInv, TokensWereIssued
    <3>4. Issued(c)' /\ family'[c] = g
      BY <1>1, <3>3
    <3> QED
      BY <3>1, <3>2, <3>4 DEF FamilyState
  <2>6. ASSUME NEW f \in Session, f # g PROVE FamilyState(f)' = FamilyState(f)
    <3>1. \A x \in Request : Renewing(x, f)' <=> Renewing(x, f)
      BY <1>1, <2>1, <2>3, <2>6 DEF Renewing, InFlight
    <3>2. \A s \in Session : Active(s)' <=> Active(s)
      BY <1>1, <2>3
    <3> QED
      BY <1>1, <3>1, <3>2, FamilyStateKept
  <2>7. FamilyStates' = [FamilyStates EXCEPT ![g] = "ended"]
    BY <2>5, <2>6 DEF FamilyStates
  <2> QED
    BY <2>4, <2>7 DEF Families!Lose, FamilyStates
<1> QED
  BY <1>2, <1>3

LEMMA StepRefines ==
  FamilyInv /\ FamilyInv' /\ [Next]_vars => [Families!Next]_FamilyStates
<1> SUFFICES ASSUME FamilyInv, FamilyInv', [Next]_vars
             PROVE  [Families!Next]_FamilyStates
    OBVIOUS
<1>1. \/ \E r \in Request, s \in Session : Create(r, s)
      \/ \E r \in Request : RefreshRotate(r)
      \/ QuietStep
  BY QuietSteps DEF FamilyInv
<1> QED
  BY <1>1, CreateRefines, RotateRefines, QuietRefines DEF Families!Next

LEMMA InitRefines == Init => Families!Init
<1> SUFFICES ASSUME Init PROVE Families!Init
    OBVIOUS
<1>1. \A s \in Session : ~Issued(s) /\ ~Active(s)
  BY DEF Init, Issued, Active
<1>2. \A r \in Request, f \in Session : ~Renewing(r, f)
  BY DEF Init, Renewing, InFlight, Idle
<1>3. \A f \in Session : FamilyState(f) = "unborn"
  BY <1>1, <1>2 DEF FamilyState
<1> QED
  BY <1>3 DEF Families!Init, FamilyStates

\* Rotation keeps its promise for every number of users, sessions and requests
\* in flight: a family is renewed only by the one refresh that consumed its
\* token, and once ended is never accepted again.
THEOREM RefinesSessionFamily == Spec => ImplementsSessionFamily
<1>1. Spec => []FamilyInv
  BY FamilyInvHolds
<1> QED
  BY <1>1, InitRefines, StepRefines, PTL
     DEF Spec, ImplementsSessionFamily, Families!Spec

------------------------------------------------------------------------------
\* What the requests act for, and what a sweep may do

\* What a request is known to act for.  It acts for the owner of the session it
\* was made with, except for the deletion of another account by an admin; a
\* password change stays on the path of its handler; the list a sweep has read
\* holds sessions of the account it acts on, without the one it spares.
HandlerInv(r) ==
    /\ req[r].sid \in Session =>
          \/ owner[req[r].sid] = req[r].who
          \/ /\ owner[req[r].sid] \in Admin
             /\ req[r].pc \in {"deleteUser", "findActive", "blacklistAll",
                               "revokeAll", "reply"}
    /\ req[r].op = "changePassword" =>
          /\ req[r].sid \in Session
          /\ req[r].pc \in {"loadUser", "checkPassword", "findActive",
                            "blacklistAll", "revokeAll", "reply"}
    /\ req[r].pc = "blacklistAll" =>
          \A s \in req[r].snap :
             Issued(s) /\ owner[s] = req[r].who /\ s # Keep(r)

\* The inductive invariant.
HandlersInv == FamilyInv /\ \A r \in Request : HandlerInv(r)

\* A stored session keeps its owner, and is never accepted again.
LEMMA SessionsKept ==
  ASSUME FamilyInv, [Next]_vars, NEW s \in Session, Issued(s)
  PROVE  /\ Issued(s)' /\ owner'[s] = owner[s]
         /\ Active(s)' => Active(s)
<1>1. ASSUME NEW r \in Request, NEW n \in Session, Create(r, n)
      PROVE  /\ Issued(s)' /\ owner'[s] = owner[s]
             /\ Active(s)' => Active(s)
  <2>1. s # n
    BY <1>1 DEF Create, Issued
  <2>2. refresh'[s] = refresh[s] /\ owner'[s] = owner[s]
    BY <1>1, <2>1 DEF Create, FamilyInv, TypeInv, TypeOK
  <2> QED
    BY <2>2 DEF Issued, Active
<1>2. ASSUME NEW r \in Request, RefreshRotate(r)
      PROVE  /\ Issued(s)' /\ owner'[s] = owner[s]
             /\ Active(s)' => Active(s)
  <2>1. PICK p : p = req[r].sid
    OBVIOUS
  <2> QED
    BY <1>2, <2>1, RotateEffect
<1>3. CASE QuietStep
  BY <1>3 DEF QuietStep, Issued, Active
<1> QED
  BY <1>1, <1>2, <1>3, QuietSteps DEF FamilyInv

LEMMA HandlerKept ==
  ASSUME HandlersInv, [Next]_vars, NEW r \in Request, req'[r] = req[r]
  PROVE  HandlerInv(r)'
<1>1. HandlerInv(r) /\ FamilyInv
  BY DEF HandlersInv
<1>2. Keep(r)' = Keep(r)
  BY DEF Keep
<1>3. req[r].sid \in Session => owner'[req[r].sid] = owner[req[r].sid]
  BY <1>1, SessionsKept DEF FamilyInv, TokensWereIssued
<1>4. \A s \in req[r].snap : Issued(s) => Issued(s)' /\ owner'[s] = owner[s]
  BY <1>1, SessionsKept DEF FamilyInv, TypeInv, TypeOK, RequestState
<1> QED
  BY <1>1, <1>2, <1>3, <1>4 DEF HandlerInv

LEMMA IdleHandler ==
  ASSUME NEW r \in Request, req'[r] = Idle
  PROVE  HandlerInv(r)'
  BY SessionsAssumption DEF Idle, HandlerInv

\* The request r is as it should be after the step, and the others have not moved.
HandlerMoves(r) ==
    /\ HandlerInv(r)'
    /\ \A q \in Request : q # r => req'[q] = req[q]

LEMMA FinishMoves ==
  ASSUME TypeOK, NEW r \in Request, Finish(r)
  PROVE  HandlerMoves(r)
  BY FinishEffect, IdleHandler DEF HandlerMoves

\* A step along the handler of r, for the same operation, session and account.
LEMMA OnwardMoves ==
  ASSUME HandlersInv, [Next]_vars, NEW r \in Request,
         \A q \in Request : q # r => req'[q] = req[q],
         req'[r].op = req[r].op, req'[r].sid = req[r].sid, req'[r].who = req[r].who,
         req'[r].pc # "blacklistAll",
         \/ req[r].sid \in Session => owner[req[r].sid] = req[r].who
         \/ req'[r].pc \in {"deleteUser", "findActive", "blacklistAll", "revokeAll", "reply"},
         \/ req[r].op # "changePassword"
         \/ req'[r].pc \in {"loadUser", "checkPassword", "findActive",
                            "blacklistAll", "revokeAll", "reply"}
  PROVE  HandlerMoves(r)
<1>1. HandlerInv(r) /\ FamilyInv
  BY DEF HandlersInv
<1>2. req[r].sid \in Session => owner'[req[r].sid] = owner[req[r].sid]
  BY <1>1, SessionsKept DEF FamilyInv, TokensWereIssued
<1> QED
  BY <1>1, <1>2 DEF HandlerInv, HandlerMoves

\* A request that begins acts for the owner of its session.
LEMMA ArrivalMoves ==
  ASSUME HandlersInv, [Next]_vars, NEW r \in Request, Arrive(r)
  PROVE  HandlerMoves(r)
<1>0. TypeOK /\ UNCHANGED owner
  BY DEF HandlersInv, FamilyInv, TypeInv, Arrive, Login, ResetPassword,
         RefreshStart, Authenticate
<1>1. ASSUME NEW u \in User, Login(r, u) \/ ResetPassword(r, u) PROVE HandlerMoves(r)
  BY SessionsAssumption, <1>0, <1>1, BecomeEffect
     DEF Login, ResetPassword, HandlerMoves, HandlerInv
<1>2. ASSUME NEW s \in Session, RefreshStart(r, s) PROVE HandlerMoves(r)
  BY <1>0, <1>2, BecomeEffect DEF RefreshStart, Verify, HandlerMoves, HandlerInv
<1>3. ASSUME NEW s \in Session, NEW o \in Protected, Authenticate(r, o, s)
      PROVE  HandlerMoves(r)
  BY <1>0, <1>3, BecomeEffect DEF Authenticate, Protected, HandlerMoves, HandlerInv
<1> QED
  BY <1>1, <1>2, <1>3 DEF Arrive

LEMMA HandlerStep == HandlersInv /\ [Next]_vars => HandlersInv'
<1> SUFFICES ASSUME HandlersInv, [Next]_vars PROVE HandlersInv'
    OBVIOUS
<1>0. /\ FamilyInv /\ TypeOK /\ \A r \in Request : HandlerInv(r)
      /\ "reply" \in Label /\ "rotate" \in Label /\ "create" \in Label
      /\ "findActive" \in Label /\ "verify" \in Label /\ "checkPassword" \in Label
      /\ "blacklistOne" \in Label
  BY DEF HandlersInv, FamilyInv, TypeInv, Label
<1>1. ASSUME NEW r \in Request, NEW s \in Session, Create(r, s) PROVE HandlerMoves(r)
  BY <1>0, <1>1, FinishMoves DEF Create
<1>2. ASSUME NEW r \in Request, RefreshLoadOwner(r) PROVE HandlerMoves(r)
  <2>1. CASE Goto(r, "rotate")
    BY <1>0, <1>2, <2>1, GotoEffect, OnwardMoves DEF RefreshLoadOwner, InFlight, HandlerInv
  <2> QED
    BY <1>0, <1>2, <2>1, FinishMoves DEF RefreshLoadOwner
<1>3. ASSUME NEW r \in Request, RefreshRotate(r) PROVE HandlerMoves(r)
  <2>1. PICK label \in {"create", "findActive"} : Goto(r, label)
    BY <1>3 DEF RefreshRotate
  <2> QED
    BY <1>0, <1>3, <2>1, GotoEffect, OnwardMoves DEF RefreshRotate, InFlight, HandlerInv
<1>4. ASSUME NEW r \in Request, Authorize(r) PROVE HandlerMoves(r)
  <2>0. req[r].pc = "loadUser" /\ UNCHANGED owner
    BY <1>4 DEF Authorize, InFlight
  <2>1. CASE Finish(r)
    BY <1>0, <2>1, FinishMoves
  <2>2. CASE req[r].op \in {"logout", "logoutAll"} /\ Goto(r, "verify")
    BY <1>0, <2>0, <2>2, GotoEffect, OnwardMoves DEF HandlerInv
  <2>3. CASE Goto(r, "checkPassword")
    BY <1>0, <2>0, <2>3, GotoEffect, OnwardMoves DEF HandlerInv
  <2>4. ASSUME NEW t \in MayDelete(req[r].who),
               Become(r, "deleteUser", "deleteUser", req[r].sid, t)
        PROVE  HandlerMoves(r)
    <3>1. t = req[r].who \/ req[r].who \in Admin
      BY DEF MayDelete
    <3>2. req[r].sid \in Session => owner[req[r].sid] = req[r].who
      BY <1>0, <2>0 DEF HandlerInv
    <3>3. /\ \A q \in Request : q # r => req'[q] = req[q]
          /\ req'[r].op = "deleteUser" /\ req'[r].pc = "deleteUser"
          /\ req'[r].sid = req[r].sid /\ req'[r].who = t
      BY <1>0, <2>4, BecomeEffect
    <3> QED
      BY <2>0, <3>1, <3>2, <3>3 DEF HandlerMoves, HandlerInv
  <2> QED
    BY <1>4, <2>1, <2>2, <2>3, <2>4 DEF Authorize
<1>5. ASSUME NEW r \in Request, LogoutVerify(r) PROVE HandlerMoves(r)
  <2>1. /\ req[r].sid \in Session /\ req[r].op # "changePassword" /\ UNCHANGED owner
    BY <1>0, <1>5 DEF LogoutVerify, InFlight, HandlerInv, FamilyInv, TypeInv, WithTokens
  <2>2. PICK label \in {"endSession", "findActive"} :
               Become(r, req[r].op, label, req[r].sid, owner[req[r].sid])
    BY <1>5 DEF LogoutVerify, Verify
  <2> QED
    BY <1>0, <2>1, <2>2, BecomeEffect DEF HandlerMoves, HandlerInv
<1>6. ASSUME NEW r \in Request, LogoutEndSession(r) PROVE HandlerMoves(r)
  BY <1>0, <1>6, GotoEffect, OnwardMoves DEF LogoutEndSession, InFlight, HandlerInv
<1>7. ASSUME NEW r \in Request, LogoutDone(r), UNCHANGED owner,
             req[r].pc \in {"blacklistOne", "revokeAll"}
      PROVE  HandlerMoves(r)
  <2>1. CASE Goto(r, "reply")
    BY <1>0, <1>7, <2>1, GotoEffect, OnwardMoves DEF HandlerInv
  <2>2. CASE Become(r, "sweepAll", "findActive", req[r].sid, req[r].who)
    BY <1>0, <1>7, <2>2, BecomeEffect DEF HandlerMoves, HandlerInv
  <2> QED
    BY <1>7, <2>1, <2>2 DEF LogoutDone
<1>8. ASSUME NEW r \in Request, LogoutBlacklist(r) \/ SweepRevoke(r) PROVE HandlerMoves(r)
  BY <1>7, <1>8 DEF LogoutBlacklist, SweepRevoke, InFlight
<1>9. ASSUME NEW r \in Request, ChangePassword(r) PROVE HandlerMoves(r)
  <2>1. CASE Goto(r, "findActive")
    BY <1>0, <1>9, <2>1, GotoEffect, OnwardMoves
  <2> QED
    BY <1>0, <1>9, <2>1, FinishMoves DEF ChangePassword
<1>10. ASSUME NEW r \in Request, DeleteUser(r) PROVE HandlerMoves(r)
  <2>1. CASE Goto(r, "findActive")
    BY <1>0, <1>10, <2>1, GotoEffect, OnwardMoves
  <2> QED
    BY <1>0, <1>10, <2>1, FinishMoves DEF DeleteUser
<1>11. ASSUME NEW r \in Request, SweepFind(r) PROVE HandlerMoves(r)
  <2>1. /\ \A q \in Request : q # r => req'[q] = req[q]
        /\ req'[r].op = req[r].op /\ req'[r].pc = "blacklistAll"
        /\ req'[r].sid = req[r].sid /\ req'[r].who = req[r].who
        /\ req'[r].snap = FindActiveTokensByUserId(req[r].who) \ {Keep(r)}
    BY <1>0, <1>11 DEF SweepFind, TypeOK
  <2>2. Keep(r)' = Keep(r)
    BY <2>1 DEF Keep
  <2>3. req[r].pc = "findActive" /\ UNCHANGED <<refresh, owner>>
    BY <1>11 DEF SweepFind, InFlight
  <2>4. \A s \in req'[r].snap :
           s \in Session /\ Issued(s)' /\ owner'[s] = req[r].who /\ s # Keep(r)'
    BY <2>1, <2>2, <2>3 DEF FindActiveTokensByUserId, Issued
  <2> QED
    BY <1>0, <2>1, <2>3, <2>4 DEF HandlerMoves, HandlerInv
<1>12. ASSUME NEW r \in Request, SweepBlacklist(r) PROVE HandlerMoves(r)
  <2>1. Become(r, req[r].op, "revokeAll", req[r].sid, req[r].who)
    BY <1>12 DEF SweepBlacklist
  <2> QED
    BY <1>0, <2>1, BecomeEffect, OnwardMoves
<1>13. ASSUME NEW r \in Request, Reply(r) \/ Fail(r) PROVE HandlerMoves(r)
  BY <1>0, <1>13, FinishMoves DEF Reply, Fail
<1>14. ASSUME NEW r \in Request, HandlerMoves(r)
       PROVE  \A q \in Request : HandlerInv(q)'
  BY <1>14, HandlerKept DEF HandlerMoves
<1>15. ASSUME req' = req PROVE \A q \in Request : HandlerInv(q)'
  BY <1>15, HandlerKept
<1>16. FamilyInv'
  BY <1>0, FamilyInvariance
<1>17. \A q \in Request : HandlerInv(q)'
  BY <1>1, <1>2, <1>3, <1>4, <1>5, <1>6, <1>8, <1>9, <1>10, <1>11, <1>12, <1>13,
     <1>14, <1>15, ArrivalMoves
     DEF Next, Step, Bar, vars
<1> QED
  BY <1>16, <1>17 DEF HandlersInv

LEMMA HandlersInit == Init => HandlersInv
  BY FamilyInit, SessionsAssumption DEF Init, Idle, HandlersInv, HandlerInv

LEMMA HandlersInvHolds == Spec => []HandlersInv
  BY HandlersInit, HandlerStep, PTL DEF Spec

------------------------------------------------------------------------------
\* Isolation and KeepsCurrentSession

\* The only steps that change the documents of a session already stored.
Touches(r, s) ==
    \/ /\ RefreshRotate(r) \/ LogoutEndSession(r) \/ LogoutBlacklist(r)
       /\ s = req[r].sid
    \/ SweepBlacklist(r) /\ s \in req[r].snap
    \/ SweepRevoke(r) /\ owner[s] = req[r].who /\ s # Keep(r)

LEMMA DocumentsTouched ==
  ASSUME HandlersInv, [Next]_vars, NEW s \in Session, Issued(s),
         refresh'[s] # refresh[s] \/ blacklist'[s] # blacklist[s]
  PROVE  \E r \in Request : /\ Touches(r, s)
                            /\ \A q \in Request : q # r => req'[q] = req[q]
<1>0. TypeOK
  BY DEF HandlersInv, FamilyInv, TypeInv
<1>1. ASSUME NEW r \in Request, Arrive(r) PROVE FALSE
  BY <1>1 DEF Arrive, Login, ResetPassword, RefreshStart, Authenticate
<1>2. ASSUME NEW r \in Request, NEW n \in Session, Create(r, n) PROVE FALSE
  BY <1>0, <1>2 DEF Create, Issued, TypeOK
<1>3. ASSUME NEW r \in Request, RefreshRotate(r) \/ LogoutEndSession(r) PROVE s = req[r].sid
  BY <1>0, <1>3 DEF RefreshRotate, LogoutEndSession, RevokeSession, Deactivate, TypeOK
<1>4. ASSUME NEW r \in Request, LogoutBlacklist(r) PROVE s = req[r].sid
  BY <1>0, <1>4 DEF LogoutBlacklist, BlacklistSessions
<1>5. ASSUME NEW r \in Request, SweepBlacklist(r) PROVE s \in req[r].snap
  BY <1>0, <1>5 DEF SweepBlacklist, BlacklistSessions
<1>6. ASSUME NEW r \in Request, SweepRevoke(r) PROVE owner[s] = req[r].who /\ s # Keep(r)
  BY <1>0, <1>6 DEF SweepRevoke, RevokeAllUserTokens, Deactivate
<1>7. ASSUME NEW r \in Request, Step(r) PROVE Touches(r, s)
  BY <1>2, <1>3, <1>4, <1>5, <1>6, <1>7
     DEF Step, Touches, RefreshLoadOwner, Authorize, LogoutVerify, ChangePassword,
         DeleteUser, SweepFind, Reply
<1>8. ASSUME NEW r \in Request, Touches(r, s)
      PROVE  \A q \in Request : q # r => req'[q] = req[q]
  <2>1. CASE RefreshRotate(r) \/ LogoutEndSession(r)
    BY <1>0, <2>1 DEF RefreshRotate, LogoutEndSession, Goto, TypeOK
  <2>2. CASE SweepBlacklist(r)
    BY <1>0, <2>2, BecomeEffect DEF SweepBlacklist
  <2>3. CASE LogoutBlacklist(r) \/ SweepRevoke(r)
    BY <1>0, <2>3, LogoutDoneEffect DEF LogoutBlacklist, SweepRevoke
  <2> QED
    BY <1>8, <2>1, <2>2, <2>3 DEF Touches
<1>9. \E r \in Request : Step(r)
  BY <1>1 DEF Next, Fail, Bar, vars
<1> QED
  BY <1>7, <1>8, <1>9

LEMMA IsolatedStep ==
  ASSUME HandlersInv, [Next]_vars, NEW r \in Request, NEW s \in Session,
         Issued(s), req'[r] # req[r],
         refresh'[s] # refresh[s] \/ blacklist'[s] # blacklist[s]
  PROVE  /\ owner[s] = req[r].who
         /\ \/ req[r].sid = NoSession
            \/ owner[req[r].sid] = owner[s]
            \/ owner[req[r].sid] \in Admin
<1>1. Touches(r, s)
  BY DocumentsTouched
<1>2. /\ HandlerInv(r)
      /\ req[r].sid \in Session \cup {NoSession}
  BY RequestTyping DEF HandlersInv, FamilyInv, TypeInv
<1>3. owner[s] = req[r].who
  <2>1. CASE /\ RefreshRotate(r) \/ LogoutEndSession(r) \/ LogoutBlacklist(r)
             /\ s = req[r].sid
    BY <1>2, <2>1
       DEF RefreshRotate, LogoutEndSession, LogoutBlacklist, InFlight, HandlerInv
  <2>2. CASE SweepBlacklist(r) /\ s \in req[r].snap
    BY <1>2, <2>2 DEF SweepBlacklist, InFlight, HandlerInv
  <2> QED
    BY <1>1, <2>1, <2>2 DEF Touches
<1> QED
  BY <1>2, <1>3 DEF HandlerInv

LEMMA CurrentSessionStep ==
  ASSUME HandlersInv, [Next]_vars, NEW r \in Request,
         req[r].op = "changePassword", req'[r] # req[r]
  PROVE  /\ refresh'[req[r].sid] = refresh[req[r].sid]
         /\ blacklist'[req[r].sid] = blacklist[req[r].sid]
<1>1. /\ HandlerInv(r) /\ req[r].sid \in Session /\ Issued(req[r].sid)
      /\ Keep(r) = req[r].sid
  BY DEF HandlersInv, HandlerInv, FamilyInv, TokensWereIssued, Keep
<1>2. ~Touches(r, req[r].sid)
  BY <1>1
     DEF Touches, RefreshRotate, LogoutEndSession, LogoutBlacklist, SweepBlacklist,
         InFlight, HandlerInv
<1> QED
  BY <1>1, <1>2, DocumentsTouched

\* Only an admin's requests reach the sessions of another user, through every
\* step of every handler, the list of a sweep that was read two calls earlier
\* included.
THEOREM RequestsAreIsolated == Spec => Isolation
<1> DEFINE A == \A r \in Request, s \in Session :
                  /\ Issued(s)
                  /\ req'[r] # req[r]
                  /\ refresh'[s] # refresh[s] \/ blacklist'[s] # blacklist[s]
                  => /\ owner[s] = req[r].who
                     /\ \/ req[r].sid = NoSession
                        \/ owner[req[r].sid] = owner[s]
                        \/ owner[req[r].sid] \in Admin
<1>1. HandlersInv /\ [Next]_vars => [A]_vars
  BY IsolatedStep
<1> HIDE DEF A
<1>2. Spec => [][A]_vars
  BY <1>1, HandlersInvHolds, PTL DEF Spec
<1> QED
  BY <1>2 DEF Isolation, A

\* changePassword spares the session it was called on, in each of the three
\* calls of blacklistAndRevokeUserSessionsExcept.
THEOREM PasswordChangeKeepsSession == Spec => KeepsCurrentSession
<1> DEFINE A == \A r \in Request :
                  req[r].op = "changePassword" /\ req'[r] # req[r] =>
                     LET s == req[r].sid
                     IN  refresh'[s] = refresh[s] /\ blacklist'[s] = blacklist[s]
<1>1. HandlersInv /\ [Next]_vars => [A]_vars
  BY CurrentSessionStep
<1> HIDE DEF A
<1>2. Spec => [][A]_vars
  BY <1>1, HandlersInvHolds, PTL DEF Spec
<1> QED
  BY <1>2 DEF KeepsCurrentSession, A

------------------------------------------------------------------------------
\* BlacklistedOnlyWhileClosing, when no call fails

\* A session is blacklisted after it was stored, and a logout blacklists the
\* session it has revoked.
ClosingInv ==
    /\ HandlersInv
    /\ \A s \in Session : IsSessionBlacklisted(s) => Issued(s)
    /\ \A r \in Request : req[r].pc = "blacklistOne" => ~Active(req[r].sid)
    /\ BlacklistedOnlyWhileClosing

LEMMA BlacklistedIssued ==
  ASSUME ClosingInv, [Next]_vars, NEW s \in Session, IsSessionBlacklisted(s)'
  PROVE  Issued(s)'
<1>0. HandlersInv /\ FamilyInv /\ TypeOK
  BY DEF ClosingInv, HandlersInv, FamilyInv, TypeInv
<1>1. CASE Issued(s)
  BY <1>0, <1>1, SessionsKept
<1>2. CASE ~Issued(s)
  <2>1. blacklist[s] = "absent" /\ blacklist'[s] # "absent"
    BY <1>2 DEF ClosingInv, IsSessionBlacklisted
  <2>2. PICK r \in Request : Step(r)
    <3>1. ASSUME NEW r \in Request, Arrive(r) PROVE blacklist' = blacklist
      BY <3>1 DEF Arrive, Login, ResetPassword, RefreshStart, Authenticate
    <3> QED
      BY <2>1, <3>1 DEF Next, Fail, Bar, vars
  <2>3. CASE LogoutBlacklist(r)
    <3>1. s = req[r].sid
      BY <2>1, <2>3 DEF LogoutBlacklist, BlacklistSessions
    <3> QED
      BY <1>0, <1>2, <3>1 DEF FamilyInv, TokensWereIssued
  <2>4. CASE SweepBlacklist(r)
    <3>1. s \in req[r].snap
      BY <2>1, <2>4 DEF SweepBlacklist, BlacklistSessions
    <3> QED
      BY <1>0, <1>2, <2>4, <3>1 DEF SweepBlacklist, InFlight, HandlersInv, HandlerInv
  <2>5. CASE SweepRevoke(r)
    BY <2>1, <2>5 DEF SweepRevoke, RevokeAllUserTokens, Deactivate
  <2> QED
    BY <2>1, <2>2, <2>3, <2>4, <2>5
       DEF Step, Create, RefreshLoadOwner, RefreshRotate, Authorize, LogoutVerify,
           LogoutEndSession, ChangePassword, DeleteUser, SweepFind, Reply
<1> QED
  BY <1>1, <1>2

LEMMA LogoutHasRevoked ==
  ASSUME ClosingInv, [Next]_vars, NEW r \in Request, req'[r].pc = "blacklistOne"
  PROVE  refresh'[req'[r].sid] # "active"
<1>0. HandlersInv /\ FamilyInv /\ TypeOK /\ "reply" \in Label
  BY DEF ClosingInv, HandlersInv, FamilyInv, TypeInv, Label
<1>1. CASE req'[r] = req[r]
  <2>1. req[r].sid \in Session /\ Issued(req[r].sid) /\ ~Active(req[r].sid)
    BY <1>0, <1>1 DEF FamilyInv, TypeInv, TokensWereIssued, WithTokens, ClosingInv
  <2>2. req'[r].sid = req[r].sid
    BY <1>1
  <2>3. refresh'[req[r].sid] # "active"
    BY <1>0, <2>1, SessionsKept DEF Active
  <2> QED
    BY <2>2, <2>3
<1>2. CASE LogoutEndSession(r)
  <2>1. req'[r].sid = req[r].sid /\ req[r].sid \in Session
    BY <1>0, <1>2, GotoEffect
       DEF LogoutEndSession, InFlight, FamilyInv, TypeInv, WithTokens, Label
  <2>2. refresh'[req[r].sid] # "active"
    BY <1>2, <2>1 DEF LogoutEndSession, RevokeSession, Deactivate
  <2> QED
    BY <2>1, <2>2
<1>3. ASSUME NEW q \in Request, Arrive(q) \/ Step(q) \/ Fail(q), ~LogoutEndSession(q), q = r
      PROVE  FALSE
  <2>1. ~Finish(q)
    BY <1>0, <1>3, FinishEffect DEF Idle
  <2>2. ASSUME NEW label \in Label, Goto(q, label) PROVE label = "blacklistOne"
    BY <1>0, <1>3, <2>2, GotoEffect
  <2>3. ASSUME NEW o, NEW label, NEW x, NEW u, Become(q, o, label, x, u)
        PROVE  label = "blacklistOne"
    BY <1>0, <1>3, <2>3, BecomeEffect
  <2>4. ~Arrive(q)
    BY <2>3 DEF Arrive, Login, ResetPassword, RefreshStart, Verify, Authenticate
  <2>5. ~Authorize(q)
    BY <2>1, <2>2, <2>3 DEF Authorize, Label
  <2>6. ~LogoutVerify(q) /\ ~SweepBlacklist(q)
    BY <2>3 DEF LogoutVerify, Verify, SweepBlacklist
  <2>7. ~LogoutBlacklist(q) /\ ~SweepRevoke(q)
    BY <1>0, <1>3, LogoutDoneEffect DEF LogoutBlacklist, SweepRevoke
  <2>8. ~RefreshLoadOwner(q) /\ ~RefreshRotate(q) /\ ~ChangePassword(q) /\ ~DeleteUser(q)
    BY <2>1, <2>2 DEF RefreshLoadOwner, RefreshRotate, ChangePassword, DeleteUser, Label
  <2>9. ~SweepFind(q)
    BY <1>0, <1>3 DEF SweepFind, TypeOK
  <2> QED
    BY <1>3, <2>1, <2>4, <2>5, <2>6, <2>7, <2>8, <2>9 DEF Step, Create, Reply, Fail
<1>4. ASSUME NEW q \in Request, Arrive(q) \/ Step(q) \/ Fail(q), q # r
      PROVE  req'[r] = req[r]
  BY <1>0, <1>4
     DEF Arrive, Login, ResetPassword, RefreshStart, Verify, Authenticate, Become,
         Step, Create, RefreshLoadOwner, RefreshRotate, Authorize, LogoutVerify,
         LogoutEndSession, LogoutBlacklist, ChangePassword, DeleteUser, SweepFind,
         SweepBlacklist, SweepRevoke, LogoutDone, Reply, Fail, Goto, Finish, TypeOK
<1> QED
  BY <1>1, <1>2, <1>3, <1>4 DEF Next, Bar, vars

LEMMA ClosingStep ==
  ASSUME ~MayFail, ClosingInv, [Next]_vars
  PROVE  BlacklistedOnlyWhileClosing'
<1> SUFFICES ASSUME NEW s \in Session, Active(s)', IsSessionBlacklisted(s)'
             PROVE  \E r \in Request : /\ req'[r].pc = "revokeAll"
                                       /\ req'[r].who = owner'[s]
                                       /\ s # Keep(r)'
    BY DEF BlacklistedOnlyWhileClosing, InFlight
<1>0. HandlersInv /\ FamilyInv /\ TypeOK
  BY DEF ClosingInv, HandlersInv, FamilyInv, TypeInv
<1>1. Issued(s)
  <2>1. CASE \E r \in Request, n \in Session : Create(r, n)
    BY <1>0, <2>1 DEF Create, Issued, Active, IsSessionBlacklisted, ClosingInv, TypeOK
  <2>2. CASE \E r \in Request : RefreshRotate(r)
    <3>1. PICK r \in Request : RefreshRotate(r)
      BY <2>2
    <3>2. PICK p : p = req[r].sid
      OBVIOUS
    <3> QED
      BY <1>0, <3>1, <3>2, RotateEffect DEF Active, Issued
  <2>3. CASE QuietStep
    BY <2>3 DEF QuietStep, Active, Issued
  <2> QED
    BY <1>0, <2>1, <2>2, <2>3, QuietSteps DEF FamilyInv
<1>2. Active(s) /\ owner'[s] = owner[s]
  BY <1>0, <1>1, SessionsKept
<1>3. CASE IsSessionBlacklisted(s)
  <2>1. PICK r \in Request : /\ req[r].pc = "revokeAll"
                             /\ req[r].who = owner[s]
                             /\ s # Keep(r)
    BY <1>2, <1>3 DEF ClosingInv, BlacklistedOnlyWhileClosing, InFlight
  <2>2. ~SweepRevoke(r)
    BY <2>1 DEF SweepRevoke, RevokeAllUserTokens, Deactivate, Active
  <2>3. req'[r] = req[r]
    <3>1. ASSUME NEW q \in Request, Arrive(q) \/ Step(q), q # r PROVE req'[r] = req[r]
      BY <1>0, <3>1
         DEF Arrive, Login, ResetPassword, RefreshStart, Verify, Authenticate, Become,
             Step, Create, RefreshLoadOwner, RefreshRotate, Authorize, LogoutVerify,
             LogoutEndSession, LogoutBlacklist, ChangePassword, DeleteUser, SweepFind,
             SweepBlacklist, SweepRevoke, LogoutDone, Reply, Goto, Finish, TypeOK
    <3>2. ~Arrive(r)
      BY <2>1 DEF Arrive, Login, ResetPassword, RefreshStart, Authenticate, InFlight
    <3>3. ~Step(r)
      BY <2>1, <2>2
         DEF Step, Create, RefreshLoadOwner, RefreshRotate, Authorize, LogoutVerify,
             LogoutEndSession, LogoutBlacklist, ChangePassword, DeleteUser, SweepFind,
             SweepBlacklist, Reply, InFlight
    <3> QED
      BY <3>1, <3>2, <3>3 DEF Next, Fail, Bar, vars
  <2>4. Keep(r)' = Keep(r)
    BY <2>3 DEF Keep
  <2> QED
    BY <1>2, <2>1, <2>3, <2>4
<1>4. CASE ~IsSessionBlacklisted(s)
  <2>1. blacklist'[s] # blacklist[s] /\ blacklist[s] = "absent" /\ blacklist'[s] # "absent"
    BY <1>4 DEF IsSessionBlacklisted
  <2>2. PICK r \in Request : Touches(r, s)
    BY <1>0, <1>1, <2>1, DocumentsTouched
  <2>3. ~RefreshRotate(r) /\ ~LogoutEndSession(r)
    BY <2>1 DEF RefreshRotate, LogoutEndSession
  <2>4. ~SweepRevoke(r)
    BY <2>1 DEF SweepRevoke, RevokeAllUserTokens, Deactivate
  <2>5. ~(LogoutBlacklist(r) /\ s = req[r].sid)
    BY <1>2 DEF LogoutBlacklist, InFlight, ClosingInv
  <2>6. SweepBlacklist(r) /\ s \in req[r].snap
    BY <2>2, <2>3, <2>4, <2>5 DEF Touches
  <2>7. owner[s] = req[r].who /\ s # Keep(r)
    BY <1>0, <2>6 DEF SweepBlacklist, InFlight, HandlersInv, HandlerInv
  <2>8. /\ req'[r].pc = "revokeAll" /\ req'[r].who = req[r].who
        /\ req'[r].op = req[r].op /\ req'[r].sid = req[r].sid
    BY <1>0, <2>6, BecomeEffect DEF SweepBlacklist
  <2>9. Keep(r)' = Keep(r)
    BY <2>8 DEF Keep
  <2> QED
    BY <1>2, <2>7, <2>8, <2>9
<1> QED
  BY <1>3, <1>4

\* When no call fails, a session that requireAuth refuses is on its way out of
\* the refresh tokens as well: the sweep works through a list read two calls
\* earlier and then a fresh query, and the two never disagree for good.
THEOREM BlacklistedIsClosing ==
  ASSUME ~MayFail
  PROVE  Spec => []BlacklistedOnlyWhileClosing
<1>1. Init => ClosingInv
  BY HandlersInit
     DEF Init, ClosingInv, IsSessionBlacklisted, BlacklistedOnlyWhileClosing, Active, Idle
<1>2. ASSUME ClosingInv, [Next]_vars PROVE ClosingInv'
  <2>1. HandlersInv'
    BY <1>2, HandlerStep DEF ClosingInv
  <2>2. \A r \in Request : (req[r].pc = "blacklistOne" => ~Active(req[r].sid))'
    <3>1. ASSUME NEW r \in Request, req'[r].pc = "blacklistOne"
          PROVE  refresh'[req'[r].sid] # "active"
      BY <1>2, <3>1, LogoutHasRevoked
    <3> QED
      BY <3>1 DEF Active
  <2>3. BlacklistedOnlyWhileClosing'
    BY <1>2, ClosingStep
  <2>4. \A s \in Session : (IsSessionBlacklisted(s) => Issued(s))'
    BY <1>2, BlacklistedIssued
  <2> QED
    BY <2>1, <2>2, <2>3, <2>4 DEF ClosingInv
<1>3. ClosingInv => BlacklistedOnlyWhileClosing
  BY DEF ClosingInv
<1> QED
  BY <1>1, <1>2, <1>3, PTL DEF Spec

==============================================================================
