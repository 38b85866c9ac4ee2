------------------------------ MODULE Sessions ------------------------------
(***************************************************************************)
(* The sessions of the API: the refresh tokens and the blacklist in the    *)
(* "tokens" collection, and every request that creates, rotates, checks or *)
(* revokes them, interleaved at each awaited database call.                *)
(*                                                                         *)
(*   apps/api/src/repositories/token.repository.ts   the collection        *)
(*   apps/api/src/services/token.service.ts          the sweeps            *)
(*   apps/api/src/services/auth.service.ts           the operations        *)
(*   apps/api/src/middlewares/auth.middleware.ts     requireAuth           *)
(*                                                                         *)
(* One step of a request is one database call together with everything the *)
(* code decides from its answer before the next one; between two steps any *)
(* other request may run.  A request that is turned away by its first read *)
(* changes nothing and is a stuttering step.  A request carries the access *)
(* and the refresh token of ONE session: setAuthCookies sets the two       *)
(* cookies together and clearAuthCookies drops them together.              *)
(*                                                                         *)
(* Left to other modules: the expiry of tokens, and what a password, an    *)
(* OTP or a Google profile must be to be accepted.  Here the caller holds  *)
(* the right one or is turned away.                                        *)
(***************************************************************************)
EXTENDS Naturals, FiniteSets

CONSTANTS
    User,       \* the accounts that exist at the start
    Admin,      \* those with role "admin"
    Session,    \* session ids: the bound on how many sessions are ever created
    Request,    \* slots for requests in flight: the bound on concurrency
    MayFail,    \* may a database call fail, or the process die, at any point?
    NoUser, NoSession

ASSUME SessionsAssumption ==
    /\ Admin \subseteq User
    /\ MayFail \in BOOLEAN
    /\ NoUser \notin User
    /\ NoSession \notin Session

VARIABLES
    account,    \* users: the status of each document, or "deleted"
    refresh,    \* tokens, type refreshToken, by sessionId
    blacklist,  \* tokens, type blacklistedSession, by sessionId
    owner,      \* the userId both kinds of document carry
    family,     \* history: the login a session descends from, named by its id
    req         \* the requests in flight

vars == <<account, refresh, blacklist, owner, family, req>>

------------------------------------------------------------------------------
\* Types

\* UserStatus INACTIVE and BANNED are told apart only by the error message.
AccountState == {"active", "barred", "deleted"}

\* A token document: not there, isActive: true, isActive: false.
DocState == {"absent", "active", "revoked"}

Op == {"none", "login", "refresh", "logout", "logoutAll", "sweepAll",
       "changePassword", "resetPassword", "deleteUser"}

\* The database call a request makes next.
Label == {"idle", "loadUser", "verify", "loadOwner", "rotate", "create",
          "endSession", "blacklistOne", "checkPassword", "deleteUser",
          "findActive", "blacklistAll", "revokeAll", "reply"}

RequestState == [op   : Op,
                 pc   : Label,
                 sid  : Session \cup {NoSession},  \* the session of its tokens
                 who  : User \cup {NoUser},        \* the account it acts on
                 snap : SUBSET Session]            \* the sessions it has read

Idle == [op |-> "none", pc |-> "idle", sid |-> NoSession,
         who |-> NoUser, snap |-> {}]

\* Every variable holds a value of its declared shape: statuses, document
\* states and request records as the repositories and handlers write them.
TypeOK ==
    /\ account \in [User -> AccountState]
    /\ refresh \in [Session -> DocState]
    /\ blacklist \in [Session -> DocState]
    /\ owner \in [Session -> User \cup {NoUser}]
    /\ family \in [Session -> Session \cup {NoSession}]
    /\ req \in [Request -> RequestState]

Init ==
    /\ account = [u \in User |-> "active"]
    /\ refresh = [s \in Session |-> "absent"]
    /\ blacklist = [s \in Session |-> "absent"]
    /\ owner = [s \in Session |-> NoUser]
    /\ family = [s \in Session |-> NoSession]
    /\ req = [r \in Request |-> Idle]

------------------------------------------------------------------------------
\* The repository, apps/api/src/repositories/token.repository.ts

\* The tokens of a session are in a client's hands once it is stored.
Issued(s) == refresh[s] # "absent"

\* updateOne / updateMany { $set: { isActive: false } } on the documents of S.
Deactivate(docs, S) ==
    [s \in Session |-> IF s \in S /\ docs[s] = "active" THEN "revoked" ELSE docs[s]]

\* Mutants: the documents' userId taken for their sessionId; no userId filter.
FindActiveOwners(u) == {owner[s] : s \in {x \in Session : refresh[x] = "active"}}
FindActiveTokens(u) == {s \in Session : refresh[s] = "active"}

FindActiveTokensByUserId(u) ==
    {s \in Session : owner[s] = u /\ refresh[s] = "active"}

\* The filter names a type and not isActive, so an entry that a sweep has
\* deactivated still counts.
IsSessionBlacklistedActive(s) == blacklist[s] = "active"      \* mutant

IsSessionBlacklisted(s) == blacklist[s] # "absent"

BlacklistSessions(S) ==
    blacklist' = [s \in Session |-> IF s \in S THEN "active" ELSE blacklist[s]]

\* Matches isActive: true only, and reports whether it changed a document.
RevokeSessionAlwaysSucceeds(s) == TRUE                        \* mutant

RevokeSessionSucceeds(s) == refresh[s] = "active"

RevokeSession(s) == refresh' = Deactivate(refresh, {s})

\* revokeAllUserTokens, and revokeAllUserTokensExceptSession when keep is a
\* session.  Neither filter names a type: blacklist entries are hit as well.
\* Mutant: sessions that are on the blacklist already are passed over.
RevokeUnlistedUserTokens(u, keep) ==
    LET hit == {s \in Session : owner[s] = u /\ s # keep /\ blacklist[s] = "absent"}
    IN  /\ refresh' = Deactivate(refresh, hit)
        /\ blacklist' = Deactivate(blacklist, hit)

RevokeAllUserTokens(u, keep) ==
    LET hit == {s \in Session : owner[s] = u /\ s # keep}
    IN  /\ refresh' = Deactivate(refresh, hit)
        /\ blacklist' = Deactivate(blacklist, hit)

------------------------------------------------------------------------------
\* Requests

InFlight(r, label) == req[r].pc = label

Goto(r, label) == req' = [req EXCEPT ![r].pc = label]

Finish(r) == req' = [req EXCEPT ![r] = Idle]

\* The request goes on with nothing read: o on session s, acting on account u.
Become(r, o, label, s, u) ==
    req' = [req EXCEPT ![r] = [op |-> o, pc |-> label, sid |-> s,
                               who |-> u, snap |-> {}]]

\* changePassword spares the session it was called on.
KeepNone(r) == NoSession                                      \* mutant

Keep(r) == IF req[r].op = "changePassword" THEN req[r].sid ELSE NoSession

\* The bound on Session: a request that may create one starts only while an
\* unused id is left for it.
SpareSession ==
    Cardinality({r \in Request : req[r].pc \in {"loadOwner", "rotate", "create"}})
      < Cardinality({s \in Session : refresh[s] = "absent"})

------------------------------------------------------------------------------
\* Signing in: login with the right password, and equally the two Google paths
\* that end in generateAuthTokens.

Login(r, u) ==
    /\ InFlight(r, "idle")
    /\ SpareSession
    /\ account[u] = "active"
    /\ Become(r, "login", "create", NoSession, u)
    /\ UNCHANGED <<account, refresh, blacklist, owner, family>>

\* generateAuthTokens: a fresh session id, the token pair signed with it, and
\* the refresh token stored.  A rotation continues the family it came from.
Create(r, s) ==
    LET parent == req[r].sid
    IN  /\ InFlight(r, "create")
        /\ refresh[s] = "absent"
        /\ refresh' = [refresh EXCEPT ![s] = "active"]
        /\ owner' = [owner EXCEPT ![s] = req[r].who]
        /\ family' = [family EXCEPT ![s] = IF parent = NoSession THEN s
                                                                 ELSE family[parent]]
        /\ Finish(r)
        /\ UNCHANGED <<account, blacklist>>

------------------------------------------------------------------------------
\* POST /auth/refresh

\* verifyAndGetRefreshToken: an active document is what the caller wants; an
\* inactive one means a spent token is being used again, and everything the
\* user has is swept.
Verify(r, o, s, next) ==
    Become(r, o, IF refresh[s] = "active" THEN next ELSE "findActive", s, owner[s])

RefreshStart(r, s) ==
    /\ InFlight(r, "idle")
    /\ Issued(s)
    /\ refresh[s] = "active" => SpareSession
    /\ Verify(r, "refresh", s, "loadOwner")
    /\ UNCHANGED <<account, refresh, blacklist, owner, family>>

RefreshLoadOwner(r) ==
    /\ InFlight(r, "loadOwner")
    /\ IF account[req[r].who] = "active" THEN Goto(r, "rotate") ELSE Finish(r)
    /\ UNCHANGED <<account, refresh, blacklist, owner, family>>

\* revokeSession is the compare-and-set that picks one winner among the
\* refreshes that read the same active token; a loser sweeps.
RefreshRotate(r) ==
    LET s == req[r].sid
    IN  /\ InFlight(r, "rotate")
        /\ Goto(r, IF RevokeSessionSucceeds(s) THEN "create" ELSE "findActive")
        /\ RevokeSession(s)
        /\ UNCHANGED <<account, blacklist, owner, family>>

------------------------------------------------------------------------------
\* requireAuth, and the handlers behind it

Protected == {"logout", "logoutAll", "changePassword", "deleteUser"}

\* First read of requireAuth: the blacklist.
Authenticate(r, o, s) ==
    /\ InFlight(r, "idle")
    /\ Issued(s)
    /\ ~IsSessionBlacklisted(s)
    /\ Become(r, o, "loadUser", s, owner[s])
    /\ UNCHANGED <<account, refresh, blacklist, owner, family>>

\* requireOwnerOrAdmin: an admin may delete anyone, another user themselves.
MayDelete(u) == IF u \in Admin THEN User ELSE {u}

\* Second read of requireAuth: the account.  Its handler runs from there.
Authorize(r) ==
    LET o == req[r].op
        u == req[r].who
    IN  /\ InFlight(r, "loadUser")
        /\ \/ account[u] # "active" /\ Finish(r)
           \/ account[u] = "active" /\ o \in {"logout", "logoutAll"} /\ Goto(r, "verify")
           \/ account[u] = "active" /\ o = "changePassword" /\ Goto(r, "checkPassword")
           \/ /\ account[u] = "active"
              /\ o = "deleteUser"
              /\ \E t \in MayDelete(u) :
                   Become(r, o, "deleteUser", req[r].sid, t)
        /\ UNCHANGED <<account, refresh, blacklist, owner, family>>

\* POST /auth/logout, and the first half of /auth/logout-all.
LogoutVerify(r) ==
    /\ InFlight(r, "verify")
    /\ Verify(r, req[r].op, req[r].sid, "endSession")
    /\ UNCHANGED <<account, refresh, blacklist, owner, family>>

LogoutEndSession(r) ==
    /\ InFlight(r, "endSession")
    /\ RevokeSession(req[r].sid)
    /\ Goto(r, "blacklistOne")
    /\ UNCHANGED <<account, blacklist, owner, family>>

\* The logout is over; logout-all goes on to authService.logoutAll.
LogoutDone(r) ==
    IF req[r].op = "logoutAll"
      THEN Become(r, "sweepAll", "findActive", req[r].sid, req[r].who)
      ELSE Goto(r, "reply")

LogoutBlacklist(r) ==
    /\ InFlight(r, "blacklistOne")
    /\ BlacklistSessions({req[r].sid})
    /\ LogoutDone(r)
    /\ UNCHANGED <<account, refresh, owner, family>>

\* POST /auth/change-password: findById and the comparison, then updateById,
\* whose effect is outside this module.
ChangePassword(r) ==
    /\ InFlight(r, "checkPassword")
    /\ \/ account[req[r].who] # "deleted" /\ Goto(r, "findActive")
       \/ Finish(r)
    /\ UNCHANGED <<account, refresh, blacklist, owner, family>>

\* POST /auth/reset-password with a valid OTP, once the password is written.
ResetPassword(r, u) ==
    /\ InFlight(r, "idle")
    /\ account[u] # "deleted"
    /\ Become(r, "resetPassword", "findActive", NoSession, u)
    /\ UNCHANGED <<account, refresh, blacklist, owner, family>>

\* DELETE /user/:id
DeleteUser(r) ==
    LET u == req[r].who
    IN  /\ InFlight(r, "deleteUser")
        /\ IF account[u] = "deleted" THEN Finish(r) ELSE Goto(r, "findActive")
        /\ account' = [account EXCEPT ![u] = "deleted"]
        /\ UNCHANGED <<refresh, blacklist, owner, family>>

------------------------------------------------------------------------------
\* blacklistAndRevokeAllUserSessions, and blacklistAndRevokeUserSessionsExcept:
\* three calls, each able to interleave with the requests of other clients.

SweepFind(r) ==
    /\ InFlight(r, "findActive")
    /\ req' = [req EXCEPT ![r] =
                 [op |-> @.op, pc |-> "blacklistAll", sid |-> @.sid, who |-> @.who,
                  snap |-> FindActiveTokensByUserId(@.who) \ {Keep(r)}]]
    /\ UNCHANGED <<account, refresh, blacklist, owner, family>>

SweepBlacklist(r) ==
    /\ InFlight(r, "blacklistAll")
    /\ BlacklistSessions(req[r].snap)
    /\ Become(r, req[r].op, "revokeAll", req[r].sid, req[r].who)
    /\ UNCHANGED <<account, refresh, owner, family>>

SweepRevoke(r) ==
    /\ InFlight(r, "revokeAll")
    /\ RevokeAllUserTokens(req[r].who, Keep(r))
    /\ LogoutDone(r)
    /\ UNCHANGED <<account, owner, family>>

\* The handler has returned or thrown, and the response goes out.
Reply(r) ==
    /\ InFlight(r, "reply")
    /\ Finish(r)
    /\ UNCHANGED <<account, refresh, blacklist, owner, family>>

------------------------------------------------------------------------------
\* The environment

\* An awaited call rejects, or the process dies: what was written stays.
Fail(r) ==
    /\ MayFail
    /\ req[r].pc # "idle"
    /\ Finish(r)
    /\ UNCHANGED <<account, refresh, blacklist, owner, family>>

\* No code under src/ changes a status: an operator does, in the database.
Bar(u) ==
    /\ account[u] = "active"
    /\ account' = [account EXCEPT ![u] = "barred"]
    /\ UNCHANGED <<refresh, blacklist, owner, family, req>>

Arrive(r) ==
    \/ \E u \in User : Login(r, u) \/ ResetPassword(r, u)
    \/ \E s \in Session : RefreshStart(r, s)
    \/ \E s \in Session, o \in Protected : Authenticate(r, o, s)

Step(r) ==
    \/ \E s \in Session : Create(r, s)
    \/ RefreshLoadOwner(r) \/ RefreshRotate(r)
    \/ Authorize(r)
    \/ LogoutVerify(r) \/ LogoutEndSession(r) \/ LogoutBlacklist(r)
    \/ ChangePassword(r) \/ DeleteUser(r)
    \/ SweepFind(r) \/ SweepBlacklist(r) \/ SweepRevoke(r)
    \/ Reply(r)

Next ==
    \/ \E r \in Request : Arrive(r) \/ Step(r) \/ Fail(r)
    \/ \E u \in User : Bar(u)

Spec == Init /\ [][Next]_vars

\* The event loop and the driver answer every call of a request in flight;
\* nobody is obliged to send one.
FairSpec == Spec /\ \A r \in Request : WF_vars(Step(r))

------------------------------------------------------------------------------
\* Safety

Active(s) == refresh[s] = "active"

\* No two refresh tokens descended from one login are accepted at the same
\* time, however many refreshes read the same active token before one of them
\* rotated it (refreshTokens, "only one concurrent refresh can deactivate the
\* session").
OneLivePerFamily ==
    \A s, t \in Session :
        Active(s) /\ Active(t) /\ family[s] = family[t] => s = t

\* When no call fails, a session is closed on both sides: one whose access
\* token is refused keeps an accepted refresh token only while a sweep is about
\* to revoke it.  The blacklist entries come from a list read two calls
\* earlier, and the revocation from a fresh query.
BlacklistedOnlyWhileClosing ==
    \A s \in Session :
        Active(s) /\ IsSessionBlacklisted(s) =>
            \E r \in Request : /\ InFlight(r, "revokeAll")
                               /\ req[r].who = owner[s]
                               /\ s # Keep(r)

\* A session that requireAuth refuses is refused for good, although the
\* updateMany of a later sweep deactivates blacklist entries too.
RevocationIsPermanent ==
    [][\A s \in Session : IsSessionBlacklisted(s) => IsSessionBlacklisted(s)']_vars

\* A password change never ends the session it was made from, not even through
\* the parts of the sweep that run on stale or type-blind queries.
KeepsCurrentSession ==
    [][\A r \in Request :
          req[r].op = "changePassword" /\ req'[r] # req[r] =>
              LET s == req[r].sid
              IN  refresh'[s] = refresh[s] /\ blacklist'[s] = blacklist[s]]_vars

\* A request changes the documents of an existing session only if it acts for
\* the session's owner; one made with a session of somebody else is an admin's.
Isolation ==
    [][\A r \in Request, s \in Session :
          /\ Issued(s)
          /\ req'[r] # req[r]
          /\ refresh'[s] # refresh[s] \/ blacklist'[s] # blacklist[s]
          => /\ owner[s] = req[r].who
             /\ \/ req[r].sid = NoSession
                \/ owner[req[r].sid] = owner[s]
                \/ owner[req[r].sid] \in Admin]_vars

------------------------------------------------------------------------------
\* What rotation promises: SessionFamily, with a family named by its first
\* session.

\* A refresh has consumed a token of f and has not stored its successor.
Renewing(r, f) ==
    /\ InFlight(r, "create")
    /\ req[r].sid # NoSession
    /\ family[req[r].sid] = f

FamilyState(f) ==
    IF \E s \in Session : Active(s) /\ family[s] = f THEN "live"
    ELSE IF \E r \in Request : Renewing(r, f) THEN "rotating"
    ELSE IF \E s \in Session : Issued(s) /\ family[s] = f THEN "ended"
    ELSE "unborn"

FamilyStates == [f \in Session |-> FamilyState(f)]

Families == INSTANCE SessionFamily WITH Family <- Session, state <- FamilyStates

\* Every step of every request is a step of SessionFamily: a family is never
\* restarted, never forks, and a spent token never yields a successor.
ImplementsSessionFamily == Families!Spec

------------------------------------------------------------------------------
\* Liveness, when no call fails

\* A sweep ends every session that was accepted when it was asked for, though
\* the other requests go on refreshing and revoking under it.
SweepEndsSessions ==
    \A r \in Request, s \in Session :
        (/\ InFlight(r, "findActive")
         /\ Active(s)
         /\ owner[s] = req[r].who
         /\ s # Keep(r)) ~> ~Active(s)

------------------------------------------------------------------------------
\* What the documentation says, and concurrent requests refute

\* Once the reuse of a spent refresh token has been answered, no session of its
\* family is accepted (e2e/tests/api/session.spec.ts, "revokes the whole
\* session family").
ReuseEndsFamily ==
    \A r \in Request, s \in Session :
        /\ InFlight(r, "reply")
        /\ req[r].op = "refresh"
        /\ Active(s)
        => family[s] # family[req[r].sid]
==============================================================================
