--------------------------- MODULE PasswordReset ---------------------------
(***************************************************************************)
(* Forgotten passwords: the one-time codes in the "tokens" collection, the *)
(* Redis counter of attempts, and the requests of one account that use     *)
(* them, interleaved at each awaited call.                                 *)
(*                                                                         *)
(*   apps/api/src/services/auth.service.ts         forgot, reset, set      *)
(*   apps/api/src/repositories/token.repository.ts the documents           *)
(*   apps/api/src/config/redis/redis.ts            the counter             *)
(*                                                                         *)
(* Codes are told apart by identity: two codes that happen to be the same  *)
(* six digits are not modelled.  The sessions a reset ends are the subject *)
(* of Sessions.                                                            *)
(***************************************************************************)
EXTENDS FixedWindow, FiniteSets

CONSTANTS
    Code,               \* the codes ever sent: the bound on their number
    NoCode,             \* any other six digits
    Request,            \* slots for requests in flight
    MAX_OTP_ATTEMPTS,
    TenMinutes,         \* in ticks: the life of a code, the window of attempts
    MayFail             \* may a call fail, or the process die, at any point?

ASSUME PasswordResetAssumption ==
    /\ NoCode \notin Code
    /\ MAX_OTP_ATTEMPTS \in Nat \ {0}
    /\ TenMinutes \in Nat \ {0}
    /\ MayFail \in BOOLEAN

VARIABLES
    account,    \* the user document: its providers, or that it is gone
    code,       \* tokens, type passwordResetToken
    attempts,   \* otp_attempts:<email> in Redis
    req,        \* the requests in flight
    prior,      \* history: the codes that existed when a code was asked for
    used,       \* history: how many passwords a code has set, counted to 2
    answered    \* history: the codes whose reset has been answered with 200

vars == <<account, code, attempts, req, prior, used, answered>>

\* "local": providers include LOCAL; "google": they do not.
AccountState == {"local", "google", "gone"}

CodeState == [doc : {"absent", "active", "revoked"}, life : 0..TenMinutes]

Label == {"idle", "forgotRevoke", "forgotCreate", "findUser", "lockout",
          "lookup", "write", "consume", "clear", "sweep", "reply"}

RequestState == [pc     : Label,
                 code   : Code \cup {NoCode},   \* the code it was sent
                 locked : BOOLEAN,              \* attempts > MAX_OTP_ATTEMPTS
                 codes  : SUBSET Code]          \* history: codes at its arrival

Idle == [pc |-> "idle", code |-> NoCode, locked |-> FALSE, codes |-> {}]

Cap == MAX_OTP_ATTEMPTS + 1

\* Documents, counter, requests and histories have their declared shapes; no
\* code and no counter outlives its ten minutes.
TypeOK ==
    /\ account \in AccountState
    /\ code \in [Code -> CodeState]
    /\ attempts \in Key(Cap, TenMinutes)
    /\ req \in [Request -> RequestState]
    /\ prior \in [Code -> SUBSET Code]
    /\ used \in [Code -> 0..2]
    /\ answered \in SUBSET Code

Init ==
    /\ account \in {"local", "google"}
    /\ code = [c \in Code |-> [doc |-> "absent", life |-> 0]]
    /\ attempts = NoKey
    /\ req = [r \in Request |-> Idle]
    /\ prior = [c \in Code |-> {}]
    /\ used = [c \in Code |-> 0]
    /\ answered = {}

------------------------------------------------------------------------------
\* The documents

Issued == {c \in Code : code[c].doc # "absent"}

Active(c) == code[c].doc = "active"

\* updateMany { userId, type, isActive: true }, and the same without a type in
\* the sweeps.  Mutant: the update that hits one document, as updateOne does.
RevokeOneActive ==
    \E c \in Code :
        /\ Active(c) \/ \A d \in Code : ~Active(d)
        /\ code' = [code EXCEPT ![c] = [doc  |-> IF Active(c) THEN "revoked" ELSE @.doc,
                                        life |-> @.life]]

RevokeActive ==
    code' = [c \in Code |-> [doc  |-> IF Active(c) THEN "revoked" ELSE code[c].doc,
                             life |-> code[c].life]]

\* Mutant: the document found whether or not it is active.
FindUserToken(c) == c \in Issued

FindActiveUserToken(c) == c \in Code /\ Active(c)

------------------------------------------------------------------------------
\* Requests

InFlight(r, label) == req[r].pc = label

Goto(r, label) == req' = [req EXCEPT ![r].pc = label]

Finish(r) == req' = [req EXCEPT ![r] = Idle]

\* The bound on Code: a code is asked for only while an unused one is left.
SpareCode ==
    Cardinality({r \in Request : req[r].pc \in {"forgotRevoke", "forgotCreate"}})
      < Cardinality(Code \ Issued)

------------------------------------------------------------------------------
\* POST /auth/forgot-password

\* Mutant: the providers left unread.
MayForgetAny == account # "gone"

MayForget == account = "local"

ForgotPassword(r) ==
    /\ InFlight(r, "idle")
    /\ SpareCode
    /\ MayForget
    /\ req' = [req EXCEPT ![r] = [pc |-> "forgotRevoke", code |-> NoCode,
                                  locked |-> FALSE, codes |-> Issued]]
    /\ UNCHANGED <<account, code, attempts, prior, used, answered>>

\* Mutant: the old codes left alone.
ForgotKeep(r) ==
    /\ InFlight(r, "forgotRevoke")
    /\ Goto(r, "forgotCreate")
    /\ UNCHANGED <<account, code, attempts, prior, used, answered>>

ForgotRevoke(r) ==
    /\ InFlight(r, "forgotRevoke")
    /\ RevokeActive
    /\ Goto(r, "forgotCreate")
    /\ UNCHANGED <<account, attempts, prior, used, answered>>

\* Mutant: an expiresAt of an hour.
OneHour == 6 * TenMinutes

Lifetime == TenMinutes

\* The document is stored and the code mailed: a failed mail leaves it stored.
ForgotCreate(r, c) ==
    /\ InFlight(r, "forgotCreate")
    /\ code[c].doc = "absent"
    /\ code' = [code EXCEPT ![c] = [doc |-> "active", life |-> Lifetime]]
    /\ prior' = [prior EXCEPT ![c] = req[r].codes]
    /\ Finish(r)
    /\ UNCHANGED <<account, attempts, used, answered>>

------------------------------------------------------------------------------
\* POST /auth/reset-password

\* The attempt is counted before anything is looked at.
ResetPassword(r, c) ==
    /\ InFlight(r, "idle")
    /\ attempts' = IncrWithExpiry(attempts, TenMinutes, Cap)
    /\ req' = [req EXCEPT ![r] = [pc |-> "findUser", code |-> c,
                                  locked |-> attempts'.n > MAX_OTP_ATTEMPTS,
                                  codes |-> Issued]]
    /\ UNCHANGED <<account, code, prior, used, answered>>

FindUser(r) ==
    /\ InFlight(r, "findUser")
    /\ IF account = "gone" THEN Finish(r)
       ELSE Goto(r, IF req[r].locked THEN "lockout" ELSE "lookup")
    /\ UNCHANGED <<account, code, attempts, prior, used, answered>>

Lockout(r) ==
    /\ InFlight(r, "lockout")
    /\ RevokeActive
    /\ Goto(r, "reply")
    /\ UNCHANGED <<account, attempts, prior, used, answered>>

\* MongoDB may be late to drop an expired document, so its age is checked too.
Accepts(r) == /\ FindActiveUserToken(req[r].code)
              /\ code[req[r].code].life > 0

Lookup(r) ==
    /\ InFlight(r, "lookup")
    /\ IF Accepts(r) THEN Goto(r, "write") ELSE Finish(r)
    /\ UNCHANGED <<account, code, attempts, prior, used, answered>>

\* updateById with the new password; it finds nothing once the user is deleted.
WritePassword(r) ==
    LET c == req[r].code
    IN  /\ InFlight(r, "write")
        /\ used' = IF account = "gone" \/ used[c] = 2
                     THEN used ELSE [used EXCEPT ![c] = @ + 1]
        /\ Goto(r, "consume")
        /\ UNCHANGED <<account, code, attempts, prior, answered>>

\* revokeToken: by _id, whatever the document has become since it was read.
Consume(r) ==
    LET c == req[r].code
    IN  /\ InFlight(r, "consume")
        /\ code' = [code EXCEPT ![c] = [doc |-> "revoked", life |-> @.life]]
        /\ Goto(r, "clear")
        /\ UNCHANGED <<account, attempts, prior, used, answered>>

Clear(r) ==
    /\ InFlight(r, "clear")
    /\ attempts' = NoKey
    /\ Goto(r, "sweep")
    /\ UNCHANGED <<account, code, prior, used, answered>>

\* blacklistAndRevokeAllUserSessions: its updateMany names no type.
Sweep(r) ==
    /\ InFlight(r, "sweep")
    /\ RevokeActive
    /\ Goto(r, "reply")
    /\ UNCHANGED <<account, attempts, prior, used, answered>>

Reply(r) ==
    /\ InFlight(r, "reply")
    /\ answered' = IF req[r].locked THEN answered ELSE answered \cup {req[r].code}
    /\ Finish(r)
    /\ UNCHANGED <<account, code, attempts, prior, used>>

------------------------------------------------------------------------------
\* What else touches the account

\* setPassword adds LOCAL to the providers of a user without a password.
SetPassword ==
    /\ account = "google"
    /\ account' = "local"
    /\ UNCHANGED <<code, attempts, req, prior, used, answered>>

DeleteUser ==
    /\ account # "gone"
    /\ account' = "gone"
    /\ UNCHANGED <<code, attempts, req, prior, used, answered>>

\* A logout-all, a password change, a deletion or the reuse of a refresh token
\* sweeps the account; the codes go with its sessions.
SweepElsewhere ==
    /\ \E c \in Code : Active(c)
    /\ RevokeActive
    /\ UNCHANGED <<account, attempts, req, prior, used, answered>>

Fail(r) ==
    /\ MayFail
    /\ req[r].pc # "idle"
    /\ Finish(r)
    /\ UNCHANGED <<account, code, attempts, prior, used, answered>>

Tick ==
    /\ code' = [c \in Code |-> [doc  |-> code[c].doc,
                                life |-> IF code[c].life = 0 THEN 0 ELSE code[c].life - 1]]
    /\ attempts' = Elapse(attempts)
    /\ UNCHANGED <<account, req, prior, used, answered>>

Step(r) ==
    \/ ForgotRevoke(r) \/ \E c \in Code : ForgotCreate(r, c)
    \/ FindUser(r) \/ Lockout(r) \/ Lookup(r) \/ WritePassword(r)
    \/ Consume(r) \/ Clear(r) \/ Sweep(r) \/ Reply(r)

Next ==
    \/ \E r \in Request :
          \/ ForgotPassword(r)
          \/ \E c \in Issued \cup {NoCode} : ResetPassword(r, c)
          \/ Step(r)
          \/ Fail(r)
    \/ SetPassword \/ DeleteUser \/ SweepElsewhere \/ Tick

Spec == Init /\ [][Next]_vars

------------------------------------------------------------------------------
\* A code that existed when a new one was asked for is dead once the new one is
\* stored, however requests, resets and failures interleave.  Two codes are
\* accepted together only if they were asked for together.
NewCodeRetiresOld == \A c \in Code : \A d \in prior[c] : ~Active(d)

\* When an attempt over the limit is answered, every code that existed when it
\* arrived is dead (resetPassword, the branch on MAX_OTP_ATTEMPTS).
LockoutRetiresCodes ==
    \A r \in Request :
        InFlight(r, "reply") /\ req[r].locked => \A c \in req[r].codes : ~Active(c)

\* Once a reset has been answered with 200 its code is never accepted again, by
\* no request and after no sequence of other requests.
AnsweredCodeIsSpent ==
    [][\A r \in Request :
          Lookup(r) /\ Accepts(r) => req[r].code \notin answered]_vars

\* A reset never gives a password to an account that has none: resetPassword
\* does not look at the providers and relies on the codes not existing.
NoPasswordForGoogleOnly == account = "google" => \A c \in Code : used[c] = 0
==============================================================================
