------------------------------ MODULE Accounts ------------------------------
(***************************************************************************)
(* Accounts: the "users" collection, and the two types of "tokens" that    *)
(* change it, under the requests of many clients, interleaved at each      *)
(* awaited call.                                                           *)
(*                                                                         *)
(*   apps/api/src/services/auth.service.ts   register, Google, verification *)
(*   apps/api/src/services/user.service.ts   the documents                 *)
(*   apps/api/src/models/user.model.ts       the unique indexes            *)
(*                                                                         *)
(* The sessions that a sign-in creates are in Sessions, the codes that     *)
(* replace a password in PasswordReset.  Emails are normalised already.    *)
(***************************************************************************)
EXTENDS Naturals, FiniteSets

CONSTANTS
    Email, NoEmail,
    GoogleId, NoGoogleId,
    EmailOf,        \* the verified email of a Google profile
    User, NoUser,   \* documents ever inserted: the bound on their number
    Token, NoToken, \* likewise
    Request,        \* slots for requests in flight
    Indexed,        \* were the unique indexes created?
    MayFail         \* may a call fail, or the process die, at any point?

ASSUME AccountsAssumption ==
    /\ NoEmail \notin Email
    /\ NoGoogleId \notin GoogleId
    /\ NoUser \notin User
    /\ NoToken \notin Token
    /\ EmailOf \in [GoogleId -> Email]
    /\ Indexed \in BOOLEAN
    /\ MayFail \in BOOLEAN

VARIABLES
    user,       \* the user documents
    token,      \* tokens of type emailVerificationToken and accountLinkToken
    req,        \* the requests in flight
    proven      \* history: accounts whose email was proven to be the owner's

vars == <<user, token, req, proven>>

Provider == {"local", "google"}

UserState == [doc       : {"absent", "stored", "deleted"},
              email     : Email \cup {NoEmail},
              password  : BOOLEAN,
              googleId  : GoogleId \cup {NoGoogleId},
              providers : SUBSET Provider,
              verified  : BOOLEAN]

TokenState == [doc      : {"absent", "active", "revoked"},
               type     : {"verification", "link"},
               user     : User \cup {NoUser},
               googleId : GoogleId \cup {NoGoogleId}]  \* kept in sessionId

\* The awaited call a request makes next.
Label == {"idle", "insertLocal", "mail", "markVerified", "spendVerification",
          "revokeMails", "findByEmail", "pend", "insertGoogle",
          "loadUser", "checkOwner", "spendLink", "writeLink",
          "writePassword", "sweep"}

\* What a request has read: an account, its providers, a token, a Google id.
RequestState == [pc        : Label,
                 email     : Email \cup {NoEmail},
                 user      : User \cup {NoUser},
                 token     : Token \cup {NoToken},
                 googleId  : GoogleId \cup {NoGoogleId},
                 providers : SUBSET Provider]

Idle == [pc |-> "idle", email |-> NoEmail, user |-> NoUser, token |-> NoToken,
         googleId |-> NoGoogleId, providers |-> {}]

\* Documents and requests have their declared shapes; a stored account has an
\* email, and a token an account.
TypeOK ==
    /\ user \in [User -> UserState]
    /\ token \in [Token -> TokenState]
    /\ req \in [Request -> RequestState]
    /\ proven \in SUBSET User
    /\ \A u \in User : user[u].doc # "absent" => user[u].email \in Email
    /\ \A t \in Token : token[t].doc # "absent" => token[t].user \in User

Init ==
    /\ user = [u \in User |-> [doc |-> "absent", email |-> NoEmail,
                               password |-> FALSE, googleId |-> NoGoogleId,
                               providers |-> {}, verified |-> FALSE]]
    /\ token = [t \in Token |-> [doc |-> "absent", type |-> "verification",
                                 user |-> NoUser, googleId |-> NoGoogleId]]
    /\ req = [r \in Request |-> Idle]
    /\ proven = {}

------------------------------------------------------------------------------
\* The repositories

Stored == {u \in User : user[u].doc = "stored"}

\* findOne({ email }).  Mutant: the filter of an undefined email, which is empty.
FindAnyone(e) == Stored

FindByEmail(e) == {u \in Stored : user[u].email = e}

FindByGoogleId(g) == {u \in Stored : user[u].googleId = g}

\* findByToken, and the handlers' checks of isActive.  Mutant: any type.
FindByTokenOnly(t, type) == token[t].doc = "active"

FindByToken(t, type) == token[t].doc = "active" /\ token[t].type = type

\* Would the document break a unique index?  (idx_email_unique, and
\* idx_googleId_unique_sparse.)  Mutant: the indexes without unique.
IndexAllows(u, e, g) == TRUE

Unique(u, e, g) ==
    Indexed => /\ FindByEmail(e) \subseteq {u}
               /\ g # NoGoogleId => FindByGoogleId(g) \subseteq {u}

\* insertOne, which rejects a duplicate key.
Insert(u, doc) ==
    /\ user[u].doc = "absent"
    /\ user' = IF Unique(u, doc.email, doc.googleId) THEN [user EXCEPT ![u] = doc]
                                                    ELSE user

\* findOneAndUpdate by _id, which finds nothing once the account is deleted.
UpdateById(u, doc) ==
    user' = IF u \in Stored /\ Unique(u, doc.email, doc.googleId)
              THEN [user EXCEPT ![u] = doc] ELSE user

CreateToken(t, type, u, g) ==
    /\ token[t].doc = "absent"
    /\ token' = [token EXCEPT ![t] = [doc |-> "active", type |-> type,
                                      user |-> u, googleId |-> g]]

\* updateMany { isActive: false } over the active tokens of T, and updateOne by
\* _id in revokeToken.
Revoke(T) ==
    token' = [t \in Token |->
                IF t \in T /\ token[t].doc = "active"
                  THEN [token[t] EXCEPT !.doc = "revoked"] ELSE token[t]]

TokensOf(u) == {t \in Token : token[t].user = u}

------------------------------------------------------------------------------
\* Requests

At(r, label) == req[r].pc = label

Goto(r, label) == req' = [req EXCEPT ![r].pc = label]

Finish(r) == req' = [req EXCEPT ![r] = Idle]

\* The bounds on User and Token: a request that may insert starts only while a
\* slot is left for it.
Spare ==
    LET busy(labels) == Cardinality({r \in Request : req[r].pc \in labels})
    IN  /\ busy({"insertLocal", "findByEmail", "insertGoogle"})
             < Cardinality({u \in User : user[u].doc = "absent"})
        /\ busy({"insertLocal", "mail", "revokeMails", "findByEmail", "pend"})
             < Cardinality({t \in Token : token[t].doc = "absent"})

\* POST /auth/register: the look-up, then the hash of the password.
Register(r, e) ==
    /\ At(r, "idle") /\ Spare
    /\ FindByEmail(e) = {}
    /\ req' = [req EXCEPT ![r].pc = "insertLocal", ![r].email = e]
    /\ UNCHANGED <<user, token, proven>>

\* The id that insertOne returns goes on to the email.  Mutant: it is lost.
MailWithoutId(r, u) == Goto(r, "mail")

MailTo(r, u) == req' = [req EXCEPT ![r].pc = "mail", ![r].user = u]

InsertLocal(r, u) ==
    /\ At(r, "insertLocal")
    /\ Insert(u, [doc |-> "stored", email |-> req[r].email, password |-> TRUE,
                  googleId |-> NoGoogleId, providers |-> {"local"},
                  verified |-> FALSE])
    /\ IF user'[u].doc = "stored" THEN MailTo(r, u) ELSE Finish(r)
    /\ UNCHANGED <<token, proven>>

\* sendVerificationEmail: of a resend, or left running by a registration that
\* has been answered.
Mail(r, t) ==
    /\ At(r, "mail")
    /\ CreateToken(t, "verification", req[r].user, NoGoogleId)
    /\ Finish(r)
    /\ UNCHANGED <<user, proven>>

\* GET /auth/verify-email
VerifyEmail(r, t) ==
    /\ At(r, "idle")
    /\ FindByToken(t, "verification")
    /\ req' = [req EXCEPT ![r].pc = "markVerified", ![r].token = t,
                          ![r].user = token[t].user]
    /\ UNCHANGED <<user, token, proven>>

MarkVerified(r) ==
    LET u == req[r].user
    IN  /\ At(r, "markVerified")
        /\ UpdateById(u, [user[u] EXCEPT !.verified = TRUE])
        /\ proven' = IF token[req[r].token].type = "verification"
                       THEN proven \cup {u} ELSE proven
        /\ Goto(r, "spendVerification")
        /\ UNCHANGED token

SpendVerification(r) ==
    /\ At(r, "spendVerification")
    /\ Revoke({req[r].token})
    /\ Finish(r)
    /\ UNCHANGED <<user, proven>>

\* POST /auth/resend-verification
ResendVerification(r, u) ==
    /\ At(r, "idle") /\ Spare
    /\ u \in Stored /\ ~user[u].verified
    /\ req' = [req EXCEPT ![r].pc = "revokeMails", ![r].user = u]
    /\ UNCHANGED <<user, token, proven>>

RevokeMails(r) ==
    /\ At(r, "revokeMails")
    /\ Revoke({t \in TokensOf(req[r].user) : token[t].type = "verification"})
    /\ Goto(r, "mail")
    /\ UNCHANGED <<user, proven>>

------------------------------------------------------------------------------
\* GET /auth/google/callback, for a profile whose email Google has verified

\* A profile that is known signs in, and changes nothing here.
GoogleCallback(r, g) ==
    /\ At(r, "idle") /\ Spare
    /\ FindByGoogleId(g) = {}
    /\ req' = [req EXCEPT ![r].pc = "findByEmail", ![r].googleId = g,
                          ![r].email = EmailOf[g]]
    /\ UNCHANGED <<user, token, proven>>

\* An account with that email asks for its password; else a new one is made.
GoogleByEmail(r) ==
    /\ At(r, "findByEmail")
    /\ \/ \E u \in FindByEmail(req[r].email) :
             req' = [req EXCEPT ![r].pc = "pend", ![r].user = u]
       \/ FindByEmail(req[r].email) = {} /\ Goto(r, "insertGoogle")
    /\ UNCHANGED <<user, token, proven>>

Pend(r, t) ==
    /\ At(r, "pend")
    /\ CreateToken(t, "link", req[r].user, req[r].googleId)
    /\ Finish(r)
    /\ UNCHANGED <<user, proven>>

InsertGoogle(r, u) ==
    /\ At(r, "insertGoogle")
    /\ Insert(u, [doc |-> "stored", email |-> req[r].email, password |-> FALSE,
                  googleId |-> req[r].googleId, providers |-> {"google"},
                  verified |-> TRUE])
    /\ proven' = IF user'[u].doc = "stored" THEN proven \cup {u} ELSE proven
    /\ Finish(r)
    /\ UNCHANGED token

------------------------------------------------------------------------------
\* POST /auth/google/link

Link(r, t) ==
    /\ At(r, "idle")
    /\ FindByToken(t, "link")
    /\ req' = [req EXCEPT ![r].pc = "loadUser", ![r].token = t,
                          ![r].user = token[t].user,
                          ![r].googleId = token[t].googleId]
    /\ UNCHANGED <<user, token, proven>>

\* findById, and the password compared with the one it read.
LinkLoadUser(r) ==
    LET u == req[r].user
    IN  /\ At(r, "loadUser")
        /\ \/ /\ u \in Stored /\ user[u].password
              /\ req' = [req EXCEPT ![r].pc = "checkOwner",
                                    ![r].providers = user[u].providers]
           \/ Finish(r)
        /\ UNCHANGED <<user, token, proven>>

LinkCheckOwner(r) ==
    /\ At(r, "checkOwner")
    /\ IF FindByGoogleId(req[r].googleId) \subseteq {req[r].user}
         THEN Goto(r, "spendLink") ELSE Finish(r)
    /\ UNCHANGED <<user, token, proven>>

SpendLink(r) ==
    /\ At(r, "spendLink")
    /\ Revoke({req[r].token})
    /\ Goto(r, "writeLink")
    /\ UNCHANGED <<user, proven>>

\* The providers are those of the document read at the start, and Google.
\* Mutant: written back as they were read.
AsRead(providers) == providers

WithGoogle(providers) == providers \cup {"google"}

WriteLink(r) ==
    LET u == req[r].user
    IN  /\ At(r, "writeLink")
        /\ UpdateById(u, [user[u] EXCEPT !.googleId = req[r].googleId,
                                         !.providers = WithGoogle(req[r].providers)])
        /\ Finish(r)
        /\ UNCHANGED <<token, proven>>

------------------------------------------------------------------------------
\* POST /auth/set-password

SetPassword(r, u) ==
    /\ At(r, "idle")
    /\ u \in Stored /\ ~user[u].password
    /\ req' = [req EXCEPT ![r].pc = "writePassword", ![r].user = u,
                          ![r].providers = user[u].providers]
    /\ UNCHANGED <<user, token, proven>>

\* Mutant: the account taken for a local one from then on.
LocalAlone(providers) == {"local"}

WithLocal(providers) == providers \cup {"local"}

WritePassword(r) ==
    LET u == req[r].user
    IN  /\ At(r, "writePassword")
        /\ UpdateById(u, [user[u] EXCEPT !.password = TRUE,
                                         !.providers = WithLocal(req[r].providers)])
        /\ Finish(r)
        /\ UNCHANGED <<token, proven>>

------------------------------------------------------------------------------
\* DELETE /user/:id, and the sweep it ends in

DeleteUser(r, u) ==
    /\ At(r, "idle")
    /\ u \in Stored
    /\ user' = [user EXCEPT ![u].doc = "deleted"]
    /\ req' = [req EXCEPT ![r].pc = "sweep", ![r].user = u]
    /\ UNCHANGED <<token, proven>>

\* revokeAllUserTokens names no type.
Sweep(r) ==
    /\ At(r, "sweep")
    /\ Revoke(TokensOf(req[r].user))
    /\ Finish(r)
    /\ UNCHANGED <<user, proven>>

\* A logout-all, a password change or reset, or the reuse of a refresh token.
SweepElsewhere(u) ==
    /\ \E t \in TokensOf(u) : token[t].doc = "active"
    /\ Revoke(TokensOf(u))
    /\ UNCHANGED <<user, req, proven>>

\* A token past its expiresAt is refused like a revoked one.
Expire(t) ==
    /\ token[t].doc = "active"
    /\ Revoke({t})
    /\ UNCHANGED <<user, req, proven>>

Fail(r) ==
    /\ MayFail
    /\ ~At(r, "idle")
    /\ Finish(r)
    /\ UNCHANGED <<user, token, proven>>

Arrive(r) ==
    \/ \E e \in Email : Register(r, e)
    \/ \E g \in GoogleId : GoogleCallback(r, g)
    \/ \E t \in Token : VerifyEmail(r, t) \/ Link(r, t)
    \/ \E u \in User : ResendVerification(r, u) \/ SetPassword(r, u) \/ DeleteUser(r, u)

Step(r) ==
    \/ \E u \in User : InsertLocal(r, u) \/ InsertGoogle(r, u)
    \/ \E t \in Token : Mail(r, t) \/ Pend(r, t)
    \/ MarkVerified(r) \/ SpendVerification(r) \/ RevokeMails(r)
    \/ GoogleByEmail(r)
    \/ LinkLoadUser(r) \/ LinkCheckOwner(r) \/ SpendLink(r) \/ WriteLink(r)
    \/ WritePassword(r) \/ Sweep(r)

Next ==
    \/ \E r \in Request : Arrive(r) \/ Step(r) \/ Fail(r)
    \/ \E u \in User : SweepElsewhere(u)
    \/ \E t \in Token : Expire(t)

Spec == Init /\ [][Next]_vars

------------------------------------------------------------------------------
\* With its indexes, the collection holds one account per email and one per
\* Google id, although registrations, callbacks and links look first and write
\* later.
OneAccountPerIdentity ==
    Indexed =>
        \A u, v \in Stored :
            \/ user[u].email = user[v].email
            \/ user[u].googleId = user[v].googleId /\ user[u].googleId # NoGoogleId
            => u = v

\* The providers of an account agree with its credentials, although linkings
\* and set-password write the providers they read some calls earlier and
\* forgot-password relies on them.
ProvidersAgree ==
    \A u \in Stored :
        /\ "local" \in user[u].providers <=> user[u].password
        /\ "google" \in user[u].providers <=> user[u].googleId # NoGoogleId

\* A Google profile signs in to an account with the profile's own email and no
\* other, although a link token may outlive the account it was made for and
\* the email be registered again.
GoogleFollowsEmail ==
    \A u \in Stored :
        user[u].googleId # NoGoogleId => EmailOf[user[u].googleId] = user[u].email

\* An account is verified only by a token that was mailed to its own address,
\* or by Google; a token of another type or of a deleted account does not do.
VerifiedWasProven == \A u \in Stored : user[u].verified => u \in proven

\* No request takes a credential away: what another has added since the
\* providers were read is still there after they are written.
CredentialsOnlyGrow ==
    [][\A u \in Stored :
          u \in Stored' => /\ user[u].providers \subseteq user'[u].providers
                           /\ user[u].password => user'[u].password
                           /\ user[u].verified => user'[u].verified]_vars
==============================================================================
