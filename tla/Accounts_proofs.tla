--------------------------- MODULE Accounts_proofs ---------------------------
(***************************************************************************)
(* Theorems about Accounts, for any number of documents, tokens and        *)
(* requests, with failures at every call.                                  *)
(***************************************************************************)
EXTENDS Accounts, TLAPS

\* The labels at which a request holds an account.
HoldsAccount == {"mail", "markVerified", "spendVerification", "revokeMails",
                 "pend", "loadUser", "checkOwner", "spendLink", "writeLink",
                 "writePassword", "sweep"}

\* The account u has been stored with the email of the Google profile g.
SameEmail(u, g) ==
    /\ u \in User /\ g \in GoogleId
    /\ user[u].doc # "absent"
    /\ user[u].email = EmailOf[g]

\* What a request holds by the label it is at.
RequestInv(r) ==
    /\ req[r].pc \in HoldsAccount =>
          req[r].user \in User /\ user[req[r].user].doc # "absent"
    /\ req[r].pc = "insertLocal" => req[r].email \in Email
    /\ req[r].pc \in {"findByEmail", "insertGoogle"} =>
          req[r].googleId \in GoogleId /\ req[r].email = EmailOf[req[r].googleId]
    /\ req[r].pc = "pend" => SameEmail(req[r].user, req[r].googleId)
    /\ req[r].pc \in {"loadUser", "checkOwner", "spendLink", "writeLink"} =>
          SameEmail(req[r].user, req[r].googleId)
    /\ req[r].pc = "markVerified" =>
          /\ req[r].token \in Token
          /\ token[req[r].token].doc # "absent"
          /\ token[req[r].token].type = "verification"

\* The providers a request read name a credential that the account still has,
\* and it is the one that the request's own write does not add.
ReadProviders(r) ==
    /\ req[r].pc \in {"checkOwner", "spendLink", "writeLink"} =>
          "local" \in req[r].providers /\ user[req[r].user].password
    /\ req[r].pc = "writePassword" =>
          /\ "google" \in req[r].providers
          /\ user[req[r].user].googleId # NoGoogleId

\* A token belongs to an account, and a link token to one with the email of
\* its Google profile.
TokenInv(t) ==
    token[t].doc # "absent" =>
        /\ token[t].user \in User /\ user[token[t].user].doc # "absent"
        /\ token[t].type = "link" => SameEmail(token[t].user, token[t].googleId)

\* An account can be signed in to.
HasCredential(u) == user[u].password \/ user[u].googleId # NoGoogleId

\* The inductive invariant.
AccountsInv ==
    /\ TypeOK
    /\ \A r \in Request : RequestInv(r) /\ ReadProviders(r)
    /\ \A t \in Token : TokenInv(t)
    /\ \A u \in Stored : HasCredential(u)
    /\ OneAccountPerIdentity
    /\ ProvidersAgree
    /\ GoogleFollowsEmail
    /\ VerifiedWasProven

------------------------------------------------------------------------------
\* Types

LEMMA InitTyping == Init => TypeOK
  BY AccountsAssumption
     DEF Init, TypeOK, UserState, TokenState, RequestState, Label, Idle, Provider

LEMMA RequestsTyped == TypeOK => req \in [Request -> RequestState]
  BY DEF TypeOK

LEMMA FieldTyping ==
  ASSUME NEW f \in [Request -> RequestState], NEW r \in Request
  PROVE  /\ \A pc \in Label : [f EXCEPT ![r].pc = pc] \in [Request -> RequestState]
         /\ \A e \in Email : [f EXCEPT ![r].email = e] \in [Request -> RequestState]
         /\ \A u \in User : [f EXCEPT ![r].user = u] \in [Request -> RequestState]
         /\ \A t \in Token : [f EXCEPT ![r].token = t] \in [Request -> RequestState]
         /\ \A g \in GoogleId \cup {NoGoogleId} :
               [f EXCEPT ![r].googleId = g] \in [Request -> RequestState]
         /\ \A P \in SUBSET Provider :
               [f EXCEPT ![r].providers = P] \in [Request -> RequestState]
  BY DEF RequestState

\* The ways a request moves on with several values at once.
LEMMA MoveTyping ==
  ASSUME TypeOK, NEW r \in Request, NEW pc \in Label
  PROVE  /\ \A g \in GoogleId, e \in Email :
               [req EXCEPT ![r].pc = pc, ![r].googleId = g, ![r].email = e]
                  \in [Request -> RequestState]
         /\ \A t \in Token, u \in User :
               [req EXCEPT ![r].pc = pc, ![r].token = t, ![r].user = u]
                  \in [Request -> RequestState]
         /\ \A u \in User, P \in SUBSET Provider :
               [req EXCEPT ![r].pc = pc, ![r].user = u, ![r].providers = P]
                  \in [Request -> RequestState]
<1> DEFINE Requests == [Request -> RequestState]
           moved == [req EXCEPT ![r].pc = pc]
<1>1. moved \in Requests
  BY FieldTyping DEF TypeOK
<1> HIDE DEF Requests
<1>2. ASSUME NEW f \in Requests
      PROVE  /\ \A e \in Email : [f EXCEPT ![r].email = e] \in Requests
             /\ \A u \in User : [f EXCEPT ![r].user = u] \in Requests
             /\ \A t \in Token : [f EXCEPT ![r].token = t] \in Requests
             /\ \A g \in GoogleId \cup {NoGoogleId} : [f EXCEPT ![r].googleId = g] \in Requests
             /\ \A P \in SUBSET Provider : [f EXCEPT ![r].providers = P] \in Requests
  BY FieldTyping DEF Requests
<1>3. ASSUME NEW g \in GoogleId, NEW e \in Email
      PROVE  [req EXCEPT ![r].pc = pc, ![r].googleId = g, ![r].email = e] \in Requests
  <2>1. [moved EXCEPT ![r].googleId = g] \in Requests
    BY <1>1, <1>2
  <2>2. [[moved EXCEPT ![r].googleId = g] EXCEPT ![r].email = e] \in Requests
    BY <1>2, <2>1
  <2> QED
    BY <2>2
<1>4. ASSUME NEW t \in Token, NEW u \in User
      PROVE  [req EXCEPT ![r].pc = pc, ![r].token = t, ![r].user = u] \in Requests
  <2>1. [moved EXCEPT ![r].token = t] \in Requests
    BY <1>1, <1>2
  <2>2. [[moved EXCEPT ![r].token = t] EXCEPT ![r].user = u] \in Requests
    BY <1>2, <2>1
  <2> QED
    BY <2>2
<1>5. ASSUME NEW u \in User, NEW P \in SUBSET Provider
      PROVE  [req EXCEPT ![r].pc = pc, ![r].user = u, ![r].providers = P] \in Requests
  <2>1. [moved EXCEPT ![r].user = u] \in Requests
    BY <1>1, <1>2
  <2>2. [[moved EXCEPT ![r].user = u] EXCEPT ![r].providers = P] \in Requests
    BY <1>2, <2>1
  <2> QED
    BY <2>2
<1> QED
  BY <1>3, <1>4, <1>5 DEF Requests

LEMMA LinkTyping ==
  ASSUME TypeOK, NEW r \in Request, NEW pc \in Label,
         NEW t \in Token, NEW u \in User, NEW g \in GoogleId \cup {NoGoogleId}
  PROVE  [req EXCEPT ![r].pc = pc, ![r].token = t, ![r].user = u, ![r].googleId = g]
            \in [Request -> RequestState]
<1> DEFINE spent == [req EXCEPT ![r].pc = pc, ![r].token = t, ![r].user = u]
<1>1. spent \in [Request -> RequestState]
  BY MoveTyping
<1>2. [spent EXCEPT ![r].googleId = g] \in [Request -> RequestState]
  <2> HIDE DEF spent
  <2> QED
    BY <1>1, FieldTyping
<1> QED
  BY <1>2

LEMMA GotoTyping ==
  ASSUME TypeOK, NEW r \in Request, NEW label \in Label, Goto(r, label)
  PROVE  req' \in [Request -> RequestState]
  BY DEF TypeOK, Goto, RequestState

LEMMA FinishTyping ==
  ASSUME TypeOK, NEW r \in Request, Finish(r)
  PROVE  req' \in [Request -> RequestState]
  BY DEF TypeOK, Finish, Idle, RequestState, Label

LEMMA RevokeTyping ==
  ASSUME TypeOK, NEW T, Revoke(T)
  PROVE  /\ token' \in [Token -> TokenState]
         /\ \A t \in Token : token'[t].doc # "absent" => token'[t].user \in User
<1> DEFINE one(t) == IF t \in T /\ token[t].doc = "active"
                       THEN [token[t] EXCEPT !.doc = "revoked"] ELSE token[t]
<1>1. ASSUME NEW t \in Token
      PROVE  /\ one(t) \in TokenState
             /\ one(t).doc # "absent" => one(t).user \in User
  BY DEF TypeOK, TokenState
<1>2. token' = [t \in Token |-> one(t)]
  BY DEF Revoke
<1> HIDE DEF one
<1> QED
  BY <1>1, <1>2

LEMMA CreateTyping ==
  ASSUME TypeOK, NEW t \in Token, NEW type \in {"verification", "link"},
         NEW u \in User, NEW g \in GoogleId \cup {NoGoogleId},
         CreateToken(t, type, u, g)
  PROVE  /\ token' \in [Token -> TokenState]
         /\ \A s \in Token : token'[s].doc # "absent" => token'[s].user \in User
  BY DEF TypeOK, CreateToken, TokenState

LEMMA InsertTyping ==
  ASSUME TypeOK, NEW u \in User, NEW doc \in UserState, doc.email \in Email,
         Insert(u, doc)
  PROVE  /\ user' \in [User -> UserState]
         /\ \A v \in User : user'[v].doc # "absent" => user'[v].email \in Email
  BY DEF TypeOK, Insert

LEMMA UpdateTyping ==
  ASSUME TypeOK, NEW u \in User, NEW doc \in UserState, doc.email = user[u].email,
         UpdateById(u, doc)
  PROVE  /\ user' \in [User -> UserState]
         /\ \A v \in User : user'[v].doc # "absent" => user'[v].email \in Email
  BY DEF TypeOK, UpdateById, Stored

LEMMA Typing ==
  ASSUME TypeOK, \A r \in Request : RequestInv(r), [Next]_vars
  PROVE  TypeOK'
<1>1. ASSUME NEW r \in Request, NEW e \in Email, Register(r, e) PROVE TypeOK'
  <2>1. "insertLocal" \in Label
    BY DEF Label
  <2> QED
    BY <1>1, <2>1 DEF Register, TypeOK, RequestState
<1>2. ASSUME NEW r \in Request, NEW g \in GoogleId, GoogleCallback(r, g) PROVE TypeOK'
  <2>1. "findByEmail" \in Label /\ EmailOf[g] \in Email
    BY AccountsAssumption DEF Label
  <2>3. req' \in [Request -> RequestState]
    <3>1. [req EXCEPT ![r].pc = "findByEmail", ![r].googleId = g,
                           ![r].email = EmailOf[g]]
             \in [Request -> RequestState]
      BY <2>1, MoveTyping, Zenon
    <3> QED
      BY <1>2, <3>1 DEF GoogleCallback
  <2> QED
    BY <1>2, <2>3 DEF GoogleCallback, TypeOK
<1>3. ASSUME NEW r \in Request, NEW t \in Token, VerifyEmail(r, t) PROVE TypeOK'
  <2>1. "markVerified" \in Label
    BY DEF Label
  <2>2. token[t].user \in User
    BY <1>3 DEF VerifyEmail, FindByToken, TypeOK, TokenState
  <2>3. req' \in [Request -> RequestState]
    BY <1>3, <2>1, <2>2, MoveTyping DEF VerifyEmail
  <2> QED
    BY <1>3, <2>3 DEF VerifyEmail, TypeOK
<1>4. ASSUME NEW r \in Request, NEW t \in Token, Link(r, t) PROVE TypeOK'
  <2>1. "loadUser" \in Label
    BY DEF Label
  <2>2. token[t].user \in User /\ token[t].googleId \in GoogleId \cup {NoGoogleId}
    BY <1>4 DEF Link, FindByToken, TypeOK, TokenState
  <2>3. req' \in [Request -> RequestState]
    <3>1. [req EXCEPT ![r].pc = "loadUser", ![r].token = t,
                           ![r].user = token[t].user, ![r].googleId = token[t].googleId]
             \in [Request -> RequestState]
      BY <2>1, <2>2, LinkTyping, Zenon
    <3> QED
      BY <1>4, <3>1 DEF Link
  <2> QED
    BY <1>4, <2>3 DEF Link, TypeOK
<1>5. ASSUME NEW r \in Request, NEW u \in User, ResendVerification(r, u) PROVE TypeOK'
  <2>1. "revokeMails" \in Label
    BY DEF Label
  <2> QED
    BY <1>5, <2>1 DEF ResendVerification, TypeOK, RequestState
<1>6. ASSUME NEW r \in Request, NEW u \in User, SetPassword(r, u) PROVE TypeOK'
  <2>1. "writePassword" \in Label /\ user[u].providers \in SUBSET Provider
    BY DEF Label, TypeOK, UserState
  <2>3. req' \in [Request -> RequestState]
    <3>1. [req EXCEPT ![r].pc = "writePassword", ![r].user = u,
                           ![r].providers = user[u].providers]
             \in [Request -> RequestState]
      BY <2>1, MoveTyping, Zenon
    <3> QED
      BY <1>6, <3>1 DEF SetPassword
  <2> QED
    BY <1>6, <2>3 DEF SetPassword, TypeOK
<1>7. ASSUME NEW r \in Request, NEW u \in User, DeleteUser(r, u) PROVE TypeOK'
  <2>1. req' \in [Request -> RequestState]
    <3>1. "sweep" \in Label
      BY DEF Label
    <3> QED
      BY <1>7, <3>1 DEF DeleteUser, TypeOK, RequestState
  <2>2. /\ user' \in [User -> UserState]
        /\ \A v \in User : user'[v].doc # "absent" => user'[v].email \in Email
    BY <1>7 DEF DeleteUser, Stored, TypeOK, UserState
  <2> QED
    BY <1>7, <2>1, <2>2 DEF DeleteUser, TypeOK
<1>8. ASSUME NEW r \in Request, NEW u \in User, InsertLocal(r, u) PROVE TypeOK'
  <2> DEFINE doc == [doc |-> "stored", email |-> req[r].email, password |-> TRUE,
                     googleId |-> NoGoogleId, providers |-> {"local"},
                     verified |-> FALSE]
  <2>1. doc \in UserState /\ doc.email \in Email
    BY <1>8 DEF InsertLocal, At, RequestInv, UserState, Provider
  <2>2. Insert(u, doc)
    BY <1>8 DEF InsertLocal
  <2>3. req' \in [Request -> RequestState]
    <3>1. CASE MailTo(r, u)
      <4>1. "mail" \in Label
        BY DEF Label
      <4> QED
        BY <3>1, <4>1 DEF MailTo, TypeOK, RequestState
    <3> QED
      BY <1>8, <3>1, FinishTyping DEF InsertLocal
  <2> HIDE DEF doc
  <2>4. /\ user' \in [User -> UserState]
        /\ \A v \in User : user'[v].doc # "absent" => user'[v].email \in Email
    BY <2>1, <2>2, InsertTyping
  <2> QED
    BY <1>8, <2>3, <2>4 DEF InsertLocal, TypeOK
<1>9. ASSUME NEW r \in Request, NEW u \in User, InsertGoogle(r, u) PROVE TypeOK'
  <2> DEFINE doc == [doc |-> "stored", email |-> req[r].email, password |-> FALSE,
                     googleId |-> req[r].googleId, providers |-> {"google"},
                     verified |-> TRUE]
  <2>1. doc \in UserState /\ doc.email \in Email
    <3>1. req[r].email \in Email /\ req[r].googleId \in GoogleId
      BY <1>9, AccountsAssumption DEF InsertGoogle, At, RequestInv
    <3> QED
      BY <3>1 DEF UserState, Provider
  <2>2. Insert(u, doc)
    BY <1>9 DEF InsertGoogle
  <2> HIDE DEF doc
  <2>3. /\ user' \in [User -> UserState]
        /\ \A v \in User : user'[v].doc # "absent" => user'[v].email \in Email
    BY <2>1, <2>2, InsertTyping
  <2> QED
    BY <1>9, <2>3, FinishTyping DEF InsertGoogle, TypeOK
<1>10. ASSUME NEW r \in Request, NEW t \in Token, Mail(r, t) PROVE TypeOK'
  <2>1. req[r].user \in User
    BY <1>10 DEF Mail, At, RequestInv, HoldsAccount
  <2> QED
    BY <1>10, <2>1, CreateTyping, FinishTyping DEF Mail, TypeOK
<1>11. ASSUME NEW r \in Request, NEW t \in Token, Pend(r, t) PROVE TypeOK'
  <2>1. req[r].user \in User /\ req[r].googleId \in GoogleId
    BY <1>11 DEF Pend, At, RequestInv, SameEmail
  <2> QED
    BY <1>11, <2>1, CreateTyping, FinishTyping DEF Pend, TypeOK
<1>12. ASSUME NEW r \in Request, MarkVerified(r) PROVE TypeOK'
  <2> DEFINE u == req[r].user
             doc == [user[u] EXCEPT !.verified = TRUE]
  <2>1. u \in User
    BY <1>12 DEF MarkVerified, At, RequestInv, HoldsAccount
  <2>2. doc \in UserState /\ doc.email = user[u].email
    BY <2>1 DEF TypeOK, UserState
  <2>3. UpdateById(u, doc)
    BY <1>12 DEF MarkVerified
  <2>4. proven' \in SUBSET User
    BY <1>12, <2>1 DEF MarkVerified, TypeOK
  <2>5. req' \in [Request -> RequestState]
    BY <1>12, GotoTyping DEF MarkVerified, Label
  <2> HIDE DEF doc
  <2>6. /\ user' \in [User -> UserState]
        /\ \A v \in User : user'[v].doc # "absent" => user'[v].email \in Email
    BY <2>1, <2>2, <2>3, UpdateTyping
  <2> QED
    BY <1>12, <2>4, <2>5, <2>6 DEF MarkVerified, TypeOK
<1>13. ASSUME NEW r \in Request, SpendVerification(r) PROVE TypeOK'
  BY <1>13, RevokeTyping, FinishTyping DEF SpendVerification, TypeOK
<1>14. ASSUME NEW r \in Request, RevokeMails(r) PROVE TypeOK'
  BY <1>14, RevokeTyping, GotoTyping DEF RevokeMails, TypeOK, Label
<1>15. ASSUME NEW r \in Request, GoogleByEmail(r) PROVE TypeOK'
  <2>1. CASE Goto(r, "insertGoogle")
    BY <1>15, <2>1, GotoTyping DEF GoogleByEmail, TypeOK, Label
  <2>2. ASSUME NEW u \in FindByEmail(req[r].email),
               req' = [req EXCEPT ![r].pc = "pend", ![r].user = u]
        PROVE  TypeOK'
    <3>1. "pend" \in Label
      BY DEF Label
    <3>2. u \in User
      BY DEF FindByEmail, Stored
    <3>3. req' \in [Request -> RequestState]
      BY <2>2, <3>1, <3>2, RequestsTyped DEF RequestState
    <3> QED
      BY <1>15, <3>3 DEF GoogleByEmail, TypeOK
  <2> QED
    BY <1>15, <2>1, <2>2 DEF GoogleByEmail
<1>16. ASSUME NEW r \in Request, LinkLoadUser(r) PROVE TypeOK'
  <2>1. CASE Finish(r)
    BY <1>16, <2>1, FinishTyping DEF LinkLoadUser, TypeOK
  <2>2. CASE /\ req[r].user \in Stored
             /\ req' = [req EXCEPT ![r].pc = "checkOwner",
                                   ![r].providers = user[req[r].user].providers]
    <3>1. "checkOwner" \in Label /\ user[req[r].user].providers \in SUBSET Provider
      BY <2>2 DEF Label, Stored, TypeOK, UserState
    <3> QED
      BY <1>16, <2>2, <3>1 DEF LinkLoadUser, TypeOK, RequestState
  <2> QED
    BY <1>16, <2>1, <2>2 DEF LinkLoadUser
<1>17. ASSUME NEW r \in Request, LinkCheckOwner(r) PROVE TypeOK'
  BY <1>17, GotoTyping, FinishTyping DEF LinkCheckOwner, TypeOK, Label
<1>18. ASSUME NEW r \in Request, SpendLink(r) PROVE TypeOK'
  BY <1>18, RevokeTyping, GotoTyping DEF SpendLink, TypeOK, Label
<1>19. ASSUME NEW r \in Request, WriteLink(r) PROVE TypeOK'
  <2> DEFINE u == req[r].user
             doc == [user[u] EXCEPT !.googleId = req[r].googleId,
                                    !.providers = WithGoogle(req[r].providers)]
  <2>1. u \in User
    BY <1>19 DEF WriteLink, At, RequestInv, HoldsAccount
  <2>2. doc \in UserState /\ doc.email = user[u].email
    <3>1. WithGoogle(req[r].providers) \in SUBSET Provider
      BY DEF WithGoogle, TypeOK, RequestState, Provider
    <3>2. req[r].googleId \in GoogleId \cup {NoGoogleId}
      BY DEF TypeOK, RequestState
    <3> QED
      <4>1. user[u] \in UserState
        BY <2>1 DEF TypeOK
      <4> HIDE DEF u
      <4> QED
        BY <3>1, <3>2, <4>1 DEF UserState
  <2>3. UpdateById(u, doc)
    BY <1>19 DEF WriteLink
  <2> HIDE DEF doc
  <2>4. /\ user' \in [User -> UserState]
        /\ \A v \in User : user'[v].doc # "absent" => user'[v].email \in Email
    BY <2>1, <2>2, <2>3, UpdateTyping
  <2> QED
    BY <1>19, <2>4, FinishTyping DEF WriteLink, TypeOK
<1>20. ASSUME NEW r \in Request, WritePassword(r) PROVE TypeOK'
  <2> DEFINE u == req[r].user
             doc == [user[u] EXCEPT !.password = TRUE,
                                    !.providers = WithLocal(req[r].providers)]
  <2>1. u \in User
    BY <1>20 DEF WritePassword, At, RequestInv, HoldsAccount
  <2>2. doc \in UserState /\ doc.email = user[u].email
    <3>1. WithLocal(req[r].providers) \in SUBSET Provider
      BY DEF WithLocal, TypeOK, RequestState, Provider
    <3> QED
      BY <2>1, <3>1 DEF TypeOK, UserState
  <2>3. UpdateById(u, doc)
    BY <1>20 DEF WritePassword
  <2> HIDE DEF doc
  <2>4. /\ user' \in [User -> UserState]
        /\ \A v \in User : user'[v].doc # "absent" => user'[v].email \in Email
    BY <2>1, <2>2, <2>3, UpdateTyping
  <2> QED
    BY <1>20, <2>4, FinishTyping DEF WritePassword, TypeOK
<1>21. ASSUME NEW r \in Request, Sweep(r) PROVE TypeOK'
  BY <1>21, RevokeTyping, FinishTyping DEF Sweep, TypeOK
<1>22. ASSUME NEW u \in User, SweepElsewhere(u) PROVE TypeOK'
  BY <1>22, RevokeTyping DEF SweepElsewhere, TypeOK
<1>23. ASSUME NEW t \in Token, Expire(t) PROVE TypeOK'
  BY <1>23, RevokeTyping DEF Expire, TypeOK
<1>24. ASSUME NEW r \in Request, Fail(r) PROVE TypeOK'
  BY <1>24, FinishTyping DEF Fail, TypeOK
<1>25. CASE UNCHANGED vars
  BY <1>25 DEF vars, TypeOK
<1> QED
  BY <1>1, <1>2, <1>3, <1>4, <1>5, <1>6, <1>7, <1>8, <1>9, <1>10, <1>11, <1>12,
     <1>13, <1>14, <1>15, <1>16, <1>17, <1>18, <1>19, <1>20, <1>21, <1>22, <1>23,
     <1>24, <1>25 DEF Next, Arrive, Step

------------------------------------------------------------------------------
\* What a step does to the documents

\* The ways a step changes an account.
InsertedLocal(u) ==
    /\ user[u].doc = "absent" /\ user'[u].doc = "stored"
    /\ user'[u].password
    /\ user'[u].googleId = NoGoogleId
    /\ user'[u].providers = {"local"}
    /\ user'[u].verified = FALSE

InsertedGoogle(u) ==
    /\ user[u].doc = "absent" /\ user'[u].doc = "stored"
    /\ user'[u].password = FALSE
    /\ user'[u].googleId \in GoogleId
    /\ user'[u].email = EmailOf[user'[u].googleId]
    /\ user'[u].providers = {"google"}
    /\ u \in proven'

Deleted(u) ==
    /\ user[u].doc = "stored" /\ user'[u].doc = "deleted"
    /\ user'[u].email = user[u].email
    /\ user'[u].password = user[u].password
    /\ user'[u].googleId = user[u].googleId

MarkedVerified(u) ==
    /\ user[u].doc = "stored" /\ user'[u].doc = "stored"
    /\ user'[u].email = user[u].email
    /\ user'[u].password = user[u].password
    /\ user'[u].googleId = user[u].googleId
    /\ user'[u].providers = user[u].providers
    /\ user'[u].verified
    /\ u \in proven'

Linked(u) ==
    /\ user[u].doc = "stored" /\ user'[u].doc = "stored"
    /\ user'[u].email = user[u].email
    /\ user[u].password /\ user'[u].password
    /\ user'[u].googleId \in GoogleId
    /\ user'[u].email = EmailOf[user'[u].googleId]
    /\ user'[u].providers = Provider
    /\ user'[u].verified = user[u].verified

GivenPassword(u) ==
    /\ user[u].doc = "stored" /\ user'[u].doc = "stored"
    /\ user'[u].email = user[u].email
    /\ user'[u].password
    /\ user[u].googleId # NoGoogleId
    /\ user'[u].googleId = user[u].googleId
    /\ user'[u].providers = Provider
    /\ user'[u].verified = user[u].verified

\* A step that leaves the documents alone, or changes one of these ways the one
\* account u; if it is stored then, no other has its email or Google id.
AccountStep(u) ==
    /\ \A v \in User : v # u => user'[v] = user[v]
    /\ user'[u].doc = "stored" => Unique(u, user'[u].email, user'[u].googleId)
    /\ \/ InsertedLocal(u) \/ InsertedGoogle(u) \/ Deleted(u)
       \/ MarkedVerified(u) \/ Linked(u) \/ GivenPassword(u)

LEMMA InsertWrites ==
  ASSUME TypeOK, NEW u \in User, NEW doc, Insert(u, doc)
  PROVE  /\ user[u].doc = "absent"
         /\ \/ user' = user
            \/ /\ user'[u] = doc
               /\ Unique(u, doc.email, doc.googleId)
               /\ \A v \in User : v # u => user'[v] = user[v]
  BY DEF Insert, TypeOK

LEMMA UpdateWrites ==
  ASSUME TypeOK, NEW u \in User, NEW doc, UpdateById(u, doc)
  PROVE  \/ user' = user
         \/ /\ user[u].doc = "stored"
            /\ user'[u] = doc
            /\ Unique(u, doc.email, doc.googleId)
            /\ \A v \in User : v # u => user'[v] = user[v]
  BY DEF UpdateById, Stored, TypeOK

LEMMA StepsOfAccounts ==
  ASSUME AccountsInv, [Next]_vars
  PROVE  /\ proven \subseteq proven'
         /\ user' = user \/ \E u \in User : AccountStep(u)
<1>0. TypeOK
  BY DEF AccountsInv
<1>1. ASSUME NEW r \in Request, NEW u \in User, InsertLocal(r, u)
      PROVE  user' = user \/ AccountStep(u)
  <2> DEFINE doc == [doc |-> "stored", email |-> req[r].email, password |-> TRUE,
                     googleId |-> NoGoogleId, providers |-> {"local"},
                     verified |-> FALSE]
  <2>1. /\ doc.doc = "stored" /\ doc.password /\ doc.googleId = NoGoogleId
        /\ doc.providers = {"local"} /\ doc.verified = FALSE
    OBVIOUS
  <2>2. Insert(u, doc)
    BY <1>1 DEF InsertLocal
  <2> HIDE DEF doc
  <2> QED
    BY <1>0, <2>1, <2>2, InsertWrites DEF AccountStep, InsertedLocal
<1>2. ASSUME NEW r \in Request, NEW u \in User, InsertGoogle(r, u)
      PROVE  user' = user \/ AccountStep(u)
  <2> DEFINE doc == [doc |-> "stored", email |-> req[r].email, password |-> FALSE,
                     googleId |-> req[r].googleId, providers |-> {"google"},
                     verified |-> TRUE]
  <2>1. req[r].googleId \in GoogleId /\ req[r].email = EmailOf[req[r].googleId]
    BY <1>2 DEF InsertGoogle, At, AccountsInv, RequestInv
  <2>2. /\ doc.doc = "stored" /\ doc.password = FALSE
        /\ doc.googleId \in GoogleId /\ doc.email = EmailOf[doc.googleId]
        /\ doc.providers = {"google"}
    BY <2>1
  <2>3. Insert(u, doc) /\ (user'[u].doc = "stored" => u \in proven')
    BY <1>2 DEF InsertGoogle
  <2> HIDE DEF doc
  <2> QED
    BY <1>0, <2>2, <2>3, InsertWrites DEF AccountStep, InsertedGoogle
<1>3. ASSUME NEW r \in Request, MarkVerified(r)
      PROVE  req[r].user \in User /\ (user' = user \/ AccountStep(req[r].user))
  <2> DEFINE u == req[r].user
             doc == [user[u] EXCEPT !.verified = TRUE]
  <2>1. u \in User /\ u \in proven'
    BY <1>3 DEF MarkVerified, At, AccountsInv, RequestInv, HoldsAccount
  <2>2. /\ doc.doc = user[u].doc /\ doc.email = user[u].email
        /\ doc.password = user[u].password /\ doc.googleId = user[u].googleId
        /\ doc.providers = user[u].providers /\ doc.verified
    BY <1>0, <2>1 DEF TypeOK, UserState
  <2>3. UpdateById(u, doc)
    BY <1>3 DEF MarkVerified
  <2> HIDE DEF doc
  <2> QED
    BY <1>0, <2>1, <2>2, <2>3, UpdateWrites DEF AccountStep, MarkedVerified
<1>4. ASSUME NEW r \in Request, WriteLink(r)
      PROVE  req[r].user \in User /\ (user' = user \/ AccountStep(req[r].user))
  <2> DEFINE u == req[r].user
             doc == [user[u] EXCEPT !.googleId = req[r].googleId,
                                    !.providers = WithGoogle(req[r].providers)]
  <2>1. /\ u \in User /\ req[r].googleId \in GoogleId
        /\ user[u].email = EmailOf[req[r].googleId]
        /\ "local" \in req[r].providers /\ user[u].password
    BY <1>4 DEF WriteLink, At, AccountsInv, RequestInv, ReadProviders, SameEmail
  <2>2. WithGoogle(req[r].providers) = Provider
    BY <1>0, <2>1 DEF WithGoogle, Provider, TypeOK, RequestState
  <2>3. /\ doc.doc = user[u].doc /\ doc.email = user[u].email
        /\ doc.password = user[u].password /\ doc.verified = user[u].verified
        /\ doc.googleId = req[r].googleId /\ doc.providers = Provider
    BY <1>0, <2>1, <2>2 DEF TypeOK, UserState
  <2>4. UpdateById(u, doc)
    BY <1>4 DEF WriteLink
  <2> HIDE DEF doc
  <2> QED
    BY <1>0, <2>1, <2>3, <2>4, UpdateWrites DEF AccountStep, Linked
<1>5. ASSUME NEW r \in Request, WritePassword(r)
      PROVE  req[r].user \in User /\ (user' = user \/ AccountStep(req[r].user))
  <2> DEFINE u == req[r].user
             doc == [user[u] EXCEPT !.password = TRUE,
                                    !.providers = WithLocal(req[r].providers)]
  <2>1. /\ u \in User
        /\ "google" \in req[r].providers /\ user[u].googleId # NoGoogleId
    BY <1>5 DEF WritePassword, At, AccountsInv, RequestInv, ReadProviders, HoldsAccount
  <2>2. WithLocal(req[r].providers) = Provider
    BY <1>0, <2>1 DEF WithLocal, Provider, TypeOK, RequestState
  <2>3. /\ doc.doc = user[u].doc /\ doc.email = user[u].email
        /\ doc.password /\ doc.verified = user[u].verified
        /\ doc.googleId = user[u].googleId /\ doc.providers = Provider
    BY <1>0, <2>1, <2>2 DEF TypeOK, UserState
  <2>4. UpdateById(u, doc)
    BY <1>5 DEF WritePassword
  <2> HIDE DEF doc
  <2> QED
    BY <1>0, <2>1, <2>3, <2>4, UpdateWrites DEF AccountStep, GivenPassword
<1>6. ASSUME NEW r \in Request, NEW u \in User, DeleteUser(r, u)
      PROVE  AccountStep(u)
  <2>1. /\ user'[u] = [user[u] EXCEPT !.doc = "deleted"]
        /\ \A v \in User : v # u => user'[v] = user[v]
    BY <1>0, <1>6 DEF DeleteUser, TypeOK
  <2>2. /\ user'[u].doc = "deleted" /\ user'[u].email = user[u].email
        /\ user'[u].password = user[u].password /\ user'[u].googleId = user[u].googleId
    BY <1>0, <2>1 DEF TypeOK, UserState
  <2> QED
    BY <1>6, <2>1, <2>2 DEF DeleteUser, Stored, AccountStep, Deleted
<1>7. ASSUME NEW r \in Request, Arrive(r)
      PROVE  proven' = proven /\ (user' = user \/ \E u \in User : AccountStep(u))
  BY <1>6, <1>7 DEF Arrive, Register, GoogleCallback, VerifyEmail, Link,
                    ResendVerification, SetPassword, DeleteUser
<1>8. ASSUME NEW r \in Request, Step(r)
      PROVE  /\ proven \subseteq proven'
             /\ user' = user \/ \E u \in User : AccountStep(u)
  <2>1. user' = user \/ \E u \in User : AccountStep(u)
    BY <1>1, <1>2, <1>3, <1>4, <1>5, <1>8
       DEF Step, Mail, Pend, SpendVerification, RevokeMails, GoogleByEmail,
           LinkLoadUser, LinkCheckOwner, SpendLink, Sweep
  <2>2. proven \subseteq proven'
    BY <1>8
       DEF Step, InsertLocal, InsertGoogle, MarkVerified, WriteLink, WritePassword,
           Mail, Pend, SpendVerification, RevokeMails, GoogleByEmail,
           LinkLoadUser, LinkCheckOwner, SpendLink, Sweep
  <2> QED
    BY <2>1, <2>2
<1> QED
  BY <1>7, <1>8 DEF Next, SweepElsewhere, Expire, Fail, vars

\* A stored account keeps its email and its credentials, a deleted one too.
LEMMA AccountsKept ==
  ASSUME AccountsInv, [Next]_vars, NEW u \in User, user[u].doc # "absent"
  PROVE  /\ user'[u].doc # "absent"
         /\ user'[u].email = user[u].email
         /\ user[u].password => user'[u].password
         /\ user[u].googleId # NoGoogleId => user'[u].googleId # NoGoogleId
<1>1. CASE user' = user
  BY <1>1
<1>2. ASSUME NEW v \in User, AccountStep(v), u # v PROVE user'[u] = user[u]
  BY <1>2 DEF AccountStep
<1>3. CASE AccountStep(u)
  BY <1>3, AccountsAssumption
     DEF AccountStep, InsertedLocal, InsertedGoogle, Deleted, MarkedVerified,
         Linked, GivenPassword
<1> QED
  BY <1>1, <1>2, <1>3, StepsOfAccounts

LEMMA CredentialStep ==
  AccountsInv /\ [Next]_vars => \A u \in Stored' : HasCredential(u)'
<1> SUFFICES ASSUME AccountsInv, [Next]_vars, NEW u \in Stored' PROVE HasCredential(u)'
    OBVIOUS
<1>1. u \in User /\ user'[u].doc = "stored"
  BY DEF Stored
<1>2. CASE user'[u] = user[u]
  BY <1>1, <1>2 DEF AccountsInv, Stored, HasCredential
<1>3. CASE AccountStep(u)
  BY <1>1, <1>3, AccountsAssumption
     DEF AccountStep, InsertedLocal, InsertedGoogle, Deleted, MarkedVerified,
         Linked, GivenPassword, HasCredential, AccountsInv, Stored
<1> QED
  BY <1>1, <1>2, <1>3, StepsOfAccounts DEF AccountStep

LEMMA IdentityStep == AccountsInv /\ [Next]_vars => OneAccountPerIdentity'
<1> SUFFICES ASSUME AccountsInv, [Next]_vars, Indexed,
                    NEW u \in Stored', NEW v \in Stored', u # v
             PROVE  /\ user'[u].email # user'[v].email
                    /\ user'[u].googleId = user'[v].googleId =>
                         user'[u].googleId = NoGoogleId
    BY DEF OneAccountPerIdentity
<1>0. u \in User /\ v \in User /\ user'[u].doc = "stored" /\ user'[v].doc = "stored"
  BY DEF Stored
<1>1. CASE user' = user
  BY <1>0, <1>1 DEF AccountsInv, OneAccountPerIdentity, Stored
<1>2. ASSUME NEW w \in User, AccountStep(w), w # u, w # v
      PROVE  /\ u \in Stored /\ user'[u] = user[u]
             /\ v \in Stored /\ user'[v] = user[v]
  BY <1>0, <1>2 DEF AccountStep, Stored
<1>3. ASSUME NEW w \in User, NEW x \in User, AccountStep(w), x # w,
             user'[w].doc = "stored", user'[x].doc = "stored"
      PROVE  /\ user'[x].email # user'[w].email
             /\ user'[w].googleId # NoGoogleId => user'[x].googleId # user'[w].googleId
  <2>1. user'[x] = user[x] /\ x \in Stored
    BY <1>3 DEF AccountStep, Stored
  <2>2. Unique(w, user'[w].email, user'[w].googleId)
    BY <1>3 DEF AccountStep
  <2> QED
    BY <1>3, <2>1, <2>2 DEF Unique, FindByEmail, FindByGoogleId
<1>4. ASSUME NEW w \in User, AccountStep(w), w # u, w # v
      PROVE  /\ user'[u].email # user'[v].email
             /\ user'[u].googleId = user'[v].googleId => user'[u].googleId = NoGoogleId
  BY <1>2, <1>4 DEF AccountsInv, OneAccountPerIdentity
<1>5. CASE AccountStep(u)
  BY <1>0, <1>3, <1>5
<1>6. CASE AccountStep(v)
  BY <1>0, <1>3, <1>6
<1> QED
  BY <1>1, <1>4, <1>5, <1>6, StepsOfAccounts

LEMMA ProvidersStep == AccountsInv /\ [Next]_vars => ProvidersAgree'
<1> SUFFICES ASSUME AccountsInv, [Next]_vars, NEW u \in Stored'
             PROVE  /\ "local" \in user'[u].providers <=> user'[u].password
                    /\ "google" \in user'[u].providers <=> user'[u].googleId # NoGoogleId
    BY DEF ProvidersAgree
<1>1. u \in User /\ user'[u].doc = "stored"
  BY DEF Stored
<1>2. CASE user'[u] = user[u]
  BY <1>1, <1>2 DEF AccountsInv, Stored, ProvidersAgree
<1>3. ASSUME InsertedLocal(u) \/ InsertedGoogle(u) \/ Linked(u) \/ GivenPassword(u)
      PROVE  /\ "local" \in user'[u].providers <=> user'[u].password
             /\ "google" \in user'[u].providers <=> user'[u].googleId # NoGoogleId
  BY <1>3, AccountsAssumption
     DEF InsertedLocal, InsertedGoogle, Linked, GivenPassword, Provider
<1>4. CASE MarkedVerified(u)
  BY <1>1, <1>4 DEF MarkedVerified, AccountsInv, Stored, ProvidersAgree
<1> QED
  BY <1>1, <1>2, <1>3, <1>4, StepsOfAccounts DEF AccountStep, Deleted

LEMMA GoogleStep == AccountsInv /\ [Next]_vars => GoogleFollowsEmail'
<1> SUFFICES ASSUME AccountsInv, [Next]_vars, NEW u \in Stored',
                    user'[u].googleId # NoGoogleId
             PROVE  EmailOf[user'[u].googleId] = user'[u].email
    BY DEF GoogleFollowsEmail
<1>1. u \in User /\ user'[u].doc = "stored"
  BY DEF Stored
<1>2. CASE user'[u] = user[u]
  BY <1>1, <1>2 DEF AccountsInv, Stored, GoogleFollowsEmail
<1>3. CASE AccountStep(u)
  BY <1>1, <1>3
     DEF AccountStep, InsertedLocal, InsertedGoogle, Deleted, MarkedVerified,
         Linked, GivenPassword, AccountsInv, Stored, GoogleFollowsEmail
<1> QED
  BY <1>1, <1>2, <1>3, StepsOfAccounts DEF AccountStep

LEMMA VerifiedStep == AccountsInv /\ [Next]_vars => VerifiedWasProven'
<1> SUFFICES ASSUME AccountsInv, [Next]_vars, NEW u \in Stored', user'[u].verified
             PROVE  u \in proven'
    BY DEF VerifiedWasProven
<1>1. u \in User /\ user'[u].doc = "stored" /\ proven \subseteq proven'
  BY StepsOfAccounts DEF Stored
<1>2. CASE user'[u] = user[u]
  BY <1>1, <1>2 DEF AccountsInv, Stored, VerifiedWasProven
<1>3. CASE AccountStep(u)
  BY <1>1, <1>3
     DEF AccountStep, InsertedLocal, InsertedGoogle, Deleted, MarkedVerified,
         Linked, GivenPassword, AccountsInv, Stored, VerifiedWasProven
<1> QED
  BY <1>1, <1>2, <1>3, StepsOfAccounts DEF AccountStep

------------------------------------------------------------------------------
\* What a step does to the tokens

\* The ways a step leaves a token: as it was but for its revocation, or created.
Kept(t) ==
    /\ token'[t].doc # "absent" <=> token[t].doc # "absent"
    /\ token'[t].type = token[t].type
    /\ token'[t].user = token[t].user
    /\ token'[t].googleId = token[t].googleId

Created(t) ==
    /\ token[t].doc = "absent"
    /\ token'[t].user \in User /\ user[token'[t].user].doc # "absent"
    /\ token'[t].type = "link" => SameEmail(token'[t].user, token'[t].googleId)

LEMMA RevokeKeeps ==
  ASSUME TypeOK, NEW T, Revoke(T), NEW t \in Token
  PROVE  Kept(t)
<1> DEFINE one(s) == IF s \in T /\ token[s].doc = "active"
                       THEN [token[s] EXCEPT !.doc = "revoked"] ELSE token[s]
<1>1. token'[t] = one(t)
  BY DEF Revoke
<1>2. token[t] \in TokenState
  BY DEF TypeOK
<1>3. CASE t \in T /\ token[t].doc = "active"
  BY <1>1, <1>2, <1>3 DEF TokenState, Kept
<1>4. CASE ~(t \in T /\ token[t].doc = "active")
  BY <1>1, <1>4 DEF Kept
<1> QED
  BY <1>3, <1>4

LEMMA CreateTokenWrites ==
  ASSUME TypeOK, NEW t \in Token, NEW type, NEW u, NEW g, CreateToken(t, type, u, g)
  PROVE  /\ token[t].doc = "absent"
         /\ token'[t].type = type /\ token'[t].user = u /\ token'[t].googleId = g
         /\ \A s \in Token : s # t => token'[s] = token[s]
<1>1. token'[t] = [doc |-> "active", type |-> type, user |-> u, googleId |-> g]
  BY DEF CreateToken, TypeOK
<1> QED
  BY <1>1 DEF CreateToken, TypeOK

LEMMA StepsOfTokens ==
  ASSUME AccountsInv, [Next]_vars, NEW t \in Token
  PROVE  Kept(t) \/ Created(t)
<1>0. TypeOK
  BY DEF AccountsInv
<1>1. CASE token' = token
  BY <1>1 DEF Kept
<1>2. ASSUME NEW T, Revoke(T) PROVE Kept(t)
  BY <1>0, <1>2, RevokeKeeps
<1>3. ASSUME NEW r \in Request, NEW s \in Token, Mail(r, s) PROVE Kept(t) \/ Created(t)
  <2>1. req[r].user \in User /\ user[req[r].user].doc # "absent"
    BY <1>3 DEF Mail, At, AccountsInv, RequestInv, HoldsAccount
  <2>2. CreateToken(s, "verification", req[r].user, NoGoogleId)
    BY <1>3 DEF Mail
  <2>3. /\ token[s].doc = "absent"
        /\ token'[s].type = "verification" /\ token'[s].user = req[r].user
        /\ \A x \in Token : x # s => token'[x] = token[x]
    BY <1>0, <2>2, CreateTokenWrites
  <2> QED
    BY <2>1, <2>3 DEF Kept, Created
<1>4. ASSUME NEW r \in Request, NEW s \in Token, Pend(r, s) PROVE Kept(t) \/ Created(t)
  <2>1. SameEmail(req[r].user, req[r].googleId)
    BY <1>4 DEF Pend, At, AccountsInv, RequestInv
  <2>2. CreateToken(s, "link", req[r].user, req[r].googleId)
    BY <1>4 DEF Pend
  <2>3. /\ token[s].doc = "absent"
        /\ token'[s].user = req[r].user /\ token'[s].googleId = req[r].googleId
        /\ \A x \in Token : x # s => token'[x] = token[x]
    BY <1>0, <2>2, CreateTokenWrites
  <2> QED
    BY <2>1, <2>3 DEF Kept, Created, SameEmail
<1>5. ASSUME NEW r \in Request, Arrive(r) PROVE token' = token
  BY <1>5 DEF Arrive, Register, GoogleCallback, VerifyEmail, Link,
              ResendVerification, SetPassword, DeleteUser
<1>6. ASSUME NEW r \in Request, Step(r) PROVE Kept(t) \/ Created(t)
  BY <1>1, <1>2, <1>3, <1>4, <1>6
     DEF Step, InsertLocal, InsertGoogle, MarkVerified, SpendVerification,
         RevokeMails, GoogleByEmail, LinkLoadUser, LinkCheckOwner, SpendLink,
         WriteLink, WritePassword, Sweep
<1> QED
  BY <1>1, <1>2, <1>5, <1>6 DEF Next, SweepElsewhere, Expire, Fail, vars

LEMMA TokenStep == AccountsInv /\ [Next]_vars => \A t \in Token : TokenInv(t)'
<1> SUFFICES ASSUME AccountsInv, [Next]_vars, NEW t \in Token, token'[t].doc # "absent"
             PROVE  TokenInv(t)'
    BY DEF TokenInv
<1>1. /\ token'[t].user \in User /\ user[token'[t].user].doc # "absent"
      /\ token'[t].type = "link" => SameEmail(token'[t].user, token'[t].googleId)
  BY StepsOfTokens DEF Kept, Created, AccountsInv, TokenInv
<1>2. user'[token'[t].user].doc # "absent"
  BY <1>1, AccountsKept
<1>3. ASSUME token'[t].type = "link" PROVE SameEmail(token[t].user, token[t].googleId)'
  <2>1. token'[t].googleId \in GoogleId /\ user[token'[t].user].email = EmailOf[token'[t].googleId]
    BY <1>1, <1>3 DEF SameEmail
  <2> QED
    BY <1>1, <1>2, <2>1, AccountsKept DEF SameEmail
<1> QED
  BY <1>1, <1>2, <1>3 DEF TokenInv

------------------------------------------------------------------------------
\* What a step does to the requests

LEMMA OthersStep ==
  ASSUME AccountsInv, [Next]_vars, NEW r \in Request,
         req'[r] = req[r] \/ req'[r] = Idle
  PROVE  RequestInv(r)' /\ ReadProviders(r)'
<1>1. CASE req'[r] = Idle
  BY <1>1 DEF Idle, RequestInv, ReadProviders, HoldsAccount
<1>2. CASE req'[r] = req[r]
  <2>0. RequestInv(r) /\ ReadProviders(r)
    BY DEF AccountsInv
  <2>1. req[r].pc \in HoldsAccount =>
          req[r].user \in User /\ user'[req[r].user].doc # "absent"
    BY <2>0, AccountsKept DEF RequestInv
  <2>2. ASSUME SameEmail(req[r].user, req[r].googleId), req[r].user \in User
        PROVE  SameEmail(req[r].user, req[r].googleId)'
    BY <1>2, <2>2, AccountsKept DEF SameEmail
  <2>3. ASSUME req[r].pc = "markVerified"
        PROVE  /\ req[r].token \in Token
               /\ token'[req[r].token].doc # "absent"
               /\ token'[req[r].token].type = "verification"
    BY <2>0, <2>3, StepsOfTokens DEF RequestInv, Kept, Created
  <2>4. RequestInv(r)'
    BY <1>2, <2>0, <2>1, <2>2, <2>3 DEF RequestInv, HoldsAccount
  <2>5. ReadProviders(r)'
    BY <1>2, <2>0, AccountsKept DEF RequestInv, ReadProviders, HoldsAccount
  <2> QED
    BY <2>4, <2>5
<1> QED
  BY <1>1, <1>2

LEMMA GotoWrites ==
  ASSUME TypeOK, NEW r \in Request, NEW label \in Label, Goto(r, label)
  PROVE  /\ req'[r].pc = label
         /\ req'[r].email = req[r].email /\ req'[r].user = req[r].user
         /\ req'[r].token = req[r].token /\ req'[r].googleId = req[r].googleId
         /\ req'[r].providers = req[r].providers
         /\ \A q \in Request : q # r => req'[q] = req[q]
  BY DEF TypeOK, Goto, RequestState

LEMMA FinishWrites ==
  ASSUME TypeOK, NEW r \in Request, Finish(r)
  PROVE  \A q \in Request : req'[q] = req[q] \/ req'[q] = Idle
  BY DEF TypeOK, Finish

\* The request r is as it should be after the step, and the others have not moved.
Moves(r) ==
    /\ RequestInv(r)' /\ ReadProviders(r)'
    /\ \A q \in Request : q # r => req'[q] = req[q]

\* Requests that begin.
LEMMA ArrivalStep ==
  ASSUME AccountsInv, [Next]_vars, NEW r \in Request, Arrive(r)
  PROVE  Moves(r)
<1>0. TypeOK /\ req \in [Request -> RequestState]
  BY DEF AccountsInv, TypeOK
<1>1. ASSUME NEW e \in Email, Register(r, e) PROVE Moves(r)
  <2>1. /\ req'[r].pc = "insertLocal" /\ req'[r].email = e
        /\ \A q \in Request : q # r => req'[q] = req[q]
    BY <1>0, <1>1 DEF Register, RequestState
  <2> QED
    BY <2>1 DEF Moves, RequestInv, ReadProviders, HoldsAccount
<1>2. ASSUME NEW g \in GoogleId, GoogleCallback(r, g) PROVE Moves(r)
  <2>1. /\ req'[r].pc = "findByEmail" /\ req'[r].googleId = g /\ req'[r].email = EmailOf[g]
        /\ \A q \in Request : q # r => req'[q] = req[q]
    BY <1>0, <1>2 DEF GoogleCallback, RequestState
  <2> QED
    BY <2>1 DEF Moves, RequestInv, ReadProviders, HoldsAccount
<1>3. ASSUME NEW t \in Token, VerifyEmail(r, t) PROVE Moves(r)
  <2>1. /\ req'[r].pc = "markVerified" /\ req'[r].token = t /\ req'[r].user = token[t].user
        /\ \A q \in Request : q # r => req'[q] = req[q]
    BY <1>0, <1>3 DEF VerifyEmail, RequestState
  <2>2. /\ token[t].doc # "absent" /\ token[t].type = "verification"
        /\ token[t].user \in User /\ user[token[t].user].doc # "absent"
    BY <1>3 DEF VerifyEmail, FindByToken, AccountsInv, TokenInv
  <2>3. token' = token
    BY <1>3 DEF VerifyEmail
  <2> QED
    BY <2>1, <2>2, <2>3, AccountsKept DEF Moves, RequestInv, ReadProviders, HoldsAccount
<1>4. ASSUME NEW t \in Token, Link(r, t) PROVE Moves(r)
  <2>1. /\ req'[r].pc = "loadUser" /\ req'[r].user = token[t].user
        /\ req'[r].googleId = token[t].googleId
        /\ \A q \in Request : q # r => req'[q] = req[q]
    BY <1>0, <1>4 DEF Link, RequestState
  <2>2. SameEmail(token[t].user, token[t].googleId)
    BY <1>4 DEF Link, FindByToken, AccountsInv, TokenInv
  <2>3. user' = user
    BY <1>4 DEF Link
  <2> QED
    BY <2>1, <2>2, <2>3 DEF Moves, RequestInv, ReadProviders, HoldsAccount, SameEmail
<1>5. ASSUME NEW u \in User, ResendVerification(r, u) PROVE Moves(r)
  <2>1. /\ req'[r].pc = "revokeMails" /\ req'[r].user = u
        /\ \A q \in Request : q # r => req'[q] = req[q]
    BY <1>0, <1>5 DEF ResendVerification, RequestState
  <2>2. user' = user /\ user[u].doc = "stored"
    BY <1>5 DEF ResendVerification, Stored
  <2> QED
    BY <2>1, <2>2 DEF Moves, RequestInv, ReadProviders, HoldsAccount
<1>6. ASSUME NEW u \in User, SetPassword(r, u) PROVE Moves(r)
  <2>1. /\ req'[r].pc = "writePassword" /\ req'[r].user = u
        /\ req'[r].providers = user[u].providers
        /\ \A q \in Request : q # r => req'[q] = req[q]
    BY <1>0, <1>6 DEF SetPassword, RequestState
  <2>2. user' = user /\ u \in Stored /\ user[u].doc = "stored" /\ ~user[u].password
    BY <1>6 DEF SetPassword, Stored
  <2>3. user[u].googleId # NoGoogleId /\ "google" \in user[u].providers
    BY <2>2 DEF AccountsInv, HasCredential, ProvidersAgree
  <2> QED
    BY <2>1, <2>2, <2>3 DEF Moves, RequestInv, ReadProviders, HoldsAccount
<1>7. ASSUME NEW u \in User, DeleteUser(r, u) PROVE Moves(r)
  <2>1. /\ req'[r].pc = "sweep" /\ req'[r].user = u
        /\ \A q \in Request : q # r => req'[q] = req[q]
    BY <1>0, <1>7 DEF DeleteUser, RequestState
  <2>2. user[u].doc # "absent"
    BY <1>7 DEF DeleteUser, Stored
  <2> QED
    BY <2>1, <2>2, AccountsKept DEF Moves, RequestInv, ReadProviders, HoldsAccount
<1> QED
  BY <1>1, <1>2, <1>3, <1>4, <1>5, <1>6, <1>7 DEF Arrive

\* Requests that go on.
LEMMA RequestStep ==
  AccountsInv /\ [Next]_vars => \A q \in Request : RequestInv(q)' /\ ReadProviders(q)'
<1> SUFFICES ASSUME AccountsInv, [Next]_vars
             PROVE  \A q \in Request : RequestInv(q)' /\ ReadProviders(q)'
    OBVIOUS
<1>0. TypeOK /\ req \in [Request -> RequestState]
  BY DEF AccountsInv, TypeOK
<1> DEFINE Rest == \A q \in Request : req'[q] = req[q] \/ req'[q] = Idle
<1>1. ASSUME NEW r \in Request, Finish(r) PROVE Rest
  BY <1>0, <1>1, FinishWrites
<1>2. ASSUME NEW r \in Request, NEW u \in User, InsertLocal(r, u) PROVE Rest \/ Moves(r)
  <2>1. CASE user'[u].doc = "stored" /\ MailTo(r, u)
    <3>1. /\ req'[r].pc = "mail" /\ req'[r].user = u
          /\ \A q \in Request : q # r => req'[q] = req[q]
      BY <1>0, <2>1 DEF MailTo, RequestState
    <3> QED
      BY <2>1, <3>1 DEF Moves, RequestInv, ReadProviders, HoldsAccount
  <2> QED
    BY <1>1, <1>2, <2>1 DEF InsertLocal
<1>3. ASSUME NEW r \in Request, MarkVerified(r) PROVE Moves(r)
  <2>1. RequestInv(r) /\ req[r].user \in User /\ user[req[r].user].doc # "absent"
    BY <1>3 DEF MarkVerified, At, AccountsInv, RequestInv, HoldsAccount
  <2>2. Goto(r, "spendVerification") /\ "spendVerification" \in Label
    BY <1>3 DEF MarkVerified, Label
  <2>3. /\ req'[r].pc = "spendVerification" /\ req'[r].user = req[r].user
        /\ \A q \in Request : q # r => req'[q] = req[q]
    BY <1>0, <2>2, GotoWrites
  <2> QED
    BY <2>1, <2>3, AccountsKept DEF Moves, RequestInv, ReadProviders, HoldsAccount
<1>4. ASSUME NEW r \in Request, RevokeMails(r) PROVE Moves(r)
  <2>1. req[r].user \in User /\ user[req[r].user].doc # "absent"
    BY <1>4 DEF RevokeMails, At, AccountsInv, RequestInv, HoldsAccount
  <2>2. Goto(r, "mail") /\ "mail" \in Label
    BY <1>4 DEF RevokeMails, Label
  <2>3. /\ req'[r].pc = "mail" /\ req'[r].user = req[r].user
        /\ \A q \in Request : q # r => req'[q] = req[q]
    BY <1>0, <2>2, GotoWrites
  <2> QED
    BY <2>1, <2>3, AccountsKept DEF Moves, RequestInv, ReadProviders, HoldsAccount
<1>5. ASSUME NEW r \in Request, GoogleByEmail(r) PROVE Moves(r)
  <2>0. /\ user' = user
        /\ req[r].googleId \in GoogleId /\ req[r].email = EmailOf[req[r].googleId]
    BY <1>5 DEF GoogleByEmail, At, AccountsInv, RequestInv
  <2>1. ASSUME NEW u \in FindByEmail(req[r].email),
               req' = [req EXCEPT ![r].pc = "pend", ![r].user = u]
        PROVE  Moves(r)
    <3>1. /\ req'[r].pc = "pend" /\ req'[r].user = u /\ req'[r].googleId = req[r].googleId
          /\ \A q \in Request : q # r => req'[q] = req[q]
      BY <1>0, <2>1 DEF RequestState
    <3>2. u \in User /\ user[u].doc = "stored" /\ user[u].email = req[r].email
      BY DEF FindByEmail, Stored
    <3> QED
      BY <2>0, <3>1, <3>2 DEF Moves, RequestInv, ReadProviders, HoldsAccount, SameEmail
  <2>2. CASE Goto(r, "insertGoogle")
    <3>1. "insertGoogle" \in Label
      BY DEF Label
    <3>2. /\ req'[r].pc = "insertGoogle"
          /\ req'[r].googleId = req[r].googleId /\ req'[r].email = req[r].email
          /\ \A q \in Request : q # r => req'[q] = req[q]
      BY <1>0, <2>2, <3>1, GotoWrites
    <3> QED
      BY <2>0, <3>2 DEF Moves, RequestInv, ReadProviders, HoldsAccount
  <2> QED
    BY <1>5, <2>1, <2>2 DEF GoogleByEmail
<1>6. ASSUME NEW r \in Request, LinkLoadUser(r) PROVE Rest \/ Moves(r)
  <2>1. CASE /\ req[r].user \in Stored /\ user[req[r].user].password
             /\ req' = [req EXCEPT ![r].pc = "checkOwner",
                                   ![r].providers = user[req[r].user].providers]
    <3>1. /\ req'[r].pc = "checkOwner" /\ req'[r].user = req[r].user
          /\ req'[r].googleId = req[r].googleId
          /\ req'[r].providers = user[req[r].user].providers
          /\ \A q \in Request : q # r => req'[q] = req[q]
      BY <1>0, <2>1 DEF RequestState
    <3>2. user' = user /\ SameEmail(req[r].user, req[r].googleId)
      BY <1>6 DEF LinkLoadUser, At, AccountsInv, RequestInv
    <3>3. "local" \in user[req[r].user].providers
      BY <2>1 DEF AccountsInv, ProvidersAgree
    <3> QED
      BY <2>1, <3>1, <3>2, <3>3
         DEF Moves, RequestInv, ReadProviders, HoldsAccount, SameEmail
  <2> QED
    BY <1>1, <1>6, <2>1 DEF LinkLoadUser
<1>7. ASSUME NEW r \in Request, NEW label \in {"spendLink", "writeLink"},
             Goto(r, label), req[r].pc \in {"checkOwner", "spendLink"}
      PROVE  Moves(r)
  <2>1. /\ SameEmail(req[r].user, req[r].googleId)
        /\ "local" \in req[r].providers /\ user[req[r].user].password
    BY <1>7 DEF AccountsInv, RequestInv, ReadProviders
  <2>2. label \in Label
    BY DEF Label
  <2>3. /\ req'[r].pc = label /\ req'[r].user = req[r].user
        /\ req'[r].googleId = req[r].googleId /\ req'[r].providers = req[r].providers
        /\ \A q \in Request : q # r => req'[q] = req[q]
    BY <1>0, <1>7, <2>2, GotoWrites
  <2>4. /\ user'[req[r].user].doc # "absent"
        /\ user'[req[r].user].email = user[req[r].user].email
        /\ user'[req[r].user].password
    BY <2>1, AccountsKept DEF SameEmail
  <2> QED
    BY <2>1, <2>3, <2>4 DEF Moves, RequestInv, ReadProviders, HoldsAccount, SameEmail
<1>8. ASSUME NEW r \in Request, LinkCheckOwner(r) PROVE Rest \/ Moves(r)
  BY <1>1, <1>7, <1>8 DEF LinkCheckOwner, At
<1>9. ASSUME NEW r \in Request, SpendLink(r) PROVE Moves(r)
  BY <1>7, <1>9 DEF SpendLink, At
<1>10. ASSUME NEW r \in Request, Step(r) PROVE Rest \/ Moves(r)
  <2>1. ASSUME NEW u \in User, InsertGoogle(r, u) PROVE Rest
    BY <1>1, <2>1 DEF InsertGoogle
  <2>2. ASSUME NEW t \in Token, Mail(r, t) \/ Pend(r, t) PROVE Rest
    BY <1>1, <2>2 DEF Mail, Pend
  <2>3. CASE SpendVerification(r) \/ WriteLink(r) \/ WritePassword(r) \/ Sweep(r)
    BY <1>1, <2>3 DEF SpendVerification, WriteLink, WritePassword, Sweep
  <2> HIDE DEF Rest
  <2> QED
    BY <1>2, <1>3, <1>4, <1>5, <1>6, <1>8, <1>9, <1>10, <2>1, <2>2, <2>3 DEF Step
<1>11. CASE Rest
  BY <1>11, OthersStep
<1>12. ASSUME NEW r \in Request, Moves(r)
       PROVE  \A q \in Request : RequestInv(q)' /\ ReadProviders(q)'
  BY <1>12, OthersStep DEF Moves
<1> HIDE DEF Rest
<1>13. ASSUME NEW r \in Request, Fail(r) PROVE Rest
  BY <1>1, <1>13 DEF Fail
<1>14. CASE req' = req
  BY <1>14, <1>11 DEF Rest
<1> QED
  BY <1>10, <1>11, <1>12, <1>13, <1>14, ArrivalStep
     DEF Next, SweepElsewhere, Expire, vars

------------------------------------------------------------------------------
\* The theorems

LEMMA InvInit == Init => AccountsInv
<1> SUFFICES ASSUME Init PROVE AccountsInv
    OBVIOUS
<1>1. TypeOK
  BY InitTyping
<1>2. Stored = {}
  BY DEF Init, Stored
<1>3. ASSUME NEW r \in Request PROVE RequestInv(r) /\ ReadProviders(r)
  BY DEF Init, Idle, RequestInv, ReadProviders, HoldsAccount
<1>4. ASSUME NEW t \in Token PROVE TokenInv(t)
  BY DEF Init, TokenInv
<1> QED
  BY <1>1, <1>2, <1>3, <1>4
     DEF AccountsInv, OneAccountPerIdentity, ProvidersAgree, GoogleFollowsEmail,
         VerifiedWasProven

LEMMA InvStep == AccountsInv /\ [Next]_vars => AccountsInv'
<1> SUFFICES ASSUME AccountsInv, [Next]_vars PROVE AccountsInv'
    OBVIOUS
<1>1. TypeOK'
  BY Typing DEF AccountsInv
<1> QED
  BY <1>1, RequestStep, TokenStep, CredentialStep, IdentityStep, ProvidersStep,
     GoogleStep, VerifiedStep
     DEF AccountsInv

LEMMA InvAlways == Spec => []AccountsInv
  BY InvInit, InvStep, PTL DEF Spec

\* The documents, the tokens and the requests have their declared shapes, and a
\* token its account, however the requests interleave and wherever they fail.
THEOREM TypesAlways == Spec => []TypeOK
  BY InvAlways, PTL DEF AccountsInv

\* With its indexes, the collection never holds two accounts of one email or of
\* one Google id: registerUser, googleLogin and linkGoogleAccount look first and
\* write later, and the index decides.
THEOREM IdentityUnique == Spec => []OneAccountPerIdentity
<1>1. AccountsInv => OneAccountPerIdentity
  BY DEF AccountsInv
<1> QED
  BY <1>1, InvAlways, PTL

\* The providers of an account name its credentials, although
\* linkGoogleAccount and setPassword write back the providers they read.
THEOREM ProvidersNameCredentials == Spec => []ProvidersAgree
<1>1. AccountsInv => ProvidersAgree
  BY DEF AccountsInv
<1> QED
  BY <1>1, InvAlways, PTL

\* linkGoogleAccount links a profile to the account with the profile's email
\* only, whatever the age of the link token.
THEOREM GoogleSignsInToItsEmail == Spec => []GoogleFollowsEmail
<1>1. AccountsInv => GoogleFollowsEmail
  BY DEF AccountsInv
<1> QED
  BY <1>1, InvAlways, PTL

\* verifyEmail marks an account by a verification token of its own, whatever
\* happened between the look-up of the token and the write.
THEOREM VerifiedByProof == Spec => []VerifiedWasProven
<1>1. AccountsInv => VerifiedWasProven
  BY DEF AccountsInv
<1> QED
  BY <1>1, InvAlways, PTL

\* No request takes away a provider, a password or a verification that another
\* has given an account since the request read it.
THEOREM CredentialsKept == Spec => CredentialsOnlyGrow
<1> DEFINE A == \A u \in Stored :
                   u \in Stored' => /\ user[u].providers \subseteq user'[u].providers
                                    /\ user[u].password => user'[u].password
                                    /\ user[u].verified => user'[u].verified
<1>1. ASSUME AccountsInv, [Next]_vars PROVE A
  <2> SUFFICES ASSUME NEW u \in Stored, u \in Stored'
               PROVE  /\ user[u].providers \subseteq user'[u].providers
                      /\ user[u].password => user'[u].password
                      /\ user[u].verified => user'[u].verified
      OBVIOUS
  <2>1. u \in User /\ user[u].doc = "stored" /\ user'[u].doc = "stored"
    BY DEF Stored
  <2>2. user[u].providers \subseteq Provider
    BY <1>1, <2>1 DEF AccountsInv, TypeOK, UserState
  <2>3. CASE user'[u] = user[u]
    BY <2>3
  <2>4. CASE AccountStep(u)
    BY <2>1, <2>2, <2>4
       DEF AccountStep, InsertedLocal, InsertedGoogle, Deleted, MarkedVerified,
           Linked, GivenPassword
  <2> QED
    BY <1>1, <2>1, <2>3, <2>4, StepsOfAccounts DEF AccountStep
<1>2. AccountsInv /\ [Next]_vars => [A]_vars
  BY <1>1
<1> HIDE DEF A
<1>3. Spec => [][A]_vars
  BY <1>2, InvAlways, PTL DEF Spec
<1> QED
  BY <1>3 DEF CredentialsOnlyGrow, A

==============================================================================
