---------------------------- MODULE Server_proofs ----------------------------
(***************************************************************************)
(* Theorems about Server, for every number of connections and requests,    *)
(* every set of routes, and with or without failures.                      *)
(***************************************************************************)
EXTENDS Server, FiniteSets, FiniteSetTheorems, TLAPS

\* What is open at each label of the start, and behind a shutdown that found a
\* server: only its last answer lets it go on to the stores.
ServingInv ==
    /\ DOMAIN conn = Connection
    /\ boot \in {"redis", "mongo", "indexes", "listen", "up"}
    /\ listening => boot = "up"
    /\ captured => boot = "up" /\ ~listening /\ stop # "no"
    /\ stop = "no" =>
          /\ boot # "redis" => redis = "open"
          /\ boot \notin {"redis", "mongo"} => mongo = "open"
          /\ boot # "up" => AllClosed
          /\ boot = "up" => Running
    /\ captured /\ stop = "close" => Running /\ redis = "open" /\ mongo = "open"
    /\ captured /\ stop # "close" => AllClosed

LEMMA ServingInit == Init => ServingInv
  BY DEF Init, ServingInv, AllClosed, None

LEMMA ServingStep == ServingInv /\ [Next]_vars => ServingInv'
<1> SUFFICES ASSUME ServingInv, [Next]_vars PROVE ServingInv'
    OBVIOUS
<1> USE DEF ServingInv, life, stores
\* A step of the start
<1>1. CASE ConnectRedis
  BY <1>1 DEF ConnectRedis, Fail, AllClosed, Running
<1>2. CASE ConnectMongo
  BY <1>2 DEF ConnectMongo, Fail, AllClosed, Running
<1>3. CASE CreateIndexes
  BY <1>3 DEF CreateIndexes, AllClosed, Running
<1>4. CASE Listen
  BY <1>4 DEF Listen, AllClosed, Running
\* A step of a request: it needs an open connection, and so does the next one
<1>5. ASSUME NEW c \in Connection, NEW r,
             conn[c].pc # "none" \/ listening,
             conn' = [conn EXCEPT ![c] = r],
             UNCHANGED <<life, stores>>
      PROVE  ServingInv'
  <2>1. ~AllClosed \/ listening
    BY <1>5 DEF AllClosed
  <2>2. QED
    BY <1>5, <2>1 DEF Running
<1>6. ASSUME NEW c \in Connection, NEW route, Request(c, route) PROVE ServingInv'
  BY <1>5, <1>6 DEF Request
<1>7. ASSUME NEW c \in Connection, Pass(c) \/ Disconnect(c) PROVE ServingInv'
  BY <1>5, <1>7 DEF Pass, Disconnect
<1>8. ASSUME NEW c \in Connection, Handle(c) \/ FailureRedirect(c) \/ Refuse(c) PROVE ServingInv'
  <2>1. \E answer, error : Answered(c, answer, error)
    BY <1>8 DEF Handle, FailureRedirect, Refuse, Reject
  <2>2. conn[c].pc = "busy" /\ UNCHANGED <<life, stores>>
    BY <1>8 DEF Handle, FailureRedirect, Refuse
  <2>3. \E r : conn' = [conn EXCEPT ![c] = r]
    BY <2>1 DEF Answered
  <2>4. QED
    BY <1>5, <2>2, <2>3
\* The email
<1>9. CASE StoreToken
  BY <1>9 DEF StoreToken, Logged, AllClosed, Running
<1>10. CASE SendEmail
  BY <1>10 DEF SendEmail, Logged, AllClosed, Running
\* A step of the shutdown
<1>11. CASE Signal
  BY <1>11 DEF Signal, AllClosed, Running
<1>12. CASE AwaitClose
  BY <1>12 DEF AwaitClose, AllClosed, Running
<1>13. CASE DisconnectMongo
  BY <1>13 DEF DisconnectMongo, ExitOnError, AllClosed, Running
<1>14. CASE DisconnectRedis
  BY <1>14 DEF DisconnectRedis, ExitOnError, AllClosed, Running
<1>15. CASE UNCHANGED vars
  BY <1>15 DEF vars, AllClosed, Running
<1>16. QED
  BY <1>1, <1>2, <1>3, <1>4, <1>6, <1>7, <1>8, <1>9, <1>10, <1>11, <1>12, <1>13, <1>14, <1>15
  DEF Next

\* server.ts, "let in-flight requests finish": no start, failure or shutdown that
\* found the server takes the process or a store from a request in flight.
THEOREM RequestsFinish == Spec => []InFlightRequestsFinish
<1>1. ServingInv => InFlightRequestsFinish
  BY DEF ServingInv, InFlightRequestsFinish, AllClosed
<1>2. QED
  BY <1>1, ServingInit, ServingStep, PTL DEF Spec
------------------------------------------------------------------------------
\* An error that is the API's own says so, and no other does.
Known(e) ==
    /\ e \in Thrown
    /\ e.operational <=> e.class = "ErrorResponse"
    /\ e.operational => e.status # 0

Exchange == [pc     : {"none", "busy", "idle"},
             route  : Route,
             at     : Int,
             error  : Thrown \cup {Success(200)},
             answer : Answer]

\* An answer stays the one that its error was given.
AnswersInv ==
    /\ conn \in [Connection -> Exchange]
    /\ production \in BOOLEAN
    /\ \A c \in Connection : conn[c].error \in Thrown =>
          Known(conn[c].error) /\ conn[c].answer = Rejection(conn[c].error, production)

LEMMA SuccessIsNoError == \A status : Success(status) \notin Thrown
  BY DEF Success, Thrown

\* What the converter makes of an error, and what it is known by.
LEMMA ConversionKeepsMeaning ==
  ASSUME NEW e, Known(e)
  PROVE  /\ Convert(e).status \in 400..500
         /\ e.class = "Error"  => ~Convert(e).operational /\ ~e.operational /\ Meaning(e) = 500
         /\ e.class # "Error" => /\ Convert(e).operational
                                 /\ Convert(e).status = Meaning(e)
                                 /\ e.operational \/ Meaning(e) # 500
<1>1. /\ e.class \in {"ErrorResponse", "duplicate", "BSONError", "Error"}
      /\ e.status \in {0, 400, 401, 403, 404, 409, 422, 429, 500}
      /\ e.operational <=> e.class = "ErrorResponse"
      /\ e.operational => e.status # 0
  BY DEF Thrown, Known
<1>2. CASE e.class = "ErrorResponse"
  <2>1. Convert(e) = e /\ Meaning(e) = e.status
    BY <1>1, <1>2 DEF Convert, Meaning
  <2>2. QED
    BY <1>1, <1>2, <2>1
<1>3. CASE e.class = "duplicate"
  <2>1. Convert(e) = ConflictError /\ Meaning(e) = 409
    BY <1>1, <1>3 DEF Convert, Meaning
  <2>2. ConflictError.status = 409 /\ ConflictError.operational
    BY DEF ConflictError, Operational
  <2>3. QED
    BY <1>3, <2>1, <2>2
<1>4. CASE e.class = "BSONError"
  <2>1. Convert(e) = BadRequestError /\ Meaning(e) = 400
    BY <1>1, <1>4 DEF Convert, Meaning
  <2>2. BadRequestError.status = 400 /\ BadRequestError.operational
    BY DEF BadRequestError, Operational
  <2>3. QED
    BY <1>4, <2>1, <2>2
<1>5. CASE e.class = "Error"
  <2> DEFINE f == [class |-> "ErrorResponse", operational |-> FALSE,
                   status |-> IF e.status = 0 THEN 500 ELSE e.status]
  <2>1. Convert(e) = f /\ Meaning(e) = 500
    BY <1>1, <1>5 DEF Convert, Meaning
  <2>2. ~f.operational /\ f.status \in 400..500
    BY <1>1
  <2>3. QED
    BY <1>1, <1>5, <2>1, <2>2
<1>6. QED
  BY <1>1, <1>2, <1>3, <1>4, <1>5

LEMMA RejectionTyping ==
  ASSUME NEW e, Known(e), NEW mode \in BOOLEAN
  PROVE  Rejection(e, mode) \in Answer
  BY ConversionKeepsMeaning DEF Rejection, Handled, Answer

LEMMA RejectionsKeepTheirMeaning ==
  ASSUME NEW e, Known(e), NEW mode \in BOOLEAN, mode \/ Meaning(e) # 500
  PROVE  /\ Rejection(e, mode).status = Meaning(e)
         /\ Rejection(e, mode).message = (e.operational \/ Meaning(e) # 500)
<1>1. CASE e.class = "Error"
  <2>1. mode /\ ~Convert(e).operational /\ Meaning(e) = 500
        /\ (e.operational \/ Meaning(e) # 500) = FALSE
    BY <1>1, ConversionKeepsMeaning
  <2>2. Rejection(e, mode) = [status |-> 500, message |-> FALSE]
    BY <2>1 DEF Rejection, Handled
  <2>3. Rejection(e, mode).status = 500 /\ Rejection(e, mode).message = FALSE
    BY <2>2
  <2>4. QED
    BY <2>1, <2>3, Zenon
<1>2. CASE e.class # "Error"
  <2>1. /\ Convert(e).operational /\ Convert(e).status = Meaning(e)
        /\ (e.operational \/ Meaning(e) # 500) = TRUE
    BY <1>2, ConversionKeepsMeaning
  <2>2. Rejection(e, mode) = [status |-> Convert(e).status, message |-> TRUE]
    BY <2>1 DEF Rejection, Handled
  <2>3. Rejection(e, mode).status = Meaning(e) /\ Rejection(e, mode).message = TRUE
    BY <2>1, <2>2
  <2>4. QED
    BY <2>1, <2>3, Zenon
<1>3. QED
  BY <1>1, <1>2

LEMMA ThrownErrorsAreKnown ==
  ASSUME NEW c \in Connection
  PROVE  \A e \in Refusals(c) \cup Failures(c) : Known(e)
<1>1. \A status \in {400, 401, 403, 404, 409, 422, 429, 500} : Known(Operational(status))
  BY DEF Known, Thrown, Operational
<1>2. /\ Known(BadRequestError) /\ Known(UnauthorizedError) /\ Known(ForbiddenError)
      /\ Known(NotFoundError) /\ Known(ConflictError) /\ Known(UnprocessableEntityError)
      /\ Known(TooManyRequestsError) /\ Known(InternalServerError)
  BY <1>1 DEF BadRequestError, UnauthorizedError, ForbiddenError, NotFoundError, ConflictError,
              UnprocessableEntityError, TooManyRequestsError, InternalServerError
<1>3. Known(DuplicateKey) /\ Known(InvalidId) /\ Known(MalformedBody) /\ Known(Unexpected)
  BY DEF Known, Thrown, Foreign, DuplicateKey, InvalidId, MalformedBody, Unexpected
<1> HIDE DEF Known
<1>4. \A e \in Refusals(c) : Known(e)
  BY <1>2, <1>3 DEF Refusals
<1>5. \A e \in Failures(c) : Known(e)
  BY <1>3 DEF Failures
<1>6. QED
  BY <1>4, <1>5

LEMMA ExchangeUpdates ==
  ASSUME NEW x \in Exchange
  PROVE  /\ \A pc \in {"none", "busy", "idle"} : [x EXCEPT !.pc = pc] \in Exchange
         /\ \A route \in Route : [x EXCEPT !.route = route] \in Exchange
         /\ \A at \in Int : [x EXCEPT !.at = at] \in Exchange
         /\ \A error \in Thrown \cup {Success(200)} : [x EXCEPT !.error = error] \in Exchange
         /\ \A answer \in Answer : [x EXCEPT !.answer = answer] \in Exchange
  BY DEF Exchange

LEMMA AnswersInit == Init => AnswersInv
<1>1. ServerAssumption
  BY ServerAssumption
<1>2. Success(200) \in Answer
  BY DEF Success, Answer
<1>3. "root" \in Route
  BY DEF Route, Chains
<1>4. None \in Exchange /\ None.error \notin Thrown
  BY <1>2, <1>3, SuccessIsNoError DEF None, Exchange
<1>5. QED
  BY <1>1, <1>4 DEF Init, AnswersInv, ServerAssumption

LEMMA AnswersStep == AnswersInv /\ [Next]_vars => AnswersInv'
<1> SUFFICES ASSUME AnswersInv, [Next]_vars PROVE AnswersInv'
    OBVIOUS
<1>1. production' = production /\ production \in BOOLEAN
  BY DEF AnswersInv, Next, vars, life, ConnectRedis, ConnectMongo, Fail, CreateIndexes, Listen,
         Request, Pass, Handle, FailureRedirect, Refuse, Disconnect, StoreToken, SendEmail,
         Signal, AwaitClose, DisconnectMongo, DisconnectRedis
<1> DEFINE Good(r) == /\ r \in Exchange
                      /\ r.error \in Thrown =>
                            Known(r.error) /\ r.answer = Rejection(r.error, production)
<1>2. SUFFICES conn' \in [Connection -> Exchange] /\ \A c \in Connection : Good(conn'[c])
  BY <1>1 DEF AnswersInv
<1>3. conn \in [Connection -> Exchange] /\ \A c \in Connection : Good(conn[c])
  BY DEF AnswersInv
<1>4. ASSUME NEW c \in Connection, NEW r, Good(r), conn' = [conn EXCEPT ![c] = r]
      PROVE  conn' \in [Connection -> Exchange] /\ \A d \in Connection : Good(conn'[d])
  BY <1>3, <1>4
<1>5. Success(200) \in Answer /\ \A route : Success(Status(route)) \in Answer
  BY DEF Success, Answer, Status
<1>6. None \in Exchange /\ None.error = Success(200) /\ Good(None)
  <2>1. "root" \in Route
    BY DEF Route, Chains
  <2>2. None \in Exchange /\ None.error = Success(200)
    BY <1>5, <2>1 DEF None, Exchange
  <2>3. QED
    BY <2>2, SuccessIsNoError
<1>7. ASSUME NEW c \in Connection, NEW route \in Routes, Request(c, route)
      PROVE  conn' \in [Connection -> Exchange] /\ \A d \in Connection : Good(conn'[d])
  <2> DEFINE r == [None EXCEPT !.pc = "busy", !.route = route, !.at = 1]
  <2>1. route \in Route
    BY ServerAssumption
  <2>2. r \in Exchange /\ r.error = Success(200)
    <3>1. r \in Exchange
      <4>1. [None EXCEPT !.pc = "busy"] \in Exchange
        BY <1>6, ExchangeUpdates
      <4>2. [[None EXCEPT !.pc = "busy"] EXCEPT !.route = route] \in Exchange
        BY <2>1, <4>1, ExchangeUpdates
      <4>3. 1 \in Int
        OBVIOUS
      <4>4. QED
        BY <4>2, <4>3, ExchangeUpdates, Zenon
    <3>2. r.error = None.error
      BY <1>6 DEF Exchange
    <3>3. QED
      BY <1>6, <3>1, <3>2
  <2>3. conn' = [conn EXCEPT ![c] = r]
    BY <1>7 DEF Request
  <2>4. Good(r)
    BY <2>2, SuccessIsNoError
  <2> HIDE DEF r
  <2>5. QED
    BY <1>4, <2>3, <2>4
<1>8. ASSUME NEW c \in Connection, Pass(c)
      PROVE  conn' \in [Connection -> Exchange] /\ \A d \in Connection : Good(conn'[d])
  <2> DEFINE r == [conn[c] EXCEPT !.at = @ + 1]
  <2>1. conn[c] \in Exchange
    BY <1>3
  <2>2. r \in Exchange /\ r.error = conn[c].error /\ r.answer = conn[c].answer
    BY <2>1 DEF Exchange
  <2>3. conn' = [conn EXCEPT ![c] = r]
    BY <1>8 DEF Pass
  <2>4. Good(r)
    BY <1>3, <2>2
  <2> HIDE DEF r
  <2>5. QED
    BY <1>4, <2>3, <2>4
<1>9. ASSUME NEW c \in Connection, NEW answer \in Answer, NEW error \in Thrown \cup {Success(200)},
             error \in Thrown => Known(error) /\ answer = Rejection(error, production),
             Answered(c, answer, error)
      PROVE  conn' \in [Connection -> Exchange] /\ \A d \in Connection : Good(conn'[d])
  <2> DEFINE r == [conn[c] EXCEPT !.pc = "idle", !.at = 0, !.answer = answer, !.error = error]
  <2>1. conn[c] \in Exchange
    BY <1>3
  <2>2. r \in Exchange /\ r.error = error /\ r.answer = answer
    <3>1. r \in Exchange
      <4>1. [conn[c] EXCEPT !.pc = "idle"] \in Exchange
        BY <2>1, ExchangeUpdates
      <4>2. [[conn[c] EXCEPT !.pc = "idle"] EXCEPT !.at = 0] \in Exchange
        <5>1. 0 \in Int
          OBVIOUS
        <5>2. QED
          BY <4>1, <5>1, ExchangeUpdates, Zenon
      <4>3. [[[conn[c] EXCEPT !.pc = "idle"] EXCEPT !.at = 0] EXCEPT !.answer = answer] \in Exchange
        BY <1>9, <4>2, ExchangeUpdates
      <4>4. QED
        BY <1>9, <4>3, ExchangeUpdates
    <3>2. r.error = error
      BY <2>1 DEF Exchange
    <3>3. r.answer = answer
      BY <2>1 DEF Exchange
    <3>4. QED
      BY <3>1, <3>2, <3>3
  <2>3. conn' = [conn EXCEPT ![c] = r]
    BY <1>3, <1>9 DEF Answered
  <2>4. Good(r)
    BY <1>9, <2>2
  <2> HIDE DEF r
  <2>5. QED
    BY <1>4, <2>3, <2>4
<1>10. ASSUME NEW c \in Connection, Handle(c) \/ FailureRedirect(c)
       PROVE  conn' \in [Connection -> Exchange] /\ \A d \in Connection : Good(conn'[d])
  <2>1. \E answer \in Answer : Answered(c, answer, Success(200))
    <3>1. Success(302) \in Answer
      BY DEF Success, Answer
    <3>2. QED
      BY <1>5, <1>10, <3>1 DEF Handle, FailureRedirect
  <2>2. QED
    BY <1>9, <2>1, SuccessIsNoError
<1>11. ASSUME NEW c \in Connection, Refuse(c)
       PROVE  conn' \in [Connection -> Exchange] /\ \A d \in Connection : Good(conn'[d])
  <2>1. PICK e \in Refusals(c) \cup Failures(c) : Reject(c, e)
    BY <1>11 DEF Refuse
  <2>2. Known(e) /\ e \in Thrown
    BY ThrownErrorsAreKnown DEF Known
  <2>3. Rejection(e, production) \in Answer
    BY <1>1, <2>2, RejectionTyping
  <2>4. QED
    BY <1>9, <2>1, <2>2, <2>3 DEF Reject
<1>12. ASSUME NEW c \in Connection, Disconnect(c)
       PROVE  conn' \in [Connection -> Exchange] /\ \A d \in Connection : Good(conn'[d])
  BY <1>4, <1>6, <1>12 DEF Disconnect
<1>13. CASE Signal
  BY <1>3, <1>6, <1>13 DEF Signal
<1>14. CASE UNCHANGED conn
  BY <1>3, <1>14
<1>15. QED
  BY <1>7, <1>8, <1>10, <1>11, <1>12, <1>13, <1>14
  DEF Next, vars, ConnectRedis, ConnectMongo, Fail, CreateIndexes, Listen, StoreToken, SendEmail,
      AwaitClose, DisconnectMongo, DisconnectRedis

\* error.middleware.ts: every answer to an error the API knows has its status and
\* its message, in both modes; in production any other is 500 and says nothing.
THEOREM ErrorsKeepTheirMeaning == Spec => []ErrorsAnswerTheirMeaning
<1>1. AnswersInv => ErrorsAnswerTheirMeaning
  BY RejectionsKeepTheirMeaning DEF AnswersInv, ErrorsAnswerTheirMeaning
<1>2. QED
  BY <1>1, AnswersInit, AnswersStep, PTL DEF Spec
------------------------------------------------------------------------------
\* Types.  That a request has a next stage as long as it is under way needs the
\* chains; that the emails stay within the requests needs those under way, one
\* email each.
Busy == {c \in Connection : conn[c].pc = "busy"}

StagesInv ==
    \A c \in Connection :
        /\ conn[c].at \in 0..Len(Chain("profile"))
        /\ conn[c].pc = "busy" => conn[c].at \in 1..Len(Chain(conn[c].route))

MailsInv ==
    /\ requests \in 0..MaxRequests
    /\ mails \in [{"store", "send"} -> Nat]
    /\ IsFiniteSet(Busy)
    /\ mails.store + mails.send + Cardinality(Busy) <= requests

LifeInv ==
    /\ production \in Modes
    /\ boot \in {"redis", "mongo", "indexes", "listen", "up"}
    /\ stop \in {"no", "close", "mongo", "redis", "failed"}
    /\ captured \in BOOLEAN /\ listening \in BOOLEAN
    /\ redis \in {"connecting", "open", "closed"}
    /\ mongo \in {"closed", "open"}
    /\ exit \in {"running", "0", "1", "rejection"}

Stages == {"body", "session", "user", "limit", "guard", "validate", "passport",
           "handle", "home", "missing"}

LEMMA Concatenations ==
  ASSUME NEW r \in Seq(Stages), NEW s \in Seq(Stages), s # << >>
  PROVE  /\ r \o s \in Seq(Stages) /\ r \o s # << >>
         /\ Len(r \o s) = Len(r) + Len(s)
         /\ (r \o s)[Len(r \o s)] = s[Len(s)]
  OBVIOUS

\* No chain is longer than that of the profile, and each ends in a stage that
\* passes nothing on.
LEMMA ChainsEnd ==
  ASSUME NEW route \in Route
  PROVE  /\ Len(Chain(route)) \in 1..Len(Chain("profile"))
         /\ Chain(route)[Len(Chain(route))] \in {"handle", "home", "missing"}
<1> DEFINE Ends(s, n) == /\ s \in Seq(Stages) /\ s # << >>
                         /\ Len(s) = n
                         /\ s[Len(s)] \in {"handle", "home", "missing"}
<1>1. RequireAuth \in Seq(Stages) /\ Len(RequireAuth) = 2
  BY DEF RequireAuth, Stages
<1>2. ASSUME NEW s, NEW n \in Nat, Ends(s, n) PROVE Ends(RequireAuth \o s, n + 2)
  <2>1. /\ RequireAuth \o s \in Seq(Stages) /\ RequireAuth \o s # << >>
        /\ Len(RequireAuth \o s) = 2 + n
        /\ (RequireAuth \o s)[Len(RequireAuth \o s)] = s[Len(s)]
    BY <1>1, <1>2, Concatenations
  <2>2. QED
    BY <1>2, <2>1
<1>3. ASSUME NEW s, NEW n \in Nat, Ends(s, n) PROVE Ends(<<"body">> \o s, n + 1)
  <2>1. <<"body">> \in Seq(Stages) /\ Len(<<"body">>) = 1
    BY DEF Stages
  <2>2. QED
    BY <1>3, <2>1, Concatenations
<1>4. /\ Ends(<<"home">>, 1) /\ Ends(<<"missing">>, 1)
      /\ Ends(<<"limit", "handle">>, 2)
      /\ Ends(<<"limit", "passport", "handle">>, 3)
      /\ Ends(<<"limit", "validate", "handle">>, 3)
      /\ Ends(<<"limit", "guard", "validate", "handle">>, 4)
  BY DEF Stages
<1> HIDE DEF Ends
<1>5. Ends(Session, 4) /\ Ends(Password, 5) /\ Ends(Profile, 6)
  <2>1. Ends(Session, 2 + 2) /\ Ends(Password, 3 + 2) /\ Ends(Profile, 4 + 2)
    BY <1>2, <1>4 DEF Session, Password, Profile
  <2>2. QED
    BY <2>1
<1>6. /\ \E n \in 1..6 : Ends(Chains[route], n)
      /\ Ends(Chains["profile"], 6)
  BY <1>4, <1>5 DEF Route, Chains, Register, Public, Refresh, GoogleCallback
<1>7. /\ \E n \in 1..6 : Ends(Chain(route), n + 1)
      /\ Ends(Chain("profile"), 6 + 1)
  BY <1>3, <1>6 DEF Chain
<1>8. QED
  BY <1>7 DEF Ends

LEMMA LifeStep == LifeInv /\ [Next]_vars => LifeInv'
<1> SUFFICES ASSUME LifeInv, [Next]_vars PROVE LifeInv'
    OBVIOUS
<1> USE DEF LifeInv, life, stores
<1>1. CASE ConnectRedis \/ ConnectMongo \/ CreateIndexes \/ Listen
  BY <1>1 DEF ConnectRedis, ConnectMongo, CreateIndexes, Listen, Fail
<1>2. CASE StoreToken \/ SendEmail
  BY <1>2 DEF StoreToken, SendEmail, Logged
<1>3. CASE Signal \/ AwaitClose \/ DisconnectMongo \/ DisconnectRedis
  BY <1>3 DEF Signal, AwaitClose, DisconnectMongo, DisconnectRedis, ExitOnError
<1>4. CASE UNCHANGED <<life, stores>>
  BY <1>4
<1>5. QED
  BY <1>1, <1>2, <1>3, <1>4
  DEF Next, vars, Request, Pass, Handle, FailureRedirect, Refuse, Disconnect

\* A request changes in one of four ways.
LEMMA ExchangeSteps ==
  ASSUME AnswersInv, [Next]_vars
  PROVE  \/ \E c \in Connection, route \in Routes : Request(c, route)
         \/ \E c \in Connection : Pass(c)
         \/ \E c \in Connection : /\ conn[c].pc = "busy"
                                  /\ \E answer, error : Answered(c, answer, error)
                                  /\ Handle(c) \/ FailureRedirect(c) \/ Refuse(c)
         \/ /\ \A c \in Connection : conn'[c] \in {conn[c], None}
            /\ \A c \in Connection : conn'[c] # conn[c] => conn[c].pc = "idle"
            /\ requests' = requests
            /\ mails' = mails \/ StoreToken \/ SendEmail
<1>1. ASSUME NEW c \in Connection, Disconnect(c)
      PROVE  /\ \A d \in Connection : conn'[d] \in {conn[d], None}
             /\ \A d \in Connection : conn'[d] # conn[d] => conn[d].pc = "idle"
             /\ requests' = requests /\ mails' = mails
  BY <1>1 DEF Disconnect, AnswersInv
<1>2. CASE Signal
  BY <1>2 DEF Signal
<1>3. ASSUME NEW c \in Connection, Handle(c) \/ FailureRedirect(c) \/ Refuse(c)
      PROVE  conn[c].pc = "busy" /\ \E answer, error : Answered(c, answer, error)
  BY <1>3 DEF Handle, FailureRedirect, Refuse, Reject
<1>4. CASE UNCHANGED <<conn, requests, mails>>
  BY <1>4
<1>5. CASE StoreToken \/ SendEmail
  BY <1>5 DEF StoreToken, SendEmail
<1>6. QED
  BY <1>1, <1>2, <1>3, <1>4, <1>5
  DEF Next, vars, ConnectRedis, ConnectMongo, Fail, CreateIndexes, Listen,
      AwaitClose, DisconnectMongo, DisconnectRedis

LEMMA StagesStep == AnswersInv /\ StagesInv /\ [Next]_vars => StagesInv'
<1> SUFFICES ASSUME AnswersInv, StagesInv, [Next]_vars PROVE StagesInv'
    OBVIOUS
<1> DEFINE Good(r) == /\ r.at \in 0..Len(Chain("profile"))
                      /\ r.pc = "busy" => r.at \in 1..Len(Chain(r.route))
<1>1. conn \in [Connection -> Exchange] /\ \A c \in Connection : Good(conn[c])
  BY DEF AnswersInv, StagesInv
<1>2. SUFFICES \A c \in Connection : Good(conn'[c])
  BY DEF StagesInv
<1>3. Len(Chain("profile")) \in Nat
  <2>1. "profile" \in Route
    BY DEF Route, Chains
  <2>2. QED
    BY <2>1, ChainsEnd
<1>4. Good(None)
  BY <1>3 DEF None
<1>5. ASSUME NEW c \in Connection, NEW route \in Routes, Request(c, route)
      PROVE  \A d \in Connection : Good(conn'[d])
  <2> DEFINE r == [None EXCEPT !.pc = "busy", !.route = route, !.at = 1]
  <2>1. r.at = 1 /\ r.route = route
    BY DEF None
  <2>2. route \in Route
    BY ServerAssumption
  <2>3. Good(r)
    BY <1>3, <2>1, <2>2, ChainsEnd
  <2>4. conn' = [conn EXCEPT ![c] = r]
    BY <1>5 DEF Request
  <2> HIDE DEF r, Good
  <2>5. QED
    BY <1>1, <2>3, <2>4
<1>6. ASSUME NEW c \in Connection, Pass(c)
      PROVE  \A d \in Connection : Good(conn'[d])
  <2> DEFINE r == [conn[c] EXCEPT !.at = @ + 1]
             end == Len(Chain(conn[c].route))
  <2>1. conn[c] \in Exchange /\ conn[c].route \in Route
    BY <1>1 DEF Exchange
  <2>2. conn[c].at \in 1..end /\ end \in 1..Len(Chain("profile"))
    BY <1>1, <1>6, <2>1, ChainsEnd DEF Pass
  <2>3. conn[c].at # end
    BY <1>6, <2>1, ChainsEnd DEF Pass, Stage
  <2>4. r.at = conn[c].at + 1 /\ r.route = conn[c].route
    BY <2>1 DEF Exchange
  <2>5. Good(r)
    BY <1>3, <2>2, <2>3, <2>4
  <2>6. conn' = [conn EXCEPT ![c] = r]
    BY <1>6 DEF Pass
  <2> HIDE DEF r, Good
  <2>7. QED
    BY <1>1, <2>5, <2>6
<1>7. ASSUME NEW c \in Connection, NEW answer, NEW error, Answered(c, answer, error)
      PROVE  \A d \in Connection : Good(conn'[d])
  <2> DEFINE r == [conn[c] EXCEPT !.pc = "idle", !.at = 0, !.answer = answer, !.error = error]
  <2>1. conn[c] \in Exchange
    BY <1>1
  <2>2. r.at = 0 /\ r.pc = "idle"
    BY <2>1 DEF Exchange
  <2>3. Good(r)
    BY <1>3, <2>2
  <2>4. conn' = [conn EXCEPT ![c] = r]
    BY <1>1, <1>7 DEF Answered
  <2> HIDE DEF r, Good
  <2>5. QED
    BY <1>1, <2>3, <2>4
<1>8. CASE \A c \in Connection : conn'[c] \in {conn[c], None}
  BY <1>1, <1>4, <1>8
<1>9. QED
  BY <1>5, <1>6, <1>7, <1>8, ExchangeSteps

\* The sets of requests under way, around a step.
LEMMA MailsStep == AnswersInv /\ MailsInv /\ [Next]_vars => MailsInv'
<1> SUFFICES ASSUME AnswersInv, MailsInv, [Next]_vars PROVE MailsInv'
    OBVIOUS
<1>1. conn \in [Connection -> Exchange]
  BY DEF AnswersInv
<1>2. IsFiniteSet(Busy) /\ Cardinality(Busy) \in Nat
  BY FS_CardinalityType DEF MailsInv
<1>3. ASSUME NEW c \in Connection, NEW route \in Routes, Request(c, route)
      PROVE  MailsInv'
  <2> DEFINE r == [None EXCEPT !.pc = "busy", !.route = route, !.at = 1]
  <2>1. conn' = [conn EXCEPT ![c] = r] /\ r.pc = "busy"
    BY <1>3 DEF Request, None
  <2> HIDE DEF r
  <2>2. Busy' = Busy \cup {c} /\ c \notin Busy
    BY <1>1, <1>3, <2>1 DEF Busy, Request
  <2>3. IsFiniteSet(Busy') /\ Cardinality(Busy') = Cardinality(Busy) + 1
    BY <1>2, <2>2, FS_AddElement
  <2>4. requests < MaxRequests /\ requests' = requests + 1 /\ mails' = mails
    BY <1>3 DEF Request
  <2>5. QED
    BY <1>2, <2>3, <2>4, ServerAssumption DEF MailsInv
<1>4. ASSUME NEW c \in Connection, Pass(c)
      PROVE  MailsInv'
  <2> DEFINE r == [conn[c] EXCEPT !.at = @ + 1]
  <2>1. conn' = [conn EXCEPT ![c] = r] /\ r.pc = conn[c].pc
    BY <1>1, <1>4 DEF Pass, Exchange
  <2> HIDE DEF r
  <2>2. Busy' = Busy
    BY <1>1, <2>1 DEF Busy
  <2>3. QED
    BY <1>4, <2>2 DEF Pass, MailsInv
<1>5. ASSUME NEW c \in Connection, conn[c].pc = "busy", NEW answer, NEW error,
             Answered(c, answer, error), Handle(c) \/ FailureRedirect(c) \/ Refuse(c)
      PROVE  MailsInv'
  <2> DEFINE r == [conn[c] EXCEPT !.pc = "idle", !.at = 0, !.answer = answer, !.error = error]
  <2>1. conn' = [conn EXCEPT ![c] = r] /\ r.pc = "idle"
    BY <1>1, <1>5 DEF Answered, Exchange
  <2> HIDE DEF r
  <2>2. Busy' = Busy \ {c} /\ c \in Busy
    BY <1>1, <1>5, <2>1 DEF Busy
  <2>3. IsFiniteSet(Busy') /\ Cardinality(Busy') = Cardinality(Busy) - 1
    BY <1>2, <2>2, FS_RemoveElement
  <2>4. requests' = requests /\ mails' \in {mails, [mails EXCEPT !.store = @ + 1]}
    BY <1>5 DEF Handle, FailureRedirect, Refuse
  <2>5. QED
    BY <1>2, <2>3, <2>4 DEF MailsInv
<1>6. ASSUME \A c \in Connection : conn'[c] \in {conn[c], None},
             \A c \in Connection : conn'[c] # conn[c] => conn[c].pc = "idle",
             requests' = requests,
             mails' = mails \/ StoreToken \/ SendEmail
      PROVE  MailsInv'
  <2>1. Busy' = Busy
    BY <1>6 DEF Busy, None
  <2>2. /\ mails' \in [{"store", "send"} -> Nat]
        /\ mails'.store + mails'.send <= mails.store + mails.send
    <3>1. mails.store \in Nat /\ mails.send \in Nat
      BY DEF MailsInv
    <3>2. CASE mails' = mails
      BY <3>2 DEF MailsInv
    <3>3. CASE StoreToken
      <4>1. mails.store > 0 /\ \/ mails' = [mails EXCEPT !.store = @ - 1, !.send = @ + 1]
                               \/ mails' = [mails EXCEPT !.store = @ - 1]
        BY <3>3 DEF StoreToken
      <4>2. CASE mails' = [mails EXCEPT !.store = @ - 1]
        BY <3>1, <4>1, <4>2 DEF MailsInv
      <4>3. CASE mails' = [mails EXCEPT !.store = @ - 1, !.send = @ + 1]
        <5>1. mails'.store = mails.store - 1 /\ mails'.send = mails.send + 1
          BY <4>3 DEF MailsInv
        <5>2. mails.store - 1 \in Nat /\ mails.send + 1 \in Nat
          BY <3>1, <4>1
        <5>3. mails' \in [{"store", "send"} -> Nat]
          BY <4>3, <5>2 DEF MailsInv
        <5>4. QED
          BY <3>1, <5>1, <5>3
      <4>4. QED
        BY <4>1, <4>2, <4>3
    <3>4. CASE SendEmail
      BY <3>1, <3>4 DEF MailsInv, SendEmail
    <3>5. QED
      BY <1>6, <3>2, <3>3, <3>4
  <2>3. QED
    BY <1>2, <1>6, <2>1, <2>2 DEF MailsInv
<1>7. QED
  BY <1>3, <1>4, <1>5, <1>6, ExchangeSteps

LEMMA TypesInit == Init => LifeInv /\ StagesInv /\ MailsInv
<1> SUFFICES ASSUME Init PROVE LifeInv /\ StagesInv /\ MailsInv
    OBVIOUS
<1>1. LifeInv
  BY DEF Init, LifeInv
<1>2. StagesInv
  <2>1. Len(Chain("profile")) \in Nat
    BY DEF Chain, Chains, Profile, RequireAuth
  <2>2. QED
    BY <2>1 DEF Init, StagesInv, None
<1>3. MailsInv
  <2>1. Busy = {}
    BY DEF Init, Busy, None
  <2>2. QED
    BY <2>1, FS_EmptySet, ServerAssumption DEF Init, MailsInv
<1>4. QED
  BY <1>1, <1>2, <1>3

\* Every part of the process stays in one of its states: a request is at a stage
\* of its chain, an answer has a status, and there are no more emails under way
\* than requests that have been answered.
THEOREM ServerTypes == Spec => []TypeOK
<1>1. AnswersInv /\ LifeInv /\ StagesInv /\ MailsInv => TypeOK
  <2> SUFFICES ASSUME AnswersInv, LifeInv, StagesInv, MailsInv PROVE TypeOK
      OBVIOUS
  <2>1. conn \in [Connection -> Conn]
    BY DEF AnswersInv, StagesInv, Exchange, Conn
  <2>2. mails \in [{"store", "send"} -> 0..MaxRequests]
    <3>1. Cardinality(Busy) \in Nat
      BY FS_CardinalityType DEF MailsInv
    <3>2. mails.store \in 0..MaxRequests /\ mails.send \in 0..MaxRequests
      BY <3>1, ServerAssumption DEF MailsInv
    <3>3. QED
      BY <3>2 DEF MailsInv
  <2>3. QED
    BY <2>1, <2>2 DEF TypeOK, LifeInv, MailsInv
<1>2. QED
  BY <1>1, TypesInit, LifeStep, StagesStep, MailsStep, AnswersInit, AnswersStep, PTL DEF Spec
==============================================================================
