------------------------------- MODULE Server -------------------------------
(***************************************************************************)
(* The life of one API process (apps/api/src/server.ts): startServer       *)
(* connects Redis and MongoDB and listens, requests go through the         *)
(* middleware of app.ts and of their route while the stores may fail, the  *)
(* verification email of a registration is sent behind its answer, and     *)
(* gracefulShutdown may begin at any moment.                               *)
(*                                                                         *)
(* What a handler does with the stores is in the other modules; here it is *)
(* one call that finds them open or not.                                   *)
(***************************************************************************)
EXTENDS Responses, Sequences

CONSTANTS
    Connection,
    Routes,         \* the routes that are requested
    Modes,          \* is NODE_ENV "production"?
    MaxRequests,    \* the bound on requests
    MayFail         \* may a call to a store, to the mail provider or to listen fail?

VARIABLES
    production,
    boot,       \* where startServer is
    stop,       \* where gracefulShutdown is; "no" is shuttingDown = false
    captured,   \* did it find a server?
    listening,
    redis,      \* the state of the client
    mongo,      \* the state of the client
    conn,       \* the connections, with the request on each
    requests,   \* how many there have been
    mails,      \* the verification emails under way, by their next step
    exit        \* the exit code

stores == <<redis, mongo>>
life == <<production, boot, stop, captured, listening, exit>>
vars == <<life, stores, conn, requests, mails>>

------------------------------------------------------------------------------
\* The routes, each with the middleware of its chain in order

Register == <<"limit", "validate", "handle">>
Public == <<"limit", "validate", "handle">>
Refresh == <<"limit", "handle">>
GoogleCallback == <<"limit", "passport", "handle">>
RequireAuth == <<"session", "user">>
Session == RequireAuth \o <<"limit", "handle">>
Password == RequireAuth \o <<"limit", "validate", "handle">>
Profile == RequireAuth \o <<"limit", "guard", "validate", "handle">>

Chains == [register |-> Register, public |-> Public, verify |-> Public,
           refresh |-> Refresh, google |-> GoogleCallback, session |-> Session,
           password |-> Password, profile |-> Profile,
           root |-> <<"home">>, unknown |-> <<"missing">>]
Route == DOMAIN Chains

\* app.ts: the body is parsed first, and what no route answers is not found.
Chain(route) == <<"body">> \o Chains[route]

Status(route) ==
    CASE route = "register"             -> 201
      [] route \in {"verify", "google"} -> 302
      [] OTHER                          -> 200

ASSUME ServerAssumption ==
    /\ Routes \subseteq Route
    /\ Modes \subseteq BOOLEAN
    /\ MaxRequests \in Nat
    /\ MayFail \in BOOLEAN

None == [pc |-> "none", route |-> "root", at |-> 0,
         error |-> Success(200), answer |-> Success(200)]

\* answer is that of the last request; error is what it was made of, or a Success.
Conn == [pc     : {"none", "busy", "idle"},
         route  : Route,
         at     : 0..Len(Chain("profile")),
         error  : Thrown \cup {Success(200)},
         answer : Answer]

\* Every part of the process is in one of its states, and every answer has a status.
TypeOK ==
    /\ production \in Modes
    /\ boot \in {"redis", "mongo", "indexes", "listen", "up"}
    /\ stop \in {"no", "close", "mongo", "redis", "failed"}
    /\ captured \in BOOLEAN /\ listening \in BOOLEAN
    /\ redis \in {"connecting", "open", "closed"}
    /\ mongo \in {"closed", "open"}
    /\ conn \in [Connection -> Conn]
    /\ requests \in 0..MaxRequests
    /\ mails \in [{"store", "send"} -> 0..MaxRequests]
    /\ exit \in {"running", "0", "1", "rejection"}

Init ==
    /\ production \in Modes
    /\ boot = "redis"
    /\ stop = "no"
    /\ captured = FALSE /\ listening = FALSE
    /\ redis = "connecting" /\ mongo = "closed"
    /\ conn = [c \in Connection |-> None]
    /\ requests = 0
    /\ mails = [store |-> 0, send |-> 0]
    /\ exit = "running"

Running == exit = "running"

------------------------------------------------------------------------------
\* startServer

\* catch: process.exit(1).
Fail ==
    /\ exit' = "1"
    /\ UNCHANGED <<production, boot, stop, captured, listening, stores, conn, requests, mails>>

\* A client that was closed while it connected rejects.
ConnectRedis ==
    /\ Running /\ boot = "redis"
    /\ \/ /\ redis = "connecting"
          /\ redis' = "open" /\ boot' = "mongo"
          /\ UNCHANGED <<production, stop, captured, listening, exit,
                         mongo, conn, requests, mails>>
       \/ /\ redis = "closed" \/ MayFail
          /\ Fail

\* The client that a shutdown has closed meanwhile is opened again.
ConnectMongo ==
    /\ Running /\ boot = "mongo"
    /\ \/ /\ mongo' = "open" /\ boot' = "indexes"
          /\ UNCHANGED <<production, stop, captured, listening, exit,
                         redis, conn, requests, mails>>
       \/ /\ MayFail
          /\ Fail

\* createUserIndexes, createTokenIndexes: a failure is only logged.
CreateIndexes ==
    /\ Running /\ boot = "indexes"
    /\ boot' = "listen"
    /\ UNCHANGED <<production, stop, captured, listening, exit,
                   stores, conn, requests, mails>>

\* app.listen returns a server even if the port is taken: Express hands the error
\* to the callback, which logs that the server is running.
Listen ==
    /\ Running /\ boot = "listen"
    /\ boot' = "up"
    /\ \/ listening' = TRUE
       \/ MayFail /\ UNCHANGED listening
    /\ UNCHANGED <<production, stop, captured, exit, stores, conn, requests, mails>>

------------------------------------------------------------------------------
\* Requests

\* A request on a new connection, or on one that was kept alive: an open
\* connection carries requests whether the server listens or not.
Request(c, route) ==
    /\ Running
    /\ requests < MaxRequests
    /\ \/ conn[c].pc = "none" /\ listening
       \/ conn[c].pc = "idle"
    /\ conn' = [conn EXCEPT ![c] = [None EXCEPT !.pc = "busy", !.route = route, !.at = 1]]
    /\ requests' = requests + 1
    /\ UNCHANGED <<life, stores, mails>>

Stage(c) == Chain(conn[c].route)[conn[c].at]

UsesMongo(c) == Stage(c) \in {"session", "user", "passport", "handle"}
UsesRedis(c) == Stage(c) = "limit"

Reachable(c) ==
    /\ UsesMongo(c) => mongo = "open"
    /\ UsesRedis(c) => redis = "open"

Answered(c, answer, error) ==
    conn' = [conn EXCEPT ![c].pc = "idle", ![c].at = 0, ![c].answer = answer, ![c].error = error]

\* next()
Pass(c) ==
    /\ Running /\ conn[c].pc = "busy"
    /\ Stage(c) \notin {"handle", "home", "missing"}
    /\ Reachable(c)
    /\ conn' = [conn EXCEPT ![c].at = @ + 1]
    /\ UNCHANGED <<life, stores, requests, mails>>

\* The handler returns its response, and wrapRequestHandler sends it.  The
\* verification email of a registration is not waited for.
Handle(c) ==
    /\ Running /\ conn[c].pc = "busy"
    /\ Stage(c) \in {"handle", "home"}
    /\ Reachable(c)
    /\ Answered(c, Success(Status(conn[c].route)), Success(200))
    /\ mails' = IF conn[c].route = "register" THEN [mails EXCEPT !.store = @ + 1] ELSE mails
    /\ UNCHANGED <<life, stores, requests>>

\* passport: no verified Google profile, the browser is sent back to the login.
FailureRedirect(c) ==
    /\ Running /\ conn[c].pc = "busy"
    /\ Stage(c) = "passport"
    /\ Answered(c, Success(302), Success(200))
    /\ UNCHANGED <<life, stores, requests, mails>>

Refusals(c) ==
    CASE Stage(c) = "body"     -> {MalformedBody}
      [] Stage(c) = "limit"    -> {TooManyRequestsError}
      [] Stage(c) = "session"  -> {UnauthorizedError}
      [] Stage(c) = "user"     -> {UnauthorizedError}
      [] Stage(c) = "guard"    -> {ForbiddenError}
      [] Stage(c) = "validate" -> {UnprocessableEntityError}
      [] Stage(c) = "passport" -> {UnauthorizedError}
      [] Stage(c) = "missing"  -> {NotFoundError}
      [] Stage(c) = "home"     -> {}
      [] OTHER                 ->      \* the handler
            {BadRequestError, UnauthorizedError, ForbiddenError, NotFoundError,
             ConflictError, InternalServerError, DuplicateKey, InvalidId}

\* A call to a store that is closed, or fails, rejects; the limiter then denies.
Failures(c) ==
    IF UsesMongo(c) /\ (MayFail \/ mongo # "open") THEN {Unexpected} ELSE {}

\* next(error): the error handlers answer.
Reject(c, e) == Answered(c, Rejection(e, production), e)

\* A throw, a rejected promise or next(error).
Refuse(c) ==
    /\ Running /\ conn[c].pc = "busy"
    /\ \E e \in Refusals(c) \cup Failures(c) : Reject(c, e)
    /\ UNCHANGED <<life, stores, requests, mails>>

\* The client, or keepAliveTimeout, ends a connection that waits.
Disconnect(c) ==
    /\ Running /\ conn[c].pc = "idle"
    /\ conn' = [conn EXCEPT ![c] = None]
    /\ UNCHANGED <<life, stores, requests, mails>>

------------------------------------------------------------------------------
\* The verification email, behind the answer

\* Mutant: nobody catches the rejection, and Node ends the process.
Rejects == exit' = "rejection"

\* register: .catch(logger.error).
Logged == UNCHANGED exit

\* sendVerificationEmail: its token is stored,
StoreToken ==
    /\ Running /\ mails.store > 0
    /\ \/ /\ mongo = "open"
          /\ mails' = [mails EXCEPT !.store = @ - 1, !.send = @ + 1]
          /\ UNCHANGED exit
       \/ /\ mongo # "open" \/ MayFail
          /\ mails' = [mails EXCEPT !.store = @ - 1]
          /\ Logged
    /\ UNCHANGED <<production, boot, stop, captured, listening, stores, conn, requests>>

\* and the link handed to the mail provider.
SendEmail ==
    /\ Running /\ mails.send > 0
    /\ mails' = [mails EXCEPT !.send = @ - 1]
    /\ \/ UNCHANGED exit
       \/ MayFail /\ Logged
    /\ UNCHANGED <<production, boot, stop, captured, listening, stores, conn, requests>>

------------------------------------------------------------------------------
\* gracefulShutdown

\* The first signal.  A server that it finds accepts no new connection, and the
\* waiting ones are closed; without one it goes straight to the stores.
Signal ==
    /\ Running /\ stop = "no"
    /\ captured' = (boot = "up")
    /\ listening' = FALSE
    /\ stop' = IF captured' THEN "close" ELSE "mongo"
    /\ conn' = [c \in Connection |-> IF conn[c].pc = "idle" THEN None ELSE conn[c]]
    /\ UNCHANGED <<production, boot, exit, stores, requests, mails>>

\* Mutant: close() is called and not waited for.
CloseBegun == TRUE

\* close() calls back once every connection is gone.
AllClosed == \A c \in Connection : conn[c].pc = "none"

AwaitClose ==
    /\ Running /\ stop = "close"
    /\ AllClosed
    /\ stop' = "mongo"
    /\ UNCHANGED <<production, boot, captured, listening, exit, stores, conn, requests, mails>>

\* Mutant: the error is logged, and the process left as it is.
StayUp == stop' = "failed" /\ UNCHANGED exit

ExitOnError == stop' = "failed" /\ exit' = "1"

DisconnectMongo ==
    /\ Running /\ stop = "mongo"
    /\ \/ /\ mongo' = "closed" /\ stop' = "redis"
          /\ UNCHANGED exit
       \/ /\ MayFail
          /\ ExitOnError
          /\ UNCHANGED mongo
    /\ UNCHANGED <<production, boot, captured, listening, redis, conn, requests, mails>>

\* and process.exit(0), whatever is still under way.
DisconnectRedis ==
    /\ Running /\ stop = "redis"
    /\ \/ /\ redis' = "closed"
          /\ exit' = "0" /\ UNCHANGED stop
       \/ /\ MayFail
          /\ ExitOnError
          /\ UNCHANGED redis
    /\ UNCHANGED <<production, boot, captured, listening, mongo, conn, requests, mails>>

Next ==
    \/ ConnectRedis \/ ConnectMongo \/ CreateIndexes \/ Listen
    \/ \E c \in Connection :
          \/ \E route \in Routes : Request(c, route)
          \/ Pass(c) \/ Handle(c) \/ FailureRedirect(c) \/ Refuse(c) \/ Disconnect(c)
    \/ StoreToken \/ SendEmail
    \/ Signal \/ AwaitClose \/ DisconnectMongo \/ DisconnectRedis

\* The request goes on, one way or the other.
Serve(c) == Pass(c) \/ Handle(c) \/ Refuse(c)

\* What is under way goes on: the stores and the provider answer or fail, and no
\* client keeps a connection for ever.  Nobody must send a signal.
Fairness ==
    /\ WF_vars(ConnectRedis) /\ WF_vars(ConnectMongo) /\ WF_vars(CreateIndexes)
    /\ WF_vars(Listen)
    /\ \A c \in Connection : WF_vars(Serve(c)) /\ WF_vars(Disconnect(c))
    /\ WF_vars(StoreToken) /\ WF_vars(SendEmail)
    /\ WF_vars(AwaitClose) /\ WF_vars(DisconnectMongo) /\ WF_vars(DisconnectRedis)

Spec == Init /\ [][Next]_vars
FairSpec == Spec /\ Fairness

------------------------------------------------------------------------------
\* server.ts: "let in-flight requests finish".  A request in flight finds the
\* process alive and both stores open, through starts, shutdowns and failures
\* behind other answers.  (A shutdown that began during the start has found no
\* server, and a server that listens after all is cut off by it.)
InFlightRequestsFinish ==
    \A c \in Connection : conn[c].pc = "busy" /\ (stop = "no" \/ captured) =>
        Running /\ mongo = "open" /\ redis = "open"

\* The status an error is known by: its own, or that of the index or the id it
\* came from.
Meaning(e) ==
    CASE e.operational           -> e.status
      [] e.class = "duplicate"   -> 409
      [] e.class = "BSONError"   -> 400
      [] OTHER                   -> 500

\* Whatever is thrown on the way, by whatever stage: an error that the API knows
\* is answered by its meaning, and in production any other says nothing but 500.
ErrorsAnswerTheirMeaning ==
    \A c \in Connection : LET e == conn[c].error
                              a == conn[c].answer IN
        e \in Thrown /\ (production \/ Meaning(e) # 500) =>
            /\ a.status = Meaning(e)
            /\ a.message = (e.operational \/ Meaning(e) # 500)

\* A signal ends the process: every request it waits for is answered, every
\* connection goes, and an error on the way ends it as well.
ShutdownEnds == stop # "no" ~> ~Running
=============================================================================
