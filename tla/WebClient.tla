----------------------------- MODULE WebClient -----------------------------
(***************************************************************************)
(* The browser's side of a session: the Axios interceptor, the proactive   *)
(* refresh timer and the stored user of apps/web and apps/admin (the files *)
(* are the same in both), in the tabs of one browser, against the API.     *)
(*                                                                         *)
(*   apps/web/src/api/axios.ts             the interceptor and its queue   *)
(*   apps/web/src/lib/tokenRefresh.ts      the timer                       *)
(*   apps/web/src/hooks/useAuthQueries.ts  sign-in, sign-out, current user *)
(*                                                                         *)
(* A call is sent with the cookies of that moment, served by the API, and  *)
(* answered; other calls may be served and answered in between, in any     *)
(* order.  One turn of the browser's event loop is one step.  The API is   *)
(* reduced to what its answers depend on: which refresh tokens are active  *)
(* and which access tokens are accepted.  Sessions has the rest.           *)
(***************************************************************************)
EXTENDS Naturals, FiniteSets

CONSTANTS
    Tab,
    Call,       \* slots for calls in flight: the bound on concurrency
    MaxPair,    \* the bound on token pairs: past it the API answers with 500
    MayFail     \* may a call fail, or its answer be lost?

ASSUME WebClientAssumption ==
    /\ MaxPair \in Nat \ {0}
    /\ MayFail \in BOOLEAN

VARIABLES
    jar,            \* the cookies: the token pair they hold
    issued,         \* the API: how many token pairs it has signed,
    live,           \*   those whose refresh token is active,
    accepted,       \*   and those whose access token is accepted
    call,           \* the calls in flight
    isRefreshing,   \* axios.ts, per tab
    timer,          \* tokenRefresh.ts, per tab: is the timer armed?
    user,           \* the Zustand store, per tab: is there a user?
    signedOut,      \* history: a logout was answered 200, and no sign-in since
    failed          \* history: a call has failed or lost its answer, or a logout was refused

vars ==
    <<jar, issued, live, accepted, call, isRefreshing, timer, user, signedOut, failed>>
tabVars == <<isRefreshing, timer, user>>
apiVars == <<issued, live, accepted>>

Pair == 1..MaxPair
NoPair == 0

\* data: any other call.  timer: doRefresh, which posts /auth/refresh.
Kind == {"login", "me", "data", "update", "logout", "timer"}

\* The status of an answer: 200, 401, any other.
Status == {"none", "ok", "unauthorized", "error"}

\* What an answer does to the cookies: set to a pair, cleared, or left alone.
Keep == MaxPair + 1

\* queued: its promise is in the queue.  The last two: it waits for the refresh
\* it has posted itself.
Label == {"idle", "sent", "answered", "queued", "refreshSent", "refreshAnswered"}

CallState == [kind   : Kind,
              tab    : Tab,
              pc     : Label,
              retry  : BOOLEAN,                 \* _retry
              pair   : Pair \cup {NoPair},      \* the cookies it is sent with
              status : Status,
              cookie : Pair \cup {NoPair, Keep}]

\* Cookies, documents, calls and the state of the tabs have their shapes, and a
\* pair of tokens is active or accepted only once it was signed.
TypeOK ==
    /\ jar \in 0..issued
    /\ issued \in 0..MaxPair
    /\ live \subseteq 1..issued
    /\ accepted \subseteq 1..issued
    /\ call \in [Call -> CallState]
    /\ isRefreshing \in [Tab -> BOOLEAN]
    /\ timer \in [Tab -> BOOLEAN]
    /\ user \in [Tab -> BOOLEAN]
    /\ signedOut \in BOOLEAN
    /\ failed \in BOOLEAN

Blank(k, t, label, p) ==
    [kind |-> k, tab |-> t, pc |-> label, retry |-> FALSE, pair |-> p,
     status |-> "none", cookie |-> Keep]

\* The tabs are opened on a browser that may still hold a session's cookies.
Init ==
    /\ jar \in {0, 1}
    /\ issued = jar
    /\ live = 1..jar
    /\ accepted = 1..jar
    /\ call \in [Call -> {Blank("data", t, "idle", NoPair) : t \in Tab}]
    /\ isRefreshing = [t \in Tab |-> FALSE]
    /\ timer = [t \in Tab |-> FALSE]
    /\ user = [t \in Tab |-> FALSE]
    /\ signedOut = FALSE
    /\ failed = FALSE

------------------------------------------------------------------------------
\* Calls

At(c, label) == call[c].pc = label

Calls(t, k) == {c \in Call : ~At(c, "idle") /\ call[c].tab = t /\ call[c].kind = k}

\* A call leaves the tab with whatever cookies the browser holds.
Send(c, k, t) ==
    /\ At(c, "idle")
    /\ call' = [call EXCEPT ![c] = Blank(k, t, "sent", jar)]

\* The login page is reached without a user only (AuthLayout).
Login(c, t) ==
    /\ ~user[t]
    /\ Calls(t, "login") = {} /\ Calls(t, "me") = {}
    /\ Send(c, "login", t)
    /\ UNCHANGED <<jar, apiVars, tabVars, signedOut>>

\* useCurrentUser, while ProtectedRoute shows that it is loading.
CurrentUser(c, t) ==
    /\ ~user[t]
    /\ Calls(t, "login") = {} /\ Calls(t, "me") = {}
    /\ Send(c, "me", t)
    /\ UNCHANGED <<jar, apiVars, tabVars, signedOut>>

\* The pages behind ProtectedRoute; the logout button is disabled while pending.
Use(c, t, k) ==
    /\ user[t]
    /\ k \in {"data", "update", "logout"}
    /\ k = "logout" => Calls(t, "logout") = {}
    /\ Send(c, k, t)
    /\ UNCHANGED <<jar, apiVars, tabVars, signedOut>>

\* doRefresh posts through the same Axios instance and looks at no flag.
Fire(c, t) ==
    /\ timer[t]
    /\ timer' = [timer EXCEPT ![t] = FALSE]
    /\ Send(c, "timer", t)
    /\ UNCHANGED <<jar, apiVars, isRefreshing, user, signedOut>>

------------------------------------------------------------------------------
\* The API

Answer(c, status, cookie) ==
    LET after == IF At(c, "sent") THEN "answered" ELSE "refreshAnswered"
    IN  call' = [call EXCEPT ![c] =
                   [kind |-> @.kind, tab |-> @.tab, pc |-> after, retry |-> @.retry,
                    pair |-> NoPair, status |-> status, cookie |-> cookie]]

\* A new token pair, with the refresh tokens of L left active.
Sign(c, L) ==
    /\ issued < MaxPair
    /\ issued' = issued + 1
    /\ live' = L \cup {issued'}
    /\ accepted' = accepted \cup {issued'}
    /\ Answer(c, "ok", issued')

\* Mutant: the reuse of a spent token answered without a sweep.
SweepNothing == UNCHANGED apiVars

\* Every active session of the user is blacklisted and revoked.
SweepSessions ==
    /\ live' = {}
    /\ accepted' = accepted \ live
    /\ UNCHANGED issued

ServeLogin(c) ==
    /\ At(c, "sent") /\ call[c].kind = "login"
    /\ \/ Sign(c, live)
       \/ Answer(c, "unauthorized", Keep) /\ UNCHANGED apiVars

\* POST /auth/refresh, from the timer or from the interceptor: rotation, or the
\* sweep that answers the reuse of a spent token.
ServeRefresh(c) ==
    LET p == call[c].pair
    IN  /\ \/ At(c, "refreshSent")
           \/ At(c, "sent") /\ call[c].kind = "timer"
        /\ \/ p \in live /\ Sign(c, live \ {p})
           \/ p \in Pair \ live /\ SweepSessions /\ Answer(c, "unauthorized", Keep)
           \/ p = NoPair /\ Answer(c, "unauthorized", Keep) /\ UNCHANGED apiVars

\* requireAuth, and the handlers behind it that end no session.
ServeData(c) ==
    /\ At(c, "sent") /\ call[c].kind \in {"me", "data", "update"}
    /\ Answer(c, IF call[c].pair \in accepted THEN "ok" ELSE "unauthorized", Keep)
    /\ UNCHANGED apiVars

\* Logout ends the session of its cookies, or sweeps when that was rotated away.
ServeLogout(c) ==
    LET p == call[c].pair
    IN  /\ At(c, "sent") /\ call[c].kind = "logout"
        /\ \/ /\ p \in accepted \cap live
              /\ live' = live \ {p}
              /\ accepted' = accepted \ {p}
              /\ UNCHANGED issued
              /\ Answer(c, "ok", NoPair)
           \/ p \in accepted \ live /\ SweepSessions /\ Answer(c, "ok", NoPair)
           \/ p \notin accepted /\ Answer(c, "unauthorized", Keep) /\ UNCHANGED apiVars

\* A call that fails before it has an effect, or when no pair is left to sign.
ServeError(c) ==
    /\ At(c, "sent") \/ At(c, "refreshSent")
    /\ MayFail \/ issued = MaxPair
    /\ Answer(c, "error", Keep)
    /\ UNCHANGED apiVars
    /\ failed' = TRUE

Serve(c) ==
    /\ \/ /\ ServeLogin(c) \/ ServeRefresh(c) \/ ServeData(c) \/ ServeLogout(c)
          /\ UNCHANGED failed
       \/ ServeError(c)
    /\ UNCHANGED <<jar, tabVars, signedOut>>

\* The answer is lost on its way, after its call has had its effect.
LoseAnswer(c) ==
    /\ MayFail
    /\ At(c, "answered") \/ At(c, "refreshAnswered")
    /\ call' = [call EXCEPT ![c].status = "error", ![c].cookie = Keep]
    /\ failed' = TRUE
    /\ UNCHANGED <<jar, apiVars, tabVars, signedOut>>

\* An access token expires, or its session is ended from another device.
Expire(p) ==
    /\ p \in accepted
    /\ accepted' = accepted \ {p}
    /\ UNCHANGED <<jar, issued, live, call, tabVars, signedOut, failed>>

------------------------------------------------------------------------------
\* The answers

\* Mutant: an answer without cookies taken for one that sets them.
StoreAny(c) == jar' = call[c].cookie

\* The browser stores the cookies of an answer before the page sees it.
StoreCookies(c) == jar' = IF call[c].cookie = Keep THEN jar ELSE call[c].cookie

\* setUser and scheduleTokenRefresh, or clearUser and clearTokenRefresh.
Succeed(c) ==
    LET t == call[c].tab
        k == call[c].kind
    IN  /\ user' = [user EXCEPT ![t] =
              CASE k \in {"login", "me", "update"} -> TRUE
                [] k = "logout" -> FALSE
                [] OTHER -> @]
        /\ timer' = [timer EXCEPT ![t] =
              CASE k \in {"login", "me", "timer"} -> TRUE
                [] k = "logout" -> FALSE
                [] OTHER -> @]
        /\ signedOut' = CASE k = "logout" -> TRUE
                          [] k = "login" -> FALSE
                          [] OTHER -> signedOut
        /\ UNCHANGED failed

\* The error handlers of the calls F of tab t: a logout that fails clears the
\* tab all the same, and doRefresh that fails clears the timer.
FailAll(F, t) ==
    LET kinds == {call[c].kind : c \in F}
    IN  /\ user' = [user EXCEPT ![t] = @ /\ "logout" \notin kinds]
        /\ timer' = [timer EXCEPT ![t] = @ /\ kinds \cap {"logout", "timer"} = {}]
        /\ failed' = (failed \/ "logout" \in kinds)
        /\ UNCHANGED signedOut

Settle(F) == [c \in Call |-> IF c \in F THEN Blank("data", call[c].tab, "idle", NoPair)
                                        ELSE call[c]]

ReceiveOk(c) ==
    /\ At(c, "answered") /\ call[c].status = "ok"
    /\ StoreCookies(c)
    /\ Succeed(c)
    /\ call' = Settle({c})
    /\ UNCHANGED <<apiVars, isRefreshing>>

\* A 401 that the interceptor does not hand back at once.
Intercepted(c) ==
    /\ At(c, "answered")
    /\ call[c].status = "unauthorized"
    /\ ~call[c].retry
    /\ call[c].kind # "timer"

ReceiveError(c) ==
    /\ At(c, "answered") /\ call[c].status # "ok" /\ ~Intercepted(c)
    /\ FailAll({c}, call[c].tab)
    /\ call' = Settle({c})
    /\ UNCHANGED <<jar, apiVars, isRefreshing>>

\* Mutant: the flag not looked at.
NeverWait(t) == FALSE

MustWait(t) == isRefreshing[t]

\* 401 while a refresh of this tab is on its way: the call joins the queue.
Enqueue(c) ==
    /\ Intercepted(c)
    /\ MustWait(call[c].tab)
    /\ call' = [call EXCEPT ![c] = Blank(@.kind, @.tab, "queued", NoPair)]
    /\ UNCHANGED <<jar, apiVars, tabVars, signedOut, failed>>

\* 401 otherwise: this call refreshes, and will be retried once.
BeginRefresh(c) ==
    LET t == call[c].tab
    IN  /\ Intercepted(c)
        /\ ~MustWait(t)
        /\ call' = [call EXCEPT ![c] = [Blank(@.kind, t, "refreshSent", jar)
                                          EXCEPT !.retry = TRUE]]
        /\ isRefreshing' = [isRefreshing EXCEPT ![t] = TRUE]
        /\ UNCHANGED <<jar, apiVars, timer, user, signedOut, failed>>

Queue(t) == {c \in Call : At(c, "queued") /\ call[c].tab = t}

\* The refresh succeeded: processQueue(null) replays the queue, without _retry,
\* the call itself is retried, and the flag is dropped, in one turn.
ReceiveRefreshed(c) ==
    LET t == call[c].tab
    IN  /\ At(c, "refreshAnswered") /\ call[c].status = "ok"
        /\ StoreCookies(c)
        /\ call' = [d \in Call |->
             IF d = c THEN [Blank(call[c].kind, t, "sent", jar') EXCEPT !.retry = TRUE]
             ELSE IF d \in Queue(t) THEN Blank(call[d].kind, t, "sent", jar')
             ELSE call[d]]
        /\ isRefreshing' = [isRefreshing EXCEPT ![t] = FALSE]
        /\ UNCHANGED <<apiVars, timer, user, signedOut, failed>>

\* Mutant: processQueue(refreshError) forgotten in the catch block.
RejectedAlone(c) == {c}

\* processQueue(refreshError) and the rejection of the call itself.
Rejected(c) == Queue(call[c].tab) \cup {c}

ReceiveNotRefreshed(c) ==
    LET t == call[c].tab
    IN  /\ At(c, "refreshAnswered") /\ call[c].status # "ok"
        /\ FailAll(Rejected(c), t)
        /\ call' = Settle(Rejected(c))
        /\ isRefreshing' = [isRefreshing EXCEPT ![t] = FALSE]
        /\ UNCHANGED <<jar, apiVars>>

Receive(c) ==
    \/ ReceiveOk(c) \/ ReceiveError(c)
    \/ Enqueue(c) \/ BeginRefresh(c)
    \/ ReceiveRefreshed(c) \/ ReceiveNotRefreshed(c)

Next ==
    \/ /\ \E c \in Call, t \in Tab :
             \/ Login(c, t) \/ CurrentUser(c, t) \/ Fire(c, t)
             \/ \E k \in Kind : Use(c, t, k)
       /\ UNCHANGED failed
    \/ \E c \in Call : Serve(c) \/ LoseAnswer(c) \/ Receive(c)
    \/ \E p \in Pair : Expire(p)

Spec == Init /\ [][Next]_vars

\* The network answers every call, if only with an error, and the event loop
\* runs every callback.
FairSpec == Spec /\ \A c \in Call : WF_vars(Serve(c)) /\ WF_vars(Receive(c))

------------------------------------------------------------------------------
Refreshing(t) ==
    {c \in Call : call[c].tab = t /\ call[c].pc \in {"refreshSent", "refreshAnswered"}}

\* The interceptor of a tab has at most one refresh on its way, however many
\* calls come back with 401 (axios.ts, isRefreshing).
OneInterceptorRefresh == \A t \in Tab : Cardinality(Refreshing(t)) <= 1

\* A call waits in the queue only while a refresh of its tab is on its way: none
\* is left behind by a flush.
QueueIsServed == \A t \in Tab : Queue(t) # {} => Refreshing(t) # {}

\* Once a logout was answered with 200 and nothing is in flight, the browser
\* holds no refresh token that the API would rotate, whatever refreshes of the
\* same tab ran beside it: a late answer brings no session back.  It takes the
\* sweep that logout falls back to when its token was rotated away.  (A refresh
\* of another tab, a call that failed or lost its answer, or a logout that was
\* refused, which empties the tab and ends no session, may leave one.)
SignedOutForGood ==
    signedOut /\ ~failed /\ (\A c \in Call : At(c, "idle")) => jar \notin live

\* Every call is answered to its caller in the end.
EveryCallSettles == \A c \in Call : ~At(c, "idle") ~> At(c, "idle")

------------------------------------------------------------------------------
\* What the documentation says, and two answers in the wrong order refute

\* A signed-in user who is not signing out is never refused a refresh: the
\* sessions are renewed without an interruption (README.md, "so users never see
\* an interruption").  The timer and the interceptor may post the same cookie.
NoInterruption ==
    [][\A c \in Call :
          ReceiveNotRefreshed(c) /\ call[c].status = "unauthorized" =>
              LET t == call[c].tab
              IN  signedOut \/ ~user[t] \/ Calls(t, "logout") # {}]_vars
==============================================================================
