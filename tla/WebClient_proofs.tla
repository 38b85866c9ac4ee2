-------------------------- MODULE WebClient_proofs --------------------------
(***************************************************************************)
(* Theorems about WebClient, for any number of tabs, of calls in flight    *)
(* and of token pairs, with and without failures.                          *)
(***************************************************************************)
EXTENDS WebClient, FiniteSetTheorems, TLAPS

InRefresh(c) == call[c].pc \in {"refreshSent", "refreshAnswered"}

\* The answers on their way set cookies that the API has signed.
AnswersAreSigned == \A c \in Call : call[c].cookie \in (0..issued) \cup {Keep}

\* The flag of a tab is set exactly while one of its calls refreshes, and a call
\* is queued only under the flag.
FlagIsRefresh ==
    /\ \A c \in Call : InRefresh(c) \/ At(c, "queued") => isRefreshing[call[c].tab]
    /\ \A t \in Tab : isRefreshing[t] => \E c \in Call : InRefresh(c) /\ call[c].tab = t
    /\ \A c, d \in Call :
          InRefresh(c) /\ InRefresh(d) /\ call[c].tab = call[d].tab => c = d

\* The inductive invariant.
ClientInv == TypeOK /\ AnswersAreSigned /\ FlagIsRefresh

------------------------------------------------------------------------------
\* Types

LEMMA Labels ==
  /\ "idle" \in Label /\ "sent" \in Label /\ "answered" \in Label
  /\ "queued" \in Label /\ "refreshSent" \in Label /\ "refreshAnswered" \in Label
  BY DEF Label

LEMMA KeepIsNoPair == Keep \in Nat /\ Keep \notin Pair \cup {NoPair}
  BY WebClientAssumption DEF Keep, Pair, NoPair

LEMMA BlankTyping ==
  ASSUME NEW k \in Kind, NEW t \in Tab, NEW label \in Label, NEW p \in Pair \cup {NoPair},
         NEW b \in BOOLEAN
  PROVE  /\ Blank(k, t, label, p) \in CallState
         /\ [Blank(k, t, label, p) EXCEPT !.retry = b] \in CallState
<1>1. "none" \in Status
  BY DEF Status
<1> QED
  BY <1>1 DEF Blank, CallState

LEMMA JarIsPair == TypeOK => jar \in Pair \cup {NoPair}
  BY WebClientAssumption DEF TypeOK, Pair, NoPair

LEMMA SendTyping ==
  ASSUME TypeOK, NEW c \in Call, NEW k \in Kind, NEW t \in Tab, Send(c, k, t)
  PROVE  call' \in [Call -> CallState]
<1>1. Blank(k, t, "sent", jar) \in CallState
  BY BlankTyping, JarIsPair, Labels
<1> QED
  BY <1>1 DEF TypeOK, Send

LEMMA AnswerTyping ==
  ASSUME TypeOK, NEW c \in Call, NEW s \in Status, NEW k \in Pair \cup {NoPair, Keep},
         Answer(c, s, k)
  PROVE  call' \in [Call -> CallState]
<1> DEFINE after == IF At(c, "sent") THEN "answered" ELSE "refreshAnswered"
           answer == [kind |-> call[c].kind, tab |-> call[c].tab, pc |-> after,
                      retry |-> call[c].retry, pair |-> NoPair, status |-> s, cookie |-> k]
<1>1. after \in Label
  BY Labels
<1>2. call[c] \in CallState
  BY DEF TypeOK
<1> HIDE DEF after
<1>3. answer \in CallState
  BY <1>1, <1>2 DEF CallState
<1>4. call' = [call EXCEPT ![c] = answer]
  BY DEF Answer, TypeOK, after
<1> HIDE DEF answer
<1> QED
  BY <1>3, <1>4 DEF TypeOK

LEMMA SettleTyping ==
  ASSUME TypeOK, NEW F
  PROVE  Settle(F) \in [Call -> CallState]
<1>1. ASSUME NEW c \in Call PROVE Blank("data", call[c].tab, "idle", NoPair) \in CallState
  <2>1. call[c].tab \in Tab /\ "data" \in Kind
    BY DEF TypeOK, CallState, Kind
  <2> QED
    BY <2>1, BlankTyping, Labels
<1> QED
  BY <1>1 DEF TypeOK, Settle

LEMMA InitIsInv == Init => ClientInv
<1> SUFFICES ASSUME Init PROVE ClientInv
  OBVIOUS
<1>1. \A t \in Tab : Blank("data", t, "idle", NoPair) \in CallState
  BY BlankTyping, Labels DEF Kind
<1>2. \A c \in Call : \E t \in Tab : call[c] = Blank("data", t, "idle", NoPair)
  BY DEF Init
<1>3. call \in [Call -> CallState]
  BY <1>1 DEF Init
<1>4. jar \in 0..issued /\ issued \in 0..MaxPair /\ live \subseteq 1..issued
      /\ accepted \subseteq 1..issued
  BY WebClientAssumption DEF Init
<1>5. TypeOK
  BY <1>3, <1>4 DEF Init, TypeOK
<1>6. ASSUME NEW c \in Call PROVE call[c].pc = "idle" /\ call[c].cookie = Keep
  <2>1. PICK t \in Tab : call[c] = Blank("data", t, "idle", NoPair)
    BY <1>2
  <2> QED
    BY <2>1 DEF Blank
<1>7. AnswersAreSigned
  BY <1>6 DEF AnswersAreSigned
<1>8. \A c \in Call : ~InRefresh(c) /\ ~At(c, "queued")
  BY <1>6 DEF InRefresh, At
<1>9. FlagIsRefresh
  BY <1>8 DEF FlagIsRefresh, Init
<1> QED
  BY <1>5, <1>7, <1>9 DEF ClientInv

------------------------------------------------------------------------------
\* What the API may do: sign a pair and answer with it, or end sessions.

LEMMA SignEffect ==
  ASSUME ClientInv, NEW c \in Call, NEW L, L \subseteq live, Sign(c, L)
  PROVE  /\ issued' \in 0..MaxPair /\ issued <= issued'
         /\ live' \subseteq 1..issued' /\ accepted' \subseteq 1..issued'
         /\ call' \in [Call -> CallState]
         /\ \E k \in (0..issued') \cup {Keep}, s \in Status : Answer(c, s, k)
<1>0. TypeOK
  BY DEF ClientInv
<1>1. issued' = issued + 1 /\ issued \in Nat /\ issued' <= MaxPair /\ MaxPair \in Nat
  BY <1>0, WebClientAssumption DEF Sign, TypeOK
<1>2. live' \subseteq 1..issued' /\ accepted' \subseteq 1..issued'
  BY <1>0, <1>1 DEF Sign, TypeOK
<1>3. Answer(c, "ok", issued') /\ "ok" \in Status /\ issued' \in Pair
  BY <1>1 DEF Sign, Status, Pair
<1>4. call' \in [Call -> CallState]
  BY <1>0, <1>3, AnswerTyping
<1> QED
  BY <1>1, <1>2, <1>3, <1>4

LEMMA EndEffect ==
  ASSUME ClientInv, NEW c \in Call, NEW s \in Status, NEW k \in {NoPair, Keep},
         Answer(c, s, k), UNCHANGED issued, live' \subseteq live, accepted' \subseteq accepted
  PROVE  /\ issued' \in 0..MaxPair /\ issued <= issued'
         /\ live' \subseteq 1..issued' /\ accepted' \subseteq 1..issued'
         /\ call' \in [Call -> CallState]
         /\ \E m \in (0..issued') \cup {Keep}, r \in Status : Answer(c, r, m)
<1>0. TypeOK
  BY DEF ClientInv
<1>1. k \in Pair \cup {NoPair, Keep}
  OBVIOUS
<1>2. call' \in [Call -> CallState]
  BY <1>0, <1>1, AnswerTyping
<1>3. k \in (0..issued') \cup {Keep}
  BY <1>0, WebClientAssumption DEF TypeOK, NoPair
<1> QED
  BY <1>0, <1>2, <1>3, WebClientAssumption DEF TypeOK

LEMMA ServeEffect ==
  ASSUME ClientInv, NEW c \in Call, Serve(c)
  PROVE  /\ issued' \in 0..MaxPair /\ issued <= issued'
         /\ live' \subseteq 1..issued' /\ accepted' \subseteq 1..issued'
         /\ call' \in [Call -> CallState]
         /\ \E k \in (0..issued') \cup {Keep}, s \in Status : Answer(c, s, k)
         /\ failed' \in BOOLEAN
         /\ At(c, "sent") \/ At(c, "refreshSent")
<1> DEFINE Goal == /\ issued' \in 0..MaxPair /\ issued <= issued'
                   /\ live' \subseteq 1..issued' /\ accepted' \subseteq 1..issued'
                   /\ call' \in [Call -> CallState]
                   /\ \E k \in (0..issued') \cup {Keep}, s \in Status : Answer(c, s, k)
           End(s, k) == /\ Answer(c, s, k) /\ UNCHANGED issued
                        /\ live' \subseteq live /\ accepted' \subseteq accepted
<1>1. ASSUME NEW s \in Status, NEW k \in {NoPair, Keep}, End(s, k) PROVE Goal
  BY <1>1, EndEffect
<1>2. "ok" \in Status /\ "unauthorized" \in Status /\ "error" \in Status
  BY DEF Status
<1>3. ASSUME SweepSessions
      PROVE  UNCHANGED issued /\ live' \subseteq live /\ accepted' \subseteq accepted
  BY <1>3 DEF SweepSessions
<1>4. ASSUME UNCHANGED apiVars
      PROVE  UNCHANGED issued /\ live' \subseteq live /\ accepted' \subseteq accepted
  BY <1>4 DEF apiVars
<1> HIDE DEF Goal
<1>5. ASSUME ServeLogin(c) PROVE Goal
  <2>1. CASE Sign(c, live)
    BY <2>1, SignEffect DEF Goal
  <2>2. CASE Answer(c, "unauthorized", Keep) /\ UNCHANGED apiVars
    BY <1>1, <1>2, <1>4, <2>2
  <2> QED
    BY <1>5, <2>1, <2>2 DEF ServeLogin
<1>6. ASSUME ServeRefresh(c) PROVE Goal
  <2>1. CASE Sign(c, live \ {call[c].pair})
    BY <2>1, SignEffect DEF Goal
  <2>2. CASE SweepSessions /\ Answer(c, "unauthorized", Keep)
    BY <1>1, <1>2, <1>3, <2>2
  <2>3. CASE Answer(c, "unauthorized", Keep) /\ UNCHANGED apiVars
    BY <1>1, <1>2, <1>4, <2>3
  <2> QED
    BY <1>6, <2>1, <2>2, <2>3 DEF ServeRefresh
<1>7. ASSUME ServeData(c) PROVE Goal
  <2>1. Answer(c, IF call[c].pair \in accepted THEN "ok" ELSE "unauthorized", Keep)
        /\ UNCHANGED apiVars
    BY <1>7 DEF ServeData
  <2> QED
    BY <1>1, <1>2, <1>4, <2>1
<1>8. ASSUME ServeLogout(c) PROVE Goal
  <2>1. CASE /\ live' = live \ {call[c].pair}
             /\ accepted' = accepted \ {call[c].pair}
             /\ UNCHANGED issued
             /\ Answer(c, "ok", NoPair)
    BY <1>1, <1>2, <2>1
  <2>2. CASE SweepSessions /\ Answer(c, "ok", NoPair)
    BY <1>1, <1>2, <1>3, <2>2
  <2>3. CASE Answer(c, "unauthorized", Keep) /\ UNCHANGED apiVars
    BY <1>1, <1>2, <1>4, <2>3
  <2> QED
    BY <1>8, <2>1, <2>2, <2>3 DEF ServeLogout
<1>9. ASSUME ServeError(c) PROVE Goal
  BY <1>1, <1>2, <1>4, <1>9 DEF ServeError
<1>10. Goal
  BY <1>5, <1>6, <1>7, <1>8, <1>9 DEF Serve
<1>11. At(c, "sent") \/ At(c, "refreshSent")
  BY DEF Serve, ServeLogin, ServeRefresh, ServeData, ServeLogout, ServeError
<1>12. failed' \in BOOLEAN
  BY DEF Serve, ServeError, ClientInv, TypeOK
<1> QED
  BY <1>10, <1>11, <1>12 DEF Goal

------------------------------------------------------------------------------
\* The steps that begin and end no refresh

\* The flags are kept, and a call is refreshing, or queued, only if it was.
Quiet ==
    /\ UNCHANGED isRefreshing
    /\ \A c \in Call :
          /\ InRefresh(c)' => InRefresh(c)
          /\ At(c, "queued")' => At(c, "queued")
          /\ InRefresh(c) => InRefresh(c)'
          /\ InRefresh(c) \/ At(c, "queued")' => call'[c].tab = call[c].tab

LEMMA QuietKeepsFlag == FlagIsRefresh /\ Quiet => FlagIsRefresh'
  BY DEF FlagIsRefresh, Quiet

\* The cookies of the answers are those that were on their way, or none.
CookiesKept == \A c \in Call : call'[c].cookie \in {call[c].cookie, Keep}

LEMMA SignedKept ==
  ASSUME TypeOK, AnswersAreSigned, CookiesKept, issued' \in Nat, issued <= issued'
  PROVE  AnswersAreSigned'
<1> SUFFICES ASSUME NEW c \in Call PROVE call'[c].cookie \in (0..issued') \cup {Keep}
  BY DEF AnswersAreSigned, Keep
<1>1. call[c].cookie \in (0..issued) \cup {Keep}
  BY DEF AnswersAreSigned
<1>2. 0..issued \subseteq 0..issued'
  BY DEF TypeOK
<1> QED
  BY <1>1, <1>2 DEF CookiesKept

\* A call sent by its page.
LEMMA SendEffect ==
  ASSUME TypeOK, NEW c \in Call, NEW k \in Kind, NEW t \in Tab, Send(c, k, t)
  PROVE  /\ call' \in [Call -> CallState]
         /\ UNCHANGED isRefreshing => Quiet
         /\ CookiesKept
<1>1. call' \in [Call -> CallState]
  BY SendTyping
<1>2. \A d \in Call : d # c => call'[d] = call[d]
  BY DEF Send, TypeOK
<1>3. call'[c] = Blank(k, t, "sent", jar)
  BY DEF Send, TypeOK
<1>4. call'[c].pc = "sent" /\ call'[c].cookie = Keep
  BY <1>3 DEF Blank
<1>5. call[c].pc = "idle"
  BY DEF Send, At
<1>6. CookiesKept
  BY <1>2, <1>4 DEF CookiesKept
<1>7. ~InRefresh(c) /\ ~InRefresh(c)' /\ ~At(c, "queued")'
  BY <1>4, <1>5 DEF InRefresh, At
<1>8. ASSUME UNCHANGED isRefreshing PROVE Quiet
  BY <1>2, <1>7, <1>8 DEF Quiet, InRefresh, At
<1> QED
  BY <1>1, <1>6, <1>8

\* An answer of the API.
LEMMA AnswerEffect ==
  ASSUME TypeOK, NEW c \in Call, NEW s, NEW k, Answer(c, s, k),
         At(c, "sent") \/ At(c, "refreshSent"), UNCHANGED isRefreshing
  PROVE  /\ Quiet
         /\ call'[c].cookie = k
         /\ \A d \in Call : d # c => call'[d] = call[d]
<1>1. \A d \in Call : d # c => call'[d] = call[d]
  BY DEF Answer, TypeOK
<1>2. /\ call'[c].pc = IF At(c, "sent") THEN "answered" ELSE "refreshAnswered"
      /\ call'[c].tab = call[c].tab
      /\ call'[c].cookie = k
  BY DEF Answer, TypeOK
<1>3. InRefresh(c)' <=> InRefresh(c)
  BY <1>2 DEF InRefresh, At
<1>4. ~At(c, "queued")'
  BY <1>2 DEF At
<1>5. Quiet
  BY <1>1, <1>2, <1>3, <1>4 DEF Quiet, InRefresh, At
<1> QED
  BY <1>1, <1>2, <1>5

LEMMA ServeKeepsInv == ASSUME ClientInv, NEW c \in Call, Serve(c) PROVE ClientInv'
<1>1. /\ issued' \in 0..MaxPair /\ issued <= issued'
      /\ live' \subseteq 1..issued' /\ accepted' \subseteq 1..issued'
      /\ call' \in [Call -> CallState]
      /\ failed' \in BOOLEAN
      /\ At(c, "sent") \/ At(c, "refreshSent")
  BY ServeEffect
<1>2. PICK k \in (0..issued') \cup {Keep}, s \in Status : Answer(c, s, k)
  BY ServeEffect
<1>3. UNCHANGED <<jar, isRefreshing, timer, user, signedOut>>
  BY DEF Serve, tabVars
<1>4. /\ Quiet
      /\ call'[c].cookie = k
      /\ \A d \in Call : d # c => call'[d] = call[d]
  BY <1>1, <1>2, <1>3, AnswerEffect DEF ClientInv
<1>5. 0..issued \subseteq 0..issued'
  BY <1>1, WebClientAssumption DEF ClientInv, TypeOK
<1>6. TypeOK'
  BY <1>1, <1>3, <1>5 DEF ClientInv, TypeOK
<1>7. AnswersAreSigned'
  <2> SUFFICES ASSUME NEW d \in Call PROVE call'[d].cookie \in (0..issued') \cup {Keep}
    BY DEF AnswersAreSigned, Keep
  <2>1. call[d].cookie \in (0..issued) \cup {Keep}
    BY DEF ClientInv, AnswersAreSigned
  <2> QED
    BY <1>4, <1>5, <2>1
<1>8. FlagIsRefresh'
  BY <1>4, QuietKeepsFlag DEF ClientInv
<1> QED
  BY <1>6, <1>7, <1>8 DEF ClientInv

\* The pages send a call.
LEMMA PageKeepsInv ==
  ASSUME ClientInv, NEW c \in Call, NEW k \in Kind, NEW t \in Tab, Send(c, k, t),
         timer' \in [Tab -> BOOLEAN],
         UNCHANGED <<jar, apiVars, isRefreshing, user, signedOut, failed>>
  PROVE  ClientInv'
<1>1. call' \in [Call -> CallState] /\ Quiet /\ CookiesKept
  BY SendEffect DEF ClientInv
<1>2. TypeOK'
  BY <1>1 DEF ClientInv, TypeOK, apiVars
<1>3. AnswersAreSigned'
  <2>1. issued' = issued /\ issued \in Nat
    BY WebClientAssumption DEF ClientInv, TypeOK, apiVars
  <2> QED
    BY <1>1, <2>1, SignedKept DEF ClientInv
<1>4. FlagIsRefresh'
  BY <1>1, QuietKeepsFlag DEF ClientInv
<1> QED
  BY <1>2, <1>3, <1>4 DEF ClientInv

LEMMA LoseAnswerKeepsInv == ASSUME ClientInv, NEW c \in Call, LoseAnswer(c) PROVE ClientInv'
<1> DEFINE lost == [call EXCEPT ![c].status = "error"]
<1>1. call \in [Call -> CallState] /\ "error" \in Status
  BY DEF ClientInv, TypeOK, Status
<1>2. lost \in [Call -> CallState]
  BY <1>1 DEF CallState
<1>3. call' = [lost EXCEPT ![c].cookie = Keep]
  BY <1>1 DEF LoseAnswer
<1>4. /\ \A d \in Call : d # c => call'[d] = call[d]
      /\ call'[c].pc = call[c].pc /\ call'[c].tab = call[c].tab /\ call'[c].cookie = Keep
  BY <1>1 DEF LoseAnswer, CallState
<1> HIDE DEF lost
<1>5. call' \in [Call -> CallState]
  BY <1>2, <1>3 DEF CallState
<1>6. UNCHANGED <<jar, apiVars, tabVars, signedOut>> /\ failed' = TRUE
  BY DEF LoseAnswer
<1>7. TypeOK'
  BY <1>5, <1>6 DEF ClientInv, TypeOK, apiVars, tabVars
<1>8. CookiesKept
  BY <1>4 DEF CookiesKept
<1>9. AnswersAreSigned'
  <2>1. issued' = issued /\ issued \in Nat
    BY <1>6, WebClientAssumption DEF ClientInv, TypeOK, apiVars
  <2> QED
    BY <1>8, <2>1, SignedKept DEF ClientInv
<1>10. Quiet
  BY <1>4, <1>6 DEF Quiet, InRefresh, At, tabVars
<1> QED
  BY <1>7, <1>9, <1>10, QuietKeepsFlag DEF ClientInv

LEMMA ExpireKeepsInv == ASSUME ClientInv, NEW p \in Pair, Expire(p) PROVE ClientInv'
<1>1. accepted' \subseteq accepted
      /\ UNCHANGED <<jar, issued, live, call, isRefreshing, timer, user, signedOut, failed>>
  BY DEF Expire, tabVars
<1>2. TypeOK'
  BY <1>1 DEF ClientInv, TypeOK
<1>3. AnswersAreSigned'
  BY <1>1 DEF ClientInv, AnswersAreSigned, Keep
<1>4. Quiet
  BY <1>1 DEF Quiet, InRefresh, At
<1> QED
  BY <1>2, <1>3, <1>4, QuietKeepsFlag DEF ClientInv

------------------------------------------------------------------------------
\* Answers received

LEMMA Settled ==
  ASSUME TypeOK, NEW F, call' = Settle(F)
  PROVE  /\ call' \in [Call -> CallState]
         /\ \A d \in Call : d \notin F => call'[d] = call[d]
         /\ \A d \in Call \cap F : call'[d].pc = "idle" /\ call'[d].cookie = Keep
         /\ CookiesKept
<1>1. call' \in [Call -> CallState]
  BY SettleTyping
<1>2. \A d \in Call : d \notin F => call'[d] = call[d]
  BY DEF Settle
<1>3. \A d \in Call \cap F : call'[d] = Blank("data", call[d].tab, "idle", NoPair)
  BY DEF Settle
<1>4. ASSUME NEW d \in Call \cap F PROVE call'[d].pc = "idle" /\ call'[d].cookie = Keep
  <2>1. call'[d] = Blank("data", call[d].tab, "idle", NoPair)
    BY <1>3
  <2> QED
    BY <2>1 DEF Blank
<1> QED
  BY <1>1, <1>2, <1>4 DEF CookiesKept

LEMMA JarTyping ==
  ASSUME ClientInv, NEW c \in Call, StoreCookies(c), UNCHANGED issued
  PROVE  jar' \in 0..issued'
  BY DEF ClientInv, TypeOK, AnswersAreSigned, StoreCookies

LEMMA HandlerTyping ==
  ASSUME TypeOK, NEW c \in Call
  PROVE  /\ Succeed(c) => /\ user' \in [Tab -> BOOLEAN] /\ timer' \in [Tab -> BOOLEAN]
                          /\ signedOut' \in BOOLEAN /\ failed' \in BOOLEAN
         /\ \A F, t : FailAll(F, t) => /\ user' \in [Tab -> BOOLEAN]
                                       /\ timer' \in [Tab -> BOOLEAN]
                                       /\ signedOut' \in BOOLEAN /\ failed' \in BOOLEAN
<1>1. ASSUME Succeed(c)
      PROVE  /\ user' \in [Tab -> BOOLEAN] /\ timer' \in [Tab -> BOOLEAN]
             /\ signedOut' \in BOOLEAN /\ failed' \in BOOLEAN
  BY <1>1 DEF TypeOK, Succeed
<1>2. ASSUME NEW F, NEW t, FailAll(F, t)
      PROVE  /\ user' \in [Tab -> BOOLEAN] /\ timer' \in [Tab -> BOOLEAN]
             /\ signedOut' \in BOOLEAN /\ failed' \in BOOLEAN
  <2> DEFINE kinds == {call[d].kind : d \in F}
             u == user[t] /\ "logout" \notin kinds
             m == timer[t] /\ kinds \cap {"logout", "timer"} = {}
  <2>1. user' = [user EXCEPT ![t] = u] /\ timer' = [timer EXCEPT ![t] = m]
        /\ failed' = (failed \/ "logout" \in kinds) /\ UNCHANGED signedOut
    BY <1>2 DEF FailAll
  <2>2. u \in BOOLEAN /\ m \in BOOLEAN
    OBVIOUS
  <2> HIDE DEF u, m, kinds
  <2> QED
    BY <2>1, <2>2 DEF TypeOK
<1> QED
  BY <1>1, <1>2

\* A call that is answered to its caller without a refresh.
LEMMA AnsweredKeepsInv ==
  ASSUME ClientInv, NEW c \in Call, ReceiveOk(c) \/ ReceiveError(c)
  PROVE  ClientInv'
<1>1. call' = Settle({c}) /\ call[c].pc = "answered" /\ UNCHANGED <<apiVars, isRefreshing>>
  BY DEF ReceiveOk, ReceiveError, At
<1>2. /\ call' \in [Call -> CallState]
      /\ \A d \in Call : d # c => call'[d] = call[d]
      /\ call'[c].pc = "idle"
      /\ CookiesKept
  BY <1>1, Settled DEF ClientInv
<1>3. jar' \in 0..issued'
  BY <1>1, JarTyping DEF ReceiveOk, ReceiveError, apiVars, ClientInv, TypeOK
<1>4. /\ user' \in [Tab -> BOOLEAN] /\ timer' \in [Tab -> BOOLEAN]
      /\ signedOut' \in BOOLEAN /\ failed' \in BOOLEAN
  BY HandlerTyping DEF ReceiveOk, ReceiveError, ClientInv
<1>5. TypeOK'
  BY <1>1, <1>2, <1>3, <1>4 DEF ClientInv, TypeOK, apiVars
<1>6. AnswersAreSigned'
  <2>1. issued' = issued /\ issued \in Nat
    BY <1>1, WebClientAssumption DEF ClientInv, TypeOK, apiVars
  <2> QED
    BY <1>2, <2>1, SignedKept DEF ClientInv
<1>7. Quiet
  BY <1>1, <1>2 DEF Quiet, InRefresh, At
<1> QED
  BY <1>5, <1>6, <1>7, QuietKeepsFlag DEF ClientInv

\* A call that begins to wait, for its own refresh or for the one on its way.
LEMMA InterceptedKeepsInv ==
  ASSUME ClientInv, NEW c \in Call, Enqueue(c) \/ BeginRefresh(c)
  PROVE  ClientInv'
<1> DEFINE k == call[c].kind
           t == call[c].tab
           queued == Blank(k, t, "queued", NoPair)
           sent == [Blank(k, t, "refreshSent", jar) EXCEPT !.retry = TRUE]
<1>1. k \in Kind /\ t \in Tab /\ jar \in Pair \cup {NoPair} /\ call \in [Call -> CallState]
  BY JarIsPair DEF ClientInv, TypeOK, CallState
<1>2. queued \in CallState /\ sent \in CallState
  BY <1>1, BlankTyping, Labels
<1>3. /\ queued.pc = "queued" /\ queued.tab = t /\ queued.cookie = Keep
      /\ sent.pc = "refreshSent" /\ sent.tab = t /\ sent.cookie = Keep
  BY DEF Blank
<1>4. \/ Enqueue(c) /\ call' = [call EXCEPT ![c] = queued]
      \/ BeginRefresh(c) /\ call' = [call EXCEPT ![c] = sent]
  BY <1>1 DEF Enqueue, BeginRefresh
<1>5. call[c].pc = "answered"
  BY DEF Enqueue, BeginRefresh, Intercepted, At
<1> HIDE DEF queued, sent
<1>6. call' \in [Call -> CallState]
  BY <1>1, <1>2, <1>4
<1>7. /\ \A d \in Call : d # c => call'[d] = call[d]
      /\ \/ Enqueue(c) /\ call'[c] = queued
         \/ BeginRefresh(c) /\ call'[c] = sent
  BY <1>1, <1>4
<1>8. UNCHANGED <<jar, issued, live, accepted, timer, user, signedOut, failed>>
      /\ isRefreshing' \in [Tab -> BOOLEAN]
  BY DEF Enqueue, BeginRefresh, apiVars, tabVars, ClientInv, TypeOK
<1>9. TypeOK'
  BY <1>6, <1>8 DEF ClientInv, TypeOK
<1>10. CookiesKept
  BY <1>3, <1>7 DEF CookiesKept
<1>11. AnswersAreSigned'
  <2>1. issued' = issued /\ issued \in Nat
    BY <1>8, WebClientAssumption DEF ClientInv, TypeOK
  <2> QED
    BY <1>10, <2>1, SignedKept DEF ClientInv
<1>12. FlagIsRefresh'
  <2>1. FlagIsRefresh /\ isRefreshing \in [Tab -> BOOLEAN] /\ \A d \in Call : call[d].tab \in Tab
    BY <1>1 DEF ClientInv, TypeOK, CallState
  <2>2. ~InRefresh(c) /\ ~At(c, "queued")
    BY <1>5 DEF InRefresh, At
  <2>3. CASE Enqueue(c)
    <3>1. call'[c].pc \in {"queued", "refreshSent"} /\ call'[c].tab = t
      BY <1>3, <1>7
    <3>2. isRefreshing[t] /\ UNCHANGED isRefreshing
      BY <2>3 DEF Enqueue, MustWait, tabVars
    <3>3. ~BeginRefresh(c)
      BY <3>2 DEF BeginRefresh, MustWait
    <3>4. call'[c].pc = "queued"
      BY <1>3, <1>7, <3>3
    <3>5. ~InRefresh(c)'
      BY <3>4 DEF InRefresh
    <3> QED
      BY <1>7, <2>1, <2>2, <3>1, <3>2, <3>4, <3>5 DEF FlagIsRefresh, InRefresh, At
  <2>4. CASE BeginRefresh(c)
    <3>1. ~isRefreshing[t] /\ isRefreshing' = [isRefreshing EXCEPT ![t] = TRUE]
      BY <2>4 DEF BeginRefresh, MustWait
    <3>2. ~Enqueue(c)
      BY <3>1 DEF Enqueue, MustWait
    <3>3. call'[c].pc = "refreshSent" /\ call'[c].tab = t
      BY <1>3, <1>7, <3>2
    <3>4. \A d \in Call : InRefresh(d) => call[d].tab # t
      BY <2>1, <3>1 DEF FlagIsRefresh
    <3>5. InRefresh(c)' /\ ~At(c, "queued")'
      BY <3>3 DEF InRefresh, At
    <3>6. \A d \in Call \ {c} : /\ InRefresh(d)' <=> InRefresh(d)
                                /\ At(d, "queued")' <=> At(d, "queued")
                                /\ call'[d].tab = call[d].tab
      BY <1>7 DEF InRefresh, At
    <3>7. isRefreshing'[t] /\ \A u \in Tab \ {t} : isRefreshing'[u] = isRefreshing[u]
      BY <1>1, <2>1, <3>1
    <3> HIDE DEF t
    <3> QED
      BY <2>1, <2>2, <3>3, <3>4, <3>5, <3>6, <3>7 DEF FlagIsRefresh
  <2> QED
    BY <2>3, <2>4
<1> QED
  BY <1>9, <1>11, <1>12 DEF ClientInv

\* The end of the refresh of a tab: the flag is dropped, and no call of the tab
\* refreshes or is queued any more.
LEMMA FlushKeepsFlag ==
  ASSUME ClientInv, NEW c \in Call, InRefresh(c),
         isRefreshing' = [isRefreshing EXCEPT ![call[c].tab] = FALSE],
         \A d \in Queue(call[c].tab) \cup {c} : ~InRefresh(d)' /\ ~At(d, "queued")',
         \A d \in Call \ (Queue(call[c].tab) \cup {c}) : call'[d] = call[d]
  PROVE  FlagIsRefresh'
<1> DEFINE t == call[c].tab
<1>1. FlagIsRefresh /\ isRefreshing \in [Tab -> BOOLEAN] /\ \A d \in Call : call[d].tab \in Tab
  BY DEF ClientInv, TypeOK, CallState
<1>2. isRefreshing'[t] = FALSE /\ \A u \in Tab \ {t} : isRefreshing'[u] = isRefreshing[u]
  BY <1>1
<1>3. ASSUME NEW d \in Call, InRefresh(d)' \/ At(d, "queued")'
      PROVE  /\ call'[d] = call[d]
             /\ call[d].tab # t
             /\ InRefresh(d)' <=> InRefresh(d)
             /\ At(d, "queued")' <=> At(d, "queued")
  <2>1. d \notin Queue(t) \cup {c} /\ call'[d] = call[d]
    BY <1>3
  <2>2. /\ InRefresh(d)' <=> InRefresh(d)
        /\ At(d, "queued")' <=> At(d, "queued")
    BY <2>1 DEF InRefresh, At
  <2>3. At(d, "queued") => call[d].tab # t
    BY <2>1 DEF Queue
  <2>4. InRefresh(d) => call[d].tab # t
    BY <1>1, <2>1 DEF FlagIsRefresh
  <2> QED
    BY <1>3, <2>1, <2>2, <2>3, <2>4
<1>4. ASSUME NEW d \in Call, InRefresh(d), call[d].tab # t
      PROVE  InRefresh(d)' /\ call'[d] = call[d]
  <2>1. d \notin Queue(t) \cup {c}
    BY <1>4 DEF Queue
  <2> QED
    BY <1>4, <2>1 DEF InRefresh
<1> HIDE DEF t
<1>5. \A d \in Call : InRefresh(d)' \/ At(d, "queued")' => isRefreshing'[call'[d].tab]
  BY <1>1, <1>2, <1>3 DEF FlagIsRefresh
<1>6. \A u \in Tab : isRefreshing'[u] => \E d \in Call : InRefresh(d)' /\ call'[d].tab = u
  <2> SUFFICES ASSUME NEW u \in Tab, isRefreshing'[u]
               PROVE  \E d \in Call : InRefresh(d)' /\ call'[d].tab = u
    OBVIOUS
  <2>1. u # t /\ isRefreshing[u]
    BY <1>2
  <2>2. PICK d \in Call : InRefresh(d) /\ call[d].tab = u
    BY <1>1, <2>1 DEF FlagIsRefresh
  <2> QED
    BY <1>4, <2>1, <2>2
<1>7. \A d, e \in Call : InRefresh(d)' /\ InRefresh(e)' /\ call'[d].tab = call'[e].tab => d = e
  BY <1>1, <1>3 DEF FlagIsRefresh
<1> QED
  BY <1>5, <1>6, <1>7 DEF FlagIsRefresh

LEMMA RefreshedKeepsInv ==
  ASSUME ClientInv, NEW c \in Call, ReceiveRefreshed(c)
  PROVE  ClientInv'
<1> DEFINE t == call[c].tab
           retried == [Blank(call[c].kind, t, "sent", jar') EXCEPT !.retry = TRUE]
           replayed(d) == Blank(call[d].kind, t, "sent", jar')
<1>1. /\ call[c].pc = "refreshAnswered"
      /\ isRefreshing' = [isRefreshing EXCEPT ![t] = FALSE]
      /\ UNCHANGED <<issued, live, accepted, timer, user, signedOut, failed>>
      /\ StoreCookies(c)
  BY DEF ReceiveRefreshed, apiVars, At
<1>2. /\ call'[c] = retried
      /\ \A d \in Queue(t) \ {c} : call'[d] = replayed(d)
      /\ \A d \in Call \ (Queue(t) \cup {c}) : call'[d] = call[d]
  BY DEF ReceiveRefreshed, Queue
<1>3. jar' \in 0..issued'
  BY <1>1, JarTyping
<1>4. jar' \in Pair \cup {NoPair}
  BY <1>1, <1>3, WebClientAssumption DEF ClientInv, TypeOK, Pair, NoPair
<1>5. \A d \in Call : call[d] \in CallState /\ call[d].kind \in Kind /\ call[d].tab \in Tab
  BY DEF ClientInv, TypeOK, CallState
<1>6. retried \in CallState /\ \A d \in Call : replayed(d) \in CallState
  BY <1>4, <1>5, BlankTyping, Labels
<1>7. retried.pc = "sent" /\ retried.cookie = Keep
  BY DEF Blank
<1>8. \A d : replayed(d).pc = "sent" /\ replayed(d).cookie = Keep
  BY DEF Blank
<1>9. call' \in [Call -> CallState]
  <2>1. call' = [d \in Call |-> IF d = c THEN retried
                                ELSE IF d \in Queue(t) THEN replayed(d) ELSE call[d]]
    BY DEF ReceiveRefreshed
  <2> HIDE DEF retried, replayed
  <2> QED
    BY <1>5, <1>6, <2>1
<1> HIDE DEF retried, replayed
<1>10. TypeOK'
  BY <1>1, <1>3, <1>9 DEF ClientInv, TypeOK
<1>11. CookiesKept
  BY <1>2, <1>7, <1>8 DEF CookiesKept
<1>12. AnswersAreSigned'
  <2>1. issued' = issued /\ issued \in Nat
    BY <1>1, WebClientAssumption DEF ClientInv, TypeOK
  <2> QED
    BY <1>11, <2>1, SignedKept DEF ClientInv
<1>13. \A d \in Queue(t) \cup {c} : call'[d].pc = "sent"
  BY <1>2, <1>7, <1>8
<1>14. \A d \in Queue(t) \cup {c} : ~InRefresh(d)' /\ ~At(d, "queued")'
  BY <1>13 DEF InRefresh, At
<1>15. InRefresh(c)
  BY <1>1 DEF InRefresh
<1>16. FlagIsRefresh'
  BY <1>1, <1>2, <1>14, <1>15, FlushKeepsFlag
<1> QED
  BY <1>10, <1>12, <1>16 DEF ClientInv

LEMMA NotRefreshedKeepsInv ==
  ASSUME ClientInv, NEW c \in Call, ReceiveNotRefreshed(c)
  PROVE  ClientInv'
<1> DEFINE t == call[c].tab
           F == Queue(t) \cup {c}
<1>1. /\ call[c].pc = "refreshAnswered"
      /\ isRefreshing' = [isRefreshing EXCEPT ![t] = FALSE]
      /\ UNCHANGED <<jar, issued, live, accepted>>
      /\ FailAll(F, t)
      /\ call' = Settle(F)
  BY DEF ReceiveNotRefreshed, Rejected, apiVars, At
<1>2. /\ call' \in [Call -> CallState]
      /\ \A d \in Call : d \notin F => call'[d] = call[d]
      /\ \A d \in Call \cap F : call'[d].pc = "idle" /\ call'[d].cookie = Keep
      /\ CookiesKept
  BY <1>1, Settled DEF ClientInv
<1>3. /\ user' \in [Tab -> BOOLEAN] /\ timer' \in [Tab -> BOOLEAN]
      /\ signedOut' \in BOOLEAN /\ failed' \in BOOLEAN
  BY <1>1, HandlerTyping DEF ClientInv
<1>4. TypeOK'
  BY <1>1, <1>2, <1>3 DEF ClientInv, TypeOK
<1>5. AnswersAreSigned'
  <2>1. issued' = issued /\ issued \in Nat
    BY <1>1, WebClientAssumption DEF ClientInv, TypeOK
  <2> QED
    BY <1>2, <2>1, SignedKept DEF ClientInv
<1>6. \A d \in F : ~InRefresh(d)' /\ ~At(d, "queued")'
  BY <1>2 DEF InRefresh, At, Queue
<1>7. InRefresh(c)
  BY <1>1 DEF InRefresh
<1>8. FlagIsRefresh'
  BY <1>1, <1>2, <1>6, <1>7, FlushKeepsFlag
<1> QED
  BY <1>4, <1>5, <1>8 DEF ClientInv

------------------------------------------------------------------------------
LEMMA NextKeepsInv == ClientInv /\ [Next]_vars => ClientInv'
<1> SUFFICES ASSUME ClientInv, [Next]_vars PROVE ClientInv'
  OBVIOUS
<1>0. timer \in [Tab -> BOOLEAN]
  BY DEF ClientInv, TypeOK
<1>1. ASSUME NEW c \in Call, NEW t \in Tab,
             Login(c, t) \/ CurrentUser(c, t) \/ Fire(c, t) \/ \E k \in Kind : Use(c, t, k),
             UNCHANGED failed
      PROVE  ClientInv'
  <2>1. /\ \E k \in Kind : Send(c, k, t)
        /\ UNCHANGED <<jar, apiVars, isRefreshing, user, signedOut, failed>>
    BY <1>1 DEF Login, CurrentUser, Use, Fire, tabVars, Kind
  <2>2. timer' \in [Tab -> BOOLEAN]
    BY <1>0, <1>1 DEF Login, CurrentUser, Use, Fire, tabVars
  <2> QED
    BY <2>1, <2>2, PageKeepsInv
<1>2. ASSUME NEW c \in Call, Receive(c) PROVE ClientInv'
  BY <1>2, AnsweredKeepsInv, InterceptedKeepsInv, RefreshedKeepsInv, NotRefreshedKeepsInv
     DEF Receive
<1>3. ASSUME UNCHANGED vars PROVE ClientInv'
  BY <1>3 DEF vars, apiVars, tabVars, ClientInv, TypeOK, AnswersAreSigned, FlagIsRefresh, InRefresh,
              At, Keep
<1> QED
  BY <1>1, <1>2, <1>3, ServeKeepsInv, LoseAnswerKeepsInv, ExpireKeepsInv DEF Next

LEMMA ClientAlways == Spec => []ClientInv
<1>1. Init => ClientInv
  BY InitIsInv
<1>2. ClientInv /\ [Next]_vars => ClientInv'
  BY NextKeepsInv
<1> QED
  BY <1>1, <1>2, PTL DEF Spec

\* Cookies, tokens, calls and the state of every tab keep their shapes, and no
\* answer brings in a pair of tokens that the API has not signed.
THEOREM ClientTypes == Spec => []TypeOK
<1>1. ClientInv => TypeOK
  BY DEF ClientInv
<1> QED
  BY <1>1, ClientAlways, PTL

\* axios.ts: however many calls of a tab come back with 401, and in whatever order
\* answers and refreshes overlap, the flag lets one refresh out at a time.
THEOREM OneRefreshPerTab == Spec => []OneInterceptorRefresh
<1>1. ClientInv => OneInterceptorRefresh
  <2> SUFFICES ASSUME ClientInv, NEW t \in Tab PROVE Cardinality(Refreshing(t)) <= 1
    BY DEF OneInterceptorRefresh
  <2>1. \A c, d \in Refreshing(t) : c = d
    BY DEF ClientInv, FlagIsRefresh, Refreshing, InRefresh
  <2>2. CASE Refreshing(t) = {}
    BY <2>2, FS_EmptySet
  <2>3. ASSUME NEW c \in Refreshing(t) PROVE Cardinality(Refreshing(t)) <= 1
    <3>1. Refreshing(t) = {c}
      BY <2>1
    <3> QED
      BY <3>1, FS_Singleton
  <2> QED
    BY <2>2, <2>3
<1> QED
  BY <1>1, ClientAlways, PTL

\* axios.ts: a call in the queue has a refresh of its tab to wait for, whose end
\* replays or rejects it.
THEOREM QueueHasRefresh == Spec => []QueueIsServed
<1>1. ClientInv => QueueIsServed
  BY DEF ClientInv, FlagIsRefresh, QueueIsServed, Queue, Refreshing, InRefresh, At
<1> QED
  BY <1>1, ClientAlways, PTL

------------------------------------------------------------------------------
\* Sign-out, in a browser with one tab

OneTab == \A t, u \in Tab : t = u

InFlight(c) == ~At(c, "idle")

\* A sign-in that was answered: its session begins when the tab receives it.
NewSession(c) == call[c].kind = "login" /\ At(c, "answered")

\* x is in the cookies, or in those of a call or of an answer on its way.
Holds(x) ==
    \/ x = jar
    \/ \E c \in Call : call[c].pair = x
    \/ \E c \in Call : call[c].cookie = x /\ ~NewSession(c)

\* An answer brings a pair that nothing else holds, and whose access token is
\* not accepted without its refresh token.
Fresh ==
    \A c \in Call :
        /\ call[c].pair \in 0..issued
        /\ At(c, "idle") => call[c].pair = NoPair /\ call[c].cookie \notin Pair
        /\ call[c].cookie \in Pair =>
              /\ call[c].cookie # jar
              /\ \A d \in Call : call[d].pair # call[c].cookie
              /\ \A d \in Call \ {c} : call[d].cookie # call[c].cookie
              /\ call[c].cookie \in accepted => call[c].cookie \in live

\* Of the refresh tokens held, one is active at most.
OneHeld == \A x, y \in live : Holds(x) /\ Holds(y) => x = y

NoneHeld == \A x \in live : ~Holds(x)

\* At most one call that signs in, and one that signs out.
Alone ==
    \A c, d \in Call :
        /\ InFlight(c) /\ InFlight(d)
        /\ \/ call[c].kind \in {"login", "me"} /\ call[d].kind \in {"login", "me"}
           \/ call[c].kind = "logout" /\ call[d].kind = "logout"
        => c = d

\* Nobody has used the tab yet.
Unused ==
    /\ \A t \in Tab : ~user[t] /\ ~timer[t]
    /\ \A c \in Call : InFlight(c) => call[c].kind \in {"login", "me"}

SigningIn == \E c \in Call : InFlight(c) /\ call[c].kind = "login"

\* Who signs in has not used the tab yet, or has signed out.
Entrance == SigningIn \/ (\E t \in Tab : ~user[t]) => Unused \/ signedOut

\* After a sign-out the tokens that are held are spent, and none passes for an
\* access token that could sign out once more.
SpentAfterwards ==
    signedOut =>
        /\ NoneHeld
        /\ jar \notin accepted
        /\ \A c \in Call : call[c].kind = "logout" => call[c].pair \notin accepted

\* So they are from the moment that the API has served the logout.
LoggedOut(c) == call[c].kind = "logout" /\ At(c, "answered") /\ call[c].status = "ok"

SpentAtOnce ==
    \A c \in Call : LoggedOut(c) => call[c].cookie = NoPair /\ NoneHeld /\ ~signedOut

\* The inductive invariant, as long as every call succeeds.
SignOutInv == Fresh /\ OneHeld /\ Alone /\ Entrance /\ SpentAfterwards /\ SpentAtOnce

LEMMA InitIsSignOutInv == Init => SignOutInv
<1> SUFFICES ASSUME Init PROVE SignOutInv
  OBVIOUS
<1>1. ASSUME NEW c \in Call
      PROVE  /\ call[c].pc = "idle" /\ call[c].cookie = Keep /\ call[c].pair = NoPair
             /\ call[c].kind = "data"
  <2>1. PICK t \in Tab : call[c] = Blank("data", t, "idle", NoPair)
    BY DEF Init
  <2> QED
    BY <2>1 DEF Blank
<1>2. jar \in 0..1 /\ issued = jar /\ live = 1..jar /\ ~signedOut
      /\ \A t \in Tab : ~user[t] /\ ~timer[t]
  BY DEF Init
<1>3. Fresh
  BY <1>1, <1>2, KeepIsNoPair DEF Fresh, NoPair
<1>4. OneHeld
  BY <1>2 DEF OneHeld
<1>5. Alone /\ Unused
  BY <1>1, <1>2 DEF Alone, Unused, InFlight, At
<1>6. SpentAfterwards /\ SpentAtOnce
  BY <1>1, <1>2 DEF SpentAfterwards, SpentAtOnce, LoggedOut
<1> QED
  BY <1>3, <1>4, <1>5, <1>6 DEF SignOutInv, Entrance

------------------------------------------------------------------------------
\* What the API does to the session of a tab

Answered(c, k) ==
    /\ UNCHANGED <<jar, user, timer, signedOut>>
    /\ \A d \in Call \ {c} : call'[d] = call[d]
    /\ call'[c].kind = call[c].kind /\ call'[c].pair = NoPair /\ call'[c].cookie = k
    /\ \/ call[c].pc = "sent" /\ call'[c].pc = "answered"
       \/ call[c].pc = "refreshSent" /\ call'[c].pc = "refreshAnswered"

Signing ==
    /\ issued' = issued + 1
    /\ accepted' = accepted \cup {issued'}

SignIn(c) ==
    /\ Answered(c, issued') /\ Signing
    /\ call[c].kind = "login" /\ call'[c].pc = "answered"
    /\ live' = live \cup {issued'}

Rotation(c) ==
    /\ Answered(c, issued') /\ Signing
    /\ call[c].kind = "timer" \/ call'[c].pc = "refreshAnswered"
    /\ call[c].pair \in live
    /\ live' = (live \ {call[c].pair}) \cup {issued'}

SignOut(c) ==
    /\ Answered(c, NoPair) /\ UNCHANGED issued
    /\ call[c].kind = "logout" /\ call'[c].pc = "answered"
    /\ call[c].pair \in accepted
    /\ \/ call[c].pair \in live /\ live' = live \ {call[c].pair}
                                /\ accepted' = accepted \ {call[c].pair}
       \/ live' = {} /\ accepted' = accepted \ live

Otherwise(c) ==
    /\ Answered(c, Keep) /\ UNCHANGED issued
    /\ ~LoggedOut(c)'
    /\ \/ UNCHANGED <<live, accepted>>
       \/ live' = {} /\ accepted' = accepted \ live

LEMMA AnswerIsAnswered ==
  ASSUME TypeOK, NEW c \in Call, NEW s, NEW k, Answer(c, s, k),
         At(c, "sent") \/ At(c, "refreshSent"), UNCHANGED <<jar, tabVars, signedOut>>
  PROVE  Answered(c, k) /\ call'[c].status = s
         /\ (At(c, "sent") => call'[c].pc = "answered")
         /\ (At(c, "refreshSent") => call'[c].pc = "refreshAnswered")
<1>1. call \in [Call -> CallState]
  BY DEF TypeOK
<1> QED
  BY <1>1 DEF Answer, Answered, At, tabVars

LEMMA ServeCases ==
  ASSUME TypeOK, NEW c \in Call, Serve(c), ~failed'
  PROVE  SignIn(c) \/ Rotation(c) \/ SignOut(c) \/ Otherwise(c)
<1>1. UNCHANGED <<jar, tabVars, signedOut>>
  BY DEF Serve
<1>2. ASSUME NEW s, NEW k, Answer(c, s, k), At(c, "sent") \/ At(c, "refreshSent")
      PROVE  Answered(c, k) /\ call'[c].status = s
             /\ (At(c, "sent") => call'[c].pc = "answered")
             /\ (At(c, "refreshSent") => call'[c].pc = "refreshAnswered")
  BY <1>1, <1>2, AnswerIsAnswered
<1>3. ASSUME SweepSessions
      PROVE  UNCHANGED issued /\ live' = {} /\ accepted' = accepted \ live
  BY <1>3 DEF SweepSessions
<1>4. ASSUME UNCHANGED apiVars
      PROVE  UNCHANGED issued /\ UNCHANGED <<live, accepted>>
  BY <1>4 DEF apiVars
<1>5. ASSUME ServeLogin(c) PROVE SignIn(c) \/ Otherwise(c)
  <2>1. At(c, "sent") /\ call[c].kind = "login"
    BY <1>5 DEF ServeLogin
  <2>2. CASE Sign(c, live)
    BY <1>2, <2>1, <2>2 DEF Sign, SignIn, Signing
  <2>3. CASE Answer(c, "unauthorized", Keep) /\ UNCHANGED apiVars
    BY <1>2, <1>4, <2>1, <2>3 DEF Otherwise, LoggedOut
  <2> QED
    BY <1>5, <2>2, <2>3 DEF ServeLogin
<1>6. ASSUME ServeRefresh(c) PROVE Rotation(c) \/ Otherwise(c)
  <2>1. At(c, "refreshSent") \/ (At(c, "sent") /\ call[c].kind = "timer")
    BY <1>6 DEF ServeRefresh
  <2>2. CASE call[c].pair \in live /\ Sign(c, live \ {call[c].pair})
    BY <1>2, <2>1, <2>2 DEF Sign, Rotation, Signing
  <2>3. CASE SweepSessions /\ Answer(c, "unauthorized", Keep)
    BY <1>2, <1>3, <2>1, <2>3 DEF Otherwise, LoggedOut
  <2>4. CASE Answer(c, "unauthorized", Keep) /\ UNCHANGED apiVars
    BY <1>2, <1>4, <2>1, <2>4 DEF Otherwise, LoggedOut
  <2> QED
    BY <1>6, <2>2, <2>3, <2>4 DEF ServeRefresh
<1>7. ASSUME ServeData(c) PROVE Otherwise(c)
  <2> DEFINE s == IF call[c].pair \in accepted THEN "ok" ELSE "unauthorized"
  <2>1. At(c, "sent") /\ call[c].kind \in {"me", "data", "update"}
        /\ Answer(c, s, Keep) /\ UNCHANGED apiVars
    BY <1>7 DEF ServeData
  <2> HIDE DEF s
  <2>2. Answered(c, Keep)
    BY <1>2, <2>1
  <2>3. ~LoggedOut(c)'
    BY <2>1, <2>2 DEF LoggedOut, Answered
  <2> QED
    BY <1>4, <2>1, <2>2, <2>3 DEF Otherwise
<1>8. ASSUME ServeLogout(c) PROVE SignOut(c) \/ Otherwise(c)
  <2>1. At(c, "sent") /\ call[c].kind = "logout"
    BY <1>8 DEF ServeLogout
  <2>2. CASE /\ call[c].pair \in accepted \cap live
             /\ live' = live \ {call[c].pair}
             /\ accepted' = accepted \ {call[c].pair}
             /\ UNCHANGED issued
             /\ Answer(c, "ok", NoPair)
    BY <1>2, <2>1, <2>2 DEF SignOut
  <2>3. CASE call[c].pair \in accepted \ live /\ SweepSessions /\ Answer(c, "ok", NoPair)
    BY <1>2, <1>3, <2>1, <2>3 DEF SignOut
  <2>4. CASE Answer(c, "unauthorized", Keep) /\ UNCHANGED apiVars
    BY <1>2, <1>4, <2>1, <2>4 DEF Otherwise, LoggedOut
  <2> QED
    BY <1>8, <2>2, <2>3, <2>4 DEF ServeLogout
<1>9. ~ServeError(c)
  BY DEF ServeError
<1> QED
  BY <1>5, <1>6, <1>7, <1>8, <1>9 DEF Serve

\* What an answer of the API leaves as it was.
LEMMA AnsweredKeeps ==
  ASSUME Alone, Entrance, NEW c \in Call, NEW k, Answered(c, k)
  PROVE  /\ Alone' /\ Entrance'
         /\ \A d \in Call : /\ call'[d].kind = call[d].kind
                            /\ call'[d].pair \in {call[d].pair, NoPair}
                            /\ LoggedOut(d)' => d = c \/ LoggedOut(d)
                            /\ InFlight(d)' <=> InFlight(d)
                            /\ d # c => (NewSession(d)' <=> NewSession(d))
         /\ ~NewSession(c)
<1>1. InFlight(c) /\ InFlight(c)' /\ ~NewSession(c)
  BY DEF Answered, InFlight, At, NewSession
<1>2. \A d \in Call : /\ call'[d].kind = call[d].kind
                      /\ call'[d].pair \in {call[d].pair, NoPair}
                      /\ LoggedOut(d)' => d = c \/ LoggedOut(d)
                      /\ InFlight(d)' <=> InFlight(d)
                      /\ d # c => (NewSession(d)' <=> NewSession(d))
  BY <1>1 DEF Answered, InFlight, At, LoggedOut, NewSession
<1>3. Alone'
  BY <1>2 DEF Alone
<1>4. Entrance'
  BY <1>2 DEF Entrance, SigningIn, Unused, Answered
<1> QED
  BY <1>1, <1>2, <1>3, <1>4

\* A token that is held was held, or is the one just signed.
LEMMA AnsweredHolds ==
  ASSUME TypeOK, NEW c \in Call, NEW k, Answered(c, k), NEW x \in Pair, Holds(x)'
  PROVE  Holds(x) \/ (x = k /\ ~NewSession(c)')
<1>1. NoPair \notin Pair
  BY DEF NoPair, Pair
<1>2. CASE x = jar'
  BY <1>2 DEF Holds, Answered
<1>3. ASSUME NEW d \in Call, call'[d].pair = x PROVE Holds(x)
  BY <1>1, <1>3 DEF Holds, Answered
<1>4. ASSUME NEW d \in Call, call'[d].cookie = x, ~NewSession(d)'
      PROVE  Holds(x) \/ (x = k /\ ~NewSession(c)')
  BY <1>4 DEF Holds, Answered, NewSession, At
<1> QED
  BY <1>2, <1>3, <1>4 DEF Holds

\* The pair that is signed is held by nobody.
LEMMA SignedIsNew ==
  ASSUME TypeOK, Fresh, AnswersAreSigned, Signing, issued' \in 0..MaxPair
  PROVE  /\ issued' \in Pair /\ issued' # jar /\ issued' \notin live /\ issued' \notin accepted
         /\ \A d \in Call : call[d].pair # issued' /\ call[d].cookie # issued'
<1>1. issued \in Nat /\ issued' = issued + 1 /\ issued' <= MaxPair /\ MaxPair \in Nat
  BY WebClientAssumption DEF TypeOK, Signing
<1>2. issued' \in Pair /\ issued' # jar /\ issued' \notin live /\ issued' \notin accepted
  BY <1>1 DEF TypeOK, Pair
<1>3. ASSUME NEW d \in Call PROVE call[d].pair # issued' /\ call[d].cookie # issued'
  <2>1. call[d].pair \in 0..issued /\ call[d].cookie \in (0..issued) \cup {Keep}
    BY DEF Fresh, AnswersAreSigned
  <2> QED
    BY <1>1, <2>1 DEF Keep
<1> QED
  BY <1>2, <1>3

LEMMA SignOrEnd ==
  ASSUME NEW c \in Call, SignIn(c) \/ Rotation(c) \/ SignOut(c) \/ Otherwise(c)
  PROVE  \E k : /\ Answered(c, k)
                /\ \/ Signing /\ k = issued'
                   \/ UNCHANGED issued /\ k \in {NoPair, Keep}
  BY DEF SignIn, Rotation, SignOut, Otherwise

LEMMA ServeFresh ==
  ASSUME ClientInv, ClientInv', Fresh, NEW c \in Call,
         SignIn(c) \/ Rotation(c) \/ SignOut(c) \/ Otherwise(c)
  PROVE  Fresh'
<1>1. PICK k : /\ Answered(c, k)
               /\ \/ Signing /\ k = issued'
                  \/ UNCHANGED issued /\ k \in {NoPair, Keep}
  BY SignOrEnd
<1>2. /\ issued \in Nat /\ issued' \in Nat /\ issued <= issued' /\ issued' \in 0..MaxPair
      /\ 0..issued \subseteq 0..issued' /\ NoPair \in 0..issued'
  BY <1>1, WebClientAssumption DEF ClientInv, TypeOK, Signing, NoPair
<1>3. NoPair \notin Pair /\ Keep \notin Pair
  BY KeepIsNoPair DEF NoPair, Pair
<1>4. Signing => /\ issued' \in Pair /\ issued' # jar
                 /\ issued' \notin live /\ issued' \notin accepted
                 /\ \A d \in Call : call[d].pair # issued' /\ call[d].cookie # issued'
  BY <1>2, SignedIsNew DEF ClientInv
<1>5. jar' = jar /\ jar \in 0..issued
  BY <1>1 DEF Answered, ClientInv, TypeOK
<1>6. ASSUME NEW d \in Call
      PROVE  call'[d].pair \in 0..issued' /\ call'[d].pair \in {call[d].pair, NoPair}
  BY <1>1, <1>2 DEF Answered, Fresh
<1>7. ASSUME NEW d \in Call, At(d, "idle")'
      PROVE  call'[d].pair = NoPair /\ call'[d].cookie \notin Pair
  <2>1. d # c /\ call'[d] = call[d]
    BY <1>1, <1>7 DEF Answered, At
  <2> QED
    BY <1>7, <2>1 DEF Fresh, At
<1>8. ASSUME NEW d \in Call, call'[d].cookie \in Pair
      PROVE  /\ call'[d].cookie # jar'
             /\ \A e \in Call : call'[e].pair # call'[d].cookie
             /\ \A e \in Call \ {d} : call'[e].cookie # call'[d].cookie
             /\ call'[d].cookie \in accepted' => call'[d].cookie \in live'
  <2>1. CASE d = c
    <3>1. Signing /\ call'[d].cookie = issued'
      BY <1>1, <1>3, <1>8, <2>1 DEF Answered
    <3>2. \A e \in Call : call'[e].pair # issued'
      BY <1>3, <1>4, <1>6, <3>1
    <3>3. \A e \in Call \ {d} : call'[e].cookie # issued'
      BY <1>1, <1>4, <2>1, <3>1 DEF Answered
    <3>4. issued' \in live'
      BY <1>1, <1>3, <1>4, <2>1, <3>1 DEF SignIn, Rotation, SignOut, Otherwise, Answered
    <3> QED
      BY <1>4, <1>5, <3>1, <3>2, <3>3, <3>4
  <2>2. CASE d # c
    <3> DEFINE q == call[d].cookie
    <3>1. call'[d].cookie = q /\ q \in Pair
      BY <1>1, <1>8, <2>2 DEF Answered
    <3>2. /\ q # jar
          /\ \A e \in Call : call[e].pair # q
          /\ \A e \in Call \ {d} : call[e].cookie # q
          /\ q \in accepted => q \in live
      BY <3>1 DEF Fresh
    <3>3. \A e \in Call : call'[e].pair # q
      BY <1>3, <1>6, <3>1, <3>2
    <3>4. call'[c].cookie # q
      BY <1>1, <1>3, <1>4, <3>1 DEF Answered
    <3>5. \A e \in Call \ {d} : call'[e].cookie # q
      BY <1>1, <3>2, <3>4 DEF Answered
    <3>6. Signing => q # issued'
      BY <1>4
    <3>7. call[c].pair # q
      BY <3>2
    <3> HIDE DEF q
    <3>8. q \in accepted' => q \in live'
      BY <3>2, <3>6, <3>7 DEF SignIn, Rotation, SignOut, Otherwise, Signing
    <3> QED
      BY <1>5, <3>1, <3>2, <3>3, <3>5, <3>8
  <2> QED
    BY <2>1, <2>2
<1> QED
  BY <1>6, <1>7, <1>8 DEF Fresh

\* The active tokens that are held, after an answer: none or the new pair, except
\* where nothing has changed.
LEMMA ServeHeld ==
  ASSUME ClientInv, ClientInv', Fresh, OneHeld, NEW c \in Call
  PROVE  /\ SignIn(c) => \A x \in live' : Holds(x)' => x \in live /\ Holds(x)
         /\ Rotation(c) => /\ call[c].pair \in live /\ Holds(call[c].pair)
                           /\ \A x \in live' : Holds(x)' => x = issued'
         /\ SignOut(c) => \A x \in live' : ~Holds(x)'
         /\ Otherwise(c) => \A x \in live' : Holds(x)' => x \in live /\ Holds(x)
<1>1. live \subseteq Pair /\ live' \subseteq Pair /\ Keep \notin Pair /\ NoPair \notin Pair
  <2>1. live' \subseteq 1..issued' /\ issued' \in 0..MaxPair
    BY DEF ClientInv, TypeOK
  <2>2. live \subseteq 1..issued /\ issued \in 0..MaxPair
    BY DEF ClientInv, TypeOK
  <2> QED
    BY <2>1, <2>2, KeepIsNoPair, WebClientAssumption DEF NoPair, Pair
<1>2. Holds(call[c].pair)
  BY DEF Holds
<1>3. ASSUME SignIn(c), NEW x \in live', Holds(x)' PROVE x \in live /\ Holds(x)
  <2>1. NewSession(c)' /\ Answered(c, issued')
    BY <1>3 DEF SignIn, NewSession, Answered, At
  <2>2. Holds(x)
    BY <1>1, <1>3, <2>1, AnsweredHolds DEF ClientInv
  <2>3. x # issued'
    <3>1. issued' # jar /\ \A d \in Call : call[d].pair # issued' /\ call[d].cookie # issued'
      BY <1>3, SignedIsNew DEF SignIn, ClientInv, TypeOK
    <3> QED
      BY <2>2, <3>1 DEF Holds
  <2> QED
    BY <1>3, <2>2, <2>3 DEF SignIn
<1>4. ASSUME Rotation(c)
      PROVE  /\ call[c].pair \in live /\ Holds(call[c].pair)
             /\ \A x \in live' : Holds(x)' => x = issued'
  <2>1. ASSUME NEW x \in live', Holds(x)' PROVE x = issued'
    <3>1. Holds(x) \/ x = issued'
      BY <1>1, <1>4, <2>1, AnsweredHolds DEF Rotation, ClientInv
    <3>2. x = issued' \/ (x \in live /\ x # call[c].pair)
      BY <1>4, <2>1 DEF Rotation
    <3> QED
      BY <1>2, <1>4, <3>1, <3>2 DEF OneHeld, Rotation
  <2> QED
    BY <1>2, <1>4, <2>1 DEF Rotation
<1>5. ASSUME SignOut(c), NEW x \in live', Holds(x)' PROVE FALSE
  <2>1. Holds(x) \/ x = NoPair
    BY <1>1, <1>5, AnsweredHolds DEF SignOut, ClientInv
  <2>2. x # NoPair
    BY <1>1
  <2>3. /\ x \in live /\ x # call[c].pair /\ call[c].pair \in live
    BY <1>5 DEF SignOut
  <2> QED
    BY <1>2, <2>1, <2>2, <2>3 DEF OneHeld
<1>6. ASSUME Otherwise(c), NEW x \in live', Holds(x)' PROVE x \in live /\ Holds(x)
  <2>1. Holds(x) \/ x = Keep
    BY <1>1, <1>6, AnsweredHolds DEF Otherwise, ClientInv
  <2> QED
    BY <1>1, <1>6, <2>1 DEF Otherwise
<1> QED
  BY <1>3, <1>4, <1>5, <1>6

LEMMA ServeKeepsSignOut ==
  ASSUME ClientInv, ClientInv', SignOutInv, NEW c \in Call, Serve(c), ~failed'
  PROVE  SignOutInv'
<1>0. Fresh /\ OneHeld /\ Alone /\ Entrance /\ SpentAfterwards /\ SpentAtOnce
  BY DEF SignOutInv
<1>1. SignIn(c) \/ Rotation(c) \/ SignOut(c) \/ Otherwise(c)
  BY ServeCases DEF ClientInv
<1>2. Fresh'
  BY <1>0, <1>1, ServeFresh
<1>3. PICK k : /\ Answered(c, k)
               /\ \/ Signing /\ k = issued'
                  \/ UNCHANGED issued /\ k \in {NoPair, Keep}
  BY <1>1, SignOrEnd
<1>4. /\ Alone' /\ Entrance'
      /\ \A d \in Call : /\ call'[d].kind = call[d].kind
                         /\ call'[d].pair \in {call[d].pair, NoPair}
                         /\ LoggedOut(d)' => d = c \/ LoggedOut(d)
                         /\ InFlight(d)' <=> InFlight(d)
  BY <1>0, <1>3, AnsweredKeeps
<1>5. jar' = jar /\ signedOut' = signedOut
  BY <1>3 DEF Answered
<1>6. /\ SignIn(c) => \A x \in live' : Holds(x)' => x \in live /\ Holds(x)
      /\ Rotation(c) => /\ call[c].pair \in live /\ Holds(call[c].pair)
                        /\ \A x \in live' : Holds(x)' => x = issued'
      /\ SignOut(c) => \A x \in live' : ~Holds(x)'
      /\ Otherwise(c) => \A x \in live' : Holds(x)' => x \in live /\ Holds(x)
  BY <1>0, ServeHeld
<1>7. OneHeld'
  BY <1>0, <1>1, <1>6 DEF OneHeld
<1>8. NoneHeld => NoneHeld'
  BY <1>1, <1>6 DEF NoneHeld
<1>9. ASSUME NEW x \in (0..issued), x \notin accepted PROVE x \notin accepted'
  <2>1. Signing => x # issued'
    BY DEF Signing, ClientInv, TypeOK
  <2> QED
    BY <1>1, <1>9, <2>1 DEF SignIn, Rotation, SignOut, Otherwise, Signing
<1>10. SpentAfterwards'
  <2> SUFFICES ASSUME signedOut
               PROVE  /\ NoneHeld'
                      /\ jar' \notin accepted'
                      /\ \A d \in Call : call'[d].kind = "logout" => call'[d].pair \notin accepted'
    BY <1>5 DEF SpentAfterwards
  <2>1. /\ NoneHeld /\ jar \notin accepted
        /\ \A d \in Call : call[d].kind = "logout" => call[d].pair \notin accepted
    BY <1>0 DEF SpentAfterwards
  <2>2. jar \in 0..issued
    BY DEF ClientInv, TypeOK
  <2>3. NoPair \in 0..issued /\ NoPair \notin accepted
    BY WebClientAssumption DEF ClientInv, TypeOK, NoPair
  <2>4. \A d \in Call : call[d].pair \in 0..issued
    BY <1>0 DEF Fresh
  <2>5. ASSUME NEW d \in Call, call'[d].kind = "logout" PROVE call'[d].pair \notin accepted'
    BY <1>4, <1>9, <2>1, <2>3, <2>4, <2>5
  <2> QED
    BY <1>5, <1>8, <1>9, <2>1, <2>2, <2>5
<1>11. SpentAtOnce'
  <2> SUFFICES ASSUME NEW d \in Call, LoggedOut(d)'
               PROVE  call'[d].cookie = NoPair /\ NoneHeld' /\ ~signedOut'
    BY DEF SpentAtOnce
  <2>1. CASE d # c
    <3>1. LoggedOut(d) /\ call'[d] = call[d]
      BY <1>3, <1>4, <2>1 DEF Answered
    <3> QED
      BY <1>0, <1>5, <1>8, <3>1 DEF SpentAtOnce
  <2>2. CASE d = c
    <3>1. SignOut(c)
      BY <1>1, <2>2 DEF LoggedOut, SignIn, Rotation, Otherwise, At, Answered
    <3>2. ~signedOut'
      BY <1>0, <1>5, <3>1 DEF SignOut, SpentAfterwards
    <3> QED
      BY <1>6, <2>2, <3>1, <3>2 DEF SignOut, Answered, NoneHeld
  <2> QED
    BY <2>1, <2>2
<1> QED
  BY <1>2, <1>4, <1>7, <1>10, <1>11 DEF SignOutInv

LEMMA ExpireKeepsSignOut ==
  ASSUME ClientInv, SignOutInv, NEW p \in Pair, Expire(p)
  PROVE  SignOutInv'
<1>1. /\ accepted' \subseteq accepted
      /\ UNCHANGED <<jar, issued, live, call, user, timer, signedOut>>
  BY DEF Expire, tabVars
<1>2. \A x : Holds(x)' <=> Holds(x)
  BY <1>1 DEF Holds, NewSession, At
<1>3. Fresh' /\ OneHeld' /\ Alone' /\ Entrance'
  BY <1>1, <1>2 DEF SignOutInv, Fresh, OneHeld, Alone, Entrance, SigningIn, Unused, InFlight, At,
                    Pair, NoPair
<1>4. NoneHeld' <=> NoneHeld
  BY <1>1, <1>2 DEF NoneHeld
<1>5. SpentAfterwards' /\ SpentAtOnce'
  BY <1>1, <1>4 DEF SignOutInv, SpentAfterwards, SpentAtOnce, LoggedOut, At, NoPair
<1> QED
  BY <1>3, <1>5 DEF SignOutInv

------------------------------------------------------------------------------
\* What the tab does to its session

\* The tab may receive the cookies of c; a call that changes holds them, or none.
Moved(c) ==
    /\ UNCHANGED apiVars
    /\ \/ jar' = jar
       \/ jar' = call[c].cookie /\ call'[c].cookie = Keep
    /\ \A d \in Call :
          \/ call'[d] = call[d]
          \/ /\ call'[d].cookie = Keep
             /\ call'[d].pair \in {NoPair, jar'}
             /\ At(d, "idle")' => call'[d].pair = NoPair
             /\ call'[d].pc # "answered"

LEMMA MovedFresh ==
  ASSUME ClientInv, ClientInv', Fresh, NEW c \in Call, Moved(c)
  PROVE  Fresh'
<1>1. issued' = issued /\ live' = live /\ accepted' = accepted /\ jar' \in 0..issued
      /\ issued \in 0..MaxPair
  BY DEF Moved, apiVars, ClientInv, TypeOK
<1>2. Keep \notin Pair /\ NoPair \notin Pair /\ NoPair \in 0..issued /\ Keep \notin 0..issued
  BY <1>1, WebClientAssumption DEF NoPair, Pair, Keep
<1>3. ASSUME NEW d \in Call
      PROVE  /\ call'[d].pair \in 0..issued'
             /\ At(d, "idle")' => call'[d].pair = NoPair /\ call'[d].cookie \notin Pair
  BY <1>1, <1>2 DEF Moved, Fresh, At
<1>4. ASSUME NEW d \in Call, call'[d].cookie \in Pair
      PROVE  /\ call'[d] = call[d]
             /\ call[d].cookie # jar'
  <2>1. call'[d] = call[d]
    BY <1>2, <1>4 DEF Moved
  <2>2. jar' = jar \/ (jar' = call[c].cookie /\ d # c)
    BY <1>2, <1>4 DEF Moved
  <2> QED
    BY <1>4, <2>1, <2>2 DEF Fresh
<1>5. ASSUME NEW d \in Call, call'[d].cookie \in Pair
      PROVE  /\ \A e \in Call : call'[e].pair # call'[d].cookie
             /\ \A e \in Call \ {d} : call'[e].cookie # call'[d].cookie
             /\ call'[d].cookie \in accepted' => call'[d].cookie \in live'
  <2>1. /\ call'[d] = call[d] /\ call[d].cookie # jar' /\ call[d].cookie \in Pair
    BY <1>4, <1>5
  <2>2. \A e \in Call : call'[e].pair \in {call[e].pair, NoPair, jar'}
                        /\ call'[e].cookie \in {call[e].cookie, Keep}
    BY DEF Moved
  <2>3. /\ \A e \in Call : call[e].pair # call[d].cookie
        /\ \A e \in Call \ {d} : call[e].cookie # call[d].cookie
        /\ call[d].cookie \in accepted => call[d].cookie \in live
    BY <2>1 DEF Fresh
  <2> QED
    BY <1>1, <1>2, <2>1, <2>2, <2>3
<1> QED
  BY <1>3, <1>4, <1>5 DEF Fresh

\* What is held was held, or comes from c: from a session that begins, or it was
\* held by the answer.
LEMMA MovedHolds ==
  ASSUME ClientInv, ClientInv', NEW c \in Call, Moved(c), NEW x \in Pair, Holds(x)'
  PROVE  Holds(x) \/ (NewSession(c) /\ x = jar')
<1>1. Keep \notin Pair /\ NoPair \notin Pair
  BY KeepIsNoPair DEF Pair, NoPair
<1>2. ASSUME x = jar' PROVE Holds(x) \/ (NewSession(c) /\ x = jar')
  BY <1>2 DEF Moved, Holds
<1>3. ASSUME NEW d \in Call, call'[d].pair = x PROVE Holds(x) \/ x = jar'
  BY <1>1, <1>3 DEF Moved, Holds
<1>4. ASSUME NEW d \in Call, call'[d].cookie = x, ~NewSession(d)' PROVE Holds(x)
  BY <1>1, <1>4 DEF Moved, Holds, NewSession, At
<1> QED
  BY <1>2, <1>3, <1>4 DEF Holds

\* A step of the tab that begins no session, ends none, and sends no new call.
LEMMA MovedKeepsHeld ==
  ASSUME ClientInv, ClientInv', SignOutInv, NEW c \in Call, Moved(c),
         jar' = jar \/ ~NewSession(c)
  PROVE  /\ \A x \in live' : Holds(x)' => x \in live /\ Holds(x)
         /\ OneHeld' /\ (NoneHeld => NoneHeld')
         /\ signedOut => jar' \notin accepted'
<1>1. live' = live /\ accepted' = accepted /\ live \subseteq Pair /\ Keep \notin Pair
      /\ accepted \subseteq Pair
  <2>1. live \subseteq 1..issued /\ accepted \subseteq 1..issued /\ issued \in 0..MaxPair
    BY DEF ClientInv, TypeOK
  <2> QED
    BY <2>1, KeepIsNoPair, WebClientAssumption DEF Moved, apiVars, Pair
<1>2. ASSUME NEW x \in live', Holds(x)' PROVE x \in live /\ Holds(x)
  <2>1. Holds(x) \/ (NewSession(c) /\ x = jar')
    BY <1>1, <1>2, MovedHolds
  <2>2. Holds(jar)
    BY DEF Holds
  <2> QED
    BY <1>1, <1>2, <2>1, <2>2
<1>3. OneHeld' /\ (NoneHeld => NoneHeld')
  BY <1>2 DEF OneHeld, NoneHeld, SignOutInv
<1>4. ASSUME signedOut PROVE jar' \notin accepted'
  <2>1. CASE jar' = jar
    BY <1>1, <1>4, <2>1 DEF SignOutInv, SpentAfterwards
  <2>2. CASE jar' # jar
    <3>1. jar' = call[c].cookie /\ ~NewSession(c)
      BY <2>2 DEF Moved
    <3>2. Holds(jar')
      BY <3>1 DEF Holds
    <3>3. jar' \notin live
      BY <1>4, <3>2 DEF SignOutInv, SpentAfterwards, NoneHeld
    <3>4. jar' \in Pair => jar' \notin accepted
      BY <3>1, <3>3 DEF SignOutInv, Fresh
    <3> QED
      BY <1>1, <3>4
  <2> QED
    BY <2>1, <2>2
<1> QED
  BY <1>2, <1>3, <1>4

\* Calls go on, or are over.
CallsKept == \A d \in Call : InFlight(d)' => InFlight(d) /\ call'[d].kind = call[d].kind

LEMMA CallsKeptAlone == Alone /\ CallsKept => Alone'
  BY DEF Alone, CallsKept

\* The logouts that have been served are those of before.
LEMMA MovedKeepsServed ==
  ASSUME NEW c \in Call, Moved(c), NEW d \in Call, LoggedOut(d)'
  PROVE  call'[d] = call[d] /\ LoggedOut(d)
  BY DEF Moved, LoggedOut, At

LEMMA MovedKeepsSpent ==
  ASSUME ClientInv, ClientInv', SignOutInv, NEW c \in Call, Moved(c),
         jar' = jar \/ ~NewSession(c), UNCHANGED signedOut
  PROVE  SpentAfterwards' /\ SpentAtOnce' /\ OneHeld' /\ Fresh'
<1>1. /\ OneHeld' /\ (NoneHeld => NoneHeld')
      /\ signedOut => jar' \notin accepted'
  BY MovedKeepsHeld
<1>2. NoPair \notin accepted /\ accepted' = accepted
  BY WebClientAssumption DEF ClientInv, TypeOK, NoPair, Moved, apiVars
<1>3. SpentAfterwards'
  <2> SUFFICES ASSUME signedOut
               PROVE  /\ NoneHeld'
                      /\ jar' \notin accepted'
                      /\ \A d \in Call : call'[d].kind = "logout" => call'[d].pair \notin accepted'
    BY DEF SpentAfterwards
  <2>1. /\ NoneHeld
        /\ \A d \in Call : call[d].kind = "logout" => call[d].pair \notin accepted
    BY DEF SignOutInv, SpentAfterwards
  <2>2. \A d \in Call : call'[d] = call[d] \/ call'[d].pair \in {NoPair, jar'}
    BY DEF Moved
  <2> QED
    BY <1>1, <1>2, <2>1, <2>2
<1>4. SpentAtOnce'
  <2> SUFFICES ASSUME NEW d \in Call, LoggedOut(d)'
               PROVE  call'[d].cookie = NoPair /\ NoneHeld' /\ ~signedOut'
    BY DEF SpentAtOnce
  <2>1. call'[d] = call[d] /\ LoggedOut(d)
    BY MovedKeepsServed
  <2> QED
    BY <1>1, <2>1 DEF SignOutInv, SpentAtOnce
<1> QED
  BY <1>1, <1>3, <1>4, MovedFresh DEF SignOutInv

LEMMA SendMoves ==
  ASSUME TypeOK, NEW c \in Call, NEW k \in Kind, NEW t \in Tab, Send(c, k, t),
         UNCHANGED <<jar, apiVars>>
  PROVE  /\ Moved(c)
         /\ \A d \in Call \ {c} : call'[d] = call[d]
         /\ call'[c].kind = k /\ InFlight(c)' /\ ~InFlight(c)
<1>1. /\ \A d \in Call \ {c} : call'[d] = call[d]
      /\ call'[c] = Blank(k, t, "sent", jar)
      /\ call[c].pc = "idle"
  BY DEF Send, TypeOK, At
<1>2. /\ call'[c].kind = k /\ call'[c].pc = "sent" /\ call'[c].pair = jar
      /\ call'[c].cookie = Keep
  BY <1>1 DEF Blank
<1> QED
  BY <1>1, <1>2 DEF Moved, InFlight, At

LEMMA SettleMoves ==
  ASSUME TypeOK, NEW F \in SUBSET Call, call' = Settle(F)
  PROVE  /\ \A d \in Call \ F : call'[d] = call[d]
         /\ \A d \in F : /\ call'[d].pc = "idle" /\ call'[d].pair = NoPair
                         /\ call'[d].cookie = Keep
<1>1. \A d \in Call \ F : call'[d] = call[d]
  BY DEF Settle
<1>2. ASSUME NEW d \in F
      PROVE  /\ call'[d].pc = "idle" /\ call'[d].pair = NoPair /\ call'[d].cookie = Keep
  <2>1. call'[d] = Blank("data", call[d].tab, "idle", NoPair)
    BY DEF Settle
  <2> QED
    BY <2>1 DEF Blank
<1> QED
  BY <1>1, <1>2

LEMMA ReceiveMoves ==
  ASSUME ClientInv, NEW c \in Call, Receive(c)
  PROVE  /\ Moved(c) /\ CallsKept
         /\ InFlight(c)
         /\ jar' = jar \/ ~NewSession(c) \/ ReceiveOk(c)
<1>0. TypeOK /\ call \in [Call -> CallState]
  BY DEF ClientInv, TypeOK
<1>1. ASSUME ReceiveOk(c) \/ ReceiveError(c)
      PROVE  Moved(c) /\ CallsKept /\ (jar' = jar \/ ReceiveOk(c))
  <2>1. /\ call' = Settle({c}) /\ call[c].pc = "answered" /\ UNCHANGED apiVars
        /\ \/ ReceiveOk(c) /\ jar' \in {jar, call[c].cookie}
           \/ jar' = jar
    BY <1>1 DEF ReceiveOk, ReceiveError, At, StoreCookies
  <2>2. /\ \A d \in Call \ {c} : call'[d] = call[d]
        /\ call'[c].pc = "idle" /\ call'[c].pair = NoPair /\ call'[c].cookie = Keep
    BY <1>0, <2>1, SettleMoves
  <2> QED
    BY <2>1, <2>2 DEF Moved, CallsKept, InFlight, At
<1>2. ASSUME Enqueue(c) PROVE Moved(c) /\ CallsKept /\ jar' = jar
  <2>1. /\ call' = [call EXCEPT ![c] = Blank(call[c].kind, call[c].tab, "queued", NoPair)]
        /\ UNCHANGED <<jar, apiVars>> /\ call[c].pc = "answered"
    BY <1>2 DEF Enqueue, Intercepted, At
  <2>2. /\ \A d \in Call \ {c} : call'[d] = call[d]
        /\ call'[c] = Blank(call[c].kind, call[c].tab, "queued", NoPair)
    BY <1>0, <2>1
  <2>3. /\ call'[c].pc = "queued" /\ call'[c].pair = NoPair /\ call'[c].cookie = Keep
        /\ call'[c].kind = call[c].kind
    BY <2>2 DEF Blank
  <2> QED
    BY <2>1, <2>2, <2>3 DEF Moved, CallsKept, InFlight, At
<1>3. ASSUME BeginRefresh(c) PROVE Moved(c) /\ CallsKept /\ jar' = jar
  <2> DEFINE sent == [Blank(call[c].kind, call[c].tab, "refreshSent", jar) EXCEPT !.retry = TRUE]
  <2>1. call' = [call EXCEPT ![c] = sent]
        /\ UNCHANGED <<jar, apiVars>> /\ call[c].pc = "answered"
    BY <1>3 DEF BeginRefresh, Intercepted, At
  <2>2. (\A d \in Call \ {c} : call'[d] = call[d]) /\ call'[c] = sent
    BY <1>0, <2>1
  <2>3. /\ sent.pc = "refreshSent" /\ sent.pair = jar /\ sent.cookie = Keep
        /\ sent.kind = call[c].kind
    BY DEF Blank
  <2> HIDE DEF sent
  <2> QED
    BY <2>1, <2>2, <2>3 DEF Moved, CallsKept, InFlight, At
<1>4. ASSUME ReceiveRefreshed(c) PROVE Moved(c) /\ CallsKept /\ ~NewSession(c)
  <2> DEFINE t == call[c].tab
             retried == [Blank(call[c].kind, t, "sent", jar') EXCEPT !.retry = TRUE]
             replayed(d) == Blank(call[d].kind, t, "sent", jar')
  <2>1. call[c].pc = "refreshAnswered" /\ UNCHANGED apiVars /\ jar' \in {jar, call[c].cookie}
    BY <1>4 DEF ReceiveRefreshed, At, StoreCookies
  <2>2. /\ call'[c] = retried
        /\ \A d \in Queue(t) \ {c} : call'[d] = replayed(d)
        /\ \A d \in Call \ (Queue(t) \cup {c}) : call'[d] = call[d]
    BY <1>4 DEF ReceiveRefreshed, Queue
  <2>3. /\ retried.pc = "sent" /\ retried.cookie = Keep /\ retried.pair = jar'
        /\ retried.kind = call[c].kind
    BY DEF Blank
  <2>4. \A d : /\ replayed(d).pc = "sent" /\ replayed(d).cookie = Keep
               /\ replayed(d).pair = jar' /\ replayed(d).kind = call[d].kind
    BY DEF Blank
  <2> HIDE DEF retried, replayed
  <2>5. \A d \in Queue(t) \cup {c} : /\ call'[d].pc = "sent" /\ call'[d].cookie = Keep
                                     /\ call'[d].pair = jar' /\ call'[d].kind = call[d].kind
    BY <2>2, <2>3, <2>4
  <2>6. \A d \in Queue(t) \cup {c} : InFlight(d)
    BY <2>1 DEF Queue, InFlight, At
  <2> QED
    BY <2>1, <2>2, <2>5, <2>6 DEF Moved, CallsKept, InFlight, At, NewSession
<1>5. ASSUME ReceiveNotRefreshed(c) PROVE Moved(c) /\ CallsKept /\ jar' = jar
  <2> DEFINE F == Queue(call[c].tab) \cup {c}
  <2>1. call' = Settle(F) /\ UNCHANGED <<jar, apiVars>>
    BY <1>5 DEF ReceiveNotRefreshed, Rejected
  <2>2. F \in SUBSET Call
    BY DEF Queue
  <2> HIDE DEF F
  <2>3. /\ \A d \in Call \ F : call'[d] = call[d]
        /\ \A d \in F : /\ call'[d].pc = "idle" /\ call'[d].pair = NoPair
                        /\ call'[d].cookie = Keep
    BY <1>0, <2>1, <2>2, SettleMoves
  <2> QED
    BY <2>1, <2>3 DEF Moved, CallsKept, InFlight, At
<1>6. InFlight(c)
  BY DEF Receive, ReceiveOk, ReceiveError, Enqueue, BeginRefresh, Intercepted, ReceiveRefreshed,
         ReceiveNotRefreshed, InFlight, At
<1> QED
  BY <1>1, <1>2, <1>3, <1>4, <1>5, <1>6 DEF Receive

------------------------------------------------------------------------------
\* The guards of the page: who signs in has no user, and no other call does.

LEMMA NoSuchCall ==
  ASSUME OneTab, TypeOK, NEW t \in Tab, NEW k, Calls(t, k) = {}
  PROVE  \A d \in Call : InFlight(d) => call[d].kind # k
<1>1. \A d \in Call : call[d].tab = t
  BY DEF OneTab, TypeOK, CallState
<1> QED
  BY <1>1 DEF Calls, InFlight

LEMMA PageSends ==
  ASSUME NEW c \in Call, NEW t \in Tab,
         Login(c, t) \/ CurrentUser(c, t) \/ Fire(c, t) \/ \E k \in Kind : Use(c, t, k)
  PROVE  /\ UNCHANGED <<jar, apiVars, user, signedOut>>
         /\ \E k \in Kind :
               /\ Send(c, k, t)
               /\ \/ /\ k \in {"login", "me"} /\ ~user[t] /\ UNCHANGED timer
                     /\ Calls(t, "login") = {} /\ Calls(t, "me") = {}
                  \/ k = "logout" /\ user[t] /\ Calls(t, "logout") = {} /\ UNCHANGED timer
                  \/ k \in {"data", "update"} /\ user[t] /\ UNCHANGED timer
                  \/ k = "timer" /\ timer[t]
<1>1. UNCHANGED <<jar, apiVars, user, signedOut>>
  BY DEF Login, CurrentUser, Fire, Use, tabVars
<1>2. {"login", "me", "timer"} \subseteq Kind
  BY DEF Kind
<1> DEFINE Sent(k) == /\ Send(c, k, t)
                      /\ \/ /\ k \in {"login", "me"} /\ ~user[t] /\ UNCHANGED timer
                            /\ Calls(t, "login") = {} /\ Calls(t, "me") = {}
                         \/ k = "logout" /\ user[t] /\ Calls(t, "logout") = {}
                                         /\ UNCHANGED timer
                         \/ k \in {"data", "update"} /\ user[t] /\ UNCHANGED timer
                         \/ k = "timer" /\ timer[t]
<1>3. Login(c, t) => Sent("login")
  BY DEF Login, tabVars
<1>4. CurrentUser(c, t) => Sent("me")
  BY DEF CurrentUser, tabVars
<1>5. Fire(c, t) => Sent("timer")
  BY DEF Fire
<1>6. ASSUME NEW k \in Kind, Use(c, t, k) PROVE Sent(k)
  BY <1>6 DEF Use, tabVars
<1>7. \E k \in Kind : Sent(k)
  <2> HIDE DEF Sent
  <2> QED
    BY <1>2, <1>3, <1>4, <1>5, <1>6
<1> QED
  BY <1>1, <1>7

LEMMA PageKeepsSignOut ==
  ASSUME OneTab, ClientInv, ClientInv', SignOutInv, NEW c \in Call, NEW t \in Tab,
         Login(c, t) \/ CurrentUser(c, t) \/ Fire(c, t) \/ \E k \in Kind : Use(c, t, k)
  PROVE  SignOutInv'
<1>1. UNCHANGED <<jar, apiVars, user, signedOut>>
  BY PageSends
<1>2. PICK k \in Kind :
         /\ Send(c, k, t)
         /\ \/ /\ k \in {"login", "me"} /\ ~user[t] /\ UNCHANGED timer
               /\ Calls(t, "login") = {} /\ Calls(t, "me") = {}
            \/ k = "logout" /\ user[t] /\ Calls(t, "logout") = {} /\ UNCHANGED timer
            \/ k \in {"data", "update"} /\ user[t] /\ UNCHANGED timer
            \/ k = "timer" /\ timer[t]
  BY PageSends
<1>3. /\ Moved(c)
      /\ \A d \in Call \ {c} : call'[d] = call[d]
      /\ call'[c].kind = k /\ InFlight(c)' /\ ~InFlight(c)
  BY <1>1, <1>2, SendMoves DEF ClientInv
<1>4. SpentAfterwards' /\ SpentAtOnce' /\ OneHeld' /\ Fresh'
  BY <1>1, <1>3, MovedKeepsSpent
<1>5. \A d \in Call \ {c} : (InFlight(d)' <=> InFlight(d)) /\ call'[d].kind = call[d].kind
  BY <1>3 DEF InFlight, At
<1>6. \A j : Calls(t, j) = {} => \A d \in Call : InFlight(d) => call[d].kind # j
  BY NoSuchCall DEF ClientInv
<1>7. Alone'
  <2>1. k \in {"login", "me"} =>
           \A d \in Call : InFlight(d) => call[d].kind \notin {"login", "me"}
    BY <1>2, <1>6
  <2>2. k = "logout" => \A d \in Call : InFlight(d) => call[d].kind # "logout"
    BY <1>2, <1>6
  <2> QED
    BY <1>3, <1>5, <2>1, <2>2 DEF Alone, SignOutInv
<1>8. Entrance'
  <2>1. CASE k \in {"login", "me"}
    <3>1. UNCHANGED <<user, timer, signedOut>> /\ (Unused \/ signedOut)
      BY <1>1, <1>2, <2>1 DEF SignOutInv, Entrance
    <3>2. Unused => Unused'
      BY <1>3, <1>5, <2>1, <3>1 DEF Unused
    <3> QED
      BY <3>1, <3>2 DEF Entrance
  <2>2. CASE k \notin {"login", "me"}
    <3>1. ~Unused
      BY <1>2, <2>2 DEF Unused
    <3>2. SigningIn' => SigningIn
      BY <1>3, <1>5, <2>2 DEF SigningIn
    <3> QED
      BY <1>1, <3>1, <3>2 DEF Entrance, SignOutInv
  <2> QED
    BY <2>1, <2>2
<1> QED
  BY <1>4, <1>7, <1>8 DEF SignOutInv

\* The session of a sign-in begins: nothing of an earlier one is held.
LEMMA SignedInKeepsSignOut ==
  ASSUME OneTab, ClientInv, ClientInv', SignOutInv, NEW c \in Call, ReceiveOk(c),
         call[c].kind = "login"
  PROVE  SignOutInv'
<1>1. Moved(c) /\ CallsKept /\ InFlight(c)
  BY ReceiveMoves DEF Receive
<1>2. call[c].tab \in Tab /\ \A t \in Tab : t = call[c].tab
  BY DEF OneTab, ClientInv, TypeOK, CallState
<1>3. ~signedOut' /\ \A t \in Tab : user'[t]
  BY <1>2 DEF ReceiveOk, Succeed, ClientInv, TypeOK
<1>4. /\ \A d \in Call \ {c} : call'[d] = call[d]
      /\ call'[c].pc = "idle" /\ call'[c].pair = NoPair /\ call'[c].cookie = Keep
  BY SettleMoves DEF ReceiveOk, ClientInv
<1>5. Alone'
  BY <1>1, CallsKeptAlone DEF SignOutInv
<1>6. Entrance'
  <2>1. ~SigningIn'
    <3> SUFFICES ASSUME NEW d \in Call, InFlight(d)', call'[d].kind = "login" PROVE FALSE
      BY DEF SigningIn
    <3>1. d # c /\ InFlight(d) /\ call[d].kind = "login"
      BY <1>1, <1>4 DEF CallsKept, InFlight, At
    <3> QED
      BY <1>1, <3>1 DEF SignOutInv, Alone
  <2> QED
    BY <1>3, <2>1 DEF Entrance
<1>7. Unused \/ signedOut
  BY <1>1 DEF SignOutInv, Entrance, SigningIn
<1>8. live \subseteq Pair /\ live' = live /\ Keep \notin Pair /\ NoPair \notin Pair
  <2>1. live \subseteq 1..issued /\ issued \in 0..MaxPair
    BY DEF ClientInv, TypeOK
  <2> QED
    BY <1>1, <2>1, KeepIsNoPair, WebClientAssumption DEF Moved, apiVars, Pair, NoPair
<1>9. \A x \in live' : Holds(x)' => x = jar'
  <2> SUFFICES ASSUME NEW x \in live', Holds(x)' PROVE x = jar'
    OBVIOUS
  <2>1. CASE signedOut
    <3>1. Holds(x) \/ x = jar'
      BY <1>1, <1>8, MovedHolds
    <3> QED
      BY <1>8, <2>1, <3>1 DEF SignOutInv, SpentAfterwards, NoneHeld
  <2>2. CASE Unused
    <3>1. \A d \in Call \ {c} : ~InFlight(d)
      BY <1>1, <2>2 DEF Unused, SignOutInv, Alone, ReceiveOk
    <3>2. \A d \in Call : call'[d].pair = NoPair /\ call'[d].cookie \notin Pair
      BY <1>4, <1>8, <3>1 DEF SignOutInv, Fresh, InFlight
    <3> QED
      BY <1>8, <3>2 DEF Holds
  <2> QED
    BY <1>7, <2>1, <2>2
<1>10. OneHeld'
  BY <1>9 DEF OneHeld
<1>11. SpentAtOnce'
  <2> SUFFICES ASSUME NEW d \in Call, LoggedOut(d)' PROVE FALSE
    BY DEF SpentAtOnce
  <2>1. LoggedOut(d)
    BY <1>1, MovedKeepsServed
  <2>2. InFlight(d) /\ call[d].kind = "logout" /\ ~signedOut
    BY <2>1 DEF LoggedOut, InFlight, At, SignOutInv, SpentAtOnce
  <2> QED
    BY <1>7, <2>2 DEF Unused
<1> QED
  BY <1>1, <1>3, <1>5, <1>6, <1>10, <1>11, MovedFresh DEF SignOutInv, SpentAfterwards

\* The answer to a logout is received.
LEMMA SignedOutKeepsSignOut ==
  ASSUME OneTab, ClientInv, ClientInv', SignOutInv, NEW c \in Call, ReceiveOk(c),
         call[c].kind = "logout"
  PROVE  SignOutInv'
<1>1. Moved(c) /\ CallsKept /\ InFlight(c) /\ ~NewSession(c)
  BY ReceiveMoves DEF Receive, NewSession
<1>2. LoggedOut(c) /\ signedOut'
  BY DEF LoggedOut, ReceiveOk, Succeed
<1>3. call[c].cookie = NoPair /\ NoneHeld /\ ~signedOut
  BY <1>2 DEF SignOutInv, SpentAtOnce
<1>4. jar' = NoPair
  BY <1>3, KeepIsNoPair DEF ReceiveOk, StoreCookies
<1>5. OneHeld' /\ NoneHeld'
  BY <1>1, <1>3, MovedKeepsHeld
<1>6. Alone'
  BY <1>1, CallsKeptAlone DEF SignOutInv
<1>7. \A d \in Call : InFlight(d)' => call'[d].kind # "logout"
  <2> SUFFICES ASSUME NEW d \in Call, InFlight(d)', call'[d].kind = "logout" PROVE FALSE
    OBVIOUS
  <2>1. InFlight(d) /\ call[d].kind = "logout"
    BY <1>1 DEF CallsKept
  <2>2. call'[c].pc = "idle"
    BY SettleMoves DEF ReceiveOk, ClientInv
  <2>3. d # c
    BY <2>2 DEF InFlight, At
  <2> QED
    BY <1>1, <2>1, <2>3 DEF SignOutInv, Alone
<1>8. NoPair \notin accepted'
  BY <1>1, WebClientAssumption DEF ClientInv, TypeOK, NoPair, Moved, apiVars
<1>9. Fresh'
  BY <1>1, MovedFresh DEF SignOutInv
<1>10. SpentAfterwards'
  <2>1. \A d \in Call : call'[d].kind = "logout" => call'[d].pair = NoPair
    BY <1>7, <1>9 DEF Fresh, InFlight
  <2> QED
    BY <1>4, <1>5, <1>8, <2>1 DEF SpentAfterwards
<1>11. SpentAtOnce'
  BY <1>7 DEF SpentAtOnce, LoggedOut, InFlight, At
<1> QED
  BY <1>2, <1>5, <1>6, <1>9, <1>10, <1>11 DEF SignOutInv, Entrance

\* Any other answer.  A logout that was refused counts as a failure.
LEMMA OthersKeepEntrance ==
  ASSUME OneTab, ClientInv, SignOutInv, NEW c \in Call, Receive(c), ~failed',
         ReceiveOk(c) => call[c].kind \notin {"login", "logout"}
  PROVE  Entrance' /\ UNCHANGED signedOut
<1>1. CallsKept /\ InFlight(c)
  BY ReceiveMoves
<1>2. call[c].tab \in Tab /\ \A t \in Tab : t = call[c].tab
  BY DEF OneTab, ClientInv, TypeOK, CallState
<1>3. SigningIn' => SigningIn
  BY <1>1 DEF SigningIn, CallsKept
<1>4. (\A t \in Tab : ~timer[t] => ~timer'[t]) /\ UNCHANGED user => (Unused => Unused')
  BY <1>1 DEF Unused, CallsKept
<1>5. ASSUME \A t \in Tab : user[t] => user'[t], \A t \in Tab : user'[t] => user[t],
             \A t \in Tab : ~timer[t] => ~timer'[t], UNCHANGED signedOut
      PROVE  Entrance'
  <2>1. Unused => Unused'
    BY <1>1, <1>5 DEF Unused, CallsKept
  <2> QED
    BY <1>3, <1>5, <2>1 DEF SignOutInv, Entrance
<1>6. CASE ReceiveOk(c)
  <2> DEFINE k == call[c].kind
  <2>1. k \in {"me", "data", "update", "timer"}
    BY <1>6 DEF ClientInv, TypeOK, CallState, Kind
  <2>2. UNCHANGED signedOut
    BY <1>6, <2>1 DEF ReceiveOk, Succeed
  <2>3. CASE k \in {"me", "update"}
    <3>1. \A t \in Tab : user'[t]
      BY <1>2, <1>6, <2>3 DEF ReceiveOk, Succeed, ClientInv, TypeOK
    <3>2. SigningIn => signedOut
      <4> SUFFICES ASSUME NEW d \in Call, InFlight(d), call[d].kind = "login" PROVE signedOut
        BY DEF SigningIn
      <4>1. k = "update"
        BY <1>1, <2>3 DEF SignOutInv, Alone
      <4>2. ~Unused
        BY <1>1, <4>1 DEF Unused
      <4> QED
        BY <4>2 DEF SignOutInv, Entrance, SigningIn
    <3> QED
      BY <1>3, <2>2, <3>1, <3>2 DEF Entrance
  <2>4. CASE k = "timer"
    <3>1. UNCHANGED user
      BY <1>6, <2>4 DEF ReceiveOk, Succeed, ClientInv, TypeOK
    <3>2. ~Unused
      BY <1>1, <2>4 DEF Unused
    <3> QED
      BY <1>3, <2>2, <3>1, <3>2 DEF SignOutInv, Entrance
  <2>5. CASE k = "data"
    <3>1. UNCHANGED <<user, timer>>
      BY <1>6, <2>5 DEF ReceiveOk, Succeed, ClientInv, TypeOK
    <3> QED
      BY <1>5, <2>2, <3>1
  <2> QED
    BY <2>1, <2>2, <2>3, <2>4, <2>5
<1>7. ASSUME NEW F, NEW t, FailAll(F, t) PROVE Entrance' /\ UNCHANGED signedOut
  <2> DEFINE kinds == {call[d].kind : d \in F}
  <2>1. /\ "logout" \notin kinds /\ UNCHANGED signedOut
        /\ user' = [user EXCEPT ![t] = user[t] /\ "logout" \notin kinds]
        /\ timer' = [timer EXCEPT ![t] = timer[t] /\ kinds \cap {"logout", "timer"} = {}]
    BY <1>7 DEF FailAll
  <2> HIDE DEF kinds
  <2>2. user \in [Tab -> BOOLEAN] /\ timer \in [Tab -> BOOLEAN]
    BY DEF ClientInv, TypeOK
  <2>3. \A u \in Tab : (user'[u] <=> user[u]) /\ (timer'[u] => timer[u])
    BY <2>1, <2>2
  <2> QED
    BY <1>5, <2>1, <2>3
<1>8. CASE Enqueue(c) \/ BeginRefresh(c) \/ ReceiveRefreshed(c)
  <2>1. UNCHANGED <<user, timer, signedOut>>
    BY <1>8 DEF Enqueue, BeginRefresh, ReceiveRefreshed, tabVars
  <2> QED
    BY <1>5, <2>1
<1> QED
  BY <1>6, <1>7, <1>8 DEF Receive, ReceiveError, ReceiveNotRefreshed

LEMMA ReceiveKeepsSignOut ==
  ASSUME OneTab, ClientInv, ClientInv', SignOutInv, NEW c \in Call, Receive(c), ~failed'
  PROVE  SignOutInv'
<1>1. CASE ReceiveOk(c) /\ call[c].kind = "login"
  BY <1>1, SignedInKeepsSignOut
<1>2. CASE ReceiveOk(c) /\ call[c].kind = "logout"
  BY <1>2, SignedOutKeepsSignOut
<1>3. CASE ReceiveOk(c) => call[c].kind \notin {"login", "logout"}
  <2>1. Moved(c) /\ CallsKept /\ (jar' = jar \/ ~NewSession(c))
    BY <1>3, ReceiveMoves DEF NewSession
  <2>2. Entrance' /\ UNCHANGED signedOut
    BY <1>3, OthersKeepEntrance
  <2>3. Alone'
    BY <2>1, CallsKeptAlone DEF SignOutInv
  <2> QED
    BY <2>1, <2>2, <2>3, MovedKeepsSpent DEF SignOutInv
<1> QED
  BY <1>1, <1>2, <1>3

LEMMA NextKeepsSignOut ==
  ASSUME OneTab, ClientInv, ClientInv', failed \/ SignOutInv, [Next]_vars
  PROVE  failed' \/ SignOutInv'
<1> SUFFICES ASSUME ~failed' PROVE SignOutInv'
  OBVIOUS
<1>1. ~failed
  <2>1. ASSUME NEW F, NEW t, FailAll(F, t) PROVE failed => failed'
    BY <2>1 DEF FailAll
  <2>2. ASSUME NEW c \in Call, Receive(c) PROVE failed => failed'
    BY <2>1, <2>2 DEF Receive, ReceiveOk, Succeed, ReceiveError, Enqueue, BeginRefresh,
                      ReceiveRefreshed, ReceiveNotRefreshed
  <2>3. ASSUME NEW c \in Call, Serve(c) \/ LoseAnswer(c) PROVE failed => failed'
    BY <2>3 DEF Serve, ServeError, LoseAnswer
  <2>4. ASSUME NEW p \in Pair, Expire(p) PROVE failed => failed'
    BY <2>4 DEF Expire
  <2> QED
    BY <2>2, <2>3, <2>4 DEF Next, vars
<1>2. SignOutInv
  BY <1>1
<1>3. ASSUME UNCHANGED vars PROVE SignOutInv'
  BY <1>2, <1>3 DEF vars, apiVars, tabVars, SignOutInv, Fresh, OneHeld, Alone, Entrance, SigningIn,
       Unused, SpentAfterwards, SpentAtOnce, LoggedOut, NoneHeld, Holds, NewSession, InFlight, At,
       Pair, NoPair
<1>4. \A c \in Call : ~LoseAnswer(c)
  BY DEF LoseAnswer
<1> QED
  BY <1>2, <1>3, <1>4, PageKeepsSignOut, ServeKeepsSignOut, ExpireKeepsSignOut, ReceiveKeepsSignOut
     DEF Next

\* In a browser with one tab in which every call succeeds, a sign-out that was
\* answered with 200 is final: whatever refreshes, replays and second sign-outs
\* were on their way, no answer brings an active refresh token back.
THEOREM SignOutIsFinal == ASSUME OneTab PROVE Spec => []SignedOutForGood
<1>1. Init => failed \/ SignOutInv
  BY InitIsSignOutInv
<1>2. ClientInv /\ ClientInv' /\ (failed \/ SignOutInv) /\ [Next]_vars => failed' \/ SignOutInv'
  BY NextKeepsSignOut
<1>3. failed \/ SignOutInv => SignedOutForGood
  <2>1. Holds(jar)
    BY DEF Holds
  <2> QED
    BY <2>1 DEF SignOutInv, SpentAfterwards, NoneHeld, SignedOutForGood
<1> DEFINE Inv == failed \/ SignOutInv
<1>4. Inv' <=> failed' \/ SignOutInv'
  OBVIOUS
<1> HIDE DEF Inv
<1>5. Init => Inv
  BY <1>1 DEF Inv
<1>6. ClientInv /\ ClientInv' /\ Inv /\ [Next]_vars => Inv'
  BY <1>2, <1>4 DEF Inv
<1>7. Inv => SignedOutForGood
  BY <1>3 DEF Inv
<1> QED
  BY <1>5, <1>6, <1>7, ClientAlways, PTL DEF Spec
=============================================================================
