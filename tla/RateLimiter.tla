---------------------------- MODULE RateLimiter ----------------------------
(***************************************************************************)
(* rateLimitMiddleware of apps/api/src/middlewares/rateLimit.middleware.ts *)
(* over rateLimiter of apps/api/src/config/redis/redis.ts, for one key: a  *)
(* route, and the user or the address that calls it.  Keys do not share    *)
(* anything, so one stands for all.                                        *)
(***************************************************************************)
EXTENDS FixedWindow, FiniteSets

CONSTANTS
    Limit,      \* requests per window
    Window,     \* its length in ticks
    MaxFailures \* the bound on the calls that Redis fails

ASSUME RateLimiterAssumption ==
    /\ Limit \in Nat \ {0}
    /\ Window \in Nat \ {0}
    /\ MaxFailures \in Nat

VARIABLES
    key,        \* the counter in Redis
    opened,     \* history: requests admitted since the window was opened
    recent,     \* history: requests admitted 0, 1, ... Window - 1 ticks ago
    answer,     \* what became of the last request
    failures    \* calls that Redis has failed

vars == <<key, opened, recent, answer, failures>>

\* The bound on the counter: one more than the limit is denied like the rest.
Cap == Limit + 1

\* The counter, the histories and the answers have their declared shapes.
TypeOK ==
    /\ key \in Key(Cap, Window)
    /\ opened \in Nat
    /\ recent \in [0..(Window - 1) -> Nat]
    /\ answer \in {"none", "next", "tooManyRequests"}
    /\ failures \in 0..MaxFailures

Init ==
    /\ key = NoKey
    /\ opened = 0
    /\ recent = [i \in 0..(Window - 1) |-> 0]
    /\ answer = "none"
    /\ failures = 0

\* Mutant: the count compared before it is incremented.
AllowedBefore(count) == count <= Limit + 1

Allowed(count) == count <= Limit

\* Admissions so far in the window a hit belongs to.
OpenedBefore == IF key.ttl = 0 THEN 0 ELSE opened

Admit ==
    /\ answer' = "next"
    /\ opened' = OpenedBefore + 1
    /\ recent' = [recent EXCEPT ![0] = @ + 1]

Deny ==
    /\ answer' = "tooManyRequests"
    /\ opened' = OpenedBefore
    /\ UNCHANGED recent

\* Mutants: the window handed over in a larger and in a smaller unit.
ShortWindow == 1
LongWindow == 1000 * Window

WindowSeconds == Window

Hit ==
    /\ key' = IncrWithExpiry(key, WindowSeconds, Cap)
    /\ IF Allowed(key'.n) THEN Admit ELSE Deny
    /\ UNCHANGED failures

\* The call to Redis rejects: the limiter fails closed.  The commands may have
\* been executed all the same, their reply lost.
HitUnavailable ==
    /\ failures < MaxFailures
    /\ failures' = failures + 1
    /\ \/ UNCHANGED <<key, opened>>
       \/ /\ key' = IncrWithExpiry(key, WindowSeconds, Cap)
          /\ opened' = OpenedBefore
    /\ answer' = "tooManyRequests"
    /\ UNCHANGED recent

Tick ==
    /\ key' = Elapse(key)
    /\ recent' = [i \in 0..(Window - 1) |-> IF i = 0 THEN 0 ELSE recent[i - 1]]
    /\ UNCHANGED <<opened, answer, failures>>

Next == Hit \/ HitUnavailable \/ Tick

Spec == Init /\ [][Next]_vars

\* Time passes, a client goes on asking, and Redis is back in the end.
FairSpec == Spec /\ WF_vars(Tick) /\ WF_vars(Hit)

------------------------------------------------------------------------------
\* No window admits more than its limit, whether or not Redis answers.
WindowCap == opened <= Limit

\* The requests admitted as long ago as a window, one pair of age and number each.
InLastWindow == UNION {{age} \X (1..recent[age]) : age \in 0..(Window - 1)}

\* Windows start at a first hit and not on the clock, and still no stretch of
\* time as long as a window sees more than two windows' worth.
BoundaryBurst == Cardinality(InLastWindow) <= 2 * Limit

\* A client is never shut out for good: however often it is denied, denials do
\* not extend the window (redis.ts, "instead of sliding on every hit").
KeepsAdmitting == []<><<Hit /\ answer' = "next">>_vars
==============================================================================
