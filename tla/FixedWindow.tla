---------------------------- MODULE FixedWindow ----------------------------
(***************************************************************************)
(* A Redis counter with a time to live, as incrWithExpiry of               *)
(* apps/api/src/config/redis/redis.ts uses it: MULTI; INCR; EXPIRE NX.     *)
(* The two commands are one atomic step of Redis, for the rate limiter and *)
(* for the attempts at a password reset code.                              *)
(***************************************************************************)
EXTENDS Naturals

\* A key: its value and the ticks until Redis drops it.  A key that is not
\* there has neither.
NoKey == [n |-> 0, ttl |-> 0]

Key(cap, seconds) == [n : 0..cap, ttl : 0..seconds]

\* Mutant: EXPIRE without NX, which starts the window anew on every hit.
IncrSlidingExpiry(k, seconds, cap) ==
    [n |-> IF k.n < cap THEN k.n + 1 ELSE cap, ttl |-> seconds]

\* INCR creates a key that is not there; EXPIRE NX gives a TTL only to a key
\* that has none.  cap is the bound on the value: callers compare it with a
\* limit below cap, and above the limit all values are alike to them.
IncrWithExpiry(k, seconds, cap) ==
    [n |-> IF k.n < cap THEN k.n + 1 ELSE cap,
     ttl |-> IF k.ttl = 0 THEN seconds ELSE k.ttl]

\* One tick of Redis's clock.
Elapse(k) == IF k.ttl <= 1 THEN NoKey ELSE [n |-> k.n, ttl |-> k.ttl - 1]
==============================================================================
