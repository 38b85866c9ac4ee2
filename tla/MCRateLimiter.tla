---------------------------- MODULE MCRateLimiter ----------------------------
(***************************************************************************)
(* Small instances of RateLimiter for TLC: the constants are in the .cfg.  *)
(***************************************************************************)
EXTENDS RateLimiter
==============================================================================
