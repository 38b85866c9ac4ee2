---------------------------- MODULE MCWebClient ----------------------------
(***************************************************************************)
(* Small instances of WebClient for TLC: the constants are in the .cfg.    *)
(***************************************************************************)
EXTENDS WebClient
=============================================================================
