------------------------------ MODULE MCServer ------------------------------
(***************************************************************************)
(* A small instance of Server for TLC: two connections, three requests for *)
(* any of the routes but those whose stages are all in another's chain.    *)
(***************************************************************************)
EXTENDS Server

CONSTANTS c1, c2

MCConnection == {c1, c2}
MCRoutes == Route \ {"public", "session", "verify"}
MCModes == BOOLEAN
=============================================================================
