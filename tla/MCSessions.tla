------------------------------ MODULE MCSessions ------------------------------
(***************************************************************************)
(* Small instances of Sessions for TLC.                                    *)
(***************************************************************************)
EXTENDS Sessions, TLC

CONSTANTS u1, u2, s1, s2, s3, r1, r2

MCUser == {u1, u2}
MCAdmin == {u1}
MCSession == {s1, s2, s3}
MCOneUser == {u2}
MCNoAdmin == {}
MCTwoSessions == {s1, s2}
MCRequest == {r1, r2}

\* Session ids and request slots are interchangeable; the users are not, since
\* one of them is an admin.
MCSymmetry == Permutations(MCSession) \cup Permutations(MCRequest)
==============================================================================
