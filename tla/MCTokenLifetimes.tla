-------------------------- MODULE MCTokenLifetimes --------------------------
(***************************************************************************)
(* A small instance of TokenLifetimes for TLC: the units are a few seconds *)
(* long, two instants to the second.                                       *)
(***************************************************************************)
EXTENDS TokenLifetimes, TLC

CONSTANTS s1, s2, o1, o2

MCSession == {s1, s2}
MCOp == {o1, o2}
MCSymmetry == Permutations(MCSession) \cup Permutations(MCOp)
MCSeconds == [s |-> 1, m |-> 2, h |-> 3, d |-> 4, w |-> 5]
MCSetting == {[amount |-> 1, word |-> "s"], [amount |-> 1, word |-> "min"],
              [amount |-> 1, word |-> "days"]}
=============================================================================
