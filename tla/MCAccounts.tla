----------------------------- MODULE MCAccounts -----------------------------
(***************************************************************************)
(* Small instances of Accounts for TLC.                                    *)
(***************************************************************************)
EXTENDS Accounts, TLC

CONSTANTS e1, e2, g1, g2

\* Two profiles with the email e1: an address that has changed hands at Google.
MCEmail == {e1, e2}
MCGoogleId == {g1, g2}
MCEmailOf == [g \in MCGoogleId |-> e1]

\* The values of each of these sets are alike, under any EmailOf that is constant.
Symmetry == Permutations(User) \cup Permutations(Token) \cup Permutations(Request)
            \cup Permutations(GoogleId)
==============================================================================
