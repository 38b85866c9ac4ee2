---------------------------- MODULE MCAdminUsers ----------------------------
(***************************************************************************)
(* A small instance of AdminUsers for TLC: two admins, the second of whom  *)
(* registers, and pages of one row.                                        *)
(***************************************************************************)
EXTENDS AdminUsers

CONSTANTS a1, a2

MCAccount == {a1, a2}
MCRegistered == {<<a1>>}
MCSearched == {a2}
=============================================================================
