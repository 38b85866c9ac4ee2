---------------------------- MODULE SessionFamily ----------------------------
(***************************************************************************)
(* What refresh-token rotation promises, with the collections, the         *)
(* requests and their database calls left out.                             *)
(*                                                                         *)
(* A login starts a FAMILY: the chain of sessions that replace one another *)
(* each time POST /auth/refresh trades a refresh token for the next one.   *)
(* A family is "live" while one of its refresh tokens is accepted,         *)
(* "rotating" while a request has consumed that token and has not stored   *)
(* its successor yet, and "ended" for ever once neither is the case.       *)
(*                                                                         *)
(* Logging out, signing out everywhere, a password change or the detection *)
(* of a reused token may end any number of live families at once.  They do *)
(* not reach a rotating one: its token is already spent, and its successor *)
(* is not in the database to be found.                                     *)
(***************************************************************************)
CONSTANT Family

VARIABLE state

FamilyState == {"unborn", "live", "rotating", "ended"}

Init == state = [f \in Family |-> "unborn"]

\* A user proves who they are and gets the first session of a new family.
Begin(f) == /\ state[f] = "unborn"
            /\ state' = [state EXCEPT ![f] = "live"]

\* A refresh consumes the family's one accepted token ...
Consume(f) == /\ state[f] = "live"
              /\ state' = [state EXCEPT ![f] = "rotating"]

\* ... and hands out its successor,
Renew(f) == /\ state[f] = "rotating"
            /\ state' = [state EXCEPT ![f] = "live"]

\* or fails on the way, which ends the family.
Lose(f) == /\ state[f] = "rotating"
           /\ state' = [state EXCEPT ![f] = "ended"]

Live == {f \in Family : state[f] = "live"}

\* A revocation ends any of the live families.
End(F) == state' = [f \in Family |-> IF f \in F THEN "ended" ELSE state[f]]

Next == \/ \E F \in SUBSET Live : End(F)
        \/ \E f \in Family : Begin(f) \/ Consume(f) \/ Renew(f) \/ Lose(f)

Spec == Init /\ [][Next]_state
==============================================================================
