---------------------------- MODULE MCAttackLoop ----------------------------
(* Instances of AttackLoop. *)
EXTENDS Session

CONSTANTS a1, a2

One == {a1}
Two == {a1, a2}
Answers == {"Block", "Ignore"}
=============================================================================
