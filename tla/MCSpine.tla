------------------------------ MODULE MCSpine ------------------------------
(* Three transformations: two checkpoints after the second, in the plan's  *)
(* order on either side of the one after the third, and none after the     *)
(* first.                                                                  *)
EXTENDS Spine

Boundaries == <<2, 3, 2>>
=============================================================================
