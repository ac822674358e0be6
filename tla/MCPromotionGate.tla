-------------------------- MODULE MCPromotionGate --------------------------
(* Instances of PromotionGate for TLC.                                     *)
EXTENDS PromotionGate, TLC

CONSTANTS p1, p2, w1, w2, d1, d2, i1, i2

OneOrTwoCases == {<<d1>>, <<d1, d2>>}

\* Plans, worlds and witnesses are only ever compared for equality.
Interchangeable ==
  Permutations({p1, p2}) \cup Permutations({w1, w2}) \cup Permutations({i1, i2})
=============================================================================
