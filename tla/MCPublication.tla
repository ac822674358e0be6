--------------------------- MODULE MCPublication ---------------------------
(***************************************************************************)
(* Instances of Publication for TLC: two candidates ready under different  *)
(* profiles, and one the gate refuses whatever the policy.                 *)
(***************************************************************************)
EXTENDS Publication, TLC

CONSTANTS a, b, bad, f1, f2, p1, p2

MCProfileOf == [c \in Candidate |-> IF c = a THEN f1 ELSE f2]
MCSound == Candidate \ {bad}

\* Publishers differ in nothing but the requests they make, and the two sound
\* candidates, each with its profile, in nothing but their names.
Exchanged == [x \in {a, b, f1, f2} |->
                CASE x = a -> b [] x = b -> a [] x = f1 -> f2 [] x = f2 -> f1]

Interchangeable == Permutations({p1, p2}) \cup {Exchanged}
=============================================================================
