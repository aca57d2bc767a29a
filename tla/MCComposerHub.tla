-------------------------- MODULE MCComposerHub --------------------------
(* One package.  The first metadata lists r1; the second one no longer     *)
(* does, but lists r2, whose archive differs from the one of r1 in the     *)
(* query only, as the archive URLs of a GitLab project do.                 *)
EXTENDS ComposerHub, TLC

CONSTANTS r1, r2, archive, q1, q2

MCListed == [v \in Versions |-> IF v = 1 THEN r1 :> <<archive, q1>>
                                         ELSE r2 :> <<archive, q2>>]
Symmetry == Permutations(Clients)
=============================================================================
