---------------------------- MODULE MCMembership ----------------------------
(* A small instance of Membership: every branch has a code of its own. *)
EXTENDS Membership, TLC

CONSTANTS r1, r2, m1, m2, m3, b1, b2, t1

Own == [b \in Branches \cup {NoBranch} |-> b]
SecondOfEach == [code : Branches, number : {2}]

Symmetry == Permutations({r1, r2}) \cup Permutations({m1, m2, m3})
SymmetryOfTwo == Permutations({r1, r2}) \cup Permutations({m1, m2}) \cup Permutations({b1, b2})

=============================================================================
