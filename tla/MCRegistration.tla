--------------------------- MODULE MCRegistration ---------------------------
(* A small instance of Registration. *)
EXTENDS Registration, TLC

CONSTANTS r1, r2, i1, i2, p1, p2, x1

Symmetry == Permutations({r1, r2}) \cup Permutations({i1, i2}) \cup Permutations({p1, p2})

=============================================================================
