----------------------------- MODULE MCWorkflow -----------------------------
(* A small instance of Workflow. *)
EXTENDS Workflow, TLC

CONSTANTS w1, w2, c1, c2, e1, e2

Symmetry == Permutations({w1, w2}) \cup Permutations({c1, c2}) \cup Permutations({e1, e2})

=============================================================================
