--------------------------- MODULE MCSubscription ---------------------------
(* Small instances of SubscriptionHistory. *)
EXTENDS SubscriptionHistory, TLC

CONSTANTS r1, r2, s1, s2, s3, o1

TrialAndPaid == {[length |-> 1, trial |-> 0], [length |-> 2, trial |-> 1]}
PaidOnly == {[length |-> 1, trial |-> 0]}

Symmetry == Permutations({r1, r2}) \cup Permutations({s1, s2, s3})

=============================================================================
