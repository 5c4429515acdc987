----------------------------- MODULE MCOffering -----------------------------
(* Instances of Offering for TLC. *)
EXTENDS Offering, TLC

CONSTANTS r1, r2, e1, e2, c1, c2, b1, b2, u1, cash, revenue, current

Taking(c, o, k) == [cash |-> c, other |-> o, contributed |-> k]
CashOnly == {Taking(2, 0, 0)}
\* The credit is the total or the contributions: two cents or a cent off.
UnevenTakings == {Taking(3, 2, 2)}

OneMapping == {[cash |-> cash, revenue |-> revenue]}
AllLines == UNION {PostLines(t) : t \in Takings}

OfferingSymmetry == Permutations(Requests) \cup Permutations(EntryIds)
                    \cup Permutations(Clerks) \cup Permutations(Batches)
=============================================================================
