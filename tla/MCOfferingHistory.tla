-------------------------- MODULE MCOfferingHistory --------------------------
(* Instances of OfferingHistory for TLC. *)
EXTENDS OfferingHistory, TLC

CONSTANTS r1, r2, e1, e2, e3, c1, c2, b1, b2, u1, cash, revenue, current, savings

\* Cash and a cheque, credited to the account the client gives or to that of
\* the contributions, which are the cash.
CashAndCheque == {[cash |-> 2, other |-> 1, contributed |-> 0]}

OneMapping == {[cash |-> cash, revenue |-> revenue]}
AllLines == UNION {PostLines(t) : t \in Takings}

HistorySymmetry == Permutations(Requests) \cup Permutations(EntryIds)
                   \cup Permutations(Clerks) \cup Permutations(Batches)
=============================================================================
