--------------------------- MODULE MCLedgerHistory ---------------------------
(* Instances of LedgerHistory for TLC. *)
EXTENDS LedgerHistory, TLC

CONSTANTS r1, r2, e1, e2, e3, cash, revenue, doc

OneDraft == {[debitAccount |-> cash, creditAccount |-> revenue,
              debit |-> 2, credit |-> 2]}

Symmetry == Permutations(Requests) \cup Permutations(EntryIds)
=============================================================================
