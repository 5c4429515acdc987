------------------------------ MODULE MCLedger ------------------------------
(* Instances of Ledger for TLC. *)
EXTENDS Ledger, TLC

CONSTANTS r1, r2, r3, e1, e2, e3, cash, revenue, doc

Sale(d, c) == [debitAccount |-> cash, creditAccount |-> revenue,
               debit |-> d, credit |-> c]

OneDraft == {Sale(2, 2)}

Symmetry == Permutations(Requests) \cup Permutations(EntryIds)
=============================================================================
