-------------------------------- MODULE Books --------------------------------
(***************************************************************************)
(* What the general ledger promises, without requests, periods or dates:   *)
(* a set of rows to which balanced rows are added and from which nothing   *)
(* is ever taken away.  A row may mirror (reverse) one other row, no row   *)
(* is mirrored twice, and a row is flagged as reversed only when its       *)
(* mirror is in the books.  A row is posted or voided in any order (the    *)
(* code does not keep a void row void when requests overlap) but never     *)
(* returns to another status.  Ledger implements this specification.      *)
(***************************************************************************)
EXTENDS Integers

CONSTANTS EntryIds, Accounts, NoEntry

VARIABLE books   \* row id -> row

Amounts == [debitAccount : Accounts, creditAccount : Accounts,
            debit : Nat, credit : Nat]
Statuses == {"DRAFT", "PENDING_APPROVAL", "APPROVED", "POSTED", "VOID"}
Rows == [status : Statuses, lines : Amounts,
         reverses : EntryIds \cup {NoEntry}, isReversed : BOOLEAN]

Mirrors(a, b) ==
  /\ a.debitAccount = b.creditAccount /\ a.creditAccount = b.debitAccount
  /\ a.debit = b.credit /\ a.credit = b.debit

\* At most a cent apart, and something is debited.
Balanced(l) == /\ l.debit > 0
               /\ l.debit - l.credit \in -1..1

ReversalOf(e) == {x \in DOMAIN books : books[x].reverses = e}

Init == books = [e \in {} |-> NoEntry]

Write(e) ==
  /\ e \notin DOMAIN books
  /\ DOMAIN books' = DOMAIN books \cup {e}
  /\ \A x \in DOMAIN books : books'[x] = books[x]
  /\ books'[e] \in Rows
  /\ Balanced(books'[e].lines)
  /\ ~books'[e].isReversed
  /\ LET original == books'[e].reverses IN
       original # NoEntry =>
         /\ original \in DOMAIN books
         /\ Mirrors(books'[e].lines, books[original].lines)
         /\ ReversalOf(original) = {}

SetStatus(e, s) ==
  books' = [books EXCEPT ![e] = [books[e] EXCEPT !.status = s]]

Flag(e) ==
  /\ ReversalOf(e) # {}
  /\ books' = [books EXCEPT ![e] = [books[e] EXCEPT !.isReversed = TRUE]]

Next ==
  \/ \E e \in EntryIds : Write(e)
  \/ \E e \in DOMAIN books, s \in {"POSTED", "VOID"} : SetStatus(e, s)
  \/ \E e \in DOMAIN books : Flag(e)

Spec == Init /\ [][Next]_books
=============================================================================
