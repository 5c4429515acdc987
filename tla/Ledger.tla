------------------------------- MODULE Ledger -------------------------------
(***************************************************************************)
(* The general ledger of one branch: journal entries                       *)
(* (finance/services/journal-entry.service.ts), fiscal periods             *)
(* (finance/services/fiscal-period.service.ts) and the activity flag of    *)
(* the accounts (finance/services/account.service.ts).                     *)
(*                                                                         *)
(* A GraphQL mutation runs in a request slot.  Node runs a handler without *)
(* interruption between two awaits, and every await of these handlers is   *)
(* one Prisma call that the database executes atomically, so an action is  *)
(* one Prisma call with the synchronous code up to the next one.  Requests *)
(* interleave freely, as no handler of this module opens a transaction.    *)
(*                                                                         *)
(* An entry's lines are abstracted to one debit and one credit line: the   *)
(* code validates lines one by one, sums them per side and swaps them, and *)
(* two lines tell all of these apart.  A side with amount 0 has no line.   *)
(* Amounts are in cents.                                                   *)
(***************************************************************************)
EXTENDS Integers, FiniteSets, FiniteSetsExt

CONSTANTS
  Requests,        \* request slots: mutations served at the same time
  EntryIds,        \* primary keys of journal entries (bounds the journal)
  NumPeriods,      \* fiscal periods 1..NumPeriods, consecutive months
  YearLength,      \* periods per fiscal year (12 in the code)
  Accounts,        \* the chart of accounts
  SystemAccounts,  \* accounts with isSystemAccount, never deactivated
  Drafts,          \* line pairs a client may submit
  Sources,         \* ids of the documents that post through the ledger
  CreateStatuses,  \* values a client may give CreateJournalEntryInput.status
  CanFail,         \* whether an awaited call may reject or the server crash
  NoEntry, NoSource, NoRow

Periods == 1..NumPeriods
YearStarts == {p \in Periods : (p - 1) % YearLength = 0}
EntryStatuses == {"DRAFT", "PENDING_APPROVAL", "APPROVED", "POSTED", "VOID"}
PeriodStatuses == {"OPEN", "CLOSED", "LOCKED"}

Lines == [debitAccount : Accounts, creditAccount : Accounts,
          debit : Nat, credit : Nat]

ASSUME PeriodsAssumption ==
  /\ NumPeriods \in Nat /\ YearLength \in Nat \ {0}
  /\ NumPeriods % YearLength = 0      \* whole fiscal years
ASSUME RequestsAssumption == IsFiniteSet(Requests)
ASSUME DraftsAssumption == Drafts \subseteq Lines
ASSUME StatusesAssumption == CreateStatuses \subseteq EntryStatuses
ASSUME FailAssumption == CanFail \in BOOLEAN
ASSUME NoEntryAssumption == NoEntry \notin EntryIds

Entries == [status : EntryStatuses, period : Periods, lines : Lines,
            reverses : EntryIds \cup {NoEntry},    \* column reversedById
            isReversed : BOOLEAN,
            source : Sources \cup {NoSource},      \* sourceTransactionId
            \* No column: whether the posting of its source inserted the entry
            \* (a client's entry and a reversal may name the same source).
            posting : BOOLEAN]

VARIABLES
  journal,   \* table JournalEntry: primary key -> row
  period,    \* table FiscalPeriod: period -> status, absent when no row
  active,    \* accounts whose isActive is TRUE
  month,     \* the calendar month, as a period
  req        \* the handler each request slot is running

tables == <<journal, period, active, month>>
vars == <<journal, period, active, month, req>>

-----------------------------------------------------------------------------
(* Request slots.                                                          *)

Ops == {"none", "create", "post", "void", "reverse", "document",
        "close", "reopen", "lock", "year"}

\* The point a handler has reached: the Prisma call it awaits next.
Points == {"idle",
           "create.period", "create.accounts", "create.insert",
           "reverse.mark",
           "post.entry", "post.period", "post.createPeriod", "post.update",
           "void.update",
           "close.drafts", "close.previous", "close.update",
           "reopen.update", "lock.update",
           "year.find", "year.create",
           "document.update"}

Idle == [op |-> "none", at |-> "idle", id |-> NoEntry, row |-> NoRow, p |-> 0]

RequestStates == [op : Ops, at : Points,
                  id : EntryIds \cup {NoEntry},   \* entry being handled
                  row : Entries \cup {NoRow},     \* row being created
                  p : Periods \cup {0}]           \* period being handled

\* A handler that has just started, working on an entry, a new row, a period.
OnEntry(op, point, e) ==
  [op |-> op, at |-> point, id |-> e, row |-> NoRow, p |-> 0]
OnRow(op, point, row) ==
  [op |-> op, at |-> point, id |-> NoEntry, row |-> row, p |-> 0]
OnPeriod(op, point, p) ==
  [op |-> op, at |-> point, id |-> NoEntry, row |-> NoRow, p |-> p]

\* The same handler after its row has been inserted with primary key e.
Inserted(state, point, e) ==
  [op |-> state.op, at |-> point, id |-> e, row |-> state.row, p |-> 0]

Move(r, state) == req' = [req EXCEPT ![r] = state]
Begin(r, state) == req[r] = Idle /\ Move(r, state)
At(r, point) == req[r].at = point
Goto(r, point) == Move(r, [req[r] EXCEPT !.at = point])
Return(r) == Move(r, Idle)

TypeOK ==
  /\ DOMAIN journal \subseteq EntryIds
  /\ \A e \in DOMAIN journal : journal[e] \in Entries
  /\ DOMAIN period \subseteq Periods
  /\ \A p \in DOMAIN period : period[p] \in PeriodStatuses
  /\ active \subseteq Accounts
  /\ month \in Periods
  /\ req \in [Requests -> RequestStates]

-----------------------------------------------------------------------------
(* Helpers.                                                                *)

IsOpen(p) == p \in DOMAIN period /\ period[p] = "OPEN"
Shut(p) == p \in DOMAIN period /\ period[p] \in {"CLOSED", "LOCKED"}

AbsDiff(x, y) == IF x >= y THEN x - y ELSE y - x

\* The total of the debits is not zero (that of the credits is not looked at),
\* and the sides differ by at most 0.01.  The sums are floating point:
\* 0.02 - 0.01 passes the comparison with 0.01 and 1.01 - 1.00 does not, so a
\* difference of one cent may be accepted or refused, a larger one is refused.
AmountsGiven(l) == l.debit > 0
\* Fault: a tolerance of two cents.
LooseBalance(l) == AmountsGiven(l) /\ AbsDiff(l.debit, l.credit) <= 2
MayBalance(l) == AmountsGiven(l) /\ AbsDiff(l.debit, l.credit) <= 1
MayNotBalance(l) == ~AmountsGiven(l) \/ AbsDiff(l.debit, l.credit) >= 1

AccountsActive(l) == /\ l.debit > 0 => l.debitAccount \in active
                     /\ l.credit > 0 => l.creditAccount \in active

\* The lines of a reversing entry: debit and credit swapped.
Swap(l) == [debitAccount |-> l.creditAccount, creditAccount |-> l.debitAccount,
            debit |-> l.credit, credit |-> l.debit]

\* The unique index on reversedById.
\* Fault: no such index.
NoUniqueIndex(e) == FALSE
ReversalExists(e) == \E x \in DOMAIN journal : journal[x].reverses = e

HasPrevious(p) == (p - 1) % YearLength # 0
InYearFrom(first, p) == p \in first..(first + YearLength - 1)
LastOf(p) == p % YearLength = 0

SetEntry(e, row) == journal' = [journal EXCEPT ![e] = row]
SetPeriod(p, status) ==
  period' = [q \in DOMAIN period \cup {p} |->
               IF q = p THEN status ELSE period[q]]

Init ==
  /\ journal = [e \in {} |-> NoRow]
  /\ period = [p \in {} |-> "OPEN"]
  /\ active = Accounts
  /\ month \in Periods
  /\ req = [r \in Requests |-> Idle]

-----------------------------------------------------------------------------
(* createJournalEntry: called by its mutation, by a reversal and by the    *)
(* services that post a document.  req[r].row is the row to insert.        *)

\* Bound: a create begins only while a primary key is left for it.
RoomForEntry ==
  LET creating == {r \in Requests :
        req[r].at \in {"create.period", "create.accounts", "create.insert"}}
  IN Cardinality(DOMAIN journal) + Cardinality(creating) < Cardinality(EntryIds)

\* The row a client asks for: status and source are the client's own.
ClientRow(s, l, p, d) ==
  [status |-> s, period |-> p, lines |-> l, reverses |-> NoEntry,
   isReversed |-> FALSE, source |-> d, posting |-> FALSE]

\* Fault: the period is not looked at.
CreateBeginAnyPeriod(r) ==
  \E l \in Drafts, p \in Periods, s \in CreateStatuses, d \in Sources \cup {NoSource} :
    /\ RoomForEntry
    /\ Begin(r, OnRow("create", "create.accounts", ClientRow(s, l, p, d)))
    /\ UNCHANGED tables

\* The mutation; its first read, the fiscal period, in the same step.
CreateBegin(r) ==
  \E l \in Drafts, p \in Periods, s \in CreateStatuses, d \in Sources \cup {NoSource} :
    /\ RoomForEntry
    /\ ~Shut(p)
    /\ Begin(r, OnRow("create", "create.accounts", ClientRow(s, l, p, d)))
    /\ UNCHANGED tables

\* The same read, when the caller is another handler.
CreateReadPeriod(r) ==
  /\ At(r, "create.period")
  /\ IF Shut(req[r].row.period) THEN Return(r) ELSE Goto(r, "create.accounts")
  /\ UNCHANGED tables

\* Validation of every line's account and amounts, then of the balance.
CreateCheckLines(r) ==
  /\ At(r, "create.accounts")
  /\ \/ /\ AccountsActive(req[r].row.lines)
        /\ MayBalance(req[r].row.lines)
        /\ Goto(r, "create.insert")
     \/ /\ ~AccountsActive(req[r].row.lines) \/ MayNotBalance(req[r].row.lines)
        /\ Return(r)
  /\ UNCHANGED tables

\* The insert with its nested lines.  A reversal of an entry that already has
\* one violates the unique index on reversedById in each of the five attempts.
CreateInsert(r) ==
  /\ At(r, "create.insert")
  /\ \/ \E e \in EntryIds \ DOMAIN journal :
          /\ req[r].row.reverses # NoEntry => ~ReversalExists(req[r].row.reverses)
          /\ journal' = [x \in DOMAIN journal \cup {e} |->
                           IF x = e THEN req[r].row ELSE journal[x]]
          /\ CASE req[r].op = "reverse" ->
                    Move(r, Inserted(req[r], "reverse.mark", e))
               [] req[r].op = "document" ->
                    Move(r, Inserted(req[r], "post.entry", e))
               [] OTHER -> Return(r)
     \/ /\ req[r].row.reverses # NoEntry /\ ReversalExists(req[r].row.reverses)
        /\ Return(r)
        /\ UNCHANGED journal
  /\ UNCHANGED <<period, active, month>>

-----------------------------------------------------------------------------
(* postJournalEntry: called by its mutation and at the end of a reversal   *)
(* and of a document's posting.                                            *)

\* Whatever is neither posted nor void may be posted, approved or not.
MayPost(e) == journal[e].status \notin {"POSTED", "VOID"}

PostBegin(r) ==
  \E e \in DOMAIN journal :
    /\ MayPost(e)
    /\ Begin(r, OnEntry("post", "post.period", e))
    /\ UNCHANGED tables

PostReadEntry(r) ==
  /\ At(r, "post.entry")
  /\ IF MayPost(req[r].id) THEN Goto(r, "post.period") ELSE Return(r)
  /\ UNCHANGED tables

PostFindPeriod(r) ==
  LET p == journal[req[r].id].period IN
  /\ At(r, "post.period")
  /\ CASE p \notin DOMAIN period -> Goto(r, "post.createPeriod")
       [] IsOpen(p) -> Goto(r, "post.update")
       [] OTHER -> Return(r)
  /\ UNCHANGED tables

\* Auto-creation of a missing period; it fails on the unique index of the
\* table when another request has created the period since the read.
PostCreatePeriod(r) ==
  LET p == journal[req[r].id].period IN
  /\ At(r, "post.createPeriod")
  /\ IF p \in DOMAIN period
       THEN Return(r) /\ UNCHANGED period
       ELSE Goto(r, "post.update") /\ SetPeriod(p, "OPEN")
  /\ UNCHANGED <<journal, active, month>>

PostUpdate(r) ==
  /\ At(r, "post.update")
  /\ SetEntry(req[r].id, [journal[req[r].id] EXCEPT !.status = "POSTED"])
  /\ IF req[r].op = "document" THEN Goto(r, "document.update") ELSE Return(r)
  /\ UNCHANGED <<period, active, month>>

-----------------------------------------------------------------------------
(* voidJournalEntry.                                                       *)

VoidBegin(r) ==
  \E e \in DOMAIN journal :
    /\ journal[e].status # "VOID"
    /\ Begin(r, OnEntry("void", "void.update", e))
    /\ UNCHANGED tables

VoidUpdate(r) ==
  /\ At(r, "void.update")
  /\ SetEntry(req[r].id, [journal[req[r].id] EXCEPT !.status = "VOID"])
  /\ Return(r)
  /\ UNCHANGED <<period, active, month>>

-----------------------------------------------------------------------------
(* createReversingEntry: reads the original, runs createJournalEntry with  *)
(* the lines swapped in the current month, marks the original, and posts   *)
(* the new entry.                                                          *)

ReversingRow(e, l) ==
  [status |-> "DRAFT", period |-> month, lines |-> l, reverses |-> e,
   isReversed |-> FALSE, source |-> journal[e].source, posting |-> FALSE]

\* Fault: the lines are copied, not swapped.
ReverseBeginUnswapped(r) ==
  \E e \in DOMAIN journal :
    /\ journal[e].status = "POSTED"
    /\ ~journal[e].isReversed
    /\ RoomForEntry
    /\ Begin(r, OnRow("reverse", "create.period", ReversingRow(e, journal[e].lines)))
    /\ UNCHANGED tables

ReverseBegin(r) ==
  \E e \in DOMAIN journal :
    /\ journal[e].status = "POSTED"
    /\ ~journal[e].isReversed
    /\ RoomForEntry
    /\ Begin(r, OnRow("reverse", "create.period", ReversingRow(e, Swap(journal[e].lines))))
    /\ UNCHANGED tables

ReverseMark(r) ==
  LET original == req[r].row.reverses IN
  /\ At(r, "reverse.mark")
  /\ SetEntry(original, [journal[original] EXCEPT !.isReversed = TRUE])
  /\ Goto(r, "post.entry")
  /\ UNCHANGED <<period, active, month>>

-----------------------------------------------------------------------------
(* Another service posts a document (an offering batch): it awaits         *)
(* createJournalEntry, then postJournalEntry, then writes its own row.     *)
(* What the service reads before and writes after is modelled in Offering. *)

DocumentRow(d, l, p) ==
  [status |-> "DRAFT", period |-> p, lines |-> l, reverses |-> NoEntry,
   isReversed |-> FALSE, source |-> d, posting |-> TRUE]

DocumentBegin(r) ==
  \E d \in Sources, l \in Drafts, p \in Periods :
    /\ RoomForEntry
    /\ Begin(r, OnRow("document", "create.period", DocumentRow(d, l, p)))
    /\ UNCHANGED tables

DocumentEnd(r) ==
  /\ At(r, "document.update")
  /\ Return(r)
  /\ UNCHANGED tables

-----------------------------------------------------------------------------
(* closeFiscalPeriod, reopenFiscalPeriod, lockFiscalPeriod: the update at  *)
(* the end is by primary key and does not repeat the checks.               *)

CloseBegin(r) ==
  \E p \in DOMAIN period :
    /\ period[p] = "OPEN"
    /\ Begin(r, OnPeriod("close", "close.drafts", p))
    /\ UNCHANGED tables

\* Fault: drafts are not counted.
CloseIgnoreDrafts(r) ==
  /\ At(r, "close.drafts")
  /\ Goto(r, IF HasPrevious(req[r].p) THEN "close.previous" ELSE "close.update")
  /\ UNCHANGED tables

CloseCountDrafts(r) ==
  LET p == req[r].p IN
  /\ At(r, "close.drafts")
  /\ IF \E e \in DOMAIN journal :
          journal[e].period = p /\ journal[e].status = "DRAFT"
       THEN Return(r)
       ELSE Goto(r, IF HasPrevious(p) THEN "close.previous" ELSE "close.update")
  /\ UNCHANGED tables

CloseReadPrevious(r) ==
  /\ At(r, "close.previous")
  /\ IF IsOpen(req[r].p - 1) THEN Return(r) ELSE Goto(r, "close.update")
  /\ UNCHANGED tables

CloseUpdate(r) ==
  /\ At(r, "close.update")
  /\ SetPeriod(req[r].p, "CLOSED")
  /\ Return(r)
  /\ UNCHANGED <<journal, active, month>>

ReopenBegin(r) ==
  \E p \in DOMAIN period :
    /\ period[p] = "CLOSED"
    /\ Begin(r, OnPeriod("reopen", "reopen.update", p))
    /\ UNCHANGED tables

ReopenUpdate(r) ==
  /\ At(r, "reopen.update")
  /\ SetPeriod(req[r].p, "OPEN")
  /\ Return(r)
  /\ UNCHANGED <<journal, active, month>>

LockBegin(r) ==
  \E p \in DOMAIN period :
    /\ period[p] = "CLOSED"
    /\ Begin(r, OnPeriod("lock", "lock.update", p))
    /\ UNCHANGED tables

LockUpdate(r) ==
  /\ At(r, "lock.update")
  /\ SetPeriod(req[r].p, "LOCKED")
  /\ Return(r)
  /\ UNCHANGED <<journal, active, month>>

-----------------------------------------------------------------------------
(* createFiscalYear: refused when the year has any period, then a find and *)
(* a create per month.                                                     *)

YearBegin(r) ==
  \E first \in YearStarts :
    /\ \A p \in DOMAIN period : ~InYearFrom(first, p)
    /\ Begin(r, OnPeriod("year", "year.find", first))
    /\ UNCHANGED tables

NextPeriod(r) ==
  IF LastOf(req[r].p)
    THEN Return(r)
    ELSE Move(r, OnPeriod("year", "year.find", req[r].p + 1))

\* Fault: the test for an existing period is inverted.
YearFindInverted(r) ==
  /\ At(r, "year.find")
  /\ IF req[r].p \in DOMAIN period THEN Goto(r, "year.create") ELSE NextPeriod(r)
  /\ UNCHANGED tables

YearFind(r) ==
  /\ At(r, "year.find")
  /\ IF req[r].p \in DOMAIN period THEN NextPeriod(r) ELSE Goto(r, "year.create")
  /\ UNCHANGED tables

YearCreate(r) ==
  /\ At(r, "year.create")
  /\ IF req[r].p \in DOMAIN period
       THEN Return(r) /\ UNCHANGED period
       ELSE NextPeriod(r) /\ SetPeriod(req[r].p, "OPEN")
  /\ UNCHANGED <<journal, active, month>>

-----------------------------------------------------------------------------
(* The environment.                                                        *)

\* deactivateAccount: never undone, as no mutation sets isActive again.
DeactivateAccount(a) ==
  /\ a \in active \ SystemAccounts
  /\ active' = active \ {a}
  /\ UNCHANGED <<journal, period, month, req>>

NextMonth ==
  /\ month < NumPeriods
  /\ month' = month + 1
  /\ UNCHANGED <<journal, period, active, req>>

\* The awaited call rejects (or the server stops): the rest of the handler is
\* not run, and what it has written stays.
Fail(r) ==
  /\ CanFail
  /\ req[r] # Idle
  /\ Return(r)
  /\ UNCHANGED tables

EntryStep(r) ==
  \/ CreateReadPeriod(r) \/ CreateCheckLines(r) \/ CreateInsert(r)
  \/ PostReadEntry(r) \/ PostFindPeriod(r) \/ PostCreatePeriod(r) \/ PostUpdate(r)
  \/ VoidUpdate(r) \/ ReverseMark(r)

PeriodStep(r) ==
  \/ CloseCountDrafts(r) \/ CloseReadPrevious(r) \/ CloseUpdate(r)
  \/ ReopenUpdate(r) \/ LockUpdate(r)
  \/ YearFind(r) \/ YearCreate(r)

BeginStep(r) ==
  \/ CreateBegin(r) \/ PostBegin(r) \/ VoidBegin(r) \/ ReverseBegin(r)
  \/ CloseBegin(r) \/ ReopenBegin(r) \/ LockBegin(r) \/ YearBegin(r)

Progress ==
  \/ \E r \in Requests : BeginStep(r) \/ EntryStep(r) \/ PeriodStep(r)
  \/ \E a \in Accounts : DeactivateAccount(a)
  \/ NextMonth

OwnStep == Progress \/ \E r \in Requests : Fail(r)

Next == OwnStep \/ \E r \in Requests : DocumentBegin(r) \/ DocumentEnd(r)

Spec == Init /\ [][Next]_vars

-----------------------------------------------------------------------------
(* Properties that hold however requests overlap and fail.                 *)

Reversals(e) == {x \in DOMAIN journal : journal[x].reverses = e}
Posted == {e \in DOMAIN journal : journal[e].status = "POSTED"}

\* An entry has at most one reversing entry: two reversals that both read it
\* as not reversed cannot both insert one (createReversingEntry checks a flag
\* it sets two awaits later; only the unique index makes the check good).
OneReversal ==
  \A x, y \in DOMAIN journal :
    journal[x].reverses = journal[y].reverses /\ journal[x].reverses # NoEntry => x = y

\* An entry flagged isReversed has a reversing entry that moves the same
\* amounts the other way between the same accounts, whatever failed.
ReversedHasMirror ==
  \A e \in DOMAIN journal : journal[e].isReversed =>
    \E x \in Reversals(e) : journal[x].lines = Swap(journal[e].lines)

PostedTotal(side(_)) == MapThenSumSet(LAMBDA e : side(journal[e].lines), Posted)
DebitSide(l) == l.debit
CreditSide(l) == l.credit

\* The trial balance over POSTED entries is out by at most one cent per entry:
\* no interleaving posts an entry that createJournalEntry did not balance.
DriftBounded ==
  AbsDiff(PostedTotal(DebitSide), PostedTotal(CreditSide)) <= Cardinality(Posted)

\* A reversal that stopped between its insert and the flag on the original.
HalfReversed(e) ==
  /\ Reversals(e) # {}
  /\ ~journal[e].isReversed
  /\ \A r \in Requests : ~(At(r, "reverse.mark") /\ req[r].row.reverses = e)

\* A half-done reversal stays half done: reversing the entry again is refused
\* by the index, so no retry ever sets isReversed on the original.
HalfReversalIsForever ==
  [][\A e \in DOMAIN journal : HalfReversed(e) => HalfReversed(e)']_vars

\* createFiscalYear never leaves a gap behind it: when it reaches a month, all
\* earlier months of the year have a row, whoever created them.
YearPrefix ==
  \A r \in Requests, first \in YearStarts :
    req[r].op = "year" /\ InYearFrom(first, req[r].p) =>
      first..(req[r].p - 1) \subseteq DOMAIN period

\* What a handler carries between two awaits is still true of the journal.
RequestInv(r) ==
  /\ At(r, "create.period") \/ At(r, "create.accounts") \/ At(r, "create.insert") =>
       /\ req[r].row \in Entries
       /\ ~req[r].row.isReversed
       /\ req[r].op = "reverse" => req[r].row.reverses # NoEntry
       /\ req[r].row.reverses # NoEntry =>
            /\ req[r].row.reverses \in DOMAIN journal
            /\ req[r].row.lines = Swap(journal[req[r].row.reverses].lines)
  /\ At(r, "create.insert") => MayBalance(req[r].row.lines)
  /\ At(r, "reverse.mark") =>
       /\ req[r].row \in Entries
       /\ req[r].row.reverses \in DOMAIN journal
       /\ journal[req[r].id].reverses = req[r].row.reverses
  /\ \/ At(r, "reverse.mark") \/ At(r, "post.entry") \/ At(r, "post.period")
     \/ At(r, "post.createPeriod") \/ At(r, "post.update") \/ At(r, "void.update")
     => req[r].id \in DOMAIN journal
  /\ \/ At(r, "close.drafts") \/ At(r, "close.previous") \/ At(r, "close.update")
     \/ At(r, "reopen.update") \/ At(r, "lock.update")
     \/ At(r, "year.find") \/ At(r, "year.create")
     => req[r].p \in Periods

\* Every entry is balanced to a cent, and a reversing entry mirrors a row.
EntryInv(e) ==
  /\ MayBalance(journal[e].lines)
  /\ journal[e].reverses # NoEntry =>
       /\ journal[e].reverses \in DOMAIN journal
       /\ journal[e].lines = Swap(journal[journal[e].reverses].lines)

\* The inductive invariant of the ledger: no handler acts on a row that is
\* gone or on lines that differ from those it read, however long it waited.
IInv ==
  /\ TypeOK
  /\ \A r \in Requests : RequestInv(r)
  /\ \A e \in DOMAIN journal : EntryInv(e)
  /\ OneReversal
  /\ ReversedHasMirror

\* The journal, without periods and sources, implements the abstract books.
B == INSTANCE Books WITH
       books <- [e \in DOMAIN journal |->
                  [status |-> journal[e].status, lines |-> journal[e].lines,
                   reverses |-> journal[e].reverses,
                   isReversed |-> journal[e].isReversed]]

\* Every step of the ledger is a step of Books or leaves the books unchanged.
ImplementsBooks == B!Spec

=============================================================================
