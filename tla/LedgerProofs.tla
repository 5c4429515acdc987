---------------------------- MODULE LedgerProofs ----------------------------
(* Proofs about Ledger, for every number of requests, entries and periods. *)
EXTENDS Ledger, FiniteSetTheorems, TLAPS

-----------------------------------------------------------------------------
(* Type correctness.                                                       *)

\* Every record a handler starts from is a request state.
LEMMA IdleType == Idle \in RequestStates
BY DEF Idle, RequestStates, Ops, Points

\* The first period of a year, and the successor inside a year, are periods.
LEMMA NextPeriodType ==
  ASSUME NEW p \in Periods, ~LastOf(p)
  PROVE  p + 1 \in Periods
<1>1. p # NumPeriods
  BY PeriodsAssumption DEF LastOf
<1> QED
  BY <1>1, PeriodsAssumption DEF Periods

LEMMA SwapType == \A l \in Lines : Swap(l) \in Lines
BY DEF Lines, Swap

\* Initially every table has the columns and values of the schema.
LEMMA InitTypeOK == Init => TypeOK
BY IdleType DEF Init, TypeOK

\* The states a handler starts in.
LEMMA StartTypes ==
  /\ \A op \in Ops, at \in Points, e \in EntryIds : OnEntry(op, at, e) \in RequestStates
  /\ \A op \in Ops, at \in Points, row \in Entries : OnRow(op, at, row) \in RequestStates
  /\ \A op \in Ops, at \in Points, p \in Periods : OnPeriod(op, at, p) \in RequestStates
BY DEF OnEntry, OnRow, OnPeriod, RequestStates

\* A step that keeps the journal and moves one request keeps the invariant,
\* if the request's new state and the other tables are well formed.
LEMMA JournalKept ==
  ASSUME IInv, NEW r \in Requests, NEW s \in RequestStates, Move(r, s),
         journal' = journal, RequestInv(r)',
         DOMAIN period' \subseteq Periods,
         \A p \in DOMAIN period' : period'[p] \in PeriodStatuses,
         active' \subseteq Accounts, month' \in Periods
  PROVE  IInv'
<1>1. req' = [req EXCEPT ![r] = s] /\ req \in [Requests -> RequestStates]
  BY DEF Move, IInv, TypeOK
<1>2. TypeOK'
  BY <1>1 DEF IInv, TypeOK
<1>3. ASSUME NEW q \in Requests
      PROVE  RequestInv(q)'
  <2>1. CASE q = r  BY <2>1
  <2>2. CASE q # r
    <3>1. req'[q] = req[q]
      BY <1>1, <2>2
    <3> QED BY <3>1 DEF IInv, RequestInv, At
  <2> QED BY <2>1, <2>2
<1>4. (\A e \in DOMAIN journal : EntryInv(e))' /\ OneReversal' /\ ReversedHasMirror'
  BY DEF IInv, EntryInv, OneReversal, ReversedHasMirror, Reversals
<1> QED BY <1>2, <1>3, <1>4 DEF IInv

\* A step that only moves a request.
LEMMA TablesKept ==
  ASSUME IInv, NEW r \in Requests, NEW s \in RequestStates, Move(r, s),
         UNCHANGED tables, RequestInv(r)'
  PROVE  IInv'
BY JournalKept DEF tables, IInv, TypeOK

\* A step that ends a handler and keeps the journal and the periods.
LEMMA Returns ==
  ASSUME IInv, NEW r \in Requests, Return(r), UNCHANGED tables
  PROVE  IInv'
<1>1. req'[r] = Idle
  BY DEF Return, Move, IInv, TypeOK
<1>2. RequestInv(r)'
  BY <1>1 DEF RequestInv, At, Idle
<1> QED BY <1>2, IdleType, TablesKept DEF Return

\* Advancing a handler keeps everything but its program point.
LEMMA GotoState ==
  ASSUME IInv, NEW r \in Requests, NEW point \in Points, Goto(r, point)
  PROVE  /\ [req[r] EXCEPT !.at = point] \in RequestStates
         /\ req'[r] = [req[r] EXCEPT !.at = point]
         /\ req'[r].at = point
         /\ req'[r].op = req[r].op /\ req'[r].id = req[r].id
         /\ req'[r].row = req[r].row /\ req'[r].p = req[r].p
<1>1. req[r] \in RequestStates
  BY DEF IInv, TypeOK
<1>2. [req[r] EXCEPT !.at = point] \in RequestStates
  BY <1>1 DEF RequestStates
<1>3. req'[r] = [req[r] EXCEPT !.at = point]
  BY DEF Goto, Move, IInv, TypeOK
<1>4. req'[r] = [op |-> req[r].op, at |-> point, id |-> req[r].id,
                 row |-> req[r].row, p |-> req[r].p]
  BY <1>1, <1>3 DEF RequestStates
<1> QED BY <1>2, <1>3, <1>4

\* A read that lets the handler continue.
LEMMA Continues ==
  ASSUME IInv, NEW r \in Requests, NEW point \in Points, Goto(r, point),
         UNCHANGED tables, RequestInv(r)'
  PROVE  IInv'
BY GotoState, TablesKept DEF Goto

\* An upsert of a period row.
LEMMA SetPeriodType ==
  ASSUME TypeOK, NEW p \in Periods, NEW st \in PeriodStatuses, SetPeriod(p, st)
  PROVE  /\ DOMAIN period' \subseteq Periods
         /\ \A q \in DOMAIN period' : period'[q] \in PeriodStatuses
BY DEF TypeOK, SetPeriod

-----------------------------------------------------------------------------
(* The first step of each handler.                                         *)

LEMMA BeginInv ==
  ASSUME IInv, NEW r \in Requests, BeginStep(r)
  PROVE  IInv'
<1> USE DEF Begin
<1>1. CASE CreateBegin(r)
  <2>1. PICK l \in Drafts, p \in Periods, st \in CreateStatuses,
             d \in Sources \cup {NoSource} : CreateBegin(r)!(l, p, st, d)
    BY <1>1 DEF CreateBegin
  <2> DEFINE row == ClientRow(st, l, p, d)
             s == OnRow("create", "create.accounts", row)
  <2>2. row \in Entries
    BY DraftsAssumption, StatusesAssumption DEF Entries, ClientRow
  <2>3. s \in RequestStates
    BY <2>2, StartTypes DEF Ops, Points
  <2>4. Move(r, s) /\ UNCHANGED tables
    BY <2>1
  <2>5. req'[r] = s
    BY <2>4 DEF Move, IInv, TypeOK
  <2>6. RequestInv(r)'
    BY <2>2, <2>5 DEF RequestInv, At, OnRow, ClientRow
  <2> QED BY <2>3, <2>4, <2>6, TablesKept
<1>2. CASE ReverseBegin(r)
  <2>1. PICK e \in DOMAIN journal : ReverseBegin(r)!(e)
    BY <1>2 DEF ReverseBegin
  <2> DEFINE row == ReversingRow(e, Swap(journal[e].lines))
             s == OnRow("reverse", "create.period", row)
  <2>2. /\ journal[e] \in Entries
        /\ month \in Periods
        /\ e \in EntryIds
    BY DEF IInv, TypeOK
  <2>3. /\ Swap(journal[e].lines) \in Lines
        /\ journal[e].source \in Sources \cup {NoSource}
    BY <2>2, SwapType DEF Entries
  <2>4. row \in Entries
    BY <2>2, <2>3 DEF Entries, EntryStatuses, ReversingRow
  <2>5. s \in RequestStates
    BY <2>4, StartTypes DEF Ops, Points
  <2>6. Move(r, s) /\ UNCHANGED tables
    BY <2>1
  <2>7. req'[r] = s
    BY <2>6 DEF Move, IInv, TypeOK
  <2>8. RequestInv(r)'
    BY <2>2, <2>4, <2>6, <2>7, NoEntryAssumption DEF RequestInv, At, OnRow, tables, ReversingRow
  <2> QED BY <2>5, <2>6, <2>8, TablesKept
<1>3. CASE PostBegin(r) \/ VoidBegin(r)
  <2>1. PICK e \in DOMAIN journal, op \in Ops, at \in {"post.period", "void.update"} :
          Move(r, OnEntry(op, at, e)) /\ UNCHANGED tables
    BY <1>3 DEF PostBegin, VoidBegin, Ops
  <2>2. OnEntry(op, at, e) \in RequestStates
    BY StartTypes DEF Points, IInv, TypeOK
  <2>3. req'[r] = OnEntry(op, at, e)
    BY <2>1 DEF Move, IInv, TypeOK
  <2>4. RequestInv(r)'
    BY <2>1, <2>3 DEF RequestInv, At, OnEntry, tables
  <2> QED BY <2>1, <2>2, <2>4, TablesKept
<1>4. CASE CloseBegin(r) \/ ReopenBegin(r) \/ LockBegin(r) \/ YearBegin(r)
  <2>1. PICK p \in Periods, op \in Ops,
             at \in {"close.drafts", "reopen.update", "lock.update", "year.find"} :
          Move(r, OnPeriod(op, at, p)) /\ UNCHANGED tables
    BY <1>4 DEF CloseBegin, ReopenBegin, LockBegin, YearBegin, YearStarts, Ops,
                IInv, TypeOK
  <2>2. OnPeriod(op, at, p) \in RequestStates
    BY StartTypes DEF Points
  <2>3. req'[r] = OnPeriod(op, at, p)
    BY <2>1 DEF Move, IInv, TypeOK
  <2>4. RequestInv(r)'
    BY <2>1, <2>3 DEF RequestInv, At, OnPeriod, tables
  <2> QED BY <2>1, <2>2, <2>4, TablesKept
<1> QED BY <1>1, <1>2, <1>3, <1>4 DEF BeginStep

\* A document's row is a row of the journal.
LEMMA DocumentRowType ==
  ASSUME NEW d \in Sources, NEW l \in Drafts, NEW p \in Periods
  PROVE  DocumentRow(d, l, p) \in Entries
BY DraftsAssumption DEF DocumentRow, Entries, EntryStatuses

LEMMA DocumentInv ==
  ASSUME IInv, NEW r \in Requests, DocumentBegin(r) \/ DocumentEnd(r)
  PROVE  IInv'
<1>1. CASE DocumentBegin(r)
  <2>1. PICK d \in Sources, l \in Drafts, p \in Periods : DocumentBegin(r)!(d, l, p)
    BY <1>1 DEF DocumentBegin
  <2> DEFINE row == DocumentRow(d, l, p)
             s == OnRow("document", "create.period", row)
  <2>2. row \in Entries /\ row.reverses = NoEntry /\ ~row.isReversed
    BY DocumentRowType DEF DocumentRow
  <2>3. s \in RequestStates
    BY <2>2, StartTypes DEF Ops, Points
  <2>4. Move(r, s) /\ UNCHANGED tables
    BY <2>1 DEF Begin
  <2>5. req'[r] = s
    BY <2>4 DEF Move, IInv, TypeOK
  <2> HIDE DEF row
  <2>6. RequestInv(r)'
    BY <2>2, <2>5 DEF RequestInv, At, OnRow
  <2> QED BY <2>3, <2>4, <2>6, TablesKept
<1>2. CASE DocumentEnd(r)
  BY <1>2, Returns DEF DocumentEnd
<1> QED BY <1>1, <1>2

-----------------------------------------------------------------------------
(* The steps of the fiscal period handlers.                                *)

\* A step that writes one period row and ends the handler.
LEMMA PeriodWritten ==
  ASSUME IInv, NEW r \in Requests, NEW p \in Periods, NEW st \in PeriodStatuses,
         SetPeriod(p, st), Return(r), UNCHANGED <<journal, active, month>>
  PROVE  IInv'
<1>1. req'[r] = Idle
  BY DEF Return, Move, IInv, TypeOK
<1>2. RequestInv(r)'
  BY <1>1 DEF RequestInv, At, Idle
<1>3. TypeOK
  BY DEF IInv
<1> QED BY <1>2, <1>3, SetPeriodType, IdleType, JournalKept DEF Return, TypeOK

LEMMA PeriodStepInv ==
  ASSUME IInv, NEW r \in Requests, PeriodStep(r)
  PROVE  IInv'
<1>1. RequestInv(r)
  BY DEF IInv
<1>2. CASE CloseCountDrafts(r)
  <2>1. CASE Return(r)
    BY <1>2, <2>1, Returns DEF CloseCountDrafts
  <2>2. ASSUME NEW point \in {"close.previous", "close.update"}, Goto(r, point)
        PROVE  IInv'
    <3>1. RequestInv(r)'
      BY <1>1, <1>2, <2>2, GotoState DEF RequestInv, At, CloseCountDrafts, Points
    <3> QED BY <1>2, <2>2, <3>1, Continues DEF CloseCountDrafts, Points
  <2> QED BY <1>2, <2>1, <2>2 DEF CloseCountDrafts
<1>3. CASE CloseReadPrevious(r)
  <2>1. CASE Return(r)
    BY <1>3, <2>1, Returns DEF CloseReadPrevious
  <2>2. CASE Goto(r, "close.update")
    <3>1. RequestInv(r)'
      BY <1>1, <1>3, <2>2, GotoState DEF RequestInv, At, CloseReadPrevious, Points
    <3> QED BY <1>3, <2>2, <3>1, Continues DEF CloseReadPrevious, Points
  <2> QED BY <1>3, <2>1, <2>2 DEF CloseReadPrevious
<1>4. CASE CloseUpdate(r) \/ ReopenUpdate(r) \/ LockUpdate(r)
  <2>1. req[r].p \in Periods
    BY <1>1, <1>4 DEF RequestInv, At, CloseUpdate, ReopenUpdate, LockUpdate
  <2> QED BY <1>4, <2>1, PeriodWritten
      DEF CloseUpdate, ReopenUpdate, LockUpdate, PeriodStatuses
<1>5. ASSUME At(r, "year.find") \/ At(r, "year.create"), NextPeriod(r),
             UNCHANGED <<journal, active, month>>,
             DOMAIN period' \subseteq Periods,
             \A q \in DOMAIN period' : period'[q] \in PeriodStatuses
      PROVE  IInv'
  <2> DEFINE p == req[r].p
  <2>1. p \in Periods
    BY <1>1, <1>5 DEF RequestInv, At
  <2>2. CASE LastOf(p)
    <3>1. Return(r)
      BY <1>5, <2>2 DEF NextPeriod
    <3>2. req'[r] = Idle
      BY <3>1 DEF Return, Move, IInv, TypeOK
    <3>3. RequestInv(r)'
      BY <3>2 DEF RequestInv, At, Idle
    <3> QED BY <1>5, <3>1, <3>3, IdleType, JournalKept DEF Return, IInv, TypeOK
  <2>3. CASE ~LastOf(p)
    <3> DEFINE s == OnPeriod("year", "year.find", p + 1)
    <3>1. Move(r, s)
      BY <1>5, <2>3 DEF NextPeriod
    <3>2. p + 1 \in Periods
      BY <2>1, <2>3, NextPeriodType
    <3>3. s \in RequestStates
      BY <3>2, StartTypes DEF Ops, Points
    <3>4. req'[r] = s
      BY <3>1 DEF Move, IInv, TypeOK
    <3>5. RequestInv(r)'
      BY <3>2, <3>4 DEF RequestInv, At, OnPeriod
    <3> QED BY <1>5, <3>1, <3>3, <3>5, JournalKept DEF IInv, TypeOK
  <2> QED BY <2>2, <2>3
<1>6. CASE YearFind(r)
  <2>1. CASE NextPeriod(r)
    BY <1>5, <1>6, <2>1 DEF YearFind, tables, IInv, TypeOK
  <2>2. CASE Goto(r, "year.create")
    <3>1. RequestInv(r)'
      BY <1>1, <1>6, <2>2, GotoState DEF RequestInv, At, YearFind, Points
    <3> QED BY <1>6, <2>2, <3>1, Continues DEF YearFind, Points
  <2> QED BY <1>6, <2>1, <2>2 DEF YearFind
<1>7. CASE YearCreate(r)
  <2>1. CASE Return(r) /\ UNCHANGED period
    BY <1>7, <2>1, Returns DEF YearCreate, tables
  <2>2. CASE NextPeriod(r) /\ SetPeriod(req[r].p, "OPEN")
    <3>1. req[r].p \in Periods
      BY <1>1, <1>7 DEF RequestInv, At, YearCreate
    <3>2. TypeOK
      BY DEF IInv
    <3> QED BY <1>5, <1>7, <2>2, <3>1, <3>2, SetPeriodType
        DEF YearCreate, PeriodStatuses
  <2> QED BY <1>7, <2>1, <2>2 DEF YearCreate
<1> QED BY <1>2, <1>3, <1>4, <1>6, <1>7 DEF PeriodStep

-----------------------------------------------------------------------------
(* The steps that write the journal.                                       *)

\* Changing the status or the flag of one row keeps what requests rely on.
LEMMA EntryRewritten ==
  ASSUME IInv, NEW r \in Requests, NEW s \in RequestStates, Move(r, s),
         NEW e \in DOMAIN journal, NEW row \in Entries, SetEntry(e, row),
         row.lines = journal[e].lines, row.reverses = journal[e].reverses,
         row.isReversed => journal[e].isReversed \/ Reversals(e) # {},
         UNCHANGED <<period, active, month>>, RequestInv(r)'
  PROVE  IInv'
<1>1. /\ DOMAIN journal' = DOMAIN journal
      /\ \A x \in DOMAIN journal : journal'[x] = IF x = e THEN row ELSE journal[x]
  BY DEF SetEntry
<1>2. \A x \in DOMAIN journal : /\ journal'[x].lines = journal[x].lines
                               /\ journal'[x].reverses = journal[x].reverses
  BY <1>1
<1>3. TypeOK'
  BY <1>1 DEF IInv, TypeOK, Move
<1>4. ASSUME NEW q \in Requests
      PROVE  RequestInv(q)'
  <2>1. CASE q = r  BY <2>1
  <2>2. CASE q # r
    <3>1. req'[q] = req[q]
      BY <2>2 DEF Move, IInv, TypeOK
    <3>2. RequestInv(q)
      BY DEF IInv
    <3>3. req[q].id \in EntryIds \cup {NoEntry}
      BY DEF IInv, TypeOK, RequestStates
    <3> QED BY <1>1, <1>2, <3>1, <3>2 DEF RequestInv, At
  <2> QED BY <2>1, <2>2
<1>5. (\A x \in DOMAIN journal : EntryInv(x))'
  BY <1>1, <1>2 DEF IInv, EntryInv
<1>6. OneReversal'
  BY <1>1, <1>2 DEF IInv, OneReversal
<1>7. ReversedHasMirror'
  <2> SUFFICES ASSUME NEW x \in DOMAIN journal, journal'[x].isReversed
               PROVE  \E y \in DOMAIN journal :
                        journal[y].reverses = x /\ journal[y].lines = Swap(journal[x].lines)
    BY <1>1, <1>2 DEF ReversedHasMirror, Reversals
  <2>1. CASE journal[x].isReversed
    BY <2>1 DEF IInv, ReversedHasMirror, Reversals
  <2>2. CASE ~journal[x].isReversed
    <3>1. PICK y \in DOMAIN journal : journal[y].reverses = x
      BY <1>1, <2>2 DEF Reversals
    <3>2. x # NoEntry
      BY NoEntryAssumption DEF IInv, TypeOK
    <3> QED BY <3>1, <3>2 DEF IInv, EntryInv
  <2> QED BY <2>1, <2>2
<1> QED BY <1>3, <1>4, <1>5, <1>6, <1>7 DEF IInv

\* Inserting the row a request carries.
LEMMA InsertInv ==
  ASSUME IInv, NEW r \in Requests, CreateInsert(r)
  PROVE  IInv'
<1> DEFINE row == req[r].row
<1>1. RequestInv(r) /\ At(r, "create.insert")
  BY DEF IInv, CreateInsert
<1>2. CASE Return(r) /\ UNCHANGED journal
  BY <1>2, Returns DEF CreateInsert, tables
<1>3. ASSUME NEW e \in EntryIds \ DOMAIN journal, NEW s \in RequestStates, Move(r, s),
             row.reverses # NoEntry => ~ReversalExists(row.reverses),
             journal' = [x \in DOMAIN journal \cup {e} |->
                           IF x = e THEN row ELSE journal[x]],
             s = Idle \/ \E at \in {"reverse.mark", "post.entry"} :
                             /\ s = Inserted(req[r], at, e)
                             /\ at = "reverse.mark" => req[r].op = "reverse"
      PROVE  IInv'
  <2>1. /\ row \in Entries
        /\ ~row.isReversed
        /\ MayBalance(row.lines)
        /\ row.reverses # NoEntry =>
             /\ row.reverses \in DOMAIN journal
             /\ row.lines = Swap(journal[row.reverses].lines)
    BY <1>1 DEF RequestInv, At
  <2>2. UNCHANGED <<period, active, month>>
    BY DEF CreateInsert
  <2>3. /\ DOMAIN journal' = DOMAIN journal \cup {e}
        /\ journal'[e] = row
        /\ \A x \in DOMAIN journal : journal'[x] = journal[x]
    BY <1>3
  <2>4. TypeOK'
    BY <1>3, <2>1, <2>2, <2>3 DEF IInv, TypeOK, Move
  <2>5. ASSUME NEW q \in Requests, q # r
        PROVE  RequestInv(q)'
    <3>1. req'[q] = req[q]
      BY <1>3, <2>5 DEF Move, IInv, TypeOK
    <3>2. RequestInv(q)
      BY DEF IInv
    <3> QED BY <2>3, <3>1, <3>2 DEF RequestInv, At
  <2>6. RequestInv(r)'
    <3>1. req'[r] = s
      BY <1>3 DEF Move, IInv, TypeOK
    <3>2. CASE s = Idle
      BY <3>1, <3>2 DEF RequestInv, At, Idle
    <3>3. CASE s = Inserted(req[r], "post.entry", e)
      BY <2>3, <3>1, <3>3 DEF RequestInv, At, Inserted
    <3>4. CASE s = Inserted(req[r], "reverse.mark", e) /\ req[r].op = "reverse"
      <4>1. row.reverses # NoEntry
        BY <1>1, <3>4 DEF RequestInv, At
      <4> QED BY <2>1, <2>3, <3>1, <3>4, <4>1 DEF RequestInv, At, Inserted
    <3> QED BY <1>3, <3>2, <3>3, <3>4
  <2>7. (\A x \in DOMAIN journal : EntryInv(x))'
    BY <2>1, <2>3 DEF IInv, EntryInv
  <2>8. OneReversal'
    BY <1>3, <2>1, <2>3 DEF IInv, OneReversal, ReversalExists
  <2>9. ReversedHasMirror'
    BY <2>1, <2>3 DEF IInv, ReversedHasMirror, Reversals
  <2> QED BY <2>4, <2>5, <2>6, <2>7, <2>8, <2>9 DEF IInv
<1>4. CASE ~(Return(r) /\ UNCHANGED journal)
  <2>1. PICK e \in EntryIds \ DOMAIN journal :
          /\ row.reverses # NoEntry => ~ReversalExists(row.reverses)
          /\ journal' = [x \in DOMAIN journal \cup {e} |->
                           IF x = e THEN row ELSE journal[x]]
          /\ CASE req[r].op = "reverse" -> Move(r, Inserted(req[r], "reverse.mark", e))
               [] req[r].op = "document" -> Move(r, Inserted(req[r], "post.entry", e))
               [] OTHER -> Return(r)
    BY <1>4 DEF CreateInsert
  <2>2. req[r] \in RequestStates
    BY DEF IInv, TypeOK
  <2>3. ASSUME NEW at \in {"reverse.mark", "post.entry"}
        PROVE  Inserted(req[r], at, e) \in RequestStates
    BY <2>2 DEF Inserted, RequestStates, Points
  <2>4. CASE req[r].op = "reverse"
    BY <1>3, <2>1, <2>3, <2>4
  <2>5. CASE req[r].op = "document"
    BY <1>3, <2>1, <2>3, <2>5
  <2>6. CASE req[r].op # "reverse" /\ req[r].op # "document"
    BY <1>3, <2>1, <2>6, IdleType DEF Return
  <2> QED BY <2>4, <2>5, <2>6
<1> QED BY <1>2, <1>4

LEMMA EntryStepInv ==
  ASSUME IInv, NEW r \in Requests, EntryStep(r)
  PROVE  IInv'
<1>1. RequestInv(r)
  BY DEF IInv
<1>2. ASSUME NEW point \in Points, Goto(r, point), UNCHANGED tables,
             \/ /\ At(r, "create.period") /\ point = "create.accounts"
             \/ /\ At(r, "create.accounts") /\ point = "create.insert"
                /\ MayBalance(req[r].row.lines)
             \/ /\ At(r, "post.entry") /\ point = "post.period"
             \/ /\ At(r, "post.period") /\ point \in {"post.createPeriod", "post.update"}
      PROVE  IInv'
  <2>1. RequestInv(r)'
    BY <1>1, <1>2, GotoState DEF RequestInv, At, tables
  <2> QED BY <1>2, <2>1, Continues
<1>3. CASE CreateReadPeriod(r)
  BY <1>2, <1>3, Returns DEF CreateReadPeriod, Points
<1>4. CASE CreateCheckLines(r)
  BY <1>2, <1>4, Returns DEF CreateCheckLines, Points
<1>5. CASE PostReadEntry(r)
  BY <1>2, <1>5, Returns DEF PostReadEntry, Points
<1>6. CASE PostFindPeriod(r)
  BY <1>2, <1>6, Returns DEF PostFindPeriod, Points
<1>7. CASE PostCreatePeriod(r)
  <2> DEFINE p == journal[req[r].id].period
  <2>1. CASE Return(r) /\ UNCHANGED period
    BY <1>7, <2>1, Returns DEF PostCreatePeriod, tables
  <2>2. CASE Goto(r, "post.update") /\ SetPeriod(p, "OPEN")
    <3>1. req[r].id \in DOMAIN journal
      BY <1>1, <1>7 DEF RequestInv, At, PostCreatePeriod
    <3>2. p \in Periods /\ TypeOK
      BY <3>1 DEF IInv, TypeOK, Entries
    <3>3. RequestInv(r)'
      BY <1>1, <1>7, <2>2, GotoState DEF RequestInv, At, PostCreatePeriod, Points
    <3> QED BY <1>7, <2>2, <3>2, <3>3, SetPeriodType, GotoState, JournalKept
        DEF PostCreatePeriod, Goto, Points, PeriodStatuses, TypeOK
  <2> QED BY <1>7, <2>1, <2>2 DEF PostCreatePeriod
<1>8. ASSUME NEW st \in EntryStatuses, NEW s \in RequestStates, Move(r, s),
             At(r, "post.update") \/ At(r, "void.update"),
             SetEntry(req[r].id, [journal[req[r].id] EXCEPT !.status = st]),
             UNCHANGED <<period, active, month>>,
             s.at \in {"idle", "document.update"}
      PROVE  IInv'
  <2> DEFINE e == req[r].id
             row == [journal[e] EXCEPT !.status = st]
  <2>1. e \in DOMAIN journal
    BY <1>1, <1>8 DEF RequestInv, At
  <2>2. journal[e] \in Entries
    BY <2>1 DEF IInv, TypeOK
  <2>3. /\ row \in Entries
        /\ row.lines = journal[e].lines /\ row.reverses = journal[e].reverses
        /\ row.isReversed = journal[e].isReversed
    BY <2>2 DEF Entries
  <2>4. req'[r] = s
    BY <1>8 DEF Move, IInv, TypeOK
  <2>5. RequestInv(r)'
    BY <1>8, <2>4 DEF RequestInv, At
  <2> QED BY <1>8, <2>1, <2>3, <2>5, EntryRewritten
<1>9. CASE PostUpdate(r) \/ VoidUpdate(r)
  <2>1. Idle.at = "idle"
    BY DEF Idle
  <2>2. CASE Return(r)
    BY <1>8, <1>9, <2>1, <2>2, IdleType
    DEF PostUpdate, VoidUpdate, Return, EntryStatuses
  <2>3. CASE Goto(r, "document.update") /\ PostUpdate(r)
    <3>1. [req[r] EXCEPT !.at = "document.update"] \in RequestStates
      BY <2>3, GotoState DEF Points
    <3>2. [req[r] EXCEPT !.at = "document.update"].at = "document.update"
      BY <2>3, GotoState DEF Points
    <3> QED BY <1>8, <2>3, <3>1, <3>2 DEF PostUpdate, Goto, EntryStatuses
  <2> QED BY <1>9, <2>2, <2>3 DEF PostUpdate, VoidUpdate
<1>10. CASE ReverseMark(r)
  <2> DEFINE e == req[r].row.reverses
             row == [journal[e] EXCEPT !.isReversed = TRUE]
  <2>1. /\ e \in DOMAIN journal
        /\ req[r].id \in DOMAIN journal
        /\ journal[req[r].id].reverses = e
    BY <1>1, <1>10 DEF RequestInv, At, ReverseMark
  <2>2. journal[e] \in Entries
    BY <2>1 DEF IInv, TypeOK
  <2>3. /\ row \in Entries
        /\ row.lines = journal[e].lines /\ row.reverses = journal[e].reverses
    BY <2>2 DEF Entries
  <2>4. Reversals(e) # {}
    BY <2>1 DEF Reversals
  <2>5. req'[r].at = "post.entry" /\ req'[r].id = req[r].id
    BY <1>10, GotoState DEF ReverseMark, Points
  <2>6. DOMAIN journal' = DOMAIN journal
    BY <1>10 DEF ReverseMark, SetEntry
  <2>7. RequestInv(r)'
    BY <2>1, <2>5, <2>6 DEF RequestInv, At
  <2>8. [req[r] EXCEPT !.at = "post.entry"] \in RequestStates
    BY <1>10, GotoState DEF ReverseMark, Points
  <2> QED BY <1>10, <2>1, <2>3, <2>4, <2>7, <2>8, EntryRewritten
      DEF ReverseMark, Goto
<1>11. CASE CreateInsert(r)
  BY <1>11, InsertInv
<1> QED BY <1>3, <1>4, <1>5, <1>6, <1>7, <1>9, <1>10, <1>11 DEF EntryStep

-----------------------------------------------------------------------------
(* The invariant, and the properties that follow from it.                  *)

LEMMA InitInv == Init => IInv
<1>1. Init => TypeOK
  BY InitTypeOK
<1>2. ASSUME Init, NEW r \in Requests
      PROVE  RequestInv(r)
  <2>1. req[r] = Idle
    BY <1>2 DEF Init
  <2> QED BY <2>1 DEF RequestInv, At, Idle
<1> QED BY <1>1, <1>2 DEF Init, IInv, OneReversal, ReversedHasMirror

LEMMA NextInv == IInv /\ [Next]_vars => IInv'
<1>1. ASSUME IInv, Next
      PROVE  IInv'
  <2>1. CASE \E r \in Requests : BeginStep(r)
    BY <1>1, <2>1, BeginInv
  <2>2. CASE \E r \in Requests : EntryStep(r)
    BY <1>1, <2>2, EntryStepInv
  <2>3. CASE \E r \in Requests : PeriodStep(r)
    BY <1>1, <2>3, PeriodStepInv
  <2>4. CASE \E r \in Requests : Fail(r)
    BY <1>1, <2>4, Returns DEF Fail
  <2>5. CASE (\E a \in Accounts : DeactivateAccount(a)) \/ NextMonth
    <3>1. /\ UNCHANGED <<journal, period, req>>
          /\ active' \subseteq Accounts
          /\ month' \in Periods
      BY <1>1, <2>5, PeriodsAssumption DEF DeactivateAccount, NextMonth, IInv, TypeOK, Periods
    <3>2. TypeOK'
      BY <1>1, <3>1 DEF IInv, TypeOK
    <3> QED BY <1>1, <3>1, <3>2
        DEF IInv, RequestInv, At, EntryInv, OneReversal, ReversedHasMirror, Reversals
  <2>6. CASE \E r \in Requests : DocumentBegin(r) \/ DocumentEnd(r)
    BY <1>1, <2>6, DocumentInv
  <2> QED BY <1>1, <2>1, <2>2, <2>3, <2>4, <2>5, <2>6 DEF Next, OwnStep, Progress
<1>2. ASSUME IInv, UNCHANGED vars
      PROVE  IInv'
  BY <1>2 DEF vars, IInv, TypeOK, RequestInv, At, EntryInv, OneReversal,
              ReversedHasMirror, Reversals
<1> QED BY <1>1, <1>2

\* The inductive invariant holds in every reachable state, for every number of
\* concurrent requests, entries, periods and accounts.
THEOREM InductiveInvariant == Spec => []IInv
BY InitInv, NextInv, PTL DEF Spec

\* Every table and request keeps its type (the schema's columns).
THEOREM TypeCorrect == Spec => []TypeOK
<1>1. IInv => TypeOK
  BY DEF IInv
<1> QED BY <1>1, InductiveInvariant, PTL

\* No interleaving of reversals gives an entry two reversing entries.
THEOREM AtMostOneReversal == Spec => []OneReversal
<1>1. IInv => OneReversal
  BY DEF IInv
<1> QED BY <1>1, InductiveInvariant, PTL

\* An entry flagged as reversed always has its mirror in the journal.
THEOREM ReversedIsMirrored == Spec => []ReversedHasMirror
<1>1. IInv => ReversedHasMirror
  BY DEF IInv
<1> QED BY <1>1, InductiveInvariant, PTL

-----------------------------------------------------------------------------
(* Steps of the ledger seen from the journal alone.                        *)

\* The only steps that write the journal.
LEMMA JournalWriters ==
  ASSUME Next
  PROVE  \/ UNCHANGED journal
         \/ \E r \in Requests : \/ CreateInsert(r) \/ ReverseMark(r)
                               \/ PostUpdate(r) \/ VoidUpdate(r)
BY DEF Next, OwnStep, Progress, DocumentBegin, DocumentEnd, BeginStep, EntryStep, PeriodStep, Fail, DeactivateAccount, NextMonth, tables,
       CreateBegin, PostBegin, VoidBegin, ReverseBegin, CloseBegin, ReopenBegin,
       LockBegin, YearBegin, CreateReadPeriod, CreateCheckLines, PostReadEntry,
       PostFindPeriod, PostCreatePeriod, CloseCountDrafts, CloseReadPrevious,
       CloseUpdate, ReopenUpdate, LockUpdate, YearFind, YearCreate

\* What an insert does to the journal.
LEMMA InsertEffect ==
  ASSUME IInv, NEW r \in Requests, CreateInsert(r), ~UNCHANGED journal
  PROVE  \E e \in EntryIds \ DOMAIN journal :
           LET row == req[r].row IN
           /\ row \in Entries /\ ~row.isReversed /\ MayBalance(row.lines)
           /\ row.reverses # NoEntry =>
                /\ row.reverses \in DOMAIN journal
                /\ row.lines = Swap(journal[row.reverses].lines)
                /\ ~ReversalExists(row.reverses)
           /\ DOMAIN journal' = DOMAIN journal \cup {e}
           /\ journal'[e] = row
           /\ \A x \in DOMAIN journal : journal'[x] = journal[x]
<1>1. RequestInv(r) /\ At(r, "create.insert")
  BY DEF IInv, CreateInsert
<1>2. PICK e \in EntryIds \ DOMAIN journal :
        /\ req[r].row.reverses # NoEntry => ~ReversalExists(req[r].row.reverses)
        /\ journal' = [x \in DOMAIN journal \cup {e} |->
                         IF x = e THEN req[r].row ELSE journal[x]]
  BY DEF CreateInsert
<1>3. /\ DOMAIN journal' = DOMAIN journal \cup {e}
      /\ journal'[e] = req[r].row
      /\ \A x \in DOMAIN journal : journal'[x] = journal[x]
  BY <1>2
<1> QED BY <1>1, <1>2, <1>3 DEF RequestInv, At

\* What a status change and the flagging of a reversed entry do.
LEMMA StatusEffect ==
  ASSUME IInv, NEW r \in Requests, PostUpdate(r) \/ VoidUpdate(r)
  PROVE  \E e \in DOMAIN journal, st \in {"POSTED", "VOID"} :
           SetEntry(e, [journal[e] EXCEPT !.status = st])
<1>1. RequestInv(r)
  BY DEF IInv
<1> QED BY <1>1 DEF PostUpdate, VoidUpdate, RequestInv, At

LEMMA MarkEffect ==
  ASSUME IInv, NEW r \in Requests, ReverseMark(r)
  PROVE  LET e == req[r].row.reverses IN
         /\ e \in DOMAIN journal
         /\ Reversals(e) # {}
         /\ SetEntry(e, [journal[e] EXCEPT !.isReversed = TRUE])
<1>1. RequestInv(r)
  BY DEF IInv
<1> QED BY <1>1 DEF ReverseMark, RequestInv, At, Reversals

-----------------------------------------------------------------------------
(* Ledger implements Books.                                                *)

\* The row of Books that a row of the journal implements.
AbstractRow(row) == [status |-> row.status, lines |-> row.lines,
                     reverses |-> row.reverses, isReversed |-> row.isReversed]
AbstractBooks == [e \in DOMAIN journal |-> AbstractRow(journal[e])]

LEMMA BalanceAgrees == \A l \in Lines : MayBalance(l) => B!Balanced(l)
BY DEF Lines, MayBalance, AmountsGiven, AbsDiff, B!Balanced

LEMMA StepSimulation ==
  ASSUME IInv, [Next]_vars
  PROVE  [B!Next]_AbstractBooks
<1> USE DEF AbstractBooks, AbstractRow
<1>1. CASE UNCHANGED journal
  BY <1>1
<1>2. ASSUME NEW r \in Requests, CreateInsert(r), ~UNCHANGED journal
      PROVE  B!Next
  <2>1. PICK e \in EntryIds \ DOMAIN journal :
           LET row == req[r].row IN
           /\ row \in Entries /\ ~row.isReversed /\ MayBalance(row.lines)
           /\ row.reverses # NoEntry =>
                /\ row.reverses \in DOMAIN journal
                /\ row.lines = Swap(journal[row.reverses].lines)
                /\ ~ReversalExists(row.reverses)
           /\ DOMAIN journal' = DOMAIN journal \cup {e}
           /\ journal'[e] = row
           /\ \A x \in DOMAIN journal : journal'[x] = journal[x]
    BY <1>2, InsertEffect
  <2> DEFINE row == req[r].row
  <2>2. /\ DOMAIN AbstractBooks' = DOMAIN AbstractBooks \cup {e}
        /\ e \notin DOMAIN AbstractBooks
        /\ AbstractBooks'[e] = AbstractRow(row)
        /\ \A x \in DOMAIN AbstractBooks : AbstractBooks'[x] = AbstractBooks[x]
    BY <2>1
  <2>3. AbstractRow(row) \in B!Rows
    BY <2>1 DEF Entries, EntryStatuses, Lines, B!Rows, B!Statuses, B!Amounts
  <2>4. B!Balanced(row.lines) /\ ~row.isReversed
    BY <2>1, BalanceAgrees DEF Entries
  <2>5. row.reverses # NoEntry =>
          /\ row.reverses \in DOMAIN AbstractBooks
          /\ B!Mirrors(row.lines, AbstractBooks[row.reverses].lines)
          /\ B!ReversalOf(row.reverses) = {}
    BY <2>1 DEF B!Mirrors, B!ReversalOf, Swap, ReversalExists
  <2>6. B!Write(e)
    BY <2>2, <2>3, <2>4, <2>5 DEF B!Write
  <2> QED BY <2>6 DEF B!Next
<1>3. ASSUME NEW r \in Requests, PostUpdate(r) \/ VoidUpdate(r)
      PROVE  B!Next
  <2>1. PICK e \in DOMAIN journal, st \in {"POSTED", "VOID"} :
          SetEntry(e, [journal[e] EXCEPT !.status = st])
    BY <1>3, StatusEffect
  <2>2. journal[e] \in Entries
    BY DEF IInv, TypeOK
  <2>3. B!SetStatus(e, st)
    BY <2>1, <2>2 DEF SetEntry, Entries, B!SetStatus
  <2> QED BY <2>3 DEF B!Next
<1>4. ASSUME NEW r \in Requests, ReverseMark(r)
      PROVE  B!Next
  <2>1. PICK e \in DOMAIN journal :
          /\ Reversals(e) # {}
          /\ SetEntry(e, [journal[e] EXCEPT !.isReversed = TRUE])
    BY <1>4, MarkEffect
  <2>2. journal[e] \in Entries
    BY DEF IInv, TypeOK
  <2>3. B!Flag(e)
    BY <2>1, <2>2 DEF SetEntry, Entries, B!Flag, B!ReversalOf, Reversals
  <2> QED BY <2>3 DEF B!Next
<1> QED BY <1>1, <1>2, <1>3, <1>4, JournalWriters DEF vars

\* Every behaviour of the ledger is a behaviour of Books.
THEOREM LedgerImplementsBooks == Spec => ImplementsBooks
<1>1. Init => B!Init
  BY DEF Init, B!Init
<1>2. IInv /\ [Next]_vars => [B!Next]_AbstractBooks
  BY StepSimulation
<1> QED BY <1>1, <1>2, InductiveInvariant, PTL
    DEF Spec, ImplementsBooks, B!Spec, AbstractBooks, AbstractRow

-----------------------------------------------------------------------------
(* A half-done reversal stays half done.                                   *)

\* A request reaches the flagging of the original only by an insert.
LEMMA MarkReached ==
  ASSUME IInv, Next, NEW r \in Requests, At(r, "reverse.mark")'
  PROVE  \/ req'[r] = req[r]
         \/ CreateInsert(r) /\ ~UNCHANGED journal /\ req'[r].row = req[r].row
<1> SUFFICES ASSUME req'[r] # req[r]
             PROVE  CreateInsert(r) /\ ~UNCHANGED journal /\ req'[r].row = req[r].row
  OBVIOUS
<1>1. ASSUME NEW q \in Requests, NEW s, Move(q, s), s.at # "reverse.mark"
      PROVE  FALSE
  BY <1>1 DEF Move, At, IInv, TypeOK
<1>2. ASSUME NEW q \in Requests, NEW point \in Points \ {"reverse.mark"}, Goto(q, point)
      PROVE  FALSE
  <2>1. [req[q] EXCEPT !.at = point].at = point
    BY <1>2, GotoState
  <2> QED BY <1>1, <1>2, <2>1 DEF Goto
<1>3. ASSUME NEW q \in Requests, Return(q)
      PROVE  FALSE
  BY <1>1, <1>3 DEF Return, Idle
<1>4. ASSUME NEW q \in Requests, BeginStep(q)
      PROVE  FALSE
  <2>1. ASSUME NEW op, NEW at, NEW x,
               \/ Move(q, OnEntry(op, at, x)) \/ Move(q, OnRow(op, at, x))
               \/ Move(q, OnPeriod(op, at, x)),
               at # "reverse.mark"
        PROVE  FALSE
    BY <1>1, <2>1 DEF OnEntry, OnRow, OnPeriod
  <2>2. CASE CreateBegin(q) \/ ReverseBegin(q)
    BY <2>1, <2>2 DEF CreateBegin, ReverseBegin, Begin
  <2>3. CASE PostBegin(q) \/ VoidBegin(q)
    BY <2>1, <2>3 DEF PostBegin, VoidBegin, Begin
  <2>4. CASE CloseBegin(q) \/ ReopenBegin(q) \/ LockBegin(q) \/ YearBegin(q)
    BY <2>1, <2>4 DEF CloseBegin, ReopenBegin, LockBegin, YearBegin, Begin
  <2> QED BY <1>4, <2>2, <2>3, <2>4 DEF BeginStep
<1>5. ASSUME NEW q \in Requests, PeriodStep(q)
      PROVE  FALSE
  <2>1. CASE CloseCountDrafts(q) \/ CloseReadPrevious(q)
    BY <1>2, <1>3, <2>1 DEF CloseCountDrafts, CloseReadPrevious, Points
  <2>2. CASE CloseUpdate(q) \/ ReopenUpdate(q) \/ LockUpdate(q)
    BY <1>3, <2>2 DEF CloseUpdate, ReopenUpdate, LockUpdate
  <2>3. ASSUME NextPeriod(q)
        PROVE  FALSE
    <3>1. OnPeriod("year", "year.find", req[q].p + 1).at # "reverse.mark"
      BY DEF OnPeriod
    <3> QED BY <1>1, <1>3, <2>3, <3>1 DEF NextPeriod
  <2>4. CASE YearFind(q) \/ YearCreate(q)
    BY <1>2, <1>3, <2>3, <2>4 DEF YearFind, YearCreate, Points
  <2> QED BY <1>5, <2>1, <2>2, <2>4 DEF PeriodStep
<1>6. ASSUME NEW q \in Requests, EntryStep(q), ~CreateInsert(q)
      PROVE  FALSE
  <2>1. CASE CreateReadPeriod(q) \/ CreateCheckLines(q)
    BY <1>2, <1>3, <2>1 DEF CreateReadPeriod, CreateCheckLines, Points
  <2>2. CASE PostReadEntry(q) \/ PostFindPeriod(q) \/ PostCreatePeriod(q)
    BY <1>2, <1>3, <2>2 DEF PostReadEntry, PostFindPeriod, PostCreatePeriod, Points
  <2>3. CASE PostUpdate(q) \/ VoidUpdate(q) \/ ReverseMark(q)
    BY <1>2, <1>3, <2>3 DEF PostUpdate, VoidUpdate, ReverseMark, Points
  <2> QED BY <1>6, <2>1, <2>2, <2>3 DEF EntryStep
<1>7. ASSUME NEW q \in Requests, DocumentBegin(q) \/ DocumentEnd(q)
      PROVE  FALSE
  <2>1. ASSUME NEW row, Move(q, OnRow("document", "create.period", row))
        PROVE  FALSE
    BY <1>1, <2>1 DEF OnRow
  <2> QED BY <1>3, <1>7, <2>1 DEF DocumentBegin, DocumentEnd, Begin
<1>8. PICK q \in Requests : CreateInsert(q)
  BY <1>3, <1>4, <1>5, <1>6, <1>7 DEF Next, OwnStep, Progress, Fail, DeactivateAccount, NextMonth
<1>9. ~Return(q)
  BY <1>3
<1>10. PICK e \in EntryIds, at \in {"reverse.mark", "post.entry"} :
        /\ Move(q, Inserted(req[q], at, e))
        /\ e \notin DOMAIN journal /\ e \in DOMAIN journal'
  BY <1>8, <1>9 DEF CreateInsert
<1>11. r = q
  BY <1>10 DEF Move, IInv, TypeOK
<1>12. req'[r] = Inserted(req[r], at, e)
  BY <1>10, <1>11 DEF Move, IInv, TypeOK
<1> QED BY <1>8, <1>10, <1>11, <1>12 DEF Inserted

LEMMA HalfReversedStep ==
  ASSUME IInv, [Next]_vars, NEW e \in DOMAIN journal, HalfReversed(e)
  PROVE  HalfReversed(e)'
<1>1. CASE UNCHANGED vars
  BY <1>1 DEF vars, HalfReversed, Reversals, At
<1>2. CASE Next
  <2>1. /\ e \in EntryIds /\ e # NoEntry
        /\ \E x \in DOMAIN journal : journal[x].reverses = e
        /\ ~journal[e].isReversed
    BY NoEntryAssumption DEF HalfReversed, Reversals, IInv, TypeOK
  <2>2. /\ DOMAIN journal \subseteq DOMAIN journal'
        /\ \A x \in DOMAIN journal : journal'[x].reverses = journal[x].reverses
        /\ ~journal'[e].isReversed
    <3>1. CASE UNCHANGED journal
      BY <2>1, <3>1
    <3>2. ASSUME NEW r \in Requests, CreateInsert(r), ~UNCHANGED journal
          PROVE  <2>2
      BY <2>1, <3>2, InsertEffect
    <3>3. ASSUME NEW r \in Requests, PostUpdate(r) \/ VoidUpdate(r)
          PROVE  <2>2
      <4>1. PICK x \in DOMAIN journal, st \in {"POSTED", "VOID"} :
              SetEntry(x, [journal[x] EXCEPT !.status = st])
        BY <3>3, StatusEffect
      <4>2. journal[x] \in Entries
        BY DEF IInv, TypeOK
      <4> QED BY <2>1, <4>1, <4>2 DEF SetEntry, Entries
    <3>4. ASSUME NEW r \in Requests, ReverseMark(r)
          PROVE  <2>2
      <4> DEFINE x == req[r].row.reverses
      <4>1. /\ x \in DOMAIN journal
            /\ SetEntry(x, [journal[x] EXCEPT !.isReversed = TRUE])
        BY <3>4, MarkEffect
      <4>2. x # e
        BY <3>4 DEF HalfReversed, ReverseMark
      <4>3. journal[x] \in Entries
        BY <4>1 DEF IInv, TypeOK
      <4> QED BY <2>1, <4>1, <4>2, <4>3 DEF SetEntry, Entries
    <3> QED BY <1>2, <3>1, <3>2, <3>3, <3>4, JournalWriters
  <2>3. ASSUME NEW r \in Requests, At(r, "reverse.mark")', req'[r].row.reverses = e
        PROVE  FALSE
    <3>1. req'[r] # req[r]
      BY <2>3 DEF HalfReversed, At
    <3>2. CreateInsert(r) /\ ~UNCHANGED journal /\ req[r].row.reverses = e
      BY <1>2, <2>3, <3>1, MarkReached
    <3> QED BY <2>1, <3>2, InsertEffect DEF ReversalExists
  <2> QED BY <2>1, <2>2, <2>3 DEF HalfReversed, Reversals
<1> QED BY <1>1, <1>2

\* A reversal that stopped between its insert and the flag is never completed,
\* whatever is retried later.
THEOREM HalfReversalStuck == Spec => HalfReversalIsForever
<1>1. IInv /\ [Next]_vars =>
        [\A e \in DOMAIN journal : HalfReversed(e) => HalfReversed(e)']_vars
  BY HalfReversedStep
<1> QED BY <1>1, InductiveInvariant, PTL DEF Spec, HalfReversalIsForever

-----------------------------------------------------------------------------
(* Sums over finite sets, as MapThenSumSet defines them.                   *)

\* Induction over the subsets of a finite set: F holds those that are done.
LEMMA SubsetInduction ==
  ASSUME NEW S, IsFiniteSet(S), NEW F, {} \in F,
         \A T \in SUBSET S : T # {} /\ (\A x \in T : T \ {x} \in F) => T \in F
  PROVE  SUBSET S \subseteq F
<1> DEFINE Missing == (SUBSET S) \ F
<1> SUFFICES ASSUME Missing # {} PROVE FALSE
  OBVIOUS
<1>1. IsWellFoundedOn(StrictSubsetOrdering(S), SUBSET S)
  BY FS_StrictSubsetOrderingWellFounded, FS_FiniteSubsetsOfFinite
<1>2. PICK T \in Missing : \A U \in Missing : <<U, T>> \notin StrictSubsetOrdering(S)
  BY <1>1, WFMin
<1>3. ASSUME NEW x \in T
      PROVE  T \ {x} \in F
  <2>1. T \ {x} \in SUBSET S /\ T \ {x} \subseteq T /\ T \ {x} # T
    BY <1>3
  <2>2. <<T \ {x}, T>> \in StrictSubsetOrdering(S)
    BY <2>1 DEF StrictSubsetOrdering
  <2> QED BY <1>2, <2>1, <2>2
<1> QED BY <1>2, <1>3

Chosen(T) == CHOOSE x \in T : TRUE

\* g gives, for each subset of S, the sum of f over it, as MapThenSumSet does.
Sums(f, S, g) ==
  g = [T \in SUBSET S |-> IF T = {} THEN 0 ELSE f[Chosen(T)] + g[T \ {Chosen(T)}]]

LEMMA ChosenIn == ASSUME NEW T, T # {} PROVE Chosen(T) \in T
BY DEF Chosen

\* The recursive definition defines something.
LEMMA SumsExist ==
  ASSUME NEW S, IsFiniteSet(S), NEW f
  PROVE  \E g : Sums(f, S, g)
<1> DEFINE Upto(n) == {T \in SUBSET S : Cardinality(T) <= n}
           Summed(n, g) ==
             g = [T \in Upto(n) |-> IF T = {} THEN 0 ELSE f[Chosen(T)] + g[T \ {Chosen(T)}]]
           F == {T \in SUBSET S : \E g : Summed(Cardinality(T), g)}
<1>1. ASSUME NEW T \in SUBSET S
      PROVE  /\ IsFiniteSet(T) /\ Cardinality(T) \in Nat
             /\ T = {} <=> Cardinality(T) = 0
             /\ Cardinality(T) <= Cardinality(S)
             /\ \A x \in T : T \ {x} \in SUBSET S /\ Cardinality(T \ {x}) = Cardinality(T) - 1
  BY <1>1, FS_Subset, FS_CardinalityType, FS_EmptySet, FS_RemoveElement
<1>2. {} \in F
  <2> DEFINE g == [T \in Upto(0) |-> 0]
  <2>1. Upto(0) = {{}} /\ Cardinality({}) = 0
    BY <1>1, FS_EmptySet
  <2>2. Summed(0, g)
    BY <2>1
  <2> QED BY <2>1, <2>2
<1>3. ASSUME NEW T \in SUBSET S, T # {}, \A x \in T : T \ {x} \in F
      PROVE  T \in F
  <2> DEFINE n == Cardinality(T)
  <2>1. n \in Nat /\ n # 0
    BY <1>1, <1>3
  <2>2. PICK g : Summed(n - 1, g)
    <3>1. PICK x \in T : T \ {x} \in F
      BY <1>3
    <3>2. Cardinality(T \ {x}) = n - 1
      BY <1>1
    <3>3. \E g : Summed(Cardinality(T \ {x}), g)
      BY <3>1
    <3> HIDE DEF Summed, n
    <3> QED BY <3>2, <3>3
  <2> HIDE DEF n
  <2> DEFINE h == [U \in Upto(n) |-> IF U \in Upto(n - 1) THEN g[U]
                                     ELSE f[Chosen(U)] + g[U \ {Chosen(U)}]]
  <2>3. ASSUME NEW U \in Upto(n), U # {}
        PROVE  U \ {Chosen(U)} \in Upto(n - 1)
    BY <1>1, <2>1, <2>3, ChosenIn
  <2>4. {} \in Upto(n - 1)
    BY <1>1, <2>1
  <2>5. Upto(n - 1) \subseteq Upto(n)
    BY <1>1, <2>1
  <2>6. \A U \in Upto(n - 1) : h[U] = g[U]
    BY <2>5
  <2>7. ASSUME NEW U \in Upto(n)
        PROVE  h[U] = IF U = {} THEN 0 ELSE f[Chosen(U)] + h[U \ {Chosen(U)}]
    <3> HIDE DEF Upto
    <3>1. CASE U = {}
      BY <2>2, <2>4, <2>6, <3>1
    <3>2. CASE U # {}
      <4>1. h[U \ {Chosen(U)}] = g[U \ {Chosen(U)}]
        BY <2>3, <2>6, <3>2
      <4>2. h[U] = f[Chosen(U)] + g[U \ {Chosen(U)}]
        BY <2>2, <3>2
      <4> QED BY <3>2, <4>1, <4>2
    <3> QED BY <3>1, <3>2
  <2>8. Summed(n, h)
    <3> DEFINE k == [U \in Upto(n) |-> IF U = {} THEN 0 ELSE f[Chosen(U)] + h[U \ {Chosen(U)}]]
    <3> HIDE DEF Upto
    <3>1. \A U \in Upto(n) : h[U] = k[U]
      BY <2>7
    <3> QED BY <3>1
  <2> QED BY <2>8 DEF n
<1>4. S \in F
  <2> HIDE DEF F
  <2> QED BY <1>2, <1>3, SubsetInduction
<1>5. Upto(Cardinality(S)) = SUBSET S
  BY <1>1
<1> QED BY <1>4, <1>5 DEF Sums

\* One step of the recursion.
Recursion(f, S, g) ==
  /\ g[{}] = 0
  /\ \A T \in SUBSET S : T # {} =>
       /\ Chosen(T) \in T /\ T \ {Chosen(T)} \in SUBSET S
       /\ g[T] = f[Chosen(T)] + g[T \ {Chosen(T)}]

LEMMA SumsAt ==
  ASSUME NEW S, NEW f, NEW g, Sums(f, S, g)
  PROVE  Recursion(f, S, g)
BY ChosenIn DEF Sums, Recursion

LEMMA SumsInt ==
  ASSUME NEW S, IsFiniteSet(S), NEW f, \A x \in S : f[x] \in Int, NEW g, Sums(f, S, g)
  PROVE  \A T \in SUBSET S : g[T] \in Int
<1> DEFINE F == {T \in SUBSET S : g[T] \in Int}
<1>0. Recursion(f, S, g)
  BY SumsAt
<1>1. {} \in F
  BY <1>0 DEF Recursion
<1>2. ASSUME NEW T \in SUBSET S, T # {}, \A x \in T : T \ {x} \in F
      PROVE  T \in F
  <2>1. /\ Chosen(T) \in T /\ Chosen(T) \in S
        /\ g[T] = f[Chosen(T)] + g[T \ {Chosen(T)}]
    BY <1>0, <1>2 DEF Recursion
  <2>2. f[Chosen(T)] \in Int /\ g[T \ {Chosen(T)}] \in Int
    BY <1>2, <2>1
  <2> QED BY <2>1, <2>2
<1>3. SUBSET S \subseteq F
  <2> HIDE DEF F
  <2> QED BY <1>1, <1>2, SubsetInduction
<1> QED BY <1>3

\* A sum depends on the summands alone.
LEMMA SumsAgree ==
  ASSUME NEW S, NEW f, NEW g, Sums(f, S, g), NEW R, NEW e, NEW h, Sums(e, R, h),
         NEW U, U \subseteq S, U \subseteq R, IsFiniteSet(U), \A x \in U : f[x] = e[x]
  PROVE  g[U] = h[U]
<1> DEFINE F == {T \in SUBSET U : g[T] = h[T]}
<1>a. Recursion(f, S, g)
  BY SumsAt
<1>b. Recursion(e, R, h)
  BY SumsAt
<1>1. {} \in F
  <2>1. g[{}] = 0 /\ h[{}] = 0
    BY <1>a, <1>b DEF Recursion
  <2> QED BY <2>1
<1>2. ASSUME NEW T \in SUBSET U, T # {}, \A x \in T : T \ {x} \in F
      PROVE  T \in F
  <2>1. T \in SUBSET S /\ T \in SUBSET R
    OBVIOUS
  <2>2. g[T] = f[Chosen(T)] + g[T \ {Chosen(T)}] /\ h[T] = e[Chosen(T)] + h[T \ {Chosen(T)}]
    BY <1>a, <1>b, <1>2, <2>1 DEF Recursion
  <2>3. Chosen(T) \in T
    BY <1>2, ChosenIn
  <2> QED BY <1>2, <2>2, <2>3
<1>3. SUBSET U \subseteq F
  <2> HIDE DEF F
  <2> QED BY <1>1, <1>2, SubsetInduction
<1> QED BY <1>3

\* The order in which elements are added does not matter.
LEMMA SumsAdd ==
  ASSUME NEW S, IsFiniteSet(S), NEW f, \A x \in S : f[x] \in Int, NEW g, Sums(f, S, g),
         NEW T \in SUBSET S, NEW x \in S \ T
  PROVE  g[T \cup {x}] = g[T] + f[x]
<1> DEFINE F == {U \in SUBSET S : \A y \in S \ U : g[U \cup {y}] = g[U] + f[y]}
<1>a. Recursion(f, S, g)
  BY SumsAt
<1>1. {} \in F
  <2> SUFFICES ASSUME NEW y \in S
               PROVE  g[{y}] = g[{}] + f[y]
    OBVIOUS
  <2>1. Chosen({y}) = y
    BY ChosenIn
  <2>2. {y} \in SUBSET S /\ {y} \ {y} = {}
    OBVIOUS
  <2>3. g[{y}] = f[y] + g[{}] /\ g[{}] = 0
    BY <1>a, <2>1, <2>2 DEF Recursion
  <2> QED BY <2>3
<1>2. ASSUME NEW U \in SUBSET S, U # {}, \A y \in U : U \ {y} \in F
      PROVE  U \in F
  <2> SUFFICES ASSUME NEW y \in S \ U
               PROVE  g[U \cup {y}] = g[U] + f[y]
    OBVIOUS
  <2> DEFINE V == U \cup {y}
             c == Chosen(V)
  <2>1. V \in SUBSET S /\ c \in V /\ g[V] = f[c] + g[V \ {c}]
    BY <1>a DEF Recursion
  <2>2. CASE c = y
    <3>1. V \ {c} = U
      BY <2>2
    <3>2. g[U] \in Int /\ f[y] \in Int
      BY SumsInt
    <3>3. g[V] = f[y] + g[U]
      BY <2>1, <2>2, <3>1
    <3> QED BY <3>2, <3>3
  <2>3. CASE c # y
    <3>1. c \in U /\ c \in S
      BY <2>1, <2>3
    <3>2. V \ {c} = (U \ {c}) \cup {y} /\ U = (U \ {c}) \cup {c} /\ y \notin U \ {c}
      BY <2>3, <3>1
    <3>3. U \ {c} \in F
      BY <1>2, <3>1
    <3> HIDE DEF V, c
    <3>4. g[(U \ {c}) \cup {y}] = g[U \ {c}] + f[y]
      BY <3>2, <3>3
    <3>5. g[(U \ {c}) \cup {c}] = g[U \ {c}] + f[c]
      BY <3>1, <3>3
    <3>6. g[U \ {c}] \in Int /\ f[c] \in Int /\ f[y] \in Int
      BY <3>1, SumsInt
    <3>7. g[V] = f[c] + (g[U \ {c}] + f[y]) /\ g[U] = g[U \ {c}] + f[c]
      BY <2>1, <3>2, <3>4, <3>5
    <3>8. g[V] = g[U] + f[y]
      BY <3>6, <3>7
    <3> QED BY <3>8 DEF V
  <2> QED BY <2>2, <2>3
<1>3. SUBSET S \subseteq F
  <2> HIDE DEF F
  <2> QED BY <1>1, <1>2, SubsetInduction
<1> QED BY <1>3

\* Sums whose summands differ by at most one differ by at most their number.
LEMMA SumsDiffer ==
  ASSUME NEW S, IsFiniteSet(S), NEW f, NEW e, NEW g, NEW h, Sums(f, S, g), Sums(e, S, h),
         \A x \in S : /\ f[x] \in Int /\ e[x] \in Int
                      /\ -1 <= f[x] - e[x] /\ f[x] - e[x] <= 1
  PROVE  /\ g[S] \in Int /\ h[S] \in Int
         /\ -Cardinality(S) <= g[S] - h[S] /\ g[S] - h[S] <= Cardinality(S)
<1> DEFINE F == {T \in SUBSET S : /\ -Cardinality(T) <= g[T] - h[T]
                                  /\ g[T] - h[T] <= Cardinality(T)}
<1>0. \A T \in SUBSET S : g[T] \in Int /\ h[T] \in Int
  BY SumsInt
<1>a. Recursion(f, S, g)
  BY SumsAt
<1>b. Recursion(e, S, h)
  BY SumsAt
<1>1. {} \in F
  <2>1. g[{}] = 0 /\ h[{}] = 0 /\ Cardinality({}) = 0
    BY <1>a, <1>b, FS_EmptySet DEF Recursion
  <2> QED BY <2>1
<1>2. ASSUME NEW T \in SUBSET S, T # {}, \A x \in T : T \ {x} \in F
      PROVE  T \in F
  <2> DEFINE c == Chosen(T)
  <2>1. /\ c \in T /\ c \in S /\ T \ {c} \in SUBSET S /\ T \ {c} \in F
        /\ g[T] = f[c] + g[T \ {c}] /\ h[T] = e[c] + h[T \ {c}]
    BY <1>a, <1>b, <1>2 DEF Recursion
  <2>2. IsFiniteSet(T)
    BY FS_Subset
  <2>3. Cardinality(T) \in Nat /\ Cardinality(T \ {c}) = Cardinality(T) - 1
    BY <2>1, <2>2, FS_CardinalityType, FS_RemoveElement
  <2>4. /\ g[T \ {c}] \in Int /\ h[T \ {c}] \in Int
        /\ f[c] \in Int /\ e[c] \in Int /\ -1 <= f[c] - e[c] /\ f[c] - e[c] <= 1
    BY <1>0, <2>1 DEF Recursion
  <2>5. /\ -Cardinality(T \ {c}) <= g[T \ {c}] - h[T \ {c}]
        /\ g[T \ {c}] - h[T \ {c}] <= Cardinality(T \ {c})
    BY <2>1
  <2> HIDE DEF c
  <2>6. /\ -Cardinality(T) <= g[T] - h[T]
        /\ g[T] - h[T] <= Cardinality(T)
    BY <2>1, <2>3, <2>4, <2>5
  <2> QED BY <2>6
<1>3. SUBSET S \subseteq F
  <2> HIDE DEF F
  <2> QED BY <1>1, <1>2, SubsetInduction
<1> QED BY <1>0, <1>3 DEF Recursion

\* The sum of f over S.
SumOf(f, S) == (CHOOSE g : Sums(f, S, g))[S]

LEMMA SumOfIs ==
  ASSUME NEW S, IsFiniteSet(S), NEW f
  PROVE  \E g : Sums(f, S, g) /\ SumOf(f, S) = g[S]
<1>1. Sums(f, S, CHOOSE g : Sums(f, S, g))
  BY SumsExist
<1> QED BY <1>1 DEF SumOf

LEMMA SumOfPart ==
  ASSUME NEW S, IsFiniteSet(S), NEW f, NEW g, Sums(f, S, g),
         NEW T \in SUBSET S, NEW e, \A x \in T : e[x] = f[x]
  PROVE  SumOf(e, T) = g[T]
<1>1. IsFiniteSet(T)
  BY FS_Subset
<1>2. PICK h : Sums(e, T, h) /\ SumOf(e, T) = h[T]
  BY <1>1, SumOfIs
<1>3. h[T] = g[T]
  <2>1. T \subseteq S /\ T \subseteq T
    OBVIOUS
  <2> QED BY <1>1, <1>2, <2>1, SumsAgree
<1> QED BY <1>2, <1>3

\* Sums of the same summands.
LEMMA SumOfSame ==
  ASSUME NEW S, IsFiniteSet(S), NEW f, NEW e, \A x \in S : e[x] = f[x]
  PROVE  SumOf(e, S) = SumOf(f, S)
<1>1. PICK g : Sums(f, S, g) /\ SumOf(f, S) = g[S]
  BY SumOfIs
<1>2. S \in SUBSET S
  OBVIOUS
<1> QED BY <1>1, <1>2, SumOfPart

\* One summand more.
LEMMA SumOfAdd ==
  ASSUME NEW S, IsFiniteSet(S), NEW x, x \notin S, NEW f,
         \A y \in S \cup {x} : f[y] \in Int, NEW e, \A y \in S : e[y] = f[y]
  PROVE  /\ SumOf(e, S) \in Int
         /\ SumOf(f, S \cup {x}) = SumOf(e, S) + f[x]
<1> DEFINE T == S \cup {x}
<1>1. IsFiniteSet(T)
  BY FS_AddElement
<1>2. PICK g : Sums(f, T, g) /\ SumOf(f, T) = g[T]
  BY <1>1, SumOfIs
<1>3. S \in SUBSET T /\ x \in T \ S /\ T = S \cup {x} /\ \A y \in T : f[y] \in Int
  OBVIOUS
<1> HIDE DEF T
<1>4. SumOf(e, S) = g[S]
  BY <1>1, <1>2, <1>3, SumOfPart
<1>5. g[S] \in Int
  BY <1>1, <1>2, <1>3, SumsInt
<1>6. g[S \cup {x}] = g[S] + f[x]
  BY <1>1, <1>2, <1>3, SumsAdd
<1> QED BY <1>2, <1>3, <1>4, <1>5, <1>6

\* A sum of zeros.
LEMMA SumOfZeros ==
  ASSUME NEW S, IsFiniteSet(S), NEW f, \A x \in S : f[x] = 0
  PROVE  SumOf(f, S) = 0
<1>1. PICK g : Sums(f, S, g) /\ SumOf(f, S) = g[S]
  BY SumOfIs
<1> DEFINE F == {T \in SUBSET S : g[T] = 0}
<1>2. Recursion(f, S, g)
  BY <1>1, SumsAt
<1>3. {} \in F
  BY <1>2 DEF Recursion
<1>4. ASSUME NEW T \in SUBSET S, T # {}, \A x \in T : T \ {x} \in F
      PROVE  T \in F
  <2>1. /\ Chosen(T) \in T /\ Chosen(T) \in S
        /\ g[T] = f[Chosen(T)] + g[T \ {Chosen(T)}]
    BY <1>2, <1>4 DEF Recursion
  <2>2. f[Chosen(T)] = 0 /\ g[T \ {Chosen(T)}] = 0
    BY <1>4, <2>1
  <2> QED BY <2>1, <2>2
<1>5. SUBSET S \subseteq F
  <2> HIDE DEF F
  <2> QED BY <1>3, <1>4, SubsetInduction
<1> QED BY <1>1, <1>5

\* One summand greater.
LEMMA SumOfRaised ==
  ASSUME NEW S, IsFiniteSet(S), NEW x \in S, NEW f, \A y \in S : f[y] \in Int,
         NEW e, \A y \in S \ {x} : e[y] = f[y], NEW n \in Int, e[x] = f[x] + n
  PROVE  SumOf(e, S) = SumOf(f, S) + n
<1>1. PICK g : Sums(f, S, g) /\ SumOf(f, S) = g[S]
  BY SumOfIs
<1>2. PICK h : Sums(e, S, h) /\ SumOf(e, S) = h[S]
  BY SumOfIs
<1>3. \A y \in S : e[y] \in Int
  OBVIOUS
<1> DEFINE T == S \ {x}
<1>4. T \subseteq S /\ x \in S \ T /\ S = T \cup {x} /\ \A y \in T : f[y] = e[y]
  OBVIOUS
<1>5. IsFiniteSet(T)
  BY FS_RemoveElement
<1> HIDE DEF T
<1>6. g[T] = h[T]
  BY <1>1, <1>2, <1>4, <1>5, SumsAgree
<1>7. g[T] \in Int
  BY <1>1, <1>4, SumsInt
<1>8. g[T \cup {x}] = g[T] + f[x]
  BY <1>1, <1>4, SumsAdd
<1>9. h[T \cup {x}] = h[T] + e[x]
  BY <1>2, <1>3, <1>4, SumsAdd
<1> QED BY <1>1, <1>2, <1>4, <1>6, <1>7, <1>8, <1>9

-----------------------------------------------------------------------------
(* The trial balance.                                                      *)

\* The journal is finite at all times, however many keys there are.
LEMMA JournalStaysFinite ==
  ASSUME IInv, [Next]_vars, IsFiniteSet(DOMAIN journal)
  PROVE  IsFiniteSet(DOMAIN journal')
<1>1. CASE UNCHANGED journal
  BY <1>1
<1>2. ASSUME NEW r \in Requests, CreateInsert(r), ~UNCHANGED journal
      PROVE  IsFiniteSet(DOMAIN journal')
  <2>1. PICK e \in EntryIds : DOMAIN journal' = DOMAIN journal \cup {e}
    BY <1>2, InsertEffect
  <2> QED BY <2>1, FS_AddElement
<1>3. ASSUME NEW r \in Requests, ReverseMark(r) \/ PostUpdate(r) \/ VoidUpdate(r)
      PROVE  IsFiniteSet(DOMAIN journal')
  BY <1>3 DEF ReverseMark, PostUpdate, VoidUpdate, SetEntry
<1> QED BY <1>1, <1>2, <1>3, JournalWriters DEF vars

THEOREM JournalIsFinite == Spec => []IsFiniteSet(DOMAIN journal)
<1>1. Init => IsFiniteSet(DOMAIN journal)
  <2> SUFFICES ASSUME Init PROVE IsFiniteSet(DOMAIN journal)
    OBVIOUS
  <2>1. DOMAIN journal = {}
    BY DEF Init
  <2> QED BY <2>1, FS_EmptySet
<1>2. IInv /\ [Next]_vars /\ IsFiniteSet(DOMAIN journal) => IsFiniteSet(DOMAIN journal)'
  BY JournalStaysFinite
<1> QED BY <1>1, <1>2, InductiveInvariant, PTL DEF Spec

LEMMA DebitsAreSums ==
  ASSUME IsFiniteSet(Posted)
  PROVE  \E g : /\ Sums([e \in Posted |-> journal[e].lines.debit], Posted, g)
                /\ PostedTotal(DebitSide) = g[Posted]
<1> DEFINE f == [e \in Posted |-> journal[e].lines.debit]
           P(g) == g = [T \in SUBSET Posted |->
                         IF T = {} THEN 0
                         ELSE journal[CHOOSE x \in T : TRUE].lines.debit
                                + g[T \ {CHOOSE x \in T : TRUE}]]
<1>1. ASSUME NEW g
      PROVE  Sums(f, Posted, g) <=> P(g)
  <2>1. \A T \in SUBSET Posted : T # {} =>
          f[Chosen(T)] = journal[CHOOSE x \in T : TRUE].lines.debit
    BY ChosenIn DEF Chosen
  <2> HIDE DEF f
  <2> QED BY <2>1 DEF Sums, Chosen
<1>2. \E g : P(g)
  <2> HIDE DEF P, f
  <2> QED BY <1>1, SumsExist
<1>3. P(CHOOSE g : P(g))
  <2> HIDE DEF P
  <2> QED BY <1>2
<1>4. PostedTotal(DebitSide) = (CHOOSE g : P(g))[Posted]
  BY DEF PostedTotal, DebitSide, MapThenSumSet, MapThenFoldSet
<1> HIDE DEF P
<1> QED BY <1>1, <1>3, <1>4

LEMMA CreditsAreSums ==
  ASSUME IsFiniteSet(Posted)
  PROVE  \E g : /\ Sums([e \in Posted |-> journal[e].lines.credit], Posted, g)
                /\ PostedTotal(CreditSide) = g[Posted]
<1> DEFINE f == [e \in Posted |-> journal[e].lines.credit]
           P(g) == g = [T \in SUBSET Posted |->
                         IF T = {} THEN 0
                         ELSE journal[CHOOSE x \in T : TRUE].lines.credit
                                + g[T \ {CHOOSE x \in T : TRUE}]]
<1>1. ASSUME NEW g
      PROVE  Sums(f, Posted, g) <=> P(g)
  <2>1. \A T \in SUBSET Posted : T # {} =>
          f[Chosen(T)] = journal[CHOOSE x \in T : TRUE].lines.credit
    BY ChosenIn DEF Chosen
  <2> HIDE DEF f
  <2> QED BY <2>1 DEF Sums, Chosen
<1>2. \E g : P(g)
  <2> HIDE DEF P, f
  <2> QED BY <1>1, SumsExist
<1>3. P(CHOOSE g : P(g))
  <2> HIDE DEF P
  <2> QED BY <1>2
<1>4. PostedTotal(CreditSide) = (CHOOSE g : P(g))[Posted]
  BY DEF PostedTotal, CreditSide, MapThenSumSet, MapThenFoldSet
<1> HIDE DEF P
<1> QED BY <1>1, <1>3, <1>4

\* However requests overlap and fail, the debits and the credits of the POSTED
\* entries differ by at most one cent for each of them.
THEOREM TrialBalanceIsBounded == Spec => []DriftBounded
<1>1. ASSUME IInv, IsFiniteSet(DOMAIN journal)
      PROVE  DriftBounded
  <2>1. IsFiniteSet(Posted)
    BY <1>1, FS_Subset DEF Posted
  <2> DEFINE d == [e \in Posted |-> journal[e].lines.debit]
             c == [e \in Posted |-> journal[e].lines.credit]
  <2>2. ASSUME NEW e \in Posted
        PROVE  /\ d[e] \in Int /\ c[e] \in Int
               /\ -1 <= d[e] - c[e] /\ d[e] - c[e] <= 1
    <3>1. e \in DOMAIN journal
      BY DEF Posted
    <3>2. /\ journal[e].lines.debit \in Nat /\ journal[e].lines.credit \in Nat
          /\ AbsDiff(journal[e].lines.debit, journal[e].lines.credit) <= 1
      BY <1>1, <3>1 DEF IInv, TypeOK, Entries, Lines, EntryInv, MayBalance
    <3> QED BY <3>2 DEF AbsDiff
  <2>3. PICK g : Sums(d, Posted, g) /\ PostedTotal(DebitSide) = g[Posted]
    BY <2>1, DebitsAreSums
  <2>4. PICK h : Sums(c, Posted, h) /\ PostedTotal(CreditSide) = h[Posted]
    BY <2>1, CreditsAreSums
  <2> HIDE DEF d, c
  <2>5. /\ g[Posted] \in Int /\ h[Posted] \in Int
        /\ -Cardinality(Posted) <= g[Posted] - h[Posted]
        /\ g[Posted] - h[Posted] <= Cardinality(Posted)
    BY <2>1, <2>2, <2>3, <2>4, SumsDiffer
  <2>6. Cardinality(Posted) \in Nat
    BY <2>1, FS_CardinalityType
  <2> QED BY <2>3, <2>4, <2>5, <2>6 DEF DriftBounded, AbsDiff
<1> QED BY <1>1, InductiveInvariant, JournalIsFinite, PTL

-----------------------------------------------------------------------------
(* Steps of the ledger seen from one request, and from one entry.          *)

\* A request is moved by its own handler alone.
LEMMA ProgressMove ==
  ASSUME IInv, Progress, NEW r \in Requests, req'[r] # req[r]
  PROVE  BeginStep(r) \/ EntryStep(r) \/ PeriodStep(r)
<1>1. ASSUME NEW q \in Requests, NEW s, Move(q, s)
      PROVE  q = r
  BY <1>1 DEF Move, IInv, TypeOK
<1>3. ASSUME NEW q \in Requests, BeginStep(q)
      PROVE  q = r
  BY <1>1, <1>3 DEF BeginStep, CreateBegin, PostBegin, VoidBegin, ReverseBegin,
         CloseBegin, ReopenBegin, LockBegin, YearBegin, Begin
<1>4. ASSUME NEW q \in Requests, EntryStep(q)
      PROVE  q = r
  BY <1>1, <1>4 DEF EntryStep, CreateReadPeriod, CreateCheckLines, CreateInsert,
         PostReadEntry, PostFindPeriod, PostCreatePeriod, PostUpdate, VoidUpdate,
         ReverseMark, Goto, Return
<1>5. ASSUME NEW q \in Requests, PeriodStep(q)
      PROVE  q = r
  BY <1>1, <1>5 DEF PeriodStep, CloseCountDrafts, CloseReadPrevious, CloseUpdate,
         ReopenUpdate, LockUpdate, YearFind, YearCreate, NextPeriod, Goto, Return
<1>6. ~(\E a \in Accounts : DeactivateAccount(a)) /\ ~NextMonth
  BY DEF DeactivateAccount, NextMonth
<1> QED BY <1>3, <1>4, <1>5, <1>6 DEF Progress

LEMMA LedgerMove ==
  ASSUME IInv, OwnStep, NEW r \in Requests, req'[r] # req[r]
  PROVE  BeginStep(r) \/ EntryStep(r) \/ PeriodStep(r) \/ Fail(r)
<1>1. ASSUME NEW q \in Requests, Fail(q)
      PROVE  q = r
  BY <1>1 DEF Fail, Return, Move, IInv, TypeOK
<1> QED BY <1>1, ProgressMove DEF OwnStep

LEMMA OwnMove ==
  ASSUME IInv, Next, NEW r \in Requests, req'[r] # req[r]
  PROVE  \/ BeginStep(r) \/ EntryStep(r) \/ PeriodStep(r) \/ Fail(r)
         \/ DocumentBegin(r) \/ DocumentEnd(r)
<1>1. ASSUME NEW q \in Requests, DocumentBegin(q) \/ DocumentEnd(q)
      PROVE  q = r
  BY <1>1 DEF DocumentBegin, DocumentEnd, Begin, Return, Move, IInv, TypeOK
<1> QED BY <1>1, LedgerMove DEF Next

\* What happens to an entry: it is inserted as some handler's row, posted,
\* voided or flagged; its period stays.
LEMMA EntryMoves ==
  ASSUME IInv, Next, NEW e \in DOMAIN journal'
  PROVE  \/ /\ e \notin DOMAIN journal
            /\ \E r \in Requests : At(r, "create.insert") /\ journal'[e] = req[r].row
         \/ /\ e \in DOMAIN journal
            /\ journal'[e].period = journal[e].period
            /\ \/ journal'[e].status = journal[e].status
               \/ /\ journal'[e].status = "VOID"
                  /\ \E r \in Requests : At(r, "void.update") /\ req[r].id = e
               \/ /\ journal'[e].status = "POSTED"
                  /\ \E r \in Requests : At(r, "post.update") /\ req[r].id = e
<1> DEFINE Claim == \/ /\ e \notin DOMAIN journal
                       /\ \E r \in Requests :
                            At(r, "create.insert") /\ journal'[e] = req[r].row
                    \/ /\ e \in DOMAIN journal
                       /\ journal'[e].period = journal[e].period
                       /\ \/ journal'[e].status = journal[e].status
                          \/ /\ journal'[e].status = "VOID"
                             /\ \E r \in Requests : At(r, "void.update") /\ req[r].id = e
                          \/ /\ journal'[e].status = "POSTED"
                             /\ \E r \in Requests : At(r, "post.update") /\ req[r].id = e
<1> SUFFICES Claim
  OBVIOUS
<1>1. CASE UNCHANGED journal
  BY <1>1
<1>2. ASSUME NEW r \in Requests, CreateInsert(r), ~UNCHANGED journal
      PROVE  Claim
  <2>1. PICK x \in EntryIds \ DOMAIN journal :
          /\ DOMAIN journal' = DOMAIN journal \cup {x}
          /\ journal'[x] = req[r].row
          /\ \A y \in DOMAIN journal : journal'[y] = journal[y]
    BY <1>2, InsertEffect
  <2>2. CASE e = x
    BY <1>2, <2>1, <2>2 DEF CreateInsert
  <2>3. CASE e # x
    BY <2>1, <2>3
  <2> QED BY <2>2, <2>3
<1>3. ASSUME NEW x \in DOMAIN journal, NEW row, SetEntry(x, row)
      PROVE  /\ e \in DOMAIN journal
             /\ journal'[e] = IF e = x THEN row ELSE journal[e]
  BY <1>3 DEF SetEntry
<1>4. ASSUME NEW r \in Requests, PostUpdate(r) \/ VoidUpdate(r)
      PROVE  Claim
  <2> DEFINE x == req[r].id
             st == IF PostUpdate(r) THEN "POSTED" ELSE "VOID"
             row == [journal[x] EXCEPT !.status = st]
  <2>1. RequestInv(r)
    BY DEF IInv
  <2>2. x \in DOMAIN journal
    BY <1>4, <2>1 DEF PostUpdate, VoidUpdate, RequestInv, At
  <2>3. SetEntry(x, row)
    BY <1>4 DEF PostUpdate, VoidUpdate
  <2>4. journal[x] \in Entries
    BY <2>2 DEF IInv, TypeOK
  <2>5. row.status = st /\ row.period = journal[x].period
    BY <2>4 DEF Entries
  <2>6. IF PostUpdate(r) THEN At(r, "post.update") ELSE At(r, "void.update")
    BY <1>4 DEF PostUpdate, VoidUpdate
  <2> HIDE DEF row
  <2>7. e \in DOMAIN journal /\ journal'[e] = IF e = x THEN row ELSE journal[e]
    BY <1>3, <2>2, <2>3
  <2>8. CASE e # x
    BY <2>7, <2>8
  <2>9. CASE e = x
    BY <2>5, <2>6, <2>7, <2>9
  <2> QED BY <2>8, <2>9
<1>5. ASSUME NEW r \in Requests, ReverseMark(r)
      PROVE  Claim
  <2> DEFINE x == req[r].row.reverses
             row == [journal[x] EXCEPT !.isReversed = TRUE]
  <2>1. x \in DOMAIN journal /\ SetEntry(x, row)
    BY <1>5, MarkEffect
  <2>2. journal[x] \in Entries
    BY <2>1 DEF IInv, TypeOK
  <2>3. row.status = journal[x].status /\ row.period = journal[x].period
    BY <2>2 DEF Entries
  <2> HIDE DEF row
  <2> QED BY <1>3, <2>1, <2>3
<1> QED BY <1>1, <1>2, <1>4, <1>5, JournalWriters

\* An entry is inserted by the handler that was about to insert it.
LEMMA EntryAdded ==
  ASSUME IInv, Next, NEW e \in DOMAIN journal', e \notin DOMAIN journal
  PROVE  \E r \in Requests : /\ req'[r].at \in {"idle", "reverse.mark", "post.entry"}
                             /\ At(r, "create.insert") /\ journal'[e] = req[r].row
<1>1. PICK r \in Requests : CreateInsert(r)
  BY JournalWriters DEF PostUpdate, VoidUpdate, ReverseMark, SetEntry
<1>2. At(r, "create.insert") /\ journal'[e] = req[r].row
  BY <1>1, InsertEffect DEF CreateInsert
<1>3. req'[r].at \in {"idle", "reverse.mark", "post.entry"}
  <2>1. ASSUME NEW s, Move(r, s)
        PROVE  req'[r] = s
    BY <2>1 DEF Move, IInv, TypeOK
  <2>2. CASE Return(r)
    BY <2>1, <2>2 DEF Return, Idle
  <2>3. CASE \E at \in {"reverse.mark", "post.entry"}, x \in EntryIds :
               Move(r, Inserted(req[r], at, x))
    <3>1. PICK at \in {"reverse.mark", "post.entry"}, x \in EntryIds :
                 Move(r, Inserted(req[r], at, x))
      BY <2>3
    <3> QED BY <2>1, <3>1 DEF Inserted
  <2> QED BY <1>1, <2>2, <2>3 DEF CreateInsert
<1> QED BY <1>2, <1>3

\* An entry is posted by the handler that was about to post it.
LEMMA EntryPosted ==
  ASSUME IInv, Next, NEW e \in DOMAIN journal,
         journal[e].status # "POSTED", journal'[e].status = "POSTED"
  PROVE  \E r \in Requests : /\ req'[r].at \in {"idle", "document.update"}
                             /\ At(r, "post.update") /\ req[r].id = e
<1>1. ASSUME NEW x \in DOMAIN journal, NEW row, SetEntry(x, row)
      PROVE  journal'[e] = IF e = x THEN row ELSE journal[e]
  BY <1>1 DEF SetEntry
<1>2. ASSUME NEW r \in Requests, CreateInsert(r)
      PROVE  FALSE
  BY <1>2, InsertEffect
<1>3. ASSUME NEW r \in Requests, VoidUpdate(r)
      PROVE  FALSE
  <2>1. req[r].id \in DOMAIN journal
    BY <1>3 DEF IInv, RequestInv, At, VoidUpdate
  <2>2. journal[req[r].id] \in Entries
    BY <2>1 DEF IInv, TypeOK
  <2> QED BY <1>1, <1>3, <2>1, <2>2 DEF VoidUpdate, Entries
<1>4. ASSUME NEW r \in Requests, ReverseMark(r)
      PROVE  FALSE
  <2> DEFINE x == req[r].row.reverses
  <2>1. x \in DOMAIN journal /\ SetEntry(x, [journal[x] EXCEPT !.isReversed = TRUE])
    BY <1>4, MarkEffect
  <2>2. journal[x] \in Entries
    BY <2>1 DEF IInv, TypeOK
  <2> QED BY <1>1, <2>1, <2>2 DEF Entries
<1>5. PICK r \in Requests : PostUpdate(r)
  BY <1>2, <1>3, <1>4, JournalWriters
<1>6. req[r].id = e
  <2>1. req[r].id \in DOMAIN journal
    BY <1>5 DEF IInv, RequestInv, At, PostUpdate
  <2> QED BY <1>1, <1>5, <2>1 DEF PostUpdate
<1>7. CASE Return(r)
  BY <1>5, <1>6, <1>7 DEF Return, Move, Idle, IInv, TypeOK, PostUpdate
<1>8. CASE Goto(r, "document.update")
  <2>1. "document.update" \in Points
    BY DEF Points
  <2>2. req'[r].at = "document.update"
    BY <1>8, <2>1, GotoState
  <2> QED BY <1>5, <1>6, <2>2 DEF PostUpdate
<1> QED BY <1>5, <1>7, <1>8 DEF PostUpdate

\* No entry is ever removed.
LEMMA JournalGrows ==
  ASSUME IInv, Next
  PROVE  DOMAIN journal \subseteq DOMAIN journal'
<1>1. ASSUME NEW r \in Requests, CreateInsert(r), ~UNCHANGED journal
      PROVE  DOMAIN journal \subseteq DOMAIN journal'
  BY <1>1, InsertEffect
<1> QED BY <1>1, JournalWriters DEF PostUpdate, VoidUpdate, ReverseMark, SetEntry

=============================================================================
