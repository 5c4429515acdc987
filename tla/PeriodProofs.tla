---------------------------- MODULE PeriodProofs ----------------------------
(* Proofs about the fiscal periods of Ledger and LedgerHistory, for every   *)
(* number of requests, entries and periods.                                *)
EXTENDS LedgerProofs, LedgerHistory

-----------------------------------------------------------------------------
(* The steps that write a period.                                          *)

LEMMA PeriodWriters ==
  ASSUME Next
  PROVE  \/ UNCHANGED period
         \/ \E r \in Requests : \/ CloseUpdate(r) \/ LockUpdate(r) \/ ReopenUpdate(r)
                               \/ PostCreatePeriod(r) \/ YearCreate(r)
BY DEF Next, OwnStep, Progress, DocumentBegin, DocumentEnd, BeginStep, EntryStep, PeriodStep, Fail,
       DeactivateAccount, NextMonth, tables, CreateBegin, PostBegin, VoidBegin,
       ReverseBegin, CloseBegin, ReopenBegin, LockBegin, YearBegin, CreateReadPeriod,
       CreateCheckLines, CreateInsert, PostReadEntry, PostFindPeriod, PostUpdate,
       VoidUpdate, ReverseMark, CloseCountDrafts, CloseReadPrevious, YearFind

\* No period row is ever removed.
LEMMA PeriodsKept ==
  ASSUME Next
  PROVE  DOMAIN period \subseteq DOMAIN period'
BY PeriodWriters DEF CloseUpdate, LockUpdate, ReopenUpdate, PostCreatePeriod, YearCreate,
                     SetPeriod

-----------------------------------------------------------------------------
(* createFiscalYear.                                                       *)

\* Multiples of the length of a year are a year apart.
LEMMA NextMultiple ==
  ASSUME NEW n \in Nat \ {0}, NEW i \in Int, NEW j \in Int, i + 1 <= j
  PROVE  n * i + n <= n * j
<1>1. PICK d \in Nat : j = i + 1 + d
  <2> WITNESS j - i - 1 \in Nat
  <2> QED OBVIOUS
<1>2. n * d >= 0
  OBVIOUS
<1>3. n * j = n * i + n + n * d
  BY <1>1
<1> QED BY <1>2, <1>3

LEMMA OneMultiple ==
  ASSUME NEW n \in Nat \ {0}, NEW x \in Nat, NEW y \in Nat,
         x % n = 0, y % n = 0, x <= y, y < x + n
  PROVE  x = y
<1>1. /\ x \div n \in Int /\ x = n * (x \div n)
      /\ y \div n \in Int /\ y = n * (y \div n)
  OBVIOUS
<1>2. CASE (x \div n) + 1 <= (y \div n)
  BY <1>1, <1>2, NextMultiple
<1>3. CASE (y \div n) + 1 <= (x \div n)
  BY <1>1, <1>3, NextMultiple
<1>4. CASE x \div n = y \div n
  BY <1>1, <1>4
<1> QED BY <1>1, <1>2, <1>3, <1>4

\* A period that starts a year is in no other year.
LEMMA OneYear ==
  ASSUME NEW first \in YearStarts, NEW p \in YearStarts, InYearFrom(first, p)
  PROVE  p = first
<1>1. /\ first - 1 \in Nat /\ p - 1 \in Nat
      /\ (first - 1) % YearLength = 0 /\ (p - 1) % YearLength = 0
      /\ YearLength \in Nat \ {0}
  BY PeriodsAssumption DEF YearStarts, Periods
<1>2. first - 1 <= p - 1 /\ p - 1 < first - 1 + YearLength
  BY <1>1 DEF InYearFrom, YearStarts, Periods
<1>3. first - 1 = p - 1
  BY <1>1, <1>2, OneMultiple
<1> QED BY <1>3 DEF YearStarts, Periods

\* Only the handler of createFiscalYear is at its two points.
YearInv ==
  /\ \A r \in Requests : At(r, "year.find") \/ At(r, "year.create") => req[r].op = "year"
  /\ YearPrefix

\* How the handler moves: it begins with the first month, or goes on from one
\* that has a row.
LEMMA YearMoves ==
  ASSUME IInv, YearInv, Next, NEW r \in Requests
  PROVE  /\ At(r, "year.find")' \/ At(r, "year.create")' => req'[r].op = "year"
         /\ req'[r].op = "year" =>
              \/ req[r].op = "year" /\ req'[r].p = req[r].p
              \/ req'[r].p \in YearStarts
              \/ /\ req[r].op = "year" /\ req'[r].p = req[r].p + 1
                 /\ req[r].p \in DOMAIN period'
<1> DEFINE Claim ==
      /\ At(r, "year.find")' \/ At(r, "year.create")' => req'[r].op = "year"
      /\ req'[r].op = "year" =>
           \/ req[r].op = "year" /\ req'[r].p = req[r].p
           \/ req'[r].p \in YearStarts
           \/ /\ req[r].op = "year" /\ req'[r].p = req[r].p + 1
              /\ req[r].p \in DOMAIN period'
<1> SUFFICES Claim
  OBVIOUS
<1>1. CASE req'[r] = req[r]
  BY <1>1 DEF YearInv, At
<1>2. ASSUME NEW s, Move(r, s)
      PROVE  req'[r] = s
  BY <1>2 DEF Move, IInv, TypeOK
<1>3. ASSUME Return(r)
      PROVE  Claim
  BY <1>2, <1>3 DEF Return, Idle, At
<1>4. CASE Fail(r) \/ DocumentEnd(r)
  BY <1>3, <1>4 DEF Fail, DocumentEnd
<1>5. ASSUME NEW point \in Points, Goto(r, point),
             point \in {"year.find", "year.create"} => req[r].op = "year"
      PROVE  Claim
  BY <1>5, GotoState DEF At
<1>6. CASE BeginStep(r) \/ DocumentBegin(r)
  <2>1. ASSUME NEW op, NEW at, NEW x,
               \/ Move(r, OnEntry(op, at, x)) \/ Move(r, OnRow(op, at, x))
               \/ Move(r, OnPeriod(op, at, x)),
               op # "year", at \notin {"year.find", "year.create"}
        PROVE  Claim
    BY <1>2, <2>1 DEF OnEntry, OnRow, OnPeriod, At
  <2>2. CASE CreateBegin(r) \/ ReverseBegin(r)
    <3>1. PICK op \in {"create", "reverse"}, at \in {"create.period", "create.accounts"} :
            \E row : Move(r, OnRow(op, at, row))
      BY <2>2 DEF CreateBegin, ReverseBegin, Begin
    <3>2. op # "year" /\ at \notin {"year.find", "year.create"}
      OBVIOUS
    <3> HIDE DEF Claim
    <3> QED BY <2>1, <3>1, <3>2
  <2>3. CASE PostBegin(r) \/ VoidBegin(r)
    BY <2>1, <2>3 DEF PostBegin, VoidBegin, Begin
  <2>4. CASE CloseBegin(r) \/ ReopenBegin(r) \/ LockBegin(r)
    BY <2>1, <2>4 DEF CloseBegin, ReopenBegin, LockBegin, Begin
  <2>5. CASE YearBegin(r)
    <3>1. PICK first \in YearStarts : Move(r, OnPeriod("year", "year.find", first))
      BY <2>5 DEF YearBegin, Begin
    <3> QED BY <1>2, <3>1 DEF OnPeriod, At
  <2>6. CASE DocumentBegin(r)
    BY <2>1, <2>6 DEF DocumentBegin, Begin
  <2> QED BY <1>6, <2>2, <2>3, <2>4, <2>5, <2>6 DEF BeginStep
<1>7. CASE EntryStep(r)
  <2>1. CASE CreateReadPeriod(r) \/ CreateCheckLines(r)
    BY <1>3, <1>5, <2>1 DEF CreateReadPeriod, CreateCheckLines, Points
  <2>2. CASE PostReadEntry(r) \/ PostFindPeriod(r) \/ PostCreatePeriod(r)
    BY <1>3, <1>5, <2>2 DEF PostReadEntry, PostFindPeriod, PostCreatePeriod, Points
  <2>3. CASE PostUpdate(r) \/ VoidUpdate(r) \/ ReverseMark(r)
    BY <1>3, <1>5, <2>3 DEF PostUpdate, VoidUpdate, ReverseMark, Points
  <2>4. CASE CreateInsert(r)
    <3>1. \/ Return(r)
          \/ \E at \in {"reverse.mark", "post.entry"}, e \in EntryIds :
               Move(r, Inserted(req[r], at, e)) /\ req[r].op # "year"
      BY <2>4 DEF CreateInsert
    <3>2. ASSUME NEW at \in {"reverse.mark", "post.entry"}, NEW e,
                 Move(r, Inserted(req[r], at, e)), req[r].op # "year"
          PROVE  Claim
      <4>1. req'[r].op = req[r].op /\ req'[r].at = at
        BY <1>2, <3>2 DEF Inserted
      <4> QED BY <3>2, <4>1 DEF At
    <3> QED BY <1>3, <3>1, <3>2
  <2> QED BY <1>7, <2>1, <2>2, <2>3, <2>4 DEF EntryStep
<1>8. CASE PeriodStep(r)
  <2>1. CASE CloseCountDrafts(r) \/ CloseReadPrevious(r)
    BY <1>3, <1>5, <2>1 DEF CloseCountDrafts, CloseReadPrevious, Points
  <2>2. CASE CloseUpdate(r) \/ ReopenUpdate(r) \/ LockUpdate(r)
    BY <1>3, <2>2 DEF CloseUpdate, ReopenUpdate, LockUpdate
  <2>3. ASSUME NextPeriod(r), req[r].op = "year", req[r].p \in DOMAIN period'
        PROVE  Claim
    BY <1>2, <1>3, <2>3 DEF NextPeriod, OnPeriod, At
  <2>4. CASE YearFind(r)
    <3>1. req[r].op = "year"
      BY <2>4 DEF YearFind, YearInv
    <3> QED BY <1>5, <2>3, <2>4, <3>1 DEF YearFind, tables, Points
  <2>5. CASE YearCreate(r)
    <3>1. req[r].op = "year"
      BY <2>5 DEF YearCreate, YearInv
    <3>2. SetPeriod(req[r].p, "OPEN") => req[r].p \in DOMAIN period'
      BY DEF SetPeriod
    <3> QED BY <1>3, <2>3, <2>5, <3>1, <3>2 DEF YearCreate
  <2> QED BY <1>8, <2>1, <2>2, <2>4, <2>5 DEF PeriodStep
<1> QED BY <1>1, <1>4, <1>6, <1>7, <1>8, OwnMove

LEMMA YearStep ==
  ASSUME IInv, YearInv, [Next]_vars
  PROVE  YearInv'
<1>1. CASE UNCHANGED vars
  BY <1>1 DEF vars, YearInv, YearPrefix, At
<1>2. CASE Next
  <2>1. ASSUME NEW r \in Requests, NEW first \in YearStarts,
               req'[r].op = "year", InYearFrom(first, req'[r].p)
        PROVE  first..(req'[r].p - 1) \subseteq DOMAIN period'
    <3>1. DOMAIN period \subseteq DOMAIN period'
      BY <1>2, PeriodsKept
    <3>2. CASE req[r].op = "year" /\ req'[r].p = req[r].p
      BY <2>1, <3>1, <3>2 DEF YearInv, YearPrefix
    <3>3. CASE req'[r].p \in YearStarts
      <4>1. req'[r].p = first
        BY <2>1, <3>3, OneYear
      <4> QED BY <4>1 DEF YearStarts, Periods
    <3>4. CASE /\ req[r].op = "year" /\ req'[r].p = req[r].p + 1
               /\ req[r].p \in DOMAIN period'
      <4>1. first \in Int /\ req[r].p \in Int /\ YearLength \in Nat
        BY PeriodsAssumption DEF YearStarts, Periods, IInv, TypeOK, RequestStates
      <4>2. CASE req'[r].p = first
        BY <4>1, <4>2
      <4>3. CASE req'[r].p # first
        <5>1. InYearFrom(first, req[r].p)
          BY <2>1, <3>4, <4>1, <4>3 DEF InYearFrom
        <5>2. first..(req[r].p - 1) \subseteq DOMAIN period
          BY <3>4, <5>1 DEF YearInv, YearPrefix
        <5> QED BY <3>1, <3>4, <4>1, <5>2
      <4> QED BY <4>2, <4>3
    <3> QED BY <1>2, <2>1, <3>2, <3>3, <3>4, YearMoves
  <2> QED BY <1>2, <2>1, YearMoves DEF YearInv, YearPrefix
<1> QED BY <1>1, <1>2

\* createFiscalYear never leaves a gap behind it, whatever else creates
\* periods at the same time and wherever it stops.
THEOREM YearsHaveNoGaps == Spec => []YearPrefix
<1>1. Init => YearInv
  <2>1. Init => \A r \in Requests : req[r].op = "none" /\ req[r].at = "idle"
    BY DEF Init, Idle
  <2> QED BY <2>1 DEF YearInv, YearPrefix, At
<1>2. IInv /\ YearInv /\ [Next]_vars => YearInv'
  BY YearStep
<1>3. YearInv => YearPrefix
  BY DEF YearInv
<1> QED BY <1>1, <1>2, <1>3, InductiveInvariant, PTL DEF Spec

-----------------------------------------------------------------------------
(* Closing and locking while others write.                                 *)

\* A period is shut only by a handler that was closing it.
LEMMA ShutBy ==
  ASSUME Next, NEW p, Shut(p)', ~Shut(p)
  PROVE  \E r \in Requests : /\ Closing(r) /\ req[r].p = p
                             /\ Return(r) /\ UNCHANGED journal
<1>1. ~UNCHANGED period
  BY DEF Shut
<1>2. ASSUME NEW q, SetPeriod(q, "OPEN")
      PROVE  FALSE
  BY <1>2 DEF Shut, SetPeriod
<1>3. PICK r \in Requests : CloseUpdate(r) \/ LockUpdate(r)
  BY <1>1, <1>2, PeriodWriters DEF ReopenUpdate, PostCreatePeriod, YearCreate
<1>4. Closing(r)
  BY <1>3 DEF CloseUpdate, LockUpdate, At, Closing
<1>5. req[r].p = p
  BY <1>3 DEF CloseUpdate, LockUpdate, SetPeriod, Shut
<1> QED BY <1>3, <1>4, <1>5 DEF CloseUpdate, LockUpdate

\* A handler starts to write only when it reads the period as not shut, and
\* goes on with the same period.
LEMMA WriterReads ==
  ASSUME IInv, Next, NEW r \in Requests, Writing(r)', req'[r] # req[r]
  PROVE  \/ ~Shut(WrittenPeriod(r))'
         \/ Writing(r) /\ WrittenPeriod(r)' = WrittenPeriod(r)
<1>1. req'[r].at \in {"create.accounts", "create.insert", "post.update"}
  BY DEF Writing
<1>2. ASSUME NEW s, Move(r, s)
      PROVE  req'[r] = s
  BY <1>2 DEF Move, IInv, TypeOK
<1>3. ~Return(r) /\ ~Fail(r) /\ ~DocumentEnd(r)
  BY <1>1, <1>2 DEF Return, Idle, Fail, DocumentEnd
<1>4. ASSUME NEW point \in Points, Goto(r, point)
      PROVE  point \in {"create.accounts", "create.insert", "post.update"}
  BY <1>1, <1>4, GotoState
<1>5. ASSUME NEW op, NEW at, NEW x,
             \/ Move(r, OnEntry(op, at, x)) \/ Move(r, OnRow(op, at, x))
             \/ Move(r, OnPeriod(op, at, x))
      PROVE  at \in {"create.accounts", "create.insert", "post.update"}
  BY <1>1, <1>2, <1>5 DEF OnEntry, OnRow, OnPeriod
<1>6. CASE BeginStep(r) \/ DocumentBegin(r)
  <2>1. CASE CreateBegin(r)
    <3>1. PICK l \in Drafts, p \in Periods, st \in CreateStatuses,
               d \in Sources \cup {NoSource} : CreateBegin(r)!(l, p, st, d)
      BY <2>1 DEF CreateBegin
    <3>2. /\ ~Shut(p) /\ UNCHANGED period
          /\ req'[r].at = "create.accounts" /\ req'[r].row.period = p
      BY <1>2, <3>1 DEF Begin, OnRow, ClientRow, tables
    <3> QED BY <3>2 DEF WrittenPeriod, At, Shut
  <2>2. CASE ReverseBegin(r) \/ DocumentBegin(r)
    <3>1. \E op, row : Move(r, OnRow(op, "create.period", row))
      BY <2>2 DEF ReverseBegin, DocumentBegin, Begin
    <3>2. PICK op, row : Move(r, OnRow(op, "create.period", row))
      BY <3>1
    <3> QED BY <1>5, <3>2
  <2>3. CASE PostBegin(r) \/ VoidBegin(r)
    BY <1>5, <2>3 DEF PostBegin, VoidBegin, Begin
  <2>4. CASE CloseBegin(r) \/ ReopenBegin(r) \/ LockBegin(r) \/ YearBegin(r)
    BY <1>5, <2>4 DEF CloseBegin, ReopenBegin, LockBegin, YearBegin, Begin
  <2> QED BY <1>6, <2>1, <2>2, <2>3, <2>4 DEF BeginStep
<1>7. CASE EntryStep(r)
  <2>1. CASE CreateReadPeriod(r)
    <3>1. ~Shut(req[r].row.period) /\ Goto(r, "create.accounts") /\ UNCHANGED period
      BY <1>3, <2>1 DEF CreateReadPeriod, tables
    <3>2. req'[r].at = "create.accounts" /\ req'[r].row = req[r].row
      BY <3>1, GotoState DEF Points
    <3> QED BY <3>1, <3>2 DEF WrittenPeriod, At, Shut
  <2>2. CASE CreateCheckLines(r)
    <3>1. At(r, "create.accounts") /\ Goto(r, "create.insert") /\ UNCHANGED period
      BY <1>3, <2>2 DEF CreateCheckLines, tables
    <3>2. req'[r].at = "create.insert" /\ req'[r].row = req[r].row
      BY <3>1, GotoState DEF Points
    <3> QED BY <3>1, <3>2 DEF Writing, WrittenPeriod, At
  <2>3. CASE PostFindPeriod(r)
    <3> DEFINE p == journal[req[r].id].period
    <3>1. IsOpen(p) /\ Goto(r, "post.update") /\ UNCHANGED tables
      BY <1>3, <1>4, <2>3 DEF PostFindPeriod, Points
    <3>2. req'[r].at = "post.update" /\ req'[r].id = req[r].id
      BY <3>1, GotoState DEF Points
    <3> QED BY <3>1, <3>2 DEF WrittenPeriod, At, Shut, IsOpen, tables
  <2>4. CASE PostCreatePeriod(r)
    <3> DEFINE p == journal[req[r].id].period
    <3>1. /\ Goto(r, "post.update") /\ SetPeriod(p, "OPEN") /\ UNCHANGED journal
      BY <1>3, <2>4 DEF PostCreatePeriod
    <3>2. req'[r].at = "post.update" /\ req'[r].id = req[r].id
      BY <3>1, GotoState DEF Points
    <3>3. p \in DOMAIN period' /\ period'[p] = "OPEN"
      BY <3>1 DEF SetPeriod
    <3> QED BY <3>1, <3>2, <3>3 DEF WrittenPeriod, At, Shut
  <2>5. CASE CreateInsert(r)
    <3>1. \E at \in {"reverse.mark", "post.entry"}, e \in EntryIds :
             Move(r, Inserted(req[r], at, e))
      BY <1>3, <2>5 DEF CreateInsert
    <3> QED BY <1>1, <1>2, <3>1 DEF Inserted
  <2>6. CASE PostReadEntry(r) \/ PostUpdate(r) \/ VoidUpdate(r) \/ ReverseMark(r)
    BY <1>3, <1>4, <2>6 DEF PostReadEntry, PostUpdate, VoidUpdate, ReverseMark, Points
  <2> QED BY <1>7, <2>1, <2>2, <2>3, <2>4, <2>5, <2>6 DEF EntryStep
<1>8. CASE PeriodStep(r)
  <2>1. CASE CloseCountDrafts(r) \/ CloseReadPrevious(r)
    BY <1>3, <1>4, <2>1 DEF CloseCountDrafts, CloseReadPrevious, Points
  <2>2. CASE CloseUpdate(r) \/ ReopenUpdate(r) \/ LockUpdate(r)
    BY <1>3, <2>2 DEF CloseUpdate, ReopenUpdate, LockUpdate
  <2>3. CASE YearFind(r) \/ YearCreate(r)
    BY <1>3, <1>4, <1>5, <2>3 DEF YearFind, YearCreate, NextPeriod, Points
  <2> QED BY <1>8, <2>1, <2>2, <2>3 DEF PeriodStep
<1> QED BY <1>3, <1>6, <1>7, <1>8, OwnMove

\* A handler comes to close or lock only when it finds no drafts, or when they
\* have been counted already.
LEMMA CloserReads ==
  ASSUME IInv, Next, NEW r \in Requests, Closing(r)', req'[r] # req[r]
  PROVE  \/ Counted(req'[r].p)
         \/ \A e \in DOMAIN journal' :
              journal'[e].period = req'[r].p => journal'[e].status # "DRAFT"
<1> DEFINE Claim ==
      \/ Counted(req'[r].p)
      \/ \A e \in DOMAIN journal' :
           journal'[e].period = req'[r].p => journal'[e].status # "DRAFT"
<1> SUFFICES Claim
  OBVIOUS
<1>1. req'[r].at \in {"close.previous", "close.update", "lock.update"}
  BY DEF Closing
<1>2. ASSUME NEW s, Move(r, s)
      PROVE  req'[r] = s
  BY <1>2 DEF Move, IInv, TypeOK
<1>3. ~Return(r) /\ ~Fail(r) /\ ~DocumentEnd(r)
  BY <1>1, <1>2 DEF Return, Idle, Fail, DocumentEnd
<1>4. ASSUME NEW point \in Points, Goto(r, point)
      PROVE  point \in {"close.previous", "close.update", "lock.update"}
  BY <1>1, <1>4, GotoState
<1>5. ASSUME NEW op, NEW at, NEW x,
             \/ Move(r, OnEntry(op, at, x)) \/ Move(r, OnRow(op, at, x))
             \/ Move(r, OnPeriod(op, at, x))
      PROVE  at \in {"close.previous", "close.update", "lock.update"}
  BY <1>1, <1>2, <1>5 DEF OnEntry, OnRow, OnPeriod
<1>6. CASE BeginStep(r) \/ DocumentBegin(r)
  <2>1. CASE LockBegin(r)
    <3>1. PICK p \in DOMAIN period : LockBegin(r)!(p)
      BY <2>1 DEF LockBegin
    <3>2. Shut(p) /\ UNCHANGED journal /\ req'[r].p = p
      BY <1>2, <3>1 DEF Begin, OnPeriod, tables, Shut
    <3> QED BY <3>2 DEF Counted
  <2>2. CASE CreateBegin(r) \/ ReverseBegin(r) \/ DocumentBegin(r)
    <3>1. PICK at \in {"create.period", "create.accounts"} :
            \E op, row : Move(r, OnRow(op, at, row))
      BY <2>2 DEF CreateBegin, ReverseBegin, DocumentBegin, Begin
    <3> QED BY <1>5, <3>1
  <2>3. CASE PostBegin(r) \/ VoidBegin(r)
    BY <1>5, <2>3 DEF PostBegin, VoidBegin, Begin
  <2>4. CASE CloseBegin(r) \/ ReopenBegin(r) \/ YearBegin(r)
    BY <1>5, <2>4 DEF CloseBegin, ReopenBegin, YearBegin, Begin
  <2> QED BY <1>6, <2>1, <2>2, <2>3, <2>4 DEF BeginStep
<1>7. CASE PeriodStep(r)
  <2>1. CASE CloseCountDrafts(r)
    <3> DEFINE p == req[r].p
    <3>1. /\ ~\E e \in DOMAIN journal : journal[e].period = p /\ journal[e].status = "DRAFT"
          /\ \E point \in {"close.previous", "close.update"} : Goto(r, point)
          /\ UNCHANGED journal
      BY <1>3, <2>1 DEF CloseCountDrafts, tables
    <3>2. req'[r].p = p
      BY <3>1, GotoState DEF Points
    <3> QED BY <3>1, <3>2
  <2>2. CASE CloseReadPrevious(r)
    <3>1. At(r, "close.previous") /\ Goto(r, "close.update") /\ UNCHANGED journal
      BY <1>3, <2>2 DEF CloseReadPrevious, tables
    <3>2. req'[r].p = req[r].p
      BY <3>1, GotoState DEF Points
    <3> QED BY <3>1, <3>2 DEF Counted, Closing, At
  <2>3. CASE CloseUpdate(r) \/ ReopenUpdate(r) \/ LockUpdate(r)
    BY <1>3, <2>3 DEF CloseUpdate, ReopenUpdate, LockUpdate
  <2>4. CASE YearFind(r) \/ YearCreate(r)
    BY <1>3, <1>4, <1>5, <2>4 DEF YearFind, YearCreate, NextPeriod, Points
  <2> QED BY <1>7, <2>1, <2>2, <2>3, <2>4 DEF PeriodStep
<1>8. CASE EntryStep(r)
  <2>1. CASE CreateReadPeriod(r) \/ CreateCheckLines(r)
    BY <1>3, <1>4, <2>1 DEF CreateReadPeriod, CreateCheckLines, Points
  <2>2. CASE PostReadEntry(r) \/ PostFindPeriod(r) \/ PostCreatePeriod(r)
    BY <1>3, <1>4, <2>2 DEF PostReadEntry, PostFindPeriod, PostCreatePeriod, Points
  <2>3. CASE PostUpdate(r) \/ VoidUpdate(r) \/ ReverseMark(r)
    BY <1>3, <1>4, <2>3 DEF PostUpdate, VoidUpdate, ReverseMark, Points
  <2>4. CASE CreateInsert(r)
    <3>1. \E at \in {"reverse.mark", "post.entry"}, e \in EntryIds :
             Move(r, Inserted(req[r], at, e))
      BY <1>3, <2>4 DEF CreateInsert
    <3> QED BY <1>1, <1>2, <3>1 DEF Inserted
  <2> QED BY <1>8, <2>1, <2>2, <2>3, <2>4 DEF EntryStep
<1> QED BY <1>3, <1>6, <1>7, <1>8, OwnMove

\* The drafts of a period that has one were counted before this step, if they
\* are after it.
LEMMA CountedBefore ==
  ASSUME IInv, Next, NEW e \in DOMAIN journal', journal'[e].status = "DRAFT",
         NEW p, journal'[e].period = p, Counted(p)'
  PROVE  Counted(p)
<1> SUFFICES ASSUME ~Counted(p)
             PROVE  FALSE
  OBVIOUS
<1>1. ~Shut(p)'
  <2> SUFFICES ASSUME Shut(p)'
               PROVE  FALSE
    OBVIOUS
  <2>1. ~Shut(p)
    BY DEF Counted
  <2>2. \E r \in Requests : Closing(r) /\ req[r].p = p
    BY <2>1, ShutBy
  <2> QED BY <2>2 DEF Counted
<1>2. PICK r \in Requests : Closing(r)' /\ req'[r].p = p
  BY <1>1 DEF Counted
<1>3. CASE req'[r] = req[r]
  BY <1>2, <1>3 DEF Counted, Closing
<1>4. CASE req'[r] # req[r]
  BY <1>2, <1>4, CloserReads
<1> QED BY <1>3, <1>4

LEMMA DraftsStep ==
  ASSUME IInv, DraftsInv, [HistoryNext]_historyVars
  PROVE  DraftsInv'
<1>1. CASE UNCHANGED historyVars
  BY <1>1 DEF historyVars, history, vars, DraftsInv, Counted, Shut, Closing
<1>2. CASE HistoryNext
  <2>1. Next /\ unseen' = unseen \cup {e \in EntryIds : Inserts(e) /\ Counted(journal'[e].period)}
    BY <1>2 DEF HistoryNext, RecordWrites
  <2>2. ASSUME NEW e \in DOMAIN journal', journal'[e].status = "DRAFT",
               NEW p, journal'[e].period = p, Counted(p)'
        PROVE  e \in unseen'
    <3>1. Counted(p)
      BY <2>1, <2>2, CountedBefore
    <3>2. CASE e \in DOMAIN journal
      <4>1. journal[e].status = "DRAFT" /\ journal'[e].period = journal[e].period
        BY <2>1, <2>2, <3>2, EntryMoves
      <4> QED BY <2>1, <2>2, <3>1, <3>2, <4>1 DEF DraftsInv
    <3>3. CASE e \notin DOMAIN journal
      <4>1. e \in EntryIds
        BY <2>1, <2>2, NextInv DEF IInv, TypeOK
      <4> QED BY <2>1, <2>2, <3>1, <3>3, <4>1 DEF Inserts
    <3> QED BY <3>2, <3>3
  <2>3. unseen' \subseteq EntryIds
    BY <2>1 DEF DraftsInv
  <2>4. ASSUME NEW e \in DOMAIN journal', journal'[e].status = "DRAFT",
               Counted(journal[e].period)'
        PROVE  e \in unseen'
    <3>1. PICK p : p = journal'[e].period
      OBVIOUS
    <3>2. Counted(p)'
      BY <2>4, <3>1 DEF Counted, Shut, Closing
    <3> QED BY <2>2, <2>4, <3>1, <3>2
  <2> QED BY <2>3, <2>4 DEF DraftsInv
<1> QED BY <1>1, <1>2

LEMMA HistoryIsLedger == HistorySpec => Spec
<1>1. HistoryInit => Init
  BY DEF HistoryInit
<1>2. [HistoryNext]_historyVars => [Next]_vars
  BY DEF HistoryNext, historyVars
<1> QED BY <1>1, <1>2, PTL DEF HistorySpec, Spec

\* Every draft in a closed or locked period was inserted after a close had
\* counted its drafts, for any number of requests that overlap and fail.
THEOREM ShutPeriodsKeepNoDrafts == HistorySpec => []ShutDraftsUnseen
<1>1. HistoryInit => DraftsInv
  BY DEF HistoryInit, Init, DraftsInv
<1>2. IInv /\ DraftsInv /\ [HistoryNext]_historyVars => DraftsInv'
  BY DraftsStep
<1>3. DraftsInv => ShutDraftsUnseen
  BY DEF DraftsInv, ShutDraftsUnseen, Counted
<1> QED BY <1>1, <1>2, <1>3, HistoryIsLedger, InductiveInvariant, PTL DEF HistorySpec

-----------------------------------------------------------------------------
(* Late writes.                                                            *)

\* While a period stays shut, no further handler comes to write into it.
LEMMA NoNewWriter ==
  ASSUME IInv, Next, NEW p, Shut(p)', NEW r \in Requests,
         Writing(r)', WrittenPeriod(r)' = p
  PROVE  Writing(r) /\ WrittenPeriod(r) = p
<1>1. CASE req'[r] # req[r]
  <2>1. Shut(WrittenPeriod(r))'
    BY DEF Shut
  <2> QED BY <1>1, <2>1, WriterReads
<1>2. CASE req'[r] = req[r]
  <2>1. Writing(r)
    BY <1>2 DEF Writing
  <2>2. CASE At(r, "post.update")
    <3>1. req[r].id \in DOMAIN journal
      BY <2>2 DEF IInv, RequestInv
    <3>2. PICK e \in DOMAIN journal : e = req[r].id
      BY <3>1
    <3>3. journal'[e].period = journal[e].period
      BY JournalGrows, EntryMoves
    <3> QED BY <1>2, <2>1, <2>2, <3>2, <3>3 DEF WrittenPeriod, At
  <2>3. CASE ~At(r, "post.update")
    BY <1>2, <2>1, <2>3 DEF WrittenPeriod, At
  <2> QED BY <2>2, <2>3
<1> QED BY <1>1, <1>2

\* The write into a period is the last one of a handler that had read it.
LEMMA WriterWrites ==
  ASSUME IInv, Next, NEW p, Writes(p)
  PROVE  \E r \in Requests : Writing(r) /\ WrittenPeriod(r) = p /\ ~Writing(r)'
<1>1. PICK e \in DOMAIN journal' : (Inserts(e) \/ Posts(e)) /\ journal'[e].period = p
  BY DEF Writes
<1>2. CASE Inserts(e)
  <2>1. PICK r \in Requests : /\ req'[r].at \in {"idle", "reverse.mark", "post.entry"}
                              /\ At(r, "create.insert") /\ journal'[e] = req[r].row
    BY <1>1, <1>2, EntryAdded DEF Inserts
  <2> QED BY <1>1, <2>1 DEF Writing, WrittenPeriod, At
<1>3. CASE Posts(e)
  <2>1. e \in DOMAIN journal /\ journal[e].status # "POSTED" /\ journal'[e].status = "POSTED"
    BY <1>3 DEF Posts
  <2>2. PICK r \in Requests : /\ req'[r].at \in {"idle", "document.update"}
                              /\ At(r, "post.update") /\ req[r].id = e
    BY <2>1, EntryPosted
  <2>3. journal'[e].period = journal[e].period
    BY <1>1, <2>1, EntryMoves
  <2> QED BY <1>1, <2>2, <2>3 DEF Writing, WrittenPeriod, At
<1> QED BY <1>1, <1>2, <1>3

\* Writers counted: all of them are request slots, and one that is missing
\* leaves room for a write.
LEMMA WritersCount ==
  ASSUME NEW S \in SUBSET Requests
  PROVE  /\ IsFiniteSet(S) /\ Cardinality(S) \in Nat
         /\ Cardinality(Requests) \in Nat
         /\ S # Requests => Cardinality(S) < Cardinality(Requests)
         /\ \A T \in SUBSET S : /\ Cardinality(T) \in Nat
                                /\ Cardinality(T) <= Cardinality(S)
                                /\ T # S => Cardinality(T) < Cardinality(S)
<1>1. IsFiniteSet(Requests) /\ IsFiniteSet(S)
  BY RequestsAssumption, FS_Subset
<1>2. ASSUME NEW A, NEW C \in SUBSET A, IsFiniteSet(A)
      PROVE  /\ Cardinality(A) \in Nat /\ Cardinality(C) \in Nat
             /\ Cardinality(C) <= Cardinality(A)
             /\ C # A => Cardinality(C) < Cardinality(A)
  <2>1. IsFiniteSet(C) /\ Cardinality(C) <= Cardinality(A)
    BY <1>2, FS_Subset
  <2>2. Cardinality(C) = Cardinality(A) => C = A
    BY <1>2, FS_Subset
  <2>3. Cardinality(A) \in Nat /\ Cardinality(C) \in Nat
    BY <1>2, <2>1, FS_CardinalityType
  <2> QED BY <2>1, <2>2, <2>3
<1> QED BY <1>1, <1>2

LEMMA WritesStep ==
  ASSUME IInv, WritesInv, [HistoryNext]_historyVars
  PROVE  WritesInv'
<1>1. CASE UNCHANGED historyVars
  BY <1>1 DEF historyVars, history, vars, WritesInv, LateWriters, Writing, WrittenPeriod,
              At, Shut
<1>2. CASE HistoryNext
  <2>1. Next /\ late' = [p \in Periods |-> IF ~(Shut(p) /\ Shut(p)') THEN 0
                                           ELSE IF Writes(p) THEN late[p] + 1 ELSE late[p]]
    BY <1>2 DEF HistoryNext, RecordWrites
  <2>2. late' \in [Periods -> Nat]
    BY <2>1 DEF WritesInv
  <2>3. ASSUME NEW p \in Periods, Shut(p)'
        PROVE  late'[p] + Cardinality(LateWriters(p)') < Cardinality(Requests)
    <3>1. PICK S \in SUBSET Requests : S = LateWriters(p)
      BY DEF LateWriters
    <3>2. PICK T \in SUBSET Requests : T = LateWriters(p)'
      BY DEF LateWriters
    <3>3. T \subseteq S
      <4>1. ASSUME NEW r \in T
            PROVE  r \in S
        <5>1. r \in Requests /\ Writing(r)' /\ WrittenPeriod(r)' = p
          BY <3>2, <4>1 DEF LateWriters
        <5> QED BY <2>1, <2>3, <3>1, <5>1, NoNewWriter DEF LateWriters
      <4> QED BY <4>1
    <3>4. CASE ~Shut(p)
      <4>1. PICK r \in Requests : Closing(r) /\ Return(r)
        BY <2>1, <2>3, <3>4, ShutBy
      <4>2. req'[r].at = "idle"
        BY <4>1 DEF Return, Move, Idle, IInv, TypeOK
      <4>3. r \notin T
        BY <3>2, <4>2 DEF LateWriters, Writing
      <4>4. late'[p] = 0
        BY <2>1, <3>4
      <4> QED BY <3>2, <4>3, <4>4, WritersCount
    <3>5. CASE Shut(p) /\ Writes(p)
      <4>1. PICK r \in Requests : Writing(r) /\ WrittenPeriod(r) = p /\ ~Writing(r)'
        BY <2>1, <3>5, WriterWrites
      <4>2. r \in S /\ r \notin T
        BY <3>1, <3>2, <4>1 DEF LateWriters
      <4>3. late'[p] = late[p] + 1 /\ late[p] \in Nat
        BY <2>1, <2>3, <3>5 DEF WritesInv
      <4>4. late[p] + Cardinality(S) < Cardinality(Requests)
        BY <3>1, <3>5 DEF WritesInv
      <4>5. /\ Cardinality(T) < Cardinality(S)
            /\ Cardinality(T) \in Nat /\ Cardinality(S) \in Nat
            /\ Cardinality(Requests) \in Nat
        BY <3>3, <4>2, WritersCount
      <4>6. late'[p] + Cardinality(T) < Cardinality(Requests)
        BY <4>3, <4>4, <4>5
      <4> QED BY <3>2, <4>6
    <3>6. CASE Shut(p) /\ ~Writes(p)
      <4>1. late'[p] = late[p] /\ late[p] \in Nat
        BY <2>1, <2>3, <3>6 DEF WritesInv
      <4>2. late[p] + Cardinality(S) < Cardinality(Requests)
        BY <3>1, <3>6 DEF WritesInv
      <4>3. /\ Cardinality(T) <= Cardinality(S)
            /\ Cardinality(T) \in Nat /\ Cardinality(S) \in Nat
            /\ Cardinality(Requests) \in Nat
        BY <3>3, WritersCount
      <4>4. late'[p] + Cardinality(T) < Cardinality(Requests)
        BY <4>1, <4>2, <4>3
      <4> QED BY <3>2, <4>4
    <3> QED BY <3>4, <3>5, <3>6
  <2> QED BY <2>2, <2>3 DEF WritesInv
<1> QED BY <1>1, <1>2

\* Fewer entries than there are requests are inserted or posted in a period
\* while it is closed or locked, for any number of requests that overlap and
\* fail.
THEOREM LateWritesAreBounded == HistorySpec => []LateWritesBounded
<1>1. HistoryInit => WritesInv
  BY DEF HistoryInit, Init, WritesInv, Shut
<1>2. IInv /\ WritesInv /\ [HistoryNext]_historyVars => WritesInv'
  BY WritesStep
<1>3. WritesInv => LateWritesBounded
  <2> SUFFICES ASSUME WritesInv, NEW p \in Periods, Shut(p)
               PROVE  late[p] < Cardinality(Requests)
    BY DEF LateWritesBounded
  <2>1. late[p] \in Nat /\ late[p] + Cardinality(LateWriters(p)) < Cardinality(Requests)
    BY DEF WritesInv
  <2>2. LateWriters(p) \in SUBSET Requests
    BY DEF LateWriters
  <2>3. Cardinality(LateWriters(p)) \in Nat /\ Cardinality(Requests) \in Nat
    BY <2>2, WritersCount
  <2> QED BY <2>1, <2>3
<1> QED BY <1>1, <1>2, <1>3, HistoryIsLedger, InductiveInvariant, PTL DEF HistorySpec

=============================================================================
