--------------------------- MODULE OfferingProofs ---------------------------
(* Proofs about Offering and OfferingHistory, for every number of requests,  *)
(* clerks and batches.                                                      *)
EXTENDS OfferingHistory, LedgerProofs

\* The invariant of the composition.
OInv == IInv /\ OfferingInv

-----------------------------------------------------------------------------
(* What the ledger's own steps do to the journal and to a posting.         *)

\* Of every entry all but the status stays, and none becomes a draft.
EntriesKept ==
  \A e \in DOMAIN journal :
    /\ e \in DOMAIN journal'
    /\ journal'[e].source = journal[e].source
    /\ journal'[e].posting = journal[e].posting
    /\ journal'[e].period = journal[e].period
    /\ journal'[e].lines = journal[e].lines
    /\ journal'[e].reverses = journal[e].reverses
    /\ journal[e].status # "DRAFT" => journal'[e].status # "DRAFT"

\* A new entry is the row that some request carries.
EntriesAdded ==
  \A e \in DOMAIN journal' \ DOMAIN journal :
    \E r \in Requests : At(r, "create.insert") /\ journal'[e] = req[r].row

LEMMA LedgerJournal ==
  ASSUME IInv, OwnStep
  PROVE  EntriesKept /\ EntriesAdded
<1>1. CASE UNCHANGED journal
  BY <1>1 DEF EntriesKept, EntriesAdded
<1>2. ASSUME NEW r \in Requests, CreateInsert(r), ~UNCHANGED journal
      PROVE  EntriesKept /\ EntriesAdded
  <2>1. At(r, "create.insert")
    BY <1>2 DEF CreateInsert
  <2>2. PICK e \in EntryIds \ DOMAIN journal :
          /\ DOMAIN journal' = DOMAIN journal \cup {e}
          /\ journal'[e] = req[r].row
          /\ \A x \in DOMAIN journal : journal'[x] = journal[x]
    BY <1>2, InsertEffect
  <2> QED BY <2>1, <2>2 DEF EntriesKept, EntriesAdded
<1>3. ASSUME NEW r \in Requests, PostUpdate(r) \/ VoidUpdate(r)
      PROVE  EntriesKept /\ EntriesAdded
  <2>1. PICK e \in DOMAIN journal, st \in {"POSTED", "VOID"} :
          SetEntry(e, [journal[e] EXCEPT !.status = st])
    BY <1>3, StatusEffect
  <2>2. journal[e] \in Entries
    BY DEF IInv, TypeOK
  <2> QED BY <2>1, <2>2 DEF SetEntry, Entries, EntriesKept, EntriesAdded
<1>4. ASSUME NEW r \in Requests, ReverseMark(r)
      PROVE  EntriesKept /\ EntriesAdded
  <2> DEFINE e == req[r].row.reverses
  <2>1. /\ e \in DOMAIN journal
        /\ SetEntry(e, [journal[e] EXCEPT !.isReversed = TRUE])
    BY <1>4, MarkEffect
  <2>2. journal[e] \in Entries
    BY <2>1 DEF IInv, TypeOK
  <2> QED BY <2>1, <2>2 DEF SetEntry, Entries, EntriesKept, EntriesAdded
<1> QED BY <1>1, <1>2, <1>3, <1>4, JournalWriters DEF Next

\* The points of a posting from which it has an entry.
HasEntryPoints == {"post.entry", "post.period", "post.createPeriod", "post.update",
                   "document.update"}
CreatePoints == {"create.period", "create.accounts", "create.insert"}
WatchedPoints == CreatePoints \cup {"document.update"}

\* How a ledger step leaves a request that is inside createJournalEntry or
\* belongs to a posting: untouched, begun, or advanced with the same row.
Advanced(r) ==
  /\ req'[r].op = req[r].op /\ req'[r].row = req[r].row
  /\ \/ /\ req'[r].id = req[r].id
        /\ req'[r].at \in CreatePoints => req[r].at \in CreatePoints
        /\ req'[r].at \in HasEntryPoints =>
             req[r].at \in HasEntryPoints \cup {"reverse.mark"}
        /\ req'[r].at = "document.update" => PostUpdate(r) /\ req[r].op = "document"
     \/ /\ At(r, "create.insert")
        /\ req'[r].at \notin CreatePoints \cup {"document.update"}
        /\ req'[r].id \in DOMAIN journal' \ DOMAIN journal
        /\ journal'[req'[r].id] = req[r].row

LEMMA LedgerMoves ==
  ASSUME IInv, OwnStep, NEW r \in Requests
  PROVE  \/ req'[r] = req[r]
         \/ CreateBegin(r) \/ ReverseBegin(r)
         \/ req'[r].op # "document" /\ req'[r].at \notin WatchedPoints
         \/ Advanced(r)
<1> DEFINE Claim == \/ req'[r] = req[r]
                    \/ CreateBegin(r) \/ ReverseBegin(r)
                    \/ req'[r].op # "document" /\ req'[r].at \notin WatchedPoints
                    \/ Advanced(r)
<1>1. ASSUME NEW q \in Requests, NEW s, Move(q, s),
             q = r => s.op # "document" /\ s.at \notin WatchedPoints
      PROVE  Claim
  BY <1>1 DEF Move, IInv, TypeOK
<1>2. ASSUME NEW q \in Requests, Return(q)
      PROVE  Claim
  BY <1>1, <1>2 DEF Return, Idle, CreatePoints, WatchedPoints
<1>3. ASSUME NEW q \in Requests, NEW point \in Points, Goto(q, point),
             point \in CreatePoints => req[q].at \in CreatePoints,
             point \in HasEntryPoints => req[q].at \in HasEntryPoints \cup {"reverse.mark"},
             point = "document.update" => PostUpdate(q) /\ req[q].op = "document"
      PROVE  Claim
  <2>1. CASE q = r
    BY <1>3, <2>1, GotoState DEF Advanced
  <2>2. CASE q # r
    BY <1>3, <2>2 DEF Goto, Move, IInv, TypeOK
  <2> QED BY <2>1, <2>2
<1>4. ASSUME NEW q \in Requests, BeginStep(q)
      PROVE  Claim
  <2>1. ASSUME NEW op, NEW at, NEW x,
               Move(q, OnEntry(op, at, x)) \/ Move(q, OnPeriod(op, at, x)),
               op # "document", at \notin WatchedPoints
        PROVE  Claim
    BY <1>1, <2>1 DEF OnEntry, OnPeriod
  <2>2. CASE CreateBegin(q) \/ ReverseBegin(q)
    BY <2>2 DEF CreateBegin, ReverseBegin, Begin, Move, IInv, TypeOK
  <2>3. CASE PostBegin(q) \/ VoidBegin(q)
    BY <2>1, <2>3 DEF PostBegin, VoidBegin, Begin, CreatePoints, WatchedPoints
  <2>4. CASE CloseBegin(q) \/ ReopenBegin(q) \/ LockBegin(q) \/ YearBegin(q)
    BY <2>1, <2>4 DEF CloseBegin, ReopenBegin, LockBegin, YearBegin, Begin, CreatePoints, WatchedPoints
  <2> QED BY <1>4, <2>2, <2>3, <2>4 DEF BeginStep
<1>5. ASSUME NEW q \in Requests, PeriodStep(q)
      PROVE  Claim
  <2>1. CASE CloseCountDrafts(q) \/ CloseReadPrevious(q)
    BY <1>2, <1>3, <2>1 DEF CloseCountDrafts, CloseReadPrevious, Points, CreatePoints,
                            HasEntryPoints
  <2>2. CASE CloseUpdate(q) \/ ReopenUpdate(q) \/ LockUpdate(q)
    BY <1>2, <2>2 DEF CloseUpdate, ReopenUpdate, LockUpdate
  <2>3. ASSUME NextPeriod(q)
        PROVE  Claim
    BY <1>1, <1>2, <2>3 DEF NextPeriod, OnPeriod, CreatePoints, WatchedPoints
  <2>4. CASE YearFind(q) \/ YearCreate(q)
    BY <1>2, <1>3, <2>3, <2>4 DEF YearFind, YearCreate, Points, CreatePoints, HasEntryPoints
  <2> QED BY <1>5, <2>1, <2>2, <2>4 DEF PeriodStep
<1>6. ASSUME NEW q \in Requests, EntryStep(q), ~CreateInsert(q)
      PROVE  Claim
  <2> USE DEF Points, CreatePoints, HasEntryPoints, At
  <2>1. CASE CreateReadPeriod(q) \/ CreateCheckLines(q)
    BY <1>2, <1>3, <2>1 DEF CreateReadPeriod, CreateCheckLines
  <2>2. CASE PostReadEntry(q) \/ PostFindPeriod(q) \/ PostCreatePeriod(q)
    BY <1>2, <1>3, <2>2 DEF PostReadEntry, PostFindPeriod, PostCreatePeriod
  <2>3. CASE PostUpdate(q)
    <3>1. CASE req[q].op = "document" /\ Goto(q, "document.update")
      <4>1. req[q].at \in HasEntryPoints
        BY <2>3 DEF PostUpdate
      <4> QED BY <1>3, <2>3, <3>1, <4>1
    <3> QED BY <1>2, <2>3, <3>1 DEF PostUpdate
  <2>4. CASE VoidUpdate(q)
    BY <1>2, <2>4 DEF VoidUpdate
  <2>5. CASE ReverseMark(q)
    BY <1>3, <2>5 DEF ReverseMark
  <2> QED BY <1>6, <2>1, <2>2, <2>3, <2>4, <2>5 DEF EntryStep
<1>7. ASSUME NEW q \in Requests, CreateInsert(q)
      PROVE  Claim
  <2>1. CASE Return(q)
    BY <1>2, <2>1
  <2>2. ASSUME NEW at \in {"reverse.mark", "post.entry"},
               NEW e \in EntryIds \ DOMAIN journal, Move(q, Inserted(req[q], at, e)),
               journal' = [x \in DOMAIN journal \cup {e} |->
                             IF x = e THEN req[q].row ELSE journal[x]]
        PROVE  Claim
    <3>1. CASE q # r
      BY <2>2, <3>1 DEF Move, IInv, TypeOK
    <3>2. CASE q = r
      <4>1. req'[r] = Inserted(req[r], at, e)
        BY <2>2, <3>2 DEF Move, IInv, TypeOK
      <4>2. e \in DOMAIN journal' /\ journal'[e] = req[r].row
        BY <2>2, <3>2
      <4>3. Advanced(r)
        BY <1>7, <2>2, <3>2, <4>1, <4>2 DEF Advanced, Inserted, CreateInsert, CreatePoints
      <4> QED BY <4>3
    <3> QED BY <3>1, <3>2
  <2>3. CASE ~Return(q)
    <3>1. PICK e \in EntryIds \ DOMAIN journal :
            /\ journal' = [x \in DOMAIN journal \cup {e} |->
                             IF x = e THEN req[q].row ELSE journal[x]]
            /\ CASE req[q].op = "reverse" -> Move(q, Inserted(req[q], "reverse.mark", e))
                 [] req[q].op = "document" -> Move(q, Inserted(req[q], "post.entry", e))
                 [] OTHER -> Return(q)
      BY <1>7, <2>3 DEF CreateInsert
    <3>2. \E at \in {"reverse.mark", "post.entry"} : Move(q, Inserted(req[q], at, e))
      <4>1. CASE req[q].op = "reverse"
        BY <3>1, <4>1
      <4>2. CASE req[q].op = "document"
        BY <3>1, <4>2
      <4>3. CASE req[q].op # "reverse" /\ req[q].op # "document"
        BY <2>3, <3>1, <4>3
      <4> QED BY <4>1, <4>2, <4>3
    <3> QED BY <2>2, <3>1, <3>2
  <2> QED BY <2>1, <2>3
<1>8. CASE (\E a \in Accounts : DeactivateAccount(a)) \/ NextMonth
  BY <1>8 DEF DeactivateAccount, NextMonth
<1>9. CASE \E q \in Requests : Fail(q)
  BY <1>2, <1>9 DEF Fail
<1> QED BY <1>4, <1>5, <1>6, <1>7, <1>8, <1>9 DEF OwnStep, Progress

-----------------------------------------------------------------------------
(* The invariant is inductive.                                             *)

LEMMA OfferingInitInv == OfferingInit => OInv
<1>1. OfferingInit => IInv
  BY InitInv DEF OfferingInit
<1>2. OfferingInit => OfferingTypeOK
  <2>1. NoOne \in DeskStates
    BY DEF NoOne, DeskStates, DeskPoints
  <2>2. [balance |-> 0, inactive |-> FALSE] \in [balance : Nat, inactive : BOOLEAN]
    OBVIOUS
  <2> QED BY <2>1, <2>2 DEF OfferingInit, OfferingTypeOK
<1>3. ASSUME OfferingInit, NEW r \in Requests
      PROVE  PostInv(r)
  <2>1. req[r] = Idle
    BY <1>3 DEF OfferingInit, Init
  <2> QED BY <2>1 DEF PostInv, At, Idle
<1>4. ASSUME OfferingInit, NEW c \in Clerks
      PROVE  DeskInv(c)
  <2>1. desk[c] = NoOne
    BY <1>4 DEF OfferingInit
  <2> QED BY <2>1 DEF DeskInv, DeskAt, NoOne
<1> QED BY <1>1, <1>2, <1>3, <1>4 DEF OfferingInit, Init, OInv, OfferingInv, PostedHasEntry

\* What batches a step may add and how it may change them.
BatchesKept ==
  \A b \in DOMAIN batch : b \in DOMAIN batch' /\ batch'[b].taking = batch[b].taking

\* A row keeps belonging to its batch.
LEMMA OwnRowKept ==
  ASSUME BatchesKept, NEW row, OwnRow(row)
  PROVE  OwnRow(row)'
BY DEF BatchesKept, OwnRow

\* Steps of the ledger itself.
LEMMA LedgerStepInv ==
  ASSUME OInv, OwnStep, UNCHANGED offeringVars
  PROVE  OInv'
<1>1. IInv /\ OfferingInv /\ IInv'
  BY NextInv DEF OInv, Next
<1>2. EntriesKept /\ EntriesAdded
  BY <1>1, LedgerJournal
<1>3. UNCHANGED <<batch, bank, desk>>
  BY DEF offeringVars
<1>4. OfferingTypeOK'
  BY <1>1, <1>3 DEF OfferingInv, OfferingTypeOK
<1>5. ASSUME NEW c \in Clerks
      PROVE  DeskInv(c)'
  BY <1>1, <1>3 DEF OfferingInv, DeskInv, DeskAt
<1>6. \A e \in DOMAIN journal' : OwnRow(journal[e])'
  <2> TAKE e \in DOMAIN journal'
  <2>1. CASE e \in DOMAIN journal
    <3>1. OwnRow(journal[e])
      BY <1>1, <2>1 DEF OfferingInv
    <3> QED BY <1>2, <1>3, <2>1, <3>1 DEF EntriesKept, OwnRow
  <2>2. CASE e \notin DOMAIN journal
    <3>1. PICK r \in Requests : At(r, "create.insert") /\ journal'[e] = req[r].row
      BY <1>2, <2>2 DEF EntriesAdded
    <3>2. OwnRow(req[r].row)
      BY <1>1, <3>1 DEF OfferingInv, PostInv
    <3> QED BY <1>3, <3>1, <3>2 DEF OwnRow
  <2> QED BY <2>1, <2>2
<1>7. ASSUME NEW r \in Requests
      PROVE  PostInv(r)'
  <2>1. PostInv(r)
    BY <1>1 DEF OfferingInv
  <2>2. CASE req'[r] = req[r]
    BY <1>2, <1>3, <2>1, <2>2 DEF PostInv, At, OwnRow, EntriesKept, DocumentEntries
  <2>3. ASSUME NEW op \in {"create", "reverse"}, NEW at \in {"create.period", "create.accounts"},
               NEW row, Move(r, OnRow(op, at, row)), row.posting = FALSE
        PROVE  PostInv(r)'
    <3>1. req'[r].op = op /\ req'[r].at = at /\ req'[r].row = row
      BY <1>1, <2>3 DEF Move, OnRow, IInv, TypeOK
    <3> QED BY <2>3, <3>1 DEF PostInv, At, OwnRow
  <2>4. CASE CreateBegin(r) \/ ReverseBegin(r)
    <3>1. \A st, l, p, d, e : /\ ClientRow(st, l, p, d).posting = FALSE
                              /\ ReversingRow(e, l).posting = FALSE
      BY DEF ClientRow, ReversingRow
    <3>2. PICK op \in {"create", "reverse"}, at \in {"create.period", "create.accounts"} :
            \E row : Move(r, OnRow(op, at, row)) /\ row.posting = FALSE
      BY <2>4, <3>1 DEF CreateBegin, ReverseBegin, Begin
    <3>3. PICK row : Move(r, OnRow(op, at, row)) /\ row.posting = FALSE
      BY <3>2
    <3> QED BY <2>3, <3>3
  <2>5. CASE req'[r].op # "document" /\ req'[r].at \notin WatchedPoints
    BY <2>5 DEF PostInv, At, CreatePoints, WatchedPoints
  <2>6. CASE Advanced(r)
    <3>1. At(r, "reverse.mark") => req[r].op # "document"
      BY <1>1, <2>1, NoEntryAssumption DEF IInv, TypeOK, RequestInv, PostInv
    <3>2. CASE /\ req'[r].id = req[r].id
               /\ req'[r].at \in CreatePoints => req[r].at \in CreatePoints
               /\ req'[r].at \in HasEntryPoints =>
                    req[r].at \in HasEntryPoints \cup {"reverse.mark"}
               /\ req'[r].at = "document.update" => PostUpdate(r) /\ req[r].op = "document"
      <4>1. req'[r].op = req[r].op /\ req'[r].row = req[r].row
        BY <2>6 DEF Advanced
      <4>2. req'[r].at \in CreatePoints =>
              /\ OwnRow(req[r].row)'
              /\ req'[r].row.posting <=> req'[r].op = "document"
        BY <1>3, <2>1, <3>2, <4>1 DEF PostInv, At, CreatePoints, OwnRow
      <4>3. ASSUME req'[r].op = "document"
            PROVE  /\ req'[r].row.source \in DOMAIN batch'
                   /\ req'[r].row.reverses = NoEntry
                   /\ req'[r].at \in HasEntryPoints =>
                        (req[r].id \in DocumentEntries(req[r].row.source))'
        BY <1>2, <1>3, <2>1, <3>1, <3>2, <4>1, <4>3
        DEF PostInv, At, HasEntryPoints, DocumentEntries, EntriesKept
      <4>4. req'[r].at = "document.update" => journal'[req'[r].id].status # "DRAFT"
        <5> SUFFICES ASSUME PostUpdate(r), req'[r].at = "document.update"
                     PROVE  journal'[req[r].id].status # "DRAFT"
          BY <3>2
        <5>1. req[r].id \in DOMAIN journal
          BY <1>1 DEF PostUpdate, IInv, RequestInv
        <5>2. journal[req[r].id] \in Entries
          BY <1>1, <5>1 DEF IInv, TypeOK
        <5> QED BY <5>1, <5>2 DEF PostUpdate, SetEntry, Entries
      <4> QED BY <3>2, <4>1, <4>2, <4>3, <4>4 DEF PostInv, At, CreatePoints, HasEntryPoints
    <3>3. CASE /\ At(r, "create.insert")
               /\ req'[r].at \notin CreatePoints \cup {"document.update"}
               /\ req'[r].id \in DOMAIN journal' \ DOMAIN journal
               /\ journal'[req'[r].id] = req[r].row
      <4>1. req'[r].op = req[r].op /\ req'[r].row = req[r].row
        BY <2>6 DEF Advanced
      <4>2. req[r].op = "document" =>
              /\ req[r].row.source \in DOMAIN batch
              /\ req[r].row.posting /\ req[r].row.reverses = NoEntry
        BY <2>1, <3>3 DEF PostInv
      <4>3. req'[r].op = "document" =>
              /\ req'[r].row.source \in DOMAIN batch'
              /\ req'[r].row.reverses = NoEntry
              /\ (req[r].id \in DocumentEntries(req[r].row.source))'
        BY <1>3, <3>3, <4>1, <4>2 DEF DocumentEntries
      <4> QED BY <3>3, <4>3 DEF PostInv, At, CreatePoints
    <3> QED BY <2>6, <3>2, <3>3 DEF Advanced
  <2> QED BY <1>1, <2>2, <2>4, <2>5, <2>6, LedgerMoves
<1>8. PostedHasEntry'
  BY <1>1, <1>2, <1>3 DEF OfferingInv, PostedHasEntry, EntriesKept, DocumentEntries
<1> QED BY <1>1, <1>4, <1>5, <1>6, <1>7, <1>8 DEF OInv, OfferingInv

\* Steps of a clerk leave the ledger alone and keep each batch's takings, its
\* link to the journal, and a verification once made.
LEMMA ClerkStepInv ==
  ASSUME OInv, NEW c \in Clerks, ClerkStep(c) \/ ClerkFail(c)
  PROVE  OInv' /\ UNCHANGED vars
<1> USE DEF SetDesk, SetBatch, DeskReturn, DeskGoto
<1>1. UNCHANGED vars
  BY DEF ClerkStep, BatchCreate, VerifyBegin, VerifyReadBank, VerifyReadSlip,
         VerifyUpdate, VerifyDeposit, ApproveBegin, ApproveUpdate, ClerkFail
<1>2. IInv /\ OfferingInv /\ IInv'
  BY <1>1, NextInv DEF OInv
<1>3. /\ OfferingTypeOK /\ DeskInv(c)
      /\ desk[c] \in DeskStates
  BY <1>2 DEF OfferingInv, OfferingTypeOK
<1>4. NoOne \in DeskStates /\ NoOne.at = "idle"
  BY DEF NoOne, DeskStates, DeskPoints
<1>5. ASSUME NEW s \in DeskStates, SetDesk(c, s), OfferingTypeOK',
             BatchesKept,
             \A b \in DOMAIN batch :
               /\ batch'[b].isPostedToGL = batch[b].isPostedToGL
               /\ batch'[b].journalEntryId = batch[b].journalEntryId
               /\ batch[b].verifiedAt => batch'[b].verifiedAt,
             \A b \in DOMAIN batch' \ DOMAIN batch : ~batch'[b].isPostedToGL,
             DeskInv(c)'
      PROVE  OInv'
  <2>1. ASSUME NEW d \in Clerks
        PROVE  DeskInv(d)'
    <3>1. CASE d = c  BY <1>5, <3>1
    <3>2. CASE d # c
      <4>1. desk'[d] = desk[d]
        BY <1>3, <1>5, <3>2 DEF OfferingTypeOK
      <4>2. DeskInv(d)
        BY <1>2 DEF OfferingInv
      <4> QED BY <1>5, <4>1, <4>2 DEF DeskInv, DeskAt, BatchesKept
    <3> QED BY <3>1, <3>2
  <2>2. \A e \in DOMAIN journal' : OwnRow(journal[e])'
    BY <1>1, <1>2, <1>5 DEF vars, OfferingInv, OwnRow, BatchesKept
  <2>3. ASSUME NEW r \in Requests
        PROVE  PostInv(r)'
    <3>1. PostInv(r)
      BY <1>2 DEF OfferingInv
    <3> QED BY <1>1, <1>5, <3>1 DEF vars, PostInv, At, OwnRow, BatchesKept, DocumentEntries
  <2>4. PostedHasEntry'
    BY <1>1, <1>2, <1>5 DEF vars, OfferingInv, PostedHasEntry, BatchesKept, DocumentEntries
  <2> QED BY <1>2, <1>5, <2>1, <2>2, <2>3, <2>4 DEF OInv, OfferingInv
<1>6. ASSUME NEW s \in DeskStates, SetDesk(c, s), UNCHANGED batch, OfferingTypeOK', DeskInv(c)'
      PROVE  OInv'
  BY <1>5, <1>6 DEF BatchesKept
<1>7. ASSUME NEW s \in DeskStates, SetDesk(c, s), UNCHANGED <<batch, bank>>, DeskInv(c)'
      PROVE  OInv'
  BY <1>3, <1>6, <1>7 DEF OfferingTypeOK
<1>8. ASSUME DeskReturn(c), UNCHANGED <<batch, bank>>
      PROVE  OInv'
  <2>1. DeskInv(c)'
    BY <1>3, <1>4, <1>8 DEF DeskInv, DeskAt, OfferingTypeOK
  <2> QED BY <1>4, <1>7, <1>8, <2>1
<1>9. CASE BatchCreate(c)
  <2>1. PICK b \in Batches \ DOMAIN batch, t \in Takings, s \in InitialStatuses,
             u \in Callers, p \in 1..month : BatchCreate(c)!(b, t, s, u, p)
    BY <1>9 DEF BatchCreate
  <2> DEFINE row == [status |-> s, period |-> p, taking |-> t, createdBy |-> u,
                     verifiedBy |-> NoUser, verifiedAt |-> FALSE, approvedAt |-> FALSE,
                     depositSlipNumber |-> NoSlip,
                     isPostedToGL |-> FALSE, journalEntryId |-> NoEntry]
  <2>2. /\ batch' = [x \in DOMAIN batch \cup {b} |-> IF x # b THEN batch[x] ELSE row]
        /\ UNCHANGED <<bank, desk>> /\ DeskAt(c, "idle")
    BY <2>1
  <2>3. row.isPostedToGL = FALSE
    OBVIOUS
  <2>4. ASSUME NEW d \in Clerks
        PROVE  DeskInv(d)'
    <3>1. DeskInv(d)
      BY <1>2 DEF OfferingInv
    <3> HIDE DEF row
    <3> QED BY <2>2, <3>1 DEF DeskInv, DeskAt
  <2>5. \A e \in DOMAIN journal' : OwnRow(journal[e])'
    <3> HIDE DEF row
    <3> QED BY <1>1, <1>2, <2>2 DEF vars, OfferingInv, OwnRow
  <2>6. ASSUME NEW r \in Requests
        PROVE  PostInv(r)'
    <3>1. PostInv(r)
      BY <1>2 DEF OfferingInv
    <3> HIDE DEF row
    <3> QED BY <1>1, <2>2, <3>1 DEF vars, PostInv, At, OwnRow, DocumentEntries
  <2>7. PostedHasEntry'
    <3> HIDE DEF row
    <3> QED BY <1>1, <1>2, <2>2, <2>3 DEF vars, OfferingInv, PostedHasEntry, DocumentEntries
  <2>8. row \in BatchRows
    <3>1. p \in Periods
      BY <1>2, PeriodsAssumption DEF IInv, TypeOK, Periods
    <3> QED BY <3>1, InitialStatusesAssumption DEF BatchRows
  <2>9. OfferingTypeOK'
    <3> HIDE DEF row
    <3> QED BY <1>3, <2>2, <2>8 DEF OfferingTypeOK
  <2> QED BY <1>1, <1>2, <2>4, <2>5, <2>6, <2>7, <2>9 DEF OInv, OfferingInv
<1>10. CASE VerifyBegin(c)
  <2>1. PICK b \in DOMAIN batch, u \in Callers, a \in BankAccounts \cup {NoAccount},
             s \in Slips \cup {NoSlip} : VerifyBegin(c)!(b, u, a, s)
    BY <1>10 DEF VerifyBegin
  <2> DEFINE state == [at |-> IF a = NoAccount THEN "verify.update" ELSE "verify.bank",
                       id |-> b, user |-> u, account |-> a, slip |-> s]
  <2>2. b \in Batches
    BY <1>3 DEF OfferingTypeOK
  <2>3. state \in DeskStates
    BY <2>2 DEF DeskStates, DeskPoints
  <2>4. SetDesk(c, state) /\ UNCHANGED <<batch, bank>>
    BY <2>1
  <2>5. desk'[c] = state
    BY <1>3, <2>4 DEF OfferingTypeOK
  <2>6. DeskInv(c)'
    BY <2>4, <2>5 DEF DeskInv, DeskAt
  <2> QED BY <1>1, <1>7, <2>3, <2>4, <2>6
<1>11. ASSUME NEW point \in DeskPoints, DeskGoto(c, point), UNCHANGED <<batch, bank>>,
              DeskInv(c)'
       PROVE  OInv'
  <2>1. [desk[c] EXCEPT !.at = point] \in DeskStates
    BY <1>3 DEF DeskStates
  <2> QED BY <1>7, <1>11, <2>1
<1>12. CASE VerifyReadBank(c) \/ VerifyReadSlip(c)
  <2>1. CASE DeskReturn(c)
    BY <1>1, <1>8, <1>12, <2>1 DEF VerifyReadBank, VerifyReadSlip
  <2>2. CASE \E point \in {"verify.slip", "verify.update"} : DeskGoto(c, point)
    <3>1. PICK point \in {"verify.slip", "verify.update"} : DeskGoto(c, point)
      BY <2>2
    <3>2. /\ desk'[c].at = point /\ desk'[c].id = desk[c].id
          /\ desk'[c].account = desk[c].account /\ desk'[c].user = desk[c].user
      BY <1>3, <3>1 DEF OfferingTypeOK, DeskStates
    <3>3. desk[c].at \in {"verify.bank", "verify.slip"} /\ UNCHANGED <<batch, bank>>
      BY <1>12 DEF VerifyReadBank, VerifyReadSlip, DeskAt
    <3>4. desk[c].user \in Callers
      BY <1>3, <3>3 DEF DeskInv, DeskAt
    <3>5. DeskInv(c)'
      BY <1>3, <3>2, <3>3, <3>4 DEF DeskInv, DeskAt
    <3> QED BY <1>1, <1>11, <3>1, <3>3, <3>5 DEF DeskPoints
  <2> QED BY <1>12, <2>1, <2>2 DEF VerifyReadBank, VerifyReadSlip
<1>13. CASE VerifyUpdate(c)
  <2> DEFINE b == desk[c].id
             banked == desk[c].account # NoAccount
             row == [batch[b] EXCEPT
                       !.status = IF banked THEN "DEPOSITED" ELSE "VERIFIED",
                       !.verifiedBy = desk[c].user,
                       !.verifiedAt = TRUE,
                       !.depositSlipNumber =
                         IF desk[c].slip = NoSlip THEN @ ELSE desk[c].slip]
  <2>1. /\ SetBatch(b, row) /\ UNCHANGED bank
        /\ IF banked THEN DeskGoto(c, "verify.deposit") ELSE DeskReturn(c)
    BY <1>13 DEF VerifyUpdate
  <2>2. b \in DOMAIN batch /\ desk[c].user \in Callers
    BY <1>3, <1>13 DEF VerifyUpdate, DeskInv, DeskAt
  <2>3. batch[b] \in BatchRows
    BY <1>3, <2>2 DEF OfferingTypeOK
  <2>4. /\ row \in BatchRows /\ row.verifiedAt
        /\ row.taking = batch[b].taking /\ row.isPostedToGL = batch[b].isPostedToGL
        /\ row.journalEntryId = batch[b].journalEntryId
    <3>1. desk[c].slip \in Slips \cup {NoSlip}
      BY <1>3 DEF DeskStates
    <3> QED BY <2>2, <2>3, <3>1 DEF BatchRows, BatchStatuses
  <2> HIDE DEF row
  <2>5. CASE banked
    <3> DEFINE state == [desk[c] EXCEPT !.at = "verify.deposit"]
    <3>1. /\ SetDesk(c, state) /\ state \in DeskStates /\ state.at = "verify.deposit"
          /\ state.id = b /\ state.account \in BankAccounts
      BY <1>3, <2>1, <2>5 DEF DeskStates, DeskPoints
    <3> HIDE DEF state
    <3>2. desk'[c] = state
      BY <1>3, <3>1 DEF OfferingTypeOK
    <3>3. OfferingTypeOK'
      BY <1>3, <2>1, <2>2, <2>4, <3>1 DEF OfferingTypeOK
    <3>4. DeskInv(c)'
      BY <2>1, <2>2, <2>4, <3>1, <3>2 DEF DeskInv, DeskAt
    <3> QED BY <1>1, <1>5, <2>1, <2>2, <2>4, <3>1, <3>3, <3>4 DEF BatchesKept
  <2>6. CASE ~banked
    <3>1. SetDesk(c, NoOne)
      BY <2>1, <2>6
    <3>2. desk'[c] = NoOne
      BY <1>3, <3>1 DEF OfferingTypeOK
    <3>3. OfferingTypeOK'
      BY <1>3, <1>4, <2>1, <2>2, <2>4, <3>1 DEF OfferingTypeOK
    <3>4. DeskInv(c)'
      BY <1>4, <3>2 DEF DeskInv, DeskAt
    <3> QED BY <1>1, <1>4, <1>5, <2>1, <2>2, <2>4, <3>1, <3>3, <3>4 DEF BatchesKept
  <2> QED BY <2>5, <2>6
<1>14. CASE VerifyDeposit(c)
  <2> DEFINE a == desk[c].account
             sum == bank[a].balance + Total(batch[desk[c].id].taking)
  <2>1. /\ bank' = [bank EXCEPT ![a].balance = sum]
        /\ SetDesk(c, NoOne) /\ UNCHANGED batch
    BY <1>14 DEF VerifyDeposit
  <2>2. a \in BankAccounts /\ desk[c].id \in DOMAIN batch
    BY <1>3, <1>14 DEF VerifyDeposit, DeskInv, DeskAt
  <2>3. sum \in Nat
    <3>1. batch[desk[c].id].taking \in Counts
      BY <1>3, <2>2, TakingsAssumption DEF OfferingTypeOK, BatchRows
    <3> QED BY <1>3, <2>2, <3>1 DEF OfferingTypeOK, Counts, Total
  <2> HIDE DEF sum
  <2>4. bank' \in [BankAccounts -> [balance : Nat, inactive : BOOLEAN]]
    BY <1>3, <2>1, <2>2, <2>3 DEF OfferingTypeOK
  <2>5. OfferingTypeOK'
    BY <1>3, <1>4, <2>1, <2>4 DEF OfferingTypeOK
  <2>6. desk'[c] = NoOne
    BY <1>3, <2>1 DEF OfferingTypeOK
  <2>7. DeskInv(c)'
    BY <1>4, <2>6 DEF DeskInv, DeskAt
  <2> QED BY <1>1, <1>4, <1>6, <2>1, <2>5, <2>7
<1>15. CASE ApproveBegin(c)
  <2>1. PICK b \in DOMAIN batch : ApproveBegin(c)!(b)
    BY <1>15 DEF ApproveBegin
  <2> DEFINE state == [NoOne EXCEPT !.at = "approve.update", !.id = b]
  <2>2. /\ state \in DeskStates /\ state.at = "approve.update" /\ state.id = b
        /\ SetDesk(c, state) /\ UNCHANGED <<batch, bank>>
    BY <1>3, <1>4, <2>1 DEF OfferingTypeOK, DeskStates, DeskPoints, NoOne
  <2> HIDE DEF state
  <2>3. desk'[c] = state
    BY <1>3, <2>2 DEF OfferingTypeOK
  <2>4. DeskInv(c)'
    BY <2>2, <2>3 DEF DeskInv, DeskAt
  <2> QED BY <1>1, <1>7, <2>2, <2>4
<1>16. CASE ApproveUpdate(c)
  <2> DEFINE b == desk[c].id
             row == [batch[b] EXCEPT !.status = "APPROVED", !.approvedAt = TRUE]
  <2>1. SetBatch(b, row) /\ SetDesk(c, NoOne) /\ UNCHANGED bank
    BY <1>16 DEF ApproveUpdate
  <2>2. b \in DOMAIN batch
    BY <1>3, <1>16 DEF ApproveUpdate, DeskInv, DeskAt
  <2>3. batch[b] \in BatchRows
    BY <1>3, <2>2 DEF OfferingTypeOK
  <2>4. /\ row \in BatchRows /\ row.verifiedAt = batch[b].verifiedAt
        /\ row.taking = batch[b].taking /\ row.isPostedToGL = batch[b].isPostedToGL
        /\ row.journalEntryId = batch[b].journalEntryId
    BY <2>3 DEF BatchRows, BatchStatuses
  <2> HIDE DEF row
  <2>5. OfferingTypeOK'
    BY <1>3, <1>4, <2>1, <2>2, <2>4 DEF OfferingTypeOK
  <2>6. desk'[c] = NoOne
    BY <1>3, <2>1 DEF OfferingTypeOK
  <2>7. DeskInv(c)'
    BY <1>4, <2>6 DEF DeskInv, DeskAt
  <2> QED BY <1>1, <1>4, <1>5, <2>1, <2>2, <2>4, <2>5, <2>7 DEF BatchesKept
<1>17. CASE ClerkFail(c)
  BY <1>1, <1>8, <1>17 DEF ClerkFail
<1> QED BY <1>1, <1>9, <1>10, <1>12, <1>13, <1>14, <1>15, <1>16, <1>17 DEF ClerkStep

-----------------------------------------------------------------------------
(* The steps of a posting.                                                 *)

\* A posting starts as any document's: the ledger takes a DocumentBegin step.
LEMMA GLPostBeginIsBegin ==
  ASSUME OInv, NEW r \in Requests, GLPostBegin(r)
  PROVE  \E b \in DOMAIN batch : \E l \in PostLines(batch[b].taking) :
           /\ batch[b].status = "APPROVED" /\ ~batch[b].isPostedToGL
           /\ b \in Sources /\ l \in Drafts
           /\ DocumentBegin(r)
           /\ req'[r] = OnRow("document", "create.period", DocumentRow(b, l, batch[b].period))
           /\ \A q \in Requests \ {r} : req'[q] = req[q]
           /\ UNCHANGED <<tables, offeringVars>>
<1>1. PICK b \in DOMAIN batch, l \in UNION {PostLines(t) : t \in Takings} :
        GLPostBegin(r)!(b, l)
  BY DEF GLPostBegin
<1>2. batch[b] \in BatchRows /\ b \in Sources
  BY DEF OInv, OfferingInv, OfferingTypeOK, Batches
<1>3. l \in Drafts /\ batch[b].period \in Periods
  BY <1>1, <1>2, TakingsAssumption DEF BatchRows
<1>4. DocumentBegin(r)
  BY <1>1, <1>2, <1>3 DEF DocumentBegin
<1>5. /\ req'[r] = OnRow("document", "create.period", DocumentRow(b, l, batch[b].period))
      /\ \A q \in Requests \ {r} : req'[q] = req[q]
  BY <1>1 DEF Begin, Move, OInv, IInv, TypeOK
<1> QED BY <1>1, <1>2, <1>3, <1>4, <1>5

LEMMA GLPostBeginInv ==
  ASSUME OInv, NEW r \in Requests, GLPostBegin(r)
  PROVE  OInv'
<1>0. PICK b \in DOMAIN batch : \E l \in PostLines(batch[b].taking) :
        /\ b \in Sources /\ DocumentBegin(r)
        /\ req'[r] = OnRow("document", "create.period", DocumentRow(b, l, batch[b].period))
        /\ \A q \in Requests \ {r} : req'[q] = req[q]
        /\ UNCHANGED <<tables, offeringVars>>
  BY GLPostBeginIsBegin
<1>1. PICK l \in PostLines(batch[b].taking) :
        /\ b \in Sources /\ DocumentBegin(r)
        /\ req'[r] = OnRow("document", "create.period", DocumentRow(b, l, batch[b].period))
        /\ \A q \in Requests \ {r} : req'[q] = req[q]
        /\ UNCHANGED <<tables, offeringVars>>
  BY <1>0
<1>2. IInv /\ OfferingInv
  BY DEF OInv
<1>3. IInv'
  BY <1>1, <1>2, DocumentInv
<1>4. UNCHANGED <<journal, batch, bank, desk>>
  BY <1>1 DEF tables, offeringVars
<1>5. OfferingTypeOK' /\ PostedHasEntry'
  BY <1>2, <1>4 DEF OfferingInv, OfferingTypeOK, PostedHasEntry, DocumentEntries
<1>6. ASSUME NEW c \in Clerks
      PROVE  DeskInv(c)'
  BY <1>2, <1>4 DEF OfferingInv, DeskInv, DeskAt
<1>7. \A e \in DOMAIN journal' : OwnRow(journal[e])'
  BY <1>2, <1>4 DEF OfferingInv, OwnRow
<1>8. ASSUME NEW q \in Requests
      PROVE  PostInv(q)'
  <2>1. CASE q # r
    <3>1. PostInv(q) /\ req'[q] = req[q]
      BY <1>1, <1>2, <2>1 DEF OfferingInv
    <3> QED BY <1>4, <3>1 DEF PostInv, At, OwnRow, DocumentEntries
  <2>2. CASE q = r
    <3>1. /\ req'[r].op = "document" /\ req'[r].at = "create.period"
          /\ req'[r].row.source = b /\ req'[r].row.lines = l
          /\ req'[r].row.reverses = NoEntry /\ req'[r].row.posting = TRUE
      BY <1>1 DEF OnRow, DocumentRow
    <3> QED BY <1>4, <2>2, <3>1 DEF PostInv, At, OwnRow
  <2> QED BY <2>1, <2>2
<1> QED BY <1>2, <1>3, <1>5, <1>6, <1>7, <1>8 DEF OInv, OfferingInv

\* The last step of a posting, seen from the batch.
LEMMA GLPostEndEffect ==
  ASSUME OInv, NEW r \in Requests, GLPostEnd(r)
  PROVE  LET b == req[r].row.source
             row == [batch[b] EXCEPT !.status = "POSTED", !.isPostedToGL = TRUE,
                                     !.journalEntryId = req[r].id]
         IN
         /\ Posting(r, b) /\ b \in DOMAIN batch
         /\ req[r].id \in DocumentEntries(b)
         /\ journal[req[r].id].status # "DRAFT"
         /\ batch[b] \in BatchRows /\ row \in BatchRows /\ SetBatch(b, row)
         /\ req'[r] = Idle /\ \A q \in Requests \ {r} : req'[q] = req[q]
         /\ UNCHANGED <<tables, bank, desk>>
<1> DEFINE b == req[r].row.source
           row == [batch[b] EXCEPT !.status = "POSTED", !.isPostedToGL = TRUE,
                                   !.journalEntryId = req[r].id]
<1>1. /\ At(r, "document.update") /\ Return(r) /\ SetBatch(b, row)
      /\ UNCHANGED <<tables, bank, desk>>
  BY DEF GLPostEnd, DocumentEnd
<1>2. PostInv(r) /\ IInv /\ OfferingTypeOK
  BY DEF OInv, OfferingInv
<1>3. Posting(r, b)
  BY <1>1, <1>2 DEF Posting, PostInv
<1>4. /\ b \in DOMAIN batch /\ req[r].id \in DocumentEntries(b)
      /\ journal[req[r].id].status # "DRAFT"
  BY <1>1, <1>2, <1>3 DEF PostInv, Posting
<1>5. batch[b] \in BatchRows /\ req[r].id \in EntryIds
  BY <1>2, <1>4 DEF OfferingTypeOK, DocumentEntries, IInv, TypeOK
<1>6. row \in BatchRows
  BY <1>5 DEF BatchRows, BatchStatuses
<1>7. req'[r] = Idle /\ \A q \in Requests \ {r} : req'[q] = req[q]
  BY <1>1, <1>2 DEF Return, Move, IInv, TypeOK
<1> QED BY <1>1, <1>3, <1>4, <1>5, <1>6, <1>7

\* Whichever accounts are credited, the debit is the cash and mobile money.
LEMMA PostLinesDebit ==
  ASSUME NEW t, NEW l \in PostLines(t)
  PROVE  l.debit = t.cash
<1>1. PICK m \in Mappings, x \in {Total(t), t.contributed} \ {0} :
        l = [debitAccount |-> m.cash, creditAccount |-> m.revenue,
             debit |-> t.cash, credit |-> x]
  BY SMTT(20) DEF PostLines
<1> QED BY <1>1

LEMMA GLPostEndInv ==
  ASSUME OInv, NEW r \in Requests, GLPostEnd(r)
  PROVE  OInv'
<1> DEFINE b == req[r].row.source
           row == [batch[b] EXCEPT !.status = "POSTED", !.isPostedToGL = TRUE,
                                   !.journalEntryId = req[r].id]
<1>1. /\ b \in DOMAIN batch /\ req[r].id \in DocumentEntries(b)
      /\ journal[req[r].id].status # "DRAFT"
      /\ batch[b] \in BatchRows /\ row \in BatchRows /\ SetBatch(b, row)
      /\ req'[r] = Idle /\ \A q \in Requests \ {r} : req'[q] = req[q]
      /\ UNCHANGED <<tables, bank, desk>>
  BY GLPostEndEffect
<1>2. IInv /\ OfferingInv
  BY DEF OInv
<1>3. IInv'
  BY <1>2, DocumentInv DEF GLPostEnd
<1>4. UNCHANGED <<journal, bank, desk>>
  BY <1>1 DEF tables
<1>5. row.taking = batch[b].taking /\ row.journalEntryId = req[r].id
  BY <1>1 DEF BatchRows
<1>6. journal[req[r].id].lines.debit = batch[b].taking.cash
  <2>1. OwnRow(journal[req[r].id]) /\ b \in Sources
    BY <1>1, <1>2 DEF OfferingInv, OfferingTypeOK, DocumentEntries, Batches
  <2>2. journal[req[r].id].lines \in PostLines(batch[b].taking)
    BY <1>1, <2>1 DEF OwnRow, DocumentEntries
  <2> QED BY <2>2, PostLinesDebit
<1> HIDE DEF row
<1>7. /\ DOMAIN batch' = DOMAIN batch /\ batch'[b] = row
      /\ \A x \in DOMAIN batch \ {b} : batch'[x] = batch[x]
  BY <1>1 DEF SetBatch
<1>8. BatchesKept
  BY <1>5, <1>7 DEF BatchesKept
<1>9. OfferingTypeOK'
  BY <1>1, <1>2, <1>4, <1>7 DEF OfferingInv, OfferingTypeOK
<1>10. ASSUME NEW c \in Clerks
       PROVE  DeskInv(c)'
  BY <1>2, <1>4, <1>7 DEF OfferingInv, DeskInv, DeskAt
<1>11. \A e \in DOMAIN journal' : OwnRow(journal[e])'
  BY <1>2, <1>4, <1>8 DEF OfferingInv, OwnRow, BatchesKept
<1>12. ASSUME NEW q \in Requests
       PROVE  PostInv(q)'
  <2>1. CASE q # r
    <3>1. PostInv(q) /\ req'[q] = req[q]
      BY <1>1, <1>2, <2>1 DEF OfferingInv
    <3> QED BY <1>4, <1>8, <3>1 DEF PostInv, At, OwnRow, BatchesKept, DocumentEntries
  <2>2. CASE q = r
    BY <1>1, <2>2 DEF PostInv, At, Idle
  <2> QED BY <2>1, <2>2
<1>13. PostedHasEntry'
  <2>0. /\ \A x : DocumentEntries(x)' = DocumentEntries(x)
        /\ DOMAIN batch' = DOMAIN batch /\ journal' = journal
    BY <1>4, <1>7 DEF DocumentEntries
  <2> SUFFICES ASSUME NEW x \in DOMAIN batch, batch'[x].isPostedToGL
               PROVE  /\ batch'[x].journalEntryId \in DocumentEntries(x)
                      /\ journal[batch'[x].journalEntryId].status # "DRAFT"
                      /\ journal[batch'[x].journalEntryId].lines.debit = batch'[x].taking.cash
    BY <2>0, Zenon DEF PostedHasEntry
  <2>1. CASE x = b
    BY <1>1, <1>5, <1>6, <1>7, <2>1
  <2>2. CASE x # b
    BY <1>2, <1>7, <2>2 DEF OfferingInv, PostedHasEntry
  <2> QED BY <2>1, <2>2
<1> QED BY <1>2, <1>3, <1>9, <1>10, <1>11, <1>12, <1>13 DEF OInv, OfferingInv

\* Deactivating a bank account touches neither batches nor clerks.
LEMMA BankDeactivateInv ==
  ASSUME OInv, NEW a \in BankAccounts, BankDeactivate(a)
  PROVE  OInv'
<1>1. UNCHANGED <<vars, batch, desk>>
  BY DEF BankDeactivate
<1>2. IInv' /\ OfferingInv
  BY <1>1, NextInv DEF OInv
<1>3. OfferingTypeOK'
  BY <1>1, <1>2 DEF BankDeactivate, OfferingInv, OfferingTypeOK
<1>4. /\ \A c \in Clerks : DeskInv(c)'
      /\ \A e \in DOMAIN journal' : OwnRow(journal[e])'
      /\ PostedHasEntry'
  BY <1>1, <1>2 DEF vars, OfferingInv, DeskInv, DeskAt, OwnRow, PostedHasEntry, DocumentEntries
<1>5. \A r \in Requests : PostInv(r)'
  BY <1>1, <1>2 DEF vars, OfferingInv, PostInv, At, OwnRow, DocumentEntries
<1> QED BY <1>2, <1>3, <1>4, <1>5 DEF OInv, OfferingInv

LEMMA OfferingNextInv == OInv /\ [OfferingNext]_allVars => OInv'
<1>1. ASSUME OInv, UNCHANGED allVars
      PROVE  OInv'
  <2>1. UNCHANGED vars /\ UNCHANGED <<batch, bank, desk>>
    BY <1>1 DEF allVars, offeringVars
  <2>2. IInv' /\ OfferingInv
    BY <1>1, <2>1, NextInv DEF OInv
  <2>3. OfferingTypeOK' /\ PostedHasEntry'
    BY <2>1, <2>2 DEF vars, OfferingInv, OfferingTypeOK, PostedHasEntry, DocumentEntries
  <2>4. /\ \A c \in Clerks : DeskInv(c)'
        /\ \A e \in DOMAIN journal' : OwnRow(journal[e])'
    BY <2>1, <2>2 DEF vars, OfferingInv, DeskInv, DeskAt, OwnRow
  <2>5. \A r \in Requests : PostInv(r)'
    BY <2>1, <2>2 DEF vars, OfferingInv, PostInv, At, OwnRow, DocumentEntries
  <2> QED BY <2>2, <2>3, <2>4, <2>5 DEF OInv, OfferingInv
<1>2. ASSUME OInv, OfferingNext
      PROVE  OInv'
  BY <1>2, LedgerStepInv, GLPostBeginInv, GLPostEndInv, ClerkStepInv, BankDeactivateInv
  DEF OfferingNext, OfferingProgress, OwnStep
<1> QED BY <1>1, <1>2

\* The inductive invariant of the composition holds in every reachable state.
THEOREM CompositionInvariant == OfferingSpec => []OInv
BY OfferingInitInv, OfferingNextInv, PTL DEF OfferingSpec

\* What offerings rely on: rows keep their types, clerks act on batches that
\* exist, only a posting carries a batch's first row, and it posts its own.
THEOREM OfferingInvariant == OfferingSpec => []OfferingInv
<1>1. OInv => OfferingInv
  BY DEF OInv
<1> QED BY <1>1, CompositionInvariant, PTL

\* A batch flagged as posted names a posted entry of its own money.
THEOREM PostedBatchHasEntry == OfferingSpec => []PostedHasEntry
<1>1. OInv => PostedHasEntry
  BY DEF OInv, OfferingInv
<1> QED BY <1>1, CompositionInvariant, PTL

-----------------------------------------------------------------------------
(* Refinement.                                                             *)

LEMMA OfferingStepSimulation == OInv /\ [OfferingNext]_allVars => [Next]_vars
<1> SUFFICES ASSUME OInv, OfferingNext
             PROVE  [Next]_vars
  BY DEF allVars
<1>1. ASSUME NEW r \in Requests, GLPostBegin(r)
      PROVE  DocumentBegin(r)
  BY <1>1, GLPostBeginIsBegin
<1>2. ASSUME NEW r \in Requests, GLPostEnd(r)
      PROVE  DocumentEnd(r)
  BY <1>2 DEF GLPostEnd
<1>3. ASSUME NEW c \in Clerks, ClerkStep(c) \/ ClerkFail(c)
      PROVE  UNCHANGED vars
  BY <1>3, ClerkStepInv
<1>4. ASSUME NEW a \in BankAccounts, BankDeactivate(a)
      PROVE  UNCHANGED vars
  BY <1>4 DEF BankDeactivate
<1> QED BY <1>1, <1>2, <1>3, <1>4 DEF OfferingNext, OfferingProgress, OwnStep, Next

\* Composed with offerings, the ledger behaves as its own specification says,
\* so every theorem about Spec holds of the composition too.
THEOREM OfferingRefinesLedger == OfferingSpec => RefinesLedger
<1>1. OfferingInit => Init
  BY DEF OfferingInit
<1> QED BY <1>1, OfferingStepSimulation, CompositionInvariant, PTL
    DEF OfferingSpec, RefinesLedger, Spec

-----------------------------------------------------------------------------
(* A settled batch stays settled.                                          *)

\* A step of a clerk keeps the postings and all that was once recorded.
LEMMA ClerkBatches ==
  ASSUME OInv, NEW c \in Clerks, ClerkStep(c) \/ ClerkFail(c), NEW b \in DOMAIN batch
  PROVE  /\ b \in DOMAIN batch'
         /\ batch'[b].isPostedToGL = batch[b].isPostedToGL
         /\ batch[b].verifiedAt => batch'[b].verifiedAt
         /\ batch[b].approvedAt => batch'[b].approvedAt
<1>1. batch[b] \in BatchRows
  BY DEF OInv, OfferingInv, OfferingTypeOK
<1>2. CASE UNCHANGED batch
  BY <1>2
<1>3. CASE BatchCreate(c)
  BY <1>3 DEF BatchCreate
<1>4. CASE VerifyUpdate(c)
  BY <1>1, <1>4 DEF VerifyUpdate, SetBatch, BatchRows
<1>5. CASE ApproveUpdate(c)
  BY <1>1, <1>5 DEF ApproveUpdate, SetBatch, BatchRows
<1> QED BY <1>2, <1>3, <1>4, <1>5
    DEF ClerkStep, VerifyBegin, VerifyReadBank, VerifyReadSlip, VerifyDeposit,
        ApproveBegin, ClerkFail

\* A step of the ledger gives a batch no posting and, if nobody is posting
\* the batch, no entry.
LEMMA LedgerBatches ==
  ASSUME OInv, OwnStep, NEW b \in Batches
  PROVE  /\ \A r \in Requests : Posting(r, b)' => Posting(r, b)
         /\ \A e \in DOMAIN journal : e \in DocumentEntries(b) <=> e \in DocumentEntries(b)'
         /\ \A e \in DocumentEntries(b)' \ DocumentEntries(b) :
              \E r \in Requests : Posting(r, b)
<1>1. IInv /\ EntriesKept /\ EntriesAdded
  BY LedgerJournal DEF OInv
<1>2. ASSUME NEW r \in Requests, Posting(r, b)'
      PROVE  Posting(r, b)
  <2>1. CASE CreateBegin(r) \/ ReverseBegin(r)
    <3>1. req'[r].op # "document"
      BY <1>1, <2>1 DEF CreateBegin, ReverseBegin, Begin, Move, OnRow, IInv, TypeOK
    <3> QED BY <1>2, <3>1 DEF Posting
  <2> QED BY <1>1, <1>2, <2>1, LedgerMoves DEF Posting, Advanced
<1>3. \A e \in DOMAIN journal : e \in DocumentEntries(b) <=> e \in DocumentEntries(b)'
  BY <1>1 DEF EntriesKept, DocumentEntries
<1>4. ASSUME NEW e \in DocumentEntries(b)' \ DocumentEntries(b)
      PROVE  \E r \in Requests : Posting(r, b)
  <2>1. e \in DOMAIN journal' \ DOMAIN journal
    BY <1>3, <1>4 DEF DocumentEntries
  <2>2. PICK r \in Requests : At(r, "create.insert") /\ journal'[e] = req[r].row
    BY <1>1, <2>1 DEF EntriesAdded
  <2>3. PostInv(r)
    BY DEF OInv, OfferingInv
  <2>4. req[r].row.source = b /\ req[r].row.posting
    BY <1>4, <2>2 DEF DocumentEntries
  <2> QED BY <2>2, <2>3, <2>4 DEF PostInv, Posting
<1> QED BY <1>2, <1>3, <1>4

\* A posting of a batch, and entries of one, are of a batch that exists.
LEMMA NewBatch ==
  ASSUME OInv, OfferingNext, NEW b \in DOMAIN batch', b \notin DOMAIN batch
  PROVE  /\ \A r \in Requests : ~Posting(r, b)
         /\ DocumentEntries(b) = {}
<1>1. /\ \A r \in Requests : PostInv(r)
      /\ \A e \in DOMAIN journal : OwnRow(journal[e])
  BY DEF OInv, OfferingInv
<1> QED BY <1>1 DEF PostInv, Posting, OwnRow, DocumentEntries

LEMMA SettledStep ==
  ASSUME OInv, [OfferingNext]_allVars, NEW b \in DOMAIN batch, Settled(b)
  PROVE  Settled(b)' /\ DocumentEntries(b)' = DocumentEntries(b)
<1>1. b \in Batches /\ batch[b].isPostedToGL /\ \A r \in Requests : ~Posting(r, b)
  BY DEF Settled, OInv, OfferingInv, OfferingTypeOK
<1>2. CASE UNCHANGED allVars
  BY <1>1, <1>2 DEF allVars, vars, offeringVars, Settled, Posting, DocumentEntries
<1>3. CASE OwnStep /\ UNCHANGED offeringVars
  <2>1. DocumentEntries(b)' = DocumentEntries(b)
    <3>1. DOMAIN journal \subseteq DOMAIN journal'
      BY <1>3, LedgerJournal DEF OInv, EntriesKept
    <3>2. DocumentEntries(b) \subseteq DOMAIN journal
      BY DEF DocumentEntries
    <3> QED BY <1>1, <1>3, <3>2, LedgerBatches
  <2>2. /\ batch'[b].isPostedToGL
        /\ \A r \in Requests : ~Posting(r, b)'
    BY <1>1, <1>3, LedgerBatches DEF offeringVars
  <2> QED BY <2>1, <2>2 DEF Settled
<1>4. ASSUME NEW r \in Requests, GLPostBegin(r)
      PROVE  Settled(b)' /\ DocumentEntries(b)' = DocumentEntries(b)
  <2>1. PICK d \in DOMAIN batch : \E l \in PostLines(batch[d].taking) :
          /\ ~batch[d].isPostedToGL
          /\ req'[r] = OnRow("document", "create.period", DocumentRow(d, l, batch[d].period))
          /\ \A q \in Requests \ {r} : req'[q] = req[q]
          /\ UNCHANGED <<tables, offeringVars>>
    BY <1>4, GLPostBeginIsBegin
  <2>2. d # b
    BY <1>1, <2>1
  <2>3. req'[r].row.source = d
    BY <2>1 DEF OnRow, DocumentRow
  <2>4. \A q \in Requests : ~Posting(q, b)'
    BY <1>1, <2>1, <2>2, <2>3 DEF Posting
  <2> QED BY <1>1, <2>1, <2>4 DEF Settled, DocumentEntries, tables, offeringVars
<1>5. ASSUME NEW r \in Requests, GLPostEnd(r)
      PROVE  Settled(b)' /\ DocumentEntries(b)' = DocumentEntries(b)
  <2> DEFINE d == req[r].row.source
  <2>1. Posting(r, d)
    BY <1>5, GLPostEndEffect
  <2>2. d # b
    BY <1>1, <2>1
  <2>3. /\ batch'[b] = batch[b] /\ UNCHANGED tables
        /\ req'[r] = Idle /\ \A q \in Requests \ {r} : req'[q] = req[q]
    BY <1>5, <2>2, GLPostEndEffect DEF SetBatch
  <2>4. \A q \in Requests : ~Posting(q, b)'
    BY <1>1, <2>3 DEF Posting, Idle
  <2> QED BY <1>1, <2>3, <2>4 DEF Settled, DocumentEntries, tables
<1>6. ASSUME NEW c \in Clerks, ClerkStep(c) \/ ClerkFail(c)
      PROVE  Settled(b)' /\ DocumentEntries(b)' = DocumentEntries(b)
  <2>1. UNCHANGED vars /\ batch'[b].isPostedToGL
    BY <1>1, <1>6, ClerkStepInv, ClerkBatches
  <2> QED BY <1>1, <2>1 DEF vars, Settled, Posting, DocumentEntries
<1>7. ASSUME NEW a \in BankAccounts, BankDeactivate(a)
      PROVE  Settled(b)' /\ DocumentEntries(b)' = DocumentEntries(b)
  BY <1>1, <1>7 DEF BankDeactivate, vars, Settled, Posting, DocumentEntries
<1> QED BY <1>2, <1>3, <1>4, <1>5, <1>6, <1>7 DEF OfferingNext, OfferingProgress, OwnStep

\* Once its posting is over, a batch is never posted again.
THEOREM SettledBatches == OfferingSpec => SettledIsFinal
<1>1. OInv /\ [OfferingNext]_allVars =>
        [\A b \in DOMAIN batch : Settled(b) =>
           Settled(b)' /\ DocumentEntries(b)' = DocumentEntries(b)]_allVars
  BY SettledStep
<1> QED BY <1>1, CompositionInvariant, PTL DEF OfferingSpec, SettledIsFinal

-----------------------------------------------------------------------------
(* The steps of the composition, seen from one batch, clerk, request.      *)

LEMMA OfferingCases ==
  ASSUME OfferingNext
  PROVE  \/ OwnStep /\ UNCHANGED offeringVars
         \/ \E r \in Requests : GLPostBegin(r) \/ GLPostEnd(r)
         \/ \E c \in Clerks : ClerkStep(c) \/ ClerkFail(c)
         \/ \E a \in BankAccounts : BankDeactivate(a)
BY DEF OfferingNext, OfferingProgress, OwnStep

\* Only two handlers write a batch that exists, and an update that gives it a
\* status follows the read that allows it.
LEMMA BatchMoves ==
  ASSUME OInv, OfferingNext, NEW b \in DOMAIN batch
  PROVE  /\ b \in DOMAIN batch' /\ batch'[b].taking = batch[b].taking
         /\ batch[b].isPostedToGL => batch'[b].isPostedToGL
         /\ batch[b].verifiedAt => batch'[b].verifiedAt
         /\ batch[b].approvedAt => batch'[b].approvedAt
         /\ \/ batch'[b].status = batch[b].status
            \/ batch'[b].status = "POSTED"
            \/ batch'[b].status \in {"VERIFIED", "DEPOSITED"} /\ batch'[b].verifiedAt
            \/ /\ batch'[b].status = "APPROVED" /\ batch'[b].approvedAt
               /\ \E c \in Clerks : DeskAt(c, "approve.update") /\ desk[c].id = b
<1> DEFINE Claim ==
      /\ b \in DOMAIN batch' /\ batch'[b].taking = batch[b].taking
      /\ batch[b].isPostedToGL => batch'[b].isPostedToGL
      /\ batch[b].verifiedAt => batch'[b].verifiedAt
      /\ batch[b].approvedAt => batch'[b].approvedAt
      /\ \/ batch'[b].status = batch[b].status
         \/ batch'[b].status = "POSTED"
         \/ batch'[b].status \in {"VERIFIED", "DEPOSITED"} /\ batch'[b].verifiedAt
         \/ /\ batch'[b].status = "APPROVED" /\ batch'[b].approvedAt
            /\ \E c \in Clerks : DeskAt(c, "approve.update") /\ desk[c].id = b
<1> SUFFICES Claim
  OBVIOUS
<1>1. CASE UNCHANGED batch
  BY <1>1
<1>2. batch[b] \in BatchRows
  BY DEF OInv, OfferingInv, OfferingTypeOK
<1>3. ASSUME NEW r \in Requests, GLPostEnd(r)
      PROVE  Claim
  <2> DEFINE d == req[r].row.source
             row == [batch[d] EXCEPT !.status = "POSTED", !.isPostedToGL = TRUE,
                                     !.journalEntryId = req[r].id]
  <2>1. d \in DOMAIN batch /\ batch[d] \in BatchRows /\ SetBatch(d, row)
    BY <1>3, GLPostEndEffect
  <2>2. /\ row.status = "POSTED" /\ row.isPostedToGL
        /\ row.taking = batch[d].taking
        /\ row.verifiedAt = batch[d].verifiedAt /\ row.approvedAt = batch[d].approvedAt
    BY <2>1 DEF BatchRows
  <2> HIDE DEF row
  <2> QED BY <2>1, <2>2 DEF SetBatch
<1>4. ASSUME NEW c \in Clerks, VerifyUpdate(c)
      PROVE  Claim
  <2> DEFINE d == desk[c].id
             banked == desk[c].account # NoAccount
             row == [batch[d] EXCEPT
                       !.status = IF banked THEN "DEPOSITED" ELSE "VERIFIED",
                       !.verifiedBy = desk[c].user,
                       !.verifiedAt = TRUE,
                       !.depositSlipNumber =
                         IF desk[c].slip = NoSlip THEN @ ELSE desk[c].slip]
  <2>1. SetBatch(d, row) /\ d \in DOMAIN batch
    BY <1>4 DEF VerifyUpdate, OInv, OfferingInv, DeskInv, DeskAt
  <2>2. batch[d] \in BatchRows
    BY <2>1 DEF OInv, OfferingInv, OfferingTypeOK
  <2>3. /\ row.status \in {"VERIFIED", "DEPOSITED"} /\ row.verifiedAt
        /\ row.taking = batch[d].taking /\ row.isPostedToGL = batch[d].isPostedToGL
        /\ row.approvedAt = batch[d].approvedAt
    BY <2>2 DEF BatchRows
  <2> HIDE DEF row
  <2> QED BY <2>1, <2>3 DEF SetBatch
<1>5. ASSUME NEW c \in Clerks, ApproveUpdate(c)
      PROVE  Claim
  <2> DEFINE d == desk[c].id
             row == [batch[d] EXCEPT !.status = "APPROVED", !.approvedAt = TRUE]
  <2>1. SetBatch(d, row) /\ d \in DOMAIN batch /\ DeskAt(c, "approve.update")
    BY <1>5 DEF ApproveUpdate, OInv, OfferingInv, DeskInv, DeskAt
  <2>2. batch[d] \in BatchRows
    BY <2>1 DEF OInv, OfferingInv, OfferingTypeOK
  <2>3. /\ row.status = "APPROVED" /\ row.approvedAt
        /\ row.taking = batch[d].taking /\ row.isPostedToGL = batch[d].isPostedToGL
        /\ row.verifiedAt = batch[d].verifiedAt
    BY <2>2 DEF BatchRows
  <2> HIDE DEF row
  <2> QED BY <2>1, <2>3 DEF SetBatch
<1>6. ASSUME NEW c \in Clerks, BatchCreate(c)
      PROVE  Claim
  BY <1>6 DEF BatchCreate
<1>7. ASSUME NEW c \in Clerks, ClerkStep(c) \/ ClerkFail(c)
      PROVE  Claim
  BY <1>1, <1>4, <1>5, <1>6, <1>7 DEF ClerkStep, VerifyBegin, VerifyReadBank, VerifyReadSlip,
     VerifyDeposit, ApproveBegin, ClerkFail
<1>8. ASSUME NEW r \in Requests, GLPostBegin(r)
      PROVE  Claim
  BY <1>1, <1>8, GLPostBeginIsBegin DEF offeringVars
<1> QED BY <1>1, <1>3, <1>7, <1>8, OfferingCases DEF offeringVars, BankDeactivate

\* An approval starts from a batch that is verified or deposited.
LEMMA ApproverMoves ==
  ASSUME OInv, OfferingNext, NEW c \in Clerks,
         DeskAt(c, "approve.update")', desk'[c] # desk[c]
  PROVE  /\ desk'[c].id \in DOMAIN batch
         /\ batch[desk'[c].id].status \in {"VERIFIED", "DEPOSITED"}
<1> DEFINE Claim == /\ desk'[c].id \in DOMAIN batch
                    /\ batch[desk'[c].id].status \in {"VERIFIED", "DEPOSITED"}
<1> SUFFICES Claim
  OBVIOUS
<1>1. desk \in [Clerks -> DeskStates]
  BY DEF OInv, OfferingInv, OfferingTypeOK
<1>2. ~UNCHANGED desk
  OBVIOUS
<1>3. ASSUME NEW d \in Clerks, NEW s, SetDesk(d, s)
      PROVE  d = c /\ desk'[c] = s /\ s.at = "approve.update"
  BY <1>1, <1>3 DEF SetDesk, DeskAt
<1>4. ASSUME NEW d \in Clerks, DeskReturn(d)
      PROVE  FALSE
  BY <1>3, <1>4 DEF DeskReturn, NoOne
<1>5. ASSUME NEW d \in Clerks, NEW point, DeskGoto(d, point), point # "approve.update"
      PROVE  FALSE
  <2>1. [desk[d] EXCEPT !.at = point].at = point
    BY <1>1 DEF DeskStates
  <2> QED BY <1>3, <1>5, <2>1 DEF DeskGoto
<1>6. ASSUME NEW d \in Clerks, ClerkStep(d) \/ ClerkFail(d)
      PROVE  Claim
  <2>1. CASE BatchCreate(d)
    BY <1>2, <2>1 DEF BatchCreate
  <2>2. CASE VerifyBegin(d)
    <3>1. PICK b \in DOMAIN batch, u \in Callers, a \in BankAccounts \cup {NoAccount},
               s \in Slips \cup {NoSlip} : VerifyBegin(d)!(b, u, a, s)
      BY <2>2 DEF VerifyBegin
    <3> DEFINE state == [at |-> IF a = NoAccount THEN "verify.update" ELSE "verify.bank",
                         id |-> b, user |-> u, account |-> a, slip |-> s]
    <3>2. state.at # "approve.update" /\ SetDesk(d, state)
      BY <3>1
    <3> HIDE DEF state
    <3> QED BY <1>3, <3>2
  <2>3. CASE VerifyReadBank(d) \/ VerifyReadSlip(d)
    BY <1>4, <1>5, <2>3 DEF VerifyReadBank, VerifyReadSlip
  <2>4. CASE VerifyUpdate(d)
    BY <1>4, <1>5, <2>4 DEF VerifyUpdate
  <2>5. CASE VerifyDeposit(d) \/ ApproveUpdate(d) \/ ClerkFail(d)
    BY <1>4, <2>5 DEF VerifyDeposit, ApproveUpdate, ClerkFail
  <2>6. CASE ApproveBegin(d)
    <3>1. PICK b \in DOMAIN batch : ApproveBegin(d)!(b)
      BY <2>6 DEF ApproveBegin
    <3>2. [NoOne EXCEPT !.at = "approve.update", !.id = b].id = b
      BY DEF NoOne
    <3> QED BY <1>3, <3>1, <3>2
  <2> QED BY <1>6, <2>1, <2>2, <2>3, <2>4, <2>5, <2>6 DEF ClerkStep
<1>7. ASSUME NEW r \in Requests, GLPostBegin(r) \/ GLPostEnd(r)
      PROVE  UNCHANGED desk
  BY <1>7, GLPostBeginIsBegin DEF GLPostEnd, offeringVars
<1> QED BY <1>2, <1>6, <1>7, OfferingCases DEF offeringVars, BankDeactivate

\* A posting starts from a batch that is approved and not flagged, and keeps
\* its row.
LEMMA PosterMoves ==
  ASSUME OInv, OfferingNext, NEW r \in Requests, req'[r].op = "document"
  PROVE  \/ /\ req[r].op = "document" /\ req'[r].row = req[r].row
            /\ Inserting(r)' => Inserting(r)
         \/ /\ req[r].op # "document" /\ Inserting(r)'
            /\ req'[r].row.status = "DRAFT" /\ req'[r].at = "create.period"
            /\ req'[r].row.source \in DOMAIN batch /\ UNCHANGED batch
            /\ batch[req'[r].row.source].status = "APPROVED"
            /\ ~batch[req'[r].row.source].isPostedToGL
<1> DEFINE Claim ==
      \/ /\ req[r].op = "document" /\ req'[r].row = req[r].row
         /\ Inserting(r)' => Inserting(r)
      \/ /\ req[r].op # "document" /\ Inserting(r)'
         /\ req'[r].row.status = "DRAFT" /\ req'[r].at = "create.period"
         /\ req'[r].row.source \in DOMAIN batch /\ UNCHANGED batch
         /\ batch[req'[r].row.source].status = "APPROVED"
         /\ ~batch[req'[r].row.source].isPostedToGL
<1> SUFFICES Claim
  OBVIOUS
<1>1. CASE req'[r] = req[r]
  BY <1>1 DEF Inserting, At
<1>2. CASE OwnStep
  <2>1. CASE CreateBegin(r) \/ ReverseBegin(r)
    BY <2>1 DEF CreateBegin, ReverseBegin, Begin, Move, OnRow, OInv, IInv, TypeOK
  <2>2. CASE Advanced(r)
    BY <2>2 DEF Advanced, Inserting, At, CreatePoints
  <2> QED BY <1>1, <1>2, <2>1, <2>2, LedgerMoves DEF OInv
<1>3. ASSUME NEW q \in Requests, GLPostBegin(q)
      PROVE  Claim
  <2>1. PICK b \in DOMAIN batch : \E l \in PostLines(batch[b].taking) :
          /\ batch[b].status = "APPROVED" /\ ~batch[b].isPostedToGL
          /\ DocumentBegin(q)
          /\ req'[q] = OnRow("document", "create.period", DocumentRow(b, l, batch[b].period))
          /\ \A x \in Requests \ {q} : req'[x] = req[x]
          /\ UNCHANGED <<tables, offeringVars>>
    BY <1>3, GLPostBeginIsBegin
  <2>2. req[q].op = "none"
    BY <2>1 DEF DocumentBegin, Begin, Idle
  <2> QED BY <1>1, <2>1, <2>2 DEF OnRow, DocumentRow, offeringVars, Inserting, At
<1>4. ASSUME NEW q \in Requests, GLPostEnd(q)
      PROVE  Claim
  <2>1. req'[q] = Idle /\ \A x \in Requests \ {q} : req'[x] = req[x]
    BY <1>4, GLPostEndEffect
  <2>2. r # q
    BY <2>1 DEF Idle
  <2> QED BY <1>1, <2>1, <2>2
<1>5. ASSUME NEW c \in Clerks, ClerkStep(c) \/ ClerkFail(c)
      PROVE  UNCHANGED vars
  BY <1>5, ClerkStepInv
<1> QED BY <1>1, <1>2, <1>3, <1>4, <1>5, OfferingCases DEF BankDeactivate, vars

\* Entries of a batch are inserted by its postings alone, and stay.
LEMMA BatchEntries ==
  ASSUME OInv, OfferingNext, NEW b
  PROVE  /\ DocumentEntries(b) \subseteq DocumentEntries(b)'
         /\ \A e \in DocumentEntries(b)' \ DocumentEntries(b) :
              \E r \in Requests : Posting(r, b) /\ At(r, "create.insert")
<1> DEFINE Claim ==
         /\ DocumentEntries(b) \subseteq DocumentEntries(b)'
         /\ \A e \in DocumentEntries(b)' \ DocumentEntries(b) :
              \E r \in Requests : Posting(r, b) /\ At(r, "create.insert")
<1> SUFFICES Claim
  OBVIOUS
<1>1. CASE UNCHANGED journal
  BY <1>1 DEF DocumentEntries
<1>2. CASE OwnStep
  <2>1. EntriesKept /\ EntriesAdded
    BY <1>2, LedgerJournal DEF OInv
  <2>2. ASSUME NEW e \in DocumentEntries(b)', e \notin DocumentEntries(b)
        PROVE  \E r \in Requests : Posting(r, b) /\ At(r, "create.insert")
    <3>1. e \in DOMAIN journal' \ DOMAIN journal
      BY <2>1, <2>2 DEF DocumentEntries, EntriesKept
    <3>2. PICK r \in Requests : At(r, "create.insert") /\ journal'[e] = req[r].row
      BY <2>1, <3>1 DEF EntriesAdded
    <3>3. PostInv(r) /\ req[r].row.source = b /\ req[r].row.posting
      BY <2>2, <3>2 DEF OInv, OfferingInv, DocumentEntries
    <3> QED BY <3>2, <3>3 DEF PostInv, Posting
  <2>3. DocumentEntries(b) \subseteq DocumentEntries(b)'
    BY <2>1 DEF EntriesKept, DocumentEntries
  <2> QED BY <2>2, <2>3
<1>3. ASSUME NEW r \in Requests, GLPostBegin(r) \/ GLPostEnd(r)
      PROVE  UNCHANGED journal
  BY <1>3, GLPostBeginIsBegin, GLPostEndEffect DEF tables
<1>4. ASSUME NEW c \in Clerks, ClerkStep(c) \/ ClerkFail(c)
      PROVE  UNCHANGED journal
  BY <1>4, ClerkStepInv DEF vars
<1> QED BY <1>1, <1>2, <1>3, <1>4, OfferingCases DEF BankDeactivate, vars

-----------------------------------------------------------------------------
(* The histories.                                                          *)

LEMMA RecordedNextIsOffering == RecordedNext => OfferingNext
BY DEF RecordedNext, OfferingNext

LEMMA RecordedIsOffering == RecordedSpec => OfferingSpec
<1>1. RecordedInit => OfferingInit
  BY DEF RecordedInit
<1>2. [RecordedNext]_recordedVars => [OfferingNext]_allVars
  BY RecordedNextIsOffering DEF recordedVars
<1> QED BY <1>1, <1>2, PTL DEF RecordedSpec, OfferingSpec

\* What every step records, whatever it stops or loses.
LEMMA Records ==
  ASSUME RecordedNext
  PROVE  /\ createdAs' = [b \in DOMAIN batch' |->
                            IF b \in DOMAIN batch THEN createdAs[b] ELSE batch'[b].status]
         /\ deposits' \subseteq
              deposits \cup {d \in Batches \X Clerks : Verifies(d) /\ Deposits(d)'}
         /\ interrupted \subseteq interrupted' /\ (interrupted' \ interrupted) \subseteq Batches
<1>1. ASSUME NEW stopped, NEW lost, RecordBatches(stopped, lost)
      PROVE  /\ createdAs' = [b \in DOMAIN batch' |->
                            IF b \in DOMAIN batch THEN createdAs[b] ELSE batch'[b].status]
             /\ deposits' \subseteq
                  deposits \cup {d \in Batches \X Clerks : Verifies(d) /\ Deposits(d)'}
             /\ interrupted \subseteq interrupted'
             /\ (interrupted' \ interrupted) \subseteq Batches
  BY <1>1 DEF RecordBatches
<1>2. \E stopped, lost : RecordBatches(stopped, lost)
  BY DEF RecordedNext
<1> QED BY <1>1, <1>2

LEMMA HistoryInitTypes == RecordedInit => HistoryTypeOK
BY DEF RecordedInit, OfferingInit, HistoryTypeOK

LEMMA HistoryTypes == OInv /\ HistoryTypeOK /\ [RecordedNext]_recordedVars => HistoryTypeOK'
<1> SUFFICES ASSUME OInv, HistoryTypeOK, [RecordedNext]_recordedVars
             PROVE  HistoryTypeOK'
  OBVIOUS
<1>1. CASE UNCHANGED recordedVars
  BY <1>1 DEF recordedVars, allVars, offeringVars, batchHistory, HistoryTypeOK
<1>2. CASE RecordedNext
  <2>1. OfferingNext /\ OInv'
    BY <1>2, RecordedNextIsOffering, OfferingNextInv
  <2>2. createdAs' \in [DOMAIN batch' -> BatchStatuses]
    <3>1. \A b \in DOMAIN batch' : batch'[b].status \in BatchStatuses
      BY <2>1 DEF OInv, OfferingInv, OfferingTypeOK, BatchRows
    <3> QED BY <1>2, <3>1, Records DEF HistoryTypeOK
  <2>3. \A b \in DOMAIN batch : b \in DOMAIN batch'
    BY <2>1, BatchMoves
  <2>4. ASSUME NEW d \in Batches \X Clerks, Verifies(d)
        PROVE  d \in (DOMAIN batch) \X Clerks
    BY <2>4 DEF Verifies, OInv, OfferingInv, DeskInv, DeskAt
  <2>5. deposits' \subseteq (DOMAIN batch') \X Clerks
    BY <1>2, <2>3, <2>4, Records DEF HistoryTypeOK
  <2> QED BY <1>2, <2>2, <2>5, Records DEF HistoryTypeOK
<1> QED BY <1>1, <1>2

-----------------------------------------------------------------------------
(* Only what was approved is in the ledger.                                *)

LEMMA ApprovalsInit == RecordedInit => ApprovalsInv
<1> SUFFICES ASSUME RecordedInit
             PROVE  ApprovalsInv
  OBVIOUS
<1>1. DOMAIN batch = {} /\ \A r \in Requests : req[r].op = "none"
  BY DEF RecordedInit, OfferingInit, Init, Idle
<1>2. \A c \in Clerks : desk[c].at = "idle"
  BY DEF RecordedInit, OfferingInit, NoOne
<1> QED BY <1>1, <1>2 DEF ApprovalsInv, PostedWasApproved, DeskAt

LEMMA ApprovalsStep ==
  ASSUME OInv, HistoryTypeOK, ApprovalsInv, [RecordedNext]_recordedVars
  PROVE  ApprovalsInv'
<1>1. CASE UNCHANGED recordedVars
  BY <1>1 DEF recordedVars, allVars, vars, offeringVars, batchHistory, ApprovalsInv, Approved,
              Verified, PostedWasApproved, DeskAt, DocumentEntries
<1>2. CASE RecordedNext
  <2>1. OfferingNext
    BY <1>2, RecordedNextIsOffering
  <2>2. ASSUME NEW b \in DOMAIN batch
        PROVE  /\ b \in DOMAIN batch' /\ createdAs'[b] = createdAs[b]
               /\ Verified(b) => Verified(b)'
               /\ Approved(b) => Approved(b)'
    <3>1. b \in DOMAIN batch' /\ createdAs'[b] = createdAs[b]
      BY <1>2, <2>1, BatchMoves, Records
    <3> QED BY <2>1, <3>1, BatchMoves DEF Verified, Approved
  <2>3. ASSUME NEW b \in DOMAIN batch'
        PROVE  /\ batch'[b].status \in {"VERIFIED", "DEPOSITED"} => Verified(b)'
               /\ batch'[b].status = "APPROVED" => Approved(b)'
    <3>1. CASE b \notin DOMAIN batch
      BY <1>2, <3>1, Records DEF Verified, Approved
    <3>2. CASE b \in DOMAIN batch /\ batch'[b].status = batch[b].status
      BY <2>2, <3>2 DEF ApprovalsInv
    <3>3. CASE b \in DOMAIN batch /\ batch'[b].verifiedAt
                 /\ batch'[b].status \in {"VERIFIED", "DEPOSITED"}
      BY <3>3 DEF Verified
    <3>4. ASSUME b \in DOMAIN batch, batch'[b].status = "APPROVED", batch'[b].approvedAt,
                 \E c \in Clerks : DeskAt(c, "approve.update") /\ desk[c].id = b
          PROVE  Approved(b)'
      <4>1. Verified(b)
        BY <3>4 DEF ApprovalsInv
      <4> QED BY <2>2, <3>4, <4>1 DEF Approved
    <3> QED BY <2>1, <3>1, <3>2, <3>3, <3>4, BatchMoves
  <2>4. ASSUME NEW c \in Clerks, DeskAt(c, "approve.update")'
        PROVE  Verified(desk[c].id)'
    <3>1. PICK b : b = desk'[c].id
      OBVIOUS
    <3>2. b \in DOMAIN batch /\ Verified(b)
      <4>1. CASE desk'[c] = desk[c]
        BY <2>4, <3>1, <4>1 DEF ApprovalsInv, DeskAt, OInv, OfferingInv, DeskInv
      <4>2. CASE desk'[c] # desk[c]
        BY <2>1, <2>4, <3>1, <4>2, ApproverMoves DEF ApprovalsInv
      <4> QED BY <4>1, <4>2
    <3>3. Verified(b)'
      BY <2>2, <3>2
    <3> QED BY <3>1, <3>3 DEF Verified
  <2>5. ASSUME NEW r \in Requests, req'[r].op = "document"
        PROVE  Approved(req[r].row.source)'
    <3>1. PICK b : b = req'[r].row.source
      OBVIOUS
    <3>2. b \in DOMAIN batch /\ Approved(b)
      <4>1. CASE req[r].op = "document" /\ req'[r].row = req[r].row
        BY <3>1, <4>1 DEF ApprovalsInv, OInv, OfferingInv, PostInv
      <4>2. CASE b \in DOMAIN batch /\ batch[b].status = "APPROVED"
        BY <4>2 DEF ApprovalsInv
      <4> QED BY <2>1, <2>5, <3>1, <4>1, <4>2, PosterMoves
    <3>3. Approved(b)'
      BY <2>2, <3>2
    <3> QED BY <3>1, <3>3 DEF Approved, Verified
  <2>6. ASSUME NEW b \in DOMAIN batch', DocumentEntries(b)' # {}
        PROVE  Approved(b)'
    <3>1. CASE DocumentEntries(b) # {}
      <4>1. b \in DOMAIN batch
        BY <3>1 DEF DocumentEntries, OInv, OfferingInv, OwnRow
      <4>2. Approved(b)
        BY <3>1, <4>1 DEF ApprovalsInv, PostedWasApproved, Approved, Verified
      <4> QED BY <2>2, <4>1, <4>2
    <3>2. CASE \E r \in Requests : Posting(r, b)
      <4>1. b \in DOMAIN batch /\ Approved(b)
        BY <3>2 DEF Posting, ApprovalsInv, OInv, OfferingInv, PostInv
      <4> QED BY <2>2, <4>1
    <3> QED BY <2>1, <2>6, <3>1, <3>2, BatchEntries
  <2>7. PostedWasApproved'
    BY <2>6 DEF PostedWasApproved, Approved, Verified
  <2> QED BY <2>3, <2>4, <2>5, <2>7 DEF ApprovalsInv
<1> QED BY <1>1, <1>2

\* The invariants of the composition and of its histories.
RInv == OInv /\ HistoryTypeOK

LEMMA RecordedInvariant == RecordedSpec => []RInv
<1>1. RecordedInit => RInv
  BY OfferingInitInv, HistoryInitTypes DEF RecordedInit, RInv
<1>2. RInv /\ [RecordedNext]_recordedVars => RInv'
  BY OfferingNextInv, HistoryTypes, RecordedNextIsOffering DEF RInv, recordedVars
<1> QED BY <1>1, <1>2, PTL DEF RecordedSpec

\* A batch is in the ledger only if it has been through the verification and
\* the approval that the status given by its creator left to do, whichever
\* handlers overlapped or failed.
THEOREM PostedNeedsApproval == RecordedSpec => []PostedWasApproved
<1>1. RInv /\ ApprovalsInv /\ [RecordedNext]_recordedVars => ApprovalsInv'
  BY ApprovalsStep DEF RInv
<1>2. ApprovalsInv => PostedWasApproved
  BY DEF ApprovalsInv
<1> QED BY <1>1, <1>2, ApprovalsInit, RecordedInvariant, PTL DEF RecordedSpec

-----------------------------------------------------------------------------
(* Postings that nothing comes in the way of.                              *)

\* A step of a posting takes it on with the same row and entry; before it has
\* an entry, it may also give up.
LEMMA PostingAdvances ==
  ASSUME OInv, NEW r \in Requests, req[r].op = "document", Fits(r), EntryStep(r), Next
  PROVE  \/ req'[r] = Idle /\ Inserting(r)
         \/ /\ req'[r].op = "document" /\ req'[r].row = req[r].row /\ Fits(r)'
            /\ HasEntry(r) => HasEntry(r)' /\ req'[r].id = req[r].id
<1> DEFINE Goes == /\ req'[r].op = "document" /\ req'[r].row = req[r].row /\ Fits(r)'
                   /\ HasEntry(r) => HasEntry(r)' /\ req'[r].id = req[r].id
           Claim == (req'[r] = Idle /\ Inserting(r)) \/ Goes
<1> PICK e, p : e = req[r].id /\ p = req[r].row.period
  OBVIOUS
<1> SUFFICES Claim
  OBVIOUS
<1>1. IInv /\ PostInv(r) /\ req[r].row.status = "DRAFT"
  BY DEF OInv, OfferingInv, Fits
<1>2. ASSUME NEW s, Move(r, s)
      PROVE  req'[r] = s
  BY <1>1, <1>2 DEF Move, IInv, TypeOK
<1>3. CASE Inserting(r)
  <2>1. ~HasEntry(r)
    BY <1>3 DEF Inserting, HasEntry, At
  <2>2. ASSUME Return(r)
        PROVE  Claim
    BY <1>2, <1>3, <2>2 DEF Return
  <2>3. ASSUME NEW point \in {"create.accounts", "create.insert"}, Goto(r, point), ~Shut(p)'
        PROVE  Claim
    <3>1. /\ req'[r].at = point /\ req'[r].op = req[r].op /\ req'[r].row = req[r].row
      BY <1>1, <2>3, GotoState DEF Points
    <3>2. Fits(r)'
      BY <1>1, <2>3, <3>1 DEF Fits, Inserting, HasEntry, At, Shut
    <3> QED BY <2>1, <3>1, <3>2
  <2>4. CASE CreateReadPeriod(r)
    <3>1. ~Shut(p) => ~Shut(p)'
      BY <2>4 DEF CreateReadPeriod, tables, Shut
    <3> HIDE DEF Claim
    <3> QED BY <2>2, <2>3, <2>4, <3>1 DEF CreateReadPeriod
  <2>5. CASE CreateCheckLines(r)
    <3>1. ~Shut(p)'
      BY <2>5 DEF CreateCheckLines, tables, Shut, Fits, At
    <3> HIDE DEF Claim
    <3> QED BY <2>2, <2>3, <2>5, <3>1 DEF CreateCheckLines
  <2>6. CASE CreateInsert(r)
    <3>1. req[r].row.reverses = NoEntry
      BY <1>1 DEF PostInv
    <3>2. PICK x \in EntryIds \ DOMAIN journal :
            /\ journal' = [y \in DOMAIN journal \cup {x} |->
                             IF y = x THEN req[r].row ELSE journal[y]]
            /\ Move(r, Inserted(req[r], "post.entry", x))
      BY <2>6, <3>1 DEF CreateInsert
    <3>3. /\ req'[r].at = "post.entry" /\ req'[r].op = req[r].op
          /\ req'[r].row = req[r].row /\ req'[r].id = x
      BY <1>2, <3>2 DEF Inserted
    <3>4. journal'[x] = req[r].row
      BY <3>2
    <3>5. ~Shut(p)'
      BY <2>6 DEF CreateInsert, Shut, Fits, At
    <3>6. Fits(r)'
      BY <1>1, <3>3, <3>4, <3>5 DEF Fits, Inserting, HasEntry, At, Shut, MayPost
    <3> QED BY <2>1, <3>3, <3>6
  <2> QED BY <1>3, <2>4, <2>5, <2>6
          DEF EntryStep, PostReadEntry, PostFindPeriod, PostCreatePeriod, PostUpdate,
              VoidUpdate, ReverseMark, At, Inserting
<1>4. CASE HasEntry(r)
  <2>1. e \in DOMAIN journal /\ journal[e].period = p
    BY <1>1, <1>4 DEF PostInv, HasEntry, DocumentEntries, Fits
  <2>2. e \in DOMAIN journal' /\ journal'[e].period = p
    BY <1>1, <2>1, JournalGrows, EntryMoves
  <2>3. ASSUME NEW point \in {"post.period", "post.createPeriod", "post.update",
                              "document.update"},
               Goto(r, point),
               point = "post.period" => MayPost(e)' /\ ~Shut(p)',
               point = "post.createPeriod" => p \notin DOMAIN period'
        PROVE  Claim
    <3>1. /\ req'[r].at = point /\ req'[r].op = req[r].op /\ req'[r].row = req[r].row
          /\ req'[r].id = e
      BY <1>1, <2>3, GotoState DEF Points
    <3>2. HasEntry(r)' /\ ~Inserting(r)'
      BY <3>1 DEF HasEntry, Inserting, At
    <3>3. Fits(r)'
      BY <1>1, <2>2, <2>3, <3>1, <3>2 DEF Fits, At, Shut, MayPost, Inserting
    <3> QED BY <3>1, <3>2, <3>3
  <2>4. CASE PostReadEntry(r)
    <3>1. MayPost(e) /\ ~Shut(p)
      BY <2>4 DEF PostReadEntry, Fits, At
    <3>2. MayPost(e)' /\ ~Shut(p)' /\ Goto(r, "post.period")
      BY <2>4, <3>1 DEF PostReadEntry, tables, Shut, MayPost
    <3> HIDE DEF Claim
    <3> QED BY <2>3, <3>2
  <2>5. CASE PostFindPeriod(r)
    <3>1. ~Shut(p)
      BY <2>5 DEF PostFindPeriod, Fits, At
    <3>2. p \in DOMAIN period => IsOpen(p)
      BY <1>1, <3>1 DEF Shut, IsOpen, IInv, TypeOK, PeriodStatuses
    <3>3. \/ p \notin DOMAIN period' /\ Goto(r, "post.createPeriod")
          \/ Goto(r, "post.update")
      BY <2>1, <2>5, <3>2 DEF PostFindPeriod, tables
    <3> HIDE DEF Claim
    <3> QED BY <2>3, <3>3
  <2>6. CASE PostCreatePeriod(r)
    <3>1. Goto(r, "post.update")
      BY <2>1, <2>6 DEF PostCreatePeriod, Fits, At
    <3> HIDE DEF Claim
    <3> QED BY <2>3, <3>1
  <2>7. CASE PostUpdate(r)
    <3>1. Goto(r, "document.update")
      BY <2>7 DEF PostUpdate
    <3> HIDE DEF Claim
    <3> QED BY <2>3, <3>1
  <2> QED BY <1>4, <2>4, <2>5, <2>6, <2>7
          DEF EntryStep, CreateReadPeriod, CreateCheckLines, CreateInsert, VoidUpdate,
              ReverseMark, At, HasEntry
<1> QED BY <1>3, <1>4 DEF Fits

\* What a posting has read stays while nothing disturbs it.
LEMMA PostingStays ==
  ASSUME OInv, Next, NEW r \in Requests, req[r].op = "document", Fits(r),
         req'[r] = req[r], ~Disturbed(r)
  PROVE  Fits(r)' /\ (HasEntry(r) => HasEntry(r)')
<1> PICK e, p : e = req[r].id /\ p = req[r].row.period
  OBVIOUS
<1>1. /\ req'[r].at = req[r].at /\ req'[r].id = e /\ req'[r].row = req[r].row
      /\ e \in DOMAIN journal => journal'[e].status = journal[e].status
      /\ p \in DOMAIN period' => p \in DOMAIN period /\ period'[p] = period[p]
  BY DEF Disturbed, EntryTouched, PeriodTouched
<1>2. HasEntry(r) => e \in DOMAIN journal /\ journal'[e].period = journal[e].period
  <2> SUFFICES ASSUME HasEntry(r)
               PROVE  e \in DOMAIN journal /\ journal'[e].period = journal[e].period
    OBVIOUS
  <2>1. e \in DOMAIN journal
    BY DEF OInv, OfferingInv, PostInv, HasEntry, DocumentEntries
  <2> QED BY <2>1, JournalGrows, EntryMoves DEF OInv
<1>3. Shut(p)' => Shut(p)
  BY <1>1 DEF Shut
<1>4. HasEntry(r)' = HasEntry(r) /\ Inserting(r)' = Inserting(r)
  BY <1>1 DEF HasEntry, Inserting, At
<1>5. At(r, "post.entry") \/ At(r, "post.period") => HasEntry(r)
  BY DEF HasEntry
<1> QED BY <1>1, <1>2, <1>3, <1>4, <1>5 DEF Fits, At, Shut, MayPost

\* What happens to a posting whose batch stays undisturbed.
LEMMA PostingGoes ==
  ASSUME OInv, RecordedNext, NEW r \in Requests, NEW b \in Batches, b \notin interrupted',
         Posting(r, b), Fits(r)
  PROVE  \/ /\ Posting(r, b)' /\ req'[r].row = req[r].row /\ Fits(r)'
            /\ HasEntry(r) => HasEntry(r)' /\ req'[r].id = req[r].id
         \/ req'[r] = Idle /\ Inserting(r)
         \/ GLPostEnd(r)
<1>1. /\ req[r].op = "document" /\ req[r].row.source = b /\ IInv
      /\ OfferingNext /\ [Next]_vars
  BY OfferingStepSimulation, RecordedNextIsOffering DEF Posting, OInv
<1> DEFINE Kept == req'[r] = req[r] /\ ~Disturbed(r)
<1>2. ASSUME UNCHANGED tables, req'[r] = req[r]
      PROVE  Kept
  BY <1>2 DEF tables, Disturbed, EntryTouched, PeriodTouched
<1>3. ASSUME NEW q \in Requests, Fail(q), RecordBatches({q}, {})
      PROVE  Kept
  <2>1. q # r
    BY <1>3 DEF RecordBatches
  <2>2. req'[r] = req[r] /\ UNCHANGED tables
    BY <1>1, <1>3, <2>1 DEF Fail, Return, Move, IInv, TypeOK
  <2> HIDE DEF Kept
  <2> QED BY <1>2, <2>2
<1>4. ASSUME NEW c \in Clerks, ClerkStep(c) \/ ClerkFail(c)
      PROVE  Kept
  BY <1>2, <1>4, ClerkStepInv DEF vars, tables
<1>5. ASSUME NEW q \in Requests, GLPostBegin(q)
      PROVE  Kept
  <2>1. PICK d \in DOMAIN batch : \E l \in PostLines(batch[d].taking) :
          /\ DocumentBegin(q)
          /\ \A x \in Requests \ {q} : req'[x] = req[x]
          /\ UNCHANGED tables
    BY <1>5, GLPostBeginIsBegin
  <2>2. q # r
    BY <1>1, <2>1 DEF DocumentBegin, Begin, Idle
  <2> QED BY <1>2, <2>1, <2>2
<1>6. ASSUME NEW q \in Requests, GLPostEnd(q), q # r
      PROVE  Kept
  BY <1>2, <1>6, GLPostEndEffect
<1>7. ASSUME NEW a \in BankAccounts, BankDeactivate(a)
      PROVE  Kept
  BY <1>2, <1>7 DEF BankDeactivate, vars, tables
<1>8. ASSUME Progress, ~Disturbed(r)
      PROVE  Kept \/ EntryStep(r)
  <2>1. req[r].at \notin {"close.drafts", "close.previous", "close.update",
                          "reopen.update", "lock.update", "year.find", "year.create"}
    BY DEF Fits, Inserting, HasEntry, At
  <2>2. ~PeriodStep(r)
    BY <2>1 DEF PeriodStep, CloseCountDrafts, CloseReadPrevious, CloseUpdate, ReopenUpdate,
                LockUpdate, YearFind, YearCreate, At
  <2>3. ~BeginStep(r)
    BY <1>1 DEF Idle, BeginStep, CreateBegin, PostBegin, VoidBegin, ReverseBegin,
                CloseBegin, ReopenBegin, LockBegin, YearBegin, Begin
  <2> QED BY <1>1, <1>8, <2>2, <2>3, ProgressMove
<1>9. Kept \/ EntryStep(r) \/ GLPostEnd(r)
  <2>1. CASE OfferingProgress /\ RecordBatches(
                 {q \in Requests : req[q].op = "document" /\ Disturbed(q)}, {})
    <3>1. ~Disturbed(r)
      BY <1>1, <2>1 DEF RecordBatches, Posting
    <3> HIDE DEF Kept
    <3> QED BY <1>4, <1>5, <1>6, <1>7, <1>8, <2>1, <3>1 DEF OfferingProgress
  <2> HIDE DEF Kept
  <2>2. CASE \E c \in Clerks : ClerkFail(c)
    BY <1>4, <2>2
  <2>3. CASE \E q \in Requests : Fail(q) /\ RecordBatches({q}, {})
    BY <1>3, <2>3
  <2> QED BY <2>1, <2>2, <2>3 DEF RecordedNext
<1>10. CASE Kept
  <2>1. CASE Next
    BY <1>1, <1>10, <2>1, PostingStays DEF Posting
  <2>2. CASE UNCHANGED vars
    BY <1>1, <2>2 DEF vars, Posting, Fits, HasEntry, Inserting, At, Shut, MayPost
  <2> QED BY <1>1, <2>1, <2>2
<1>11. CASE EntryStep(r)
  <2>1. CASE Next
    BY <1>1, <1>11, <2>1, PostingAdvances DEF Posting
  <2>2. CASE UNCHANGED vars
    BY <1>1, <2>2 DEF vars, Posting, Fits, HasEntry, Inserting, At, Shut, MayPost
  <2> QED BY <1>1, <2>1, <2>2
<1> QED BY <1>9, <1>10, <1>11

\* A new entry of a batch is inserted by one of its postings, which holds it.
LEMMA EntryInserted ==
  ASSUME OInv, OfferingNext, NEW b, NEW e, e \in DocumentEntries(b)', e \notin DocumentEntries(b)
  PROVE  /\ DocumentEntries(b)' = DocumentEntries(b) \cup {e}
         /\ \E r \in Requests :
              Posting(r, b) /\ Inserting(r) /\ ~Inserting(r)' /\ Holds(r, e)'
<1>1. OwnStep
  <2>1. ~UNCHANGED journal
    BY DEF DocumentEntries
  <2>2. ASSUME NEW r \in Requests, GLPostBegin(r) \/ GLPostEnd(r)
        PROVE  UNCHANGED journal
    BY <2>2, GLPostBeginIsBegin, GLPostEndEffect DEF tables
  <2>3. ASSUME NEW c \in Clerks, ClerkStep(c) \/ ClerkFail(c)
        PROVE  UNCHANGED journal
    BY <2>3, ClerkStepInv DEF vars
  <2> QED BY <2>1, <2>2, <2>3, OfferingCases DEF BankDeactivate, vars
<1>2. EntriesKept
  BY <1>1, LedgerJournal DEF OInv
<1>3. e \in DOMAIN journal' /\ e \notin DOMAIN journal
  BY <1>2 DEF DocumentEntries, EntriesKept
<1>4. PICK r \in Requests : CreateInsert(r)
  BY <1>1, <1>3, JournalWriters DEF Next, PostUpdate, VoidUpdate, ReverseMark, SetEntry
<1>5. PICK x \in EntryIds \ DOMAIN journal :
        /\ DOMAIN journal' = DOMAIN journal \cup {x}
        /\ journal'[x] = req[r].row
        /\ \A y \in DOMAIN journal : journal'[y] = journal[y]
  BY <1>3, <1>4, InsertEffect DEF OInv
<1>6. journal'[e] = req[r].row /\ DOMAIN journal' = DOMAIN journal \cup {e}
  BY <1>3, <1>5
<1>7. DocumentEntries(b)' = DocumentEntries(b) \cup {e}
  BY <1>5, <1>6 DEF DocumentEntries
<1>8. At(r, "create.insert") /\ req[r].row.posting /\ req[r].row.source = b
  BY <1>4, <1>6 DEF CreateInsert, DocumentEntries
<1>9. req[r].op = "document" /\ req[r].row.reverses = NoEntry
  BY <1>8 DEF OInv, OfferingInv, PostInv
<1>10. PICK y \in EntryIds \ DOMAIN journal :
         /\ journal' = [z \in DOMAIN journal \cup {y} |-> IF z = y THEN req[r].row ELSE journal[z]]
         /\ Move(r, Inserted(req[r], "post.entry", y))
  BY <1>4, <1>9 DEF CreateInsert
<1>11. y = e
  BY <1>3, <1>10
<1>12. req'[r] = Inserted(req[r], "post.entry", e)
  BY <1>10, <1>11 DEF Move, OInv, IInv, TypeOK
<1> QED BY <1>7, <1>8, <1>9, <1>12 DEF Posting, Inserting, At, Inserted, Holds, HasEntry

\* A batch is flagged by the last step of a posting of it.
LEMMA BatchFlagged ==
  ASSUME OInv, OfferingNext, NEW b \in DOMAIN batch,
         ~batch[b].isPostedToGL, batch'[b].isPostedToGL
  PROVE  \E r \in Requests : GLPostEnd(r)
<1>1. ASSUME NEW c \in Clerks, ClerkStep(c) \/ ClerkFail(c)
      PROVE  FALSE
  BY <1>1, ClerkBatches
<1>2. ASSUME NEW r \in Requests, GLPostBegin(r)
      PROVE  FALSE
  BY <1>2, GLPostBeginIsBegin DEF offeringVars
<1> QED BY <1>1, <1>2, OfferingCases DEF offeringVars, BankDeactivate

\* A request holds one entry at most.
LEMMA HeldCount ==
  ASSUME NEW D, NEW F, F \subseteq Requests,
         \A e \in D : \E r \in F : Holds(r, e)
  PROVE  IsFiniteSet(D) /\ Cardinality(D) <= Cardinality(F)
<1> DEFINE f == [e \in D |-> CHOOSE r \in F : Holds(r, e)]
<1>1. \A e \in D : f[e] \in F /\ Holds(f[e], e)
  OBVIOUS
<1>2. f \in [D -> F]
  BY <1>1
<1>3. \A x, y \in D : f[x] = f[y] => x = y
  BY <1>1 DEF Holds
<1>4. DOMAIN f = D
  OBVIOUS
<1> HIDE DEF f
<1>5. f \in Injection(D, F)
  BY <1>2, <1>3, <1>4 DEF Injection, IsInjective
<1>6. IsFiniteSet(F)
  BY RequestsAssumption, FS_Subset
<1> QED BY <1>5, <1>6, FS_Injection

\* The entries of an undisturbed batch, one step on.
LEMMA PostingFits ==
  ASSUME RInv, PostingsInv, RecordedNext,
         NEW r \in Requests, req'[r].op = "document", req'[r].row.source \notin interrupted'
  PROVE  Fits(r)'
<1>1. OInv /\ OfferingNext /\ interrupted \subseteq interrupted'
  BY RecordedNextIsOffering, Records DEF RInv
<1>2. CASE req[r].op = "document" /\ req'[r].row = req[r].row
  <2>1. PICK b \in Batches : req[r].row.source = b
    BY <1>1, <1>2 DEF OInv, OfferingInv, OfferingTypeOK, PostInv
  <2>2. Posting(r, b) /\ b \notin interrupted' /\ b \notin interrupted
    BY <1>1, <1>2, <2>1 DEF Posting
  <2>3. Fits(r)
    BY <2>2 DEF PostingsInv, Posting
  <2>4. ASSUME req'[r] = Idle
        PROVE  FALSE
    BY <2>4 DEF Idle
  <2>5. ASSUME GLPostEnd(r)
        PROVE  req'[r] = Idle
    BY <1>1, <2>5, GLPostEndEffect
  <2> QED BY <1>1, <2>2, <2>3, <2>4, <2>5, PostingGoes
<1>3. CASE req'[r].at = "create.period" /\ req'[r].row.status = "DRAFT"
  BY <1>3 DEF Fits, Inserting, HasEntry, At
<1> QED BY <1>1, <1>2, <1>3, PosterMoves

LEMMA EntriesHeld ==
  ASSUME RInv, PostingsInv, RecordedNext, NEW b \in DOMAIN batch', b \notin interrupted',
         ~batch'[b].isPostedToGL, NEW e, e \in DocumentEntries(b)'
  PROVE  \E r \in Requests : Holds(r, e)'
<1>1. OInv /\ OfferingNext /\ interrupted \subseteq interrupted'
  BY RecordedNextIsOffering, Records DEF RInv
<1>2. CASE e \in DocumentEntries(b)
  <2>1. b \in DOMAIN batch /\ b \in Batches
    BY <1>1, <1>2, NewBatch DEF OInv, OfferingInv, OfferingTypeOK
  <2>2. ~batch[b].isPostedToGL
    BY <1>1, <2>1, BatchMoves
  <2>3. PICK r \in Requests : Holds(r, e)
    BY <1>1, <1>2, <2>1, <2>2 DEF PostingsInv
  <2>4. Posting(r, b)
    BY <1>1, <1>2, <2>3 DEF OInv, OfferingInv, PostInv, Holds, HasEntry, Posting, DocumentEntries
  <2>5. Fits(r)
    BY <1>1, <2>4 DEF PostingsInv, Posting
  <2>6. ~GLPostEnd(r)
    <3> SUFFICES ASSUME GLPostEnd(r) PROVE FALSE
      OBVIOUS
    <3>1. /\ batch[b] \in BatchRows
          /\ SetBatch(b, [batch[b] EXCEPT !.status = "POSTED", !.isPostedToGL = TRUE,
                                          !.journalEntryId = req[r].id])
      BY <1>1, <2>4, GLPostEndEffect DEF Posting
    <3> QED BY <2>1, <3>1 DEF SetBatch, BatchRows
  <2>7. ~Inserting(r) /\ HasEntry(r) /\ req[r].id = e
    BY <2>3 DEF Holds, HasEntry, Inserting, At
  <2>8. Posting(r, b)' /\ HasEntry(r)' /\ req'[r].id = e
    BY <1>1, <2>1, <2>4, <2>5, <2>6, <2>7, PostingGoes
  <2> QED BY <2>8 DEF Holds, Posting
<1>3. CASE e \notin DocumentEntries(b)
  BY <1>1, <1>3, EntryInserted
<1> QED BY <1>2, <1>3

LEMMA EntriesCounted ==
  ASSUME RInv, IsFiniteSet(DOMAIN journal), PostingsInv, RecordedNext,
         NEW b \in DOMAIN batch', b \notin interrupted', batch'[b].isPostedToGL
  PROVE  Cardinality(DocumentEntries(b)') <= Cardinality(FreeOf(b)')
<1>1. OInv /\ OfferingNext /\ interrupted \subseteq interrupted'
  BY RecordedNextIsOffering, Records DEF RInv
<1>2. /\ IsFiniteSet(FreeOf(b)) /\ Cardinality(FreeOf(b)) \in Nat
      /\ IsFiniteSet(FreeOf(b)') /\ Cardinality(FreeOf(b)') \in Nat
  <2>1. FreeOf(b) \subseteq Requests /\ FreeOf(b)' \subseteq Requests
    BY DEF FreeOf
  <2>2. IsFiniteSet(FreeOf(b)) /\ IsFiniteSet(FreeOf(b)')
    BY <2>1, RequestsAssumption, FS_Subset
  <2> QED BY <2>2, FS_CardinalityType
<1>3. IsFiniteSet(DocumentEntries(b)) /\ Cardinality(DocumentEntries(b)) \in Nat
  <2>1. DocumentEntries(b) \subseteq DOMAIN journal
    BY DEF DocumentEntries
  <2>2. IsFiniteSet(DocumentEntries(b))
    BY <2>1, FS_Subset
  <2> QED BY <2>2, FS_CardinalityType
<1>4. CASE b \notin DOMAIN batch
  <2>1. DocumentEntries(b) = {} /\ \A r \in Requests : ~Posting(r, b)
    BY <1>1, <1>4, NewBatch
  <2>2. DocumentEntries(b)' = {}
    BY <1>1, <2>1, EntryInserted
  <2> QED BY <1>2, <2>2, FS_EmptySet
<1>5. CASE b \in DOMAIN batch /\ batch[b].isPostedToGL
  <2>1. Cardinality(DocumentEntries(b)) <= Cardinality(FreeOf(b))
    BY <1>1, <1>5 DEF PostingsInv
  <2>2. FreeOf(b) \subseteq FreeOf(b)'
    <3> SUFFICES ASSUME NEW r \in Requests, Posting(r, b)', Inserting(r)'
                 PROVE  Posting(r, b) /\ Inserting(r)
      BY DEF FreeOf
    <3> QED BY <1>1, <1>5, PosterMoves DEF Posting
  <2>3. CASE DocumentEntries(b)' = DocumentEntries(b)
    <3>1. Cardinality(FreeOf(b)) <= Cardinality(FreeOf(b)')
      BY <1>2, <2>2, FS_Subset
    <3> QED BY <1>2, <1>3, <2>1, <2>3, <3>1
  <2>4. CASE DocumentEntries(b)' # DocumentEntries(b)
    <3>1. DocumentEntries(b) \subseteq DocumentEntries(b)'
      BY <1>1, BatchEntries
    <3>2. PICK e : e \in DocumentEntries(b)' /\ e \notin DocumentEntries(b)
      BY <2>4, <3>1
    <3>3. DocumentEntries(b)' = DocumentEntries(b) \cup {e}
      BY <1>1, <3>2, EntryInserted
    <3>4. PICK r \in Requests : Posting(r, b) /\ Inserting(r) /\ ~Inserting(r)'
      BY <1>1, <3>2, EntryInserted
    <3>5. r \notin FreeOf(b) /\ r \in FreeOf(b)'
      BY <3>4 DEF FreeOf
    <3>6. Cardinality(DocumentEntries(b)') = Cardinality(DocumentEntries(b)) + 1
      BY <1>3, <3>2, <3>3, FS_AddElement
    <3>7. Cardinality(FreeOf(b) \cup {r}) = Cardinality(FreeOf(b)) + 1
      BY <1>2, <3>5, FS_AddElement
    <3>8. Cardinality(FreeOf(b) \cup {r}) <= Cardinality(FreeOf(b)')
      <4>1. FreeOf(b) \cup {r} \in SUBSET FreeOf(b)'
        BY <2>2, <3>5
      <4> QED BY <1>2, <4>1, FS_Subset
    <3> QED BY <1>2, <1>3, <2>1, <3>6, <3>7, <3>8
  <2> QED BY <2>3, <2>4
<1>6. CASE b \in DOMAIN batch /\ ~batch[b].isPostedToGL
  <2>1. PICK q \in Requests : GLPostEnd(q)
    BY <1>1, <1>6, BatchFlagged
  <2>2. /\ UNCHANGED journal
        /\ req'[q] = Idle /\ \A r \in Requests \ {q} : req'[r] = req[r]
    BY <1>1, <2>1, GLPostEndEffect DEF tables
  <2>3. DocumentEntries(b)' = DocumentEntries(b)
    BY <2>2 DEF DocumentEntries
  <2>4. \A e \in DocumentEntries(b) : \E r \in Requests : Holds(r, e)
    BY <1>1, <1>6 DEF PostingsInv
  <2>5. \A r \in Requests : \A e : Holds(r, e) => r \in FreeOf(b)'
    BY <2>2 DEF Holds, HasEntry, Inserting, At, FreeOf, Idle
  <2>6. \A e \in DocumentEntries(b) : \E r \in FreeOf(b)' : Holds(r, e)
    BY <2>4, <2>5
  <2>7. FreeOf(b)' \subseteq Requests
    BY DEF FreeOf
  <2>8. Cardinality(DocumentEntries(b)) <= Cardinality(FreeOf(b)')
    BY <2>6, <2>7, HeldCount
  <2> QED BY <2>3, <2>8
<1> QED BY <1>4, <1>5, <1>6

LEMMA PostingsStep ==
  RInv /\ IsFiniteSet(DOMAIN journal) /\ PostingsInv /\ [RecordedNext]_recordedVars => PostingsInv'
<1> SUFFICES ASSUME RInv, IsFiniteSet(DOMAIN journal), PostingsInv, [RecordedNext]_recordedVars
             PROVE  PostingsInv'
  OBVIOUS
<1>1. CASE RecordedNext
  BY <1>1, PostingFits, EntriesHeld, EntriesCounted DEF PostingsInv
<1>2. CASE UNCHANGED recordedVars
  <2>1. UNCHANGED <<journal, period, req, batch, interrupted>>
    BY <1>2 DEF recordedVars, allVars, vars, offeringVars, batchHistory
  <2>2. \A b : DocumentEntries(b)' = DocumentEntries(b) /\ FreeOf(b)' = FreeOf(b)
    BY <2>1 DEF DocumentEntries, FreeOf, Posting, Inserting, At
  <2>3. \A r \in Requests : Fits(r)' = Fits(r)
    BY <2>1 DEF Fits, HasEntry, Inserting, At, MayPost, Shut
  <2>4. \A r \in Requests : \A e : Holds(r, e)' = Holds(r, e)
    BY <2>1 DEF Holds, HasEntry, At
  <2> QED BY <2>1, <2>2, <2>3, <2>4 DEF PostingsInv
<1> QED BY <1>1, <1>2

LEMMA PostingsInitInv == RecordedInit => PostingsInv
BY DEF RecordedInit, OfferingInit, Init, Idle, PostingsInv

LEMMA PostingsInvariant == RecordedSpec => [](RInv /\ IsFiniteSet(DOMAIN journal) /\ PostingsInv)
<1>1. RecordedSpec => []IsFiniteSet(DOMAIN journal)
  BY RecordedIsOffering, OfferingRefinesLedger, JournalIsFinite, PTL DEF RefinesLedger
<1> QED BY <1>1, PostingsInitInv, PostingsStep, RecordedInvariant, PTL DEF RecordedSpec

\* All operations must succeed or all fail: as long as no posting of a batch
\* has failed, nor had its entry or its period changed under it, a batch that
\* has an entry and that nobody is posting is flagged as posted.
THEOREM PostingsComplete == RecordedSpec => []PostingCompletes
<1>1. RInv /\ PostingsInv => PostingCompletes
  <2> SUFFICES ASSUME OInv, PostingsInv, NEW b \in DOMAIN batch \ interrupted,
                      \A r \in Requests : ~Posting(r, b),
                      NEW e \in DocumentEntries(b), ~batch[b].isPostedToGL
               PROVE  FALSE
    BY DEF PostingCompletes, RInv
  <2>1. PICK r \in Requests : Holds(r, e)
    BY DEF PostingsInv
  <2> QED BY <2>1 DEF OInv, OfferingInv, PostInv, Holds, HasEntry, Posting, DocumentEntries
<1> QED BY <1>1, PostingsInvariant, PTL

\* Batch already posted to GL: with the same reservation, a batch is posted no
\* more than once by each slot, although postings of it may overlap.
THEOREM PostsAreBounded == RecordedSpec => []PostsBounded
<1>1. IsFiniteSet(DOMAIN journal) /\ PostingsInv => PostsBounded
  <2> SUFFICES ASSUME IsFiniteSet(DOMAIN journal), PostingsInv, NEW b \in DOMAIN batch \ interrupted
               PROVE  Cardinality(DocumentEntries(b)) <= Cardinality(Requests)
    BY DEF PostsBounded
  <2>1. FreeOf(b) \subseteq Requests
    BY DEF FreeOf
  <2>2. CASE batch[b].isPostedToGL
    <3>1. Cardinality(DocumentEntries(b)) <= Cardinality(FreeOf(b))
      BY <2>2 DEF PostingsInv
    <3>2. /\ Cardinality(FreeOf(b)) <= Cardinality(Requests)
          /\ Cardinality(FreeOf(b)) \in Nat /\ Cardinality(Requests) \in Nat
      BY <2>1, RequestsAssumption, FS_Subset, FS_CardinalityType
    <3>3. DocumentEntries(b) \subseteq DOMAIN journal
      BY DEF DocumentEntries
    <3>4. Cardinality(DocumentEntries(b)) \in Nat
      BY <3>3, FS_Subset, FS_CardinalityType
    <3> QED BY <3>1, <3>2, <3>4
  <2>3. CASE ~batch[b].isPostedToGL
    <3>1. \A e \in DocumentEntries(b) : \E r \in Requests : Holds(r, e)
      BY <2>3 DEF PostingsInv
    <3> QED BY <3>1, HeldCount
  <2> QED BY <2>2, <2>3
<1> QED BY <1>1, PostingsInvariant, PTL

-----------------------------------------------------------------------------
(* Deposits.                                                               *)

Held == [a \in BankAccounts |-> bank[a].balance]
Taken == [d \in deposits |-> Total(batch[d[1]].taking)]

LEMMA BalancesAreASum ==
  ASSUME IsFiniteSet(BankAccounts)
  PROVE  MapThenSumSet(LAMBDA a : bank[a].balance, BankAccounts) = SumOf(Held, BankAccounts)
<1> DEFINE P(g) == g = [T \in SUBSET BankAccounts |->
                         IF T = {} THEN 0
                         ELSE bank[CHOOSE x \in T : TRUE].balance
                                + g[T \ {CHOOSE x \in T : TRUE}]]
<1>1. ASSUME NEW g
      PROVE  Sums(Held, BankAccounts, g) <=> P(g)
  <2>1. \A T \in SUBSET BankAccounts : T # {} =>
          Held[Chosen(T)] = bank[CHOOSE x \in T : TRUE].balance
    BY ChosenIn DEF Chosen, Held
  <2> QED BY <2>1 DEF Sums, Chosen
<1>2. \E g : P(g)
  <2> HIDE DEF P
  <2> QED BY <1>1, SumsExist
<1>3. P(CHOOSE g : P(g))
  <2> HIDE DEF P
  <2> QED BY <1>2
<1>4. MapThenSumSet(LAMBDA a : bank[a].balance, BankAccounts) = (CHOOSE g : P(g))[BankAccounts]
  BY DEF MapThenSumSet, MapThenFoldSet
<1> HIDE DEF P
<1>5. Sums(Held, BankAccounts, CHOOSE g : P(g))
  BY <1>1, <1>3
<1>6. BankAccounts \in SUBSET BankAccounts
  OBVIOUS
<1> QED BY <1>4, <1>5, <1>6, SumOfPart

LEMMA TakingsAreASum ==
  ASSUME NEW S \in SUBSET deposits, IsFiniteSet(S)
  PROVE  MapThenSumSet(LAMBDA d : Total(batch[d[1]].taking), S) = SumOf(Taken, S)
<1> DEFINE P(g) == g = [T \in SUBSET S |->
                         IF T = {} THEN 0
                         ELSE Total(batch[(CHOOSE x \in T : TRUE)[1]].taking)
                                + g[T \ {CHOOSE x \in T : TRUE}]]
<1>1. ASSUME NEW g
      PROVE  Sums(Taken, S, g) <=> P(g)
  <2>1. \A T \in SUBSET S : T # {} =>
          Taken[Chosen(T)] = Total(batch[(CHOOSE x \in T : TRUE)[1]].taking)
    BY ChosenIn DEF Chosen, Taken
  <2> QED BY <2>1 DEF Sums, Chosen
<1>2. \E g : P(g)
  <2> HIDE DEF P
  <2> QED BY <1>1, SumsExist
<1>3. P(CHOOSE g : P(g))
  <2> HIDE DEF P
  <2> QED BY <1>2
<1>4. MapThenSumSet(LAMBDA d : Total(batch[d[1]].taking), S) = (CHOOSE g : P(g))[S]
  BY DEF MapThenSumSet, MapThenFoldSet
<1> HIDE DEF P
<1>5. Sums(Taken, S, CHOOSE g : P(g))
  BY <1>1, <1>3
<1>6. S \in SUBSET S
  OBVIOUS
<1> QED BY <1>4, <1>5, <1>6, SumOfPart

Verifying(c) ==
  DeskAt(c, "verify.bank") \/ DeskAt(c, "verify.slip")
    \/ DeskAt(c, "verify.update") \/ DeskAt(c, "verify.deposit")

\* A clerk records a deposit of a batch once: no batch returns to COUNTING.
SumsMatch == SumOf(Held, BankAccounts) = SumOf(Taken, Arrived)
DepositsAreKnown ==
  /\ IsFiniteSet(deposits)
  /\ \A d \in deposits : batch[d[1]].status # "COUNTING"
  /\ \A c \in Clerks : Verifying(c) =>
       (<<desk[c].id, c>> \in deposits <=> DeskAt(c, "verify.deposit"))
  /\ SumsMatch

\* No batch changes what was taken, nor returns to COUNTING.
TakingsKept ==
  \A b \in DOMAIN batch : /\ b \in DOMAIN batch' /\ batch'[b].taking = batch[b].taking
                          /\ batch[b].status # "COUNTING" => batch'[b].status # "COUNTING"

LEMMA BatchesStay ==
  ASSUME OInv, OfferingNext
  PROVE  TakingsKept
BY BatchMoves DEF TakingsKept

\* The same deposits have arrived and the same balances are held.
LEMMA SumsStay ==
  ASSUME SumsMatch, HistoryTypeOK, IsFiniteSet(deposits), TakingsKept,
         Arrived \subseteq deposits', Arrived' = Arrived,
         \A a \in BankAccounts : bank'[a].balance = bank[a].balance
  PROVE  SumsMatch'
<1>1. Held' = Held
  BY DEF Held
<1>2. Arrived \subseteq deposits /\ IsFiniteSet(Arrived)
  <2>1. Arrived \in SUBSET deposits
    BY DEF Arrived
  <2> QED BY <2>1, FS_Subset
<1>3. ASSUME NEW d \in Arrived
      PROVE  Taken'[d] = Taken[d]
  <2>1. d \in deposits /\ d \in deposits' /\ d[1] \in DOMAIN batch
    BY <1>2 DEF HistoryTypeOK
  <2> QED BY <2>1 DEF Taken, TakingsKept
<1>4. SumOf(Taken', Arrived) = SumOf(Taken, Arrived)
  BY <1>2, <1>3, SumOfSame
<1>5. SumOf(Held', BankAccounts) = SumOf(Taken', Arrived')
  BY <1>1, <1>4 DEF SumsMatch
<1> QED BY <1>5 DEF SumsMatch

\* A step that neither records nor banks nor loses a deposit.
LEMMA DepositsStay ==
  ASSUME OInv, HistoryTypeOK, DepositsAreKnown, TakingsKept, deposits' = deposits,
         \A a \in BankAccounts : bank'[a].balance = bank[a].balance,
         \A c \in Clerks :
           \/ desk'[c] = desk[c]
           \/ /\ ~DeskAt(c, "verify.deposit") /\ ~DeskAt(c, "verify.deposit")'
              /\ Verifying(c)' => <<desk'[c].id, c>> \notin deposits
  PROVE  DepositsAreKnown'
<1>1. ASSUME NEW c \in Clerks, Verifying(c)'
      PROVE  <<desk'[c].id, c>> \in deposits' <=> DeskAt(c, "verify.deposit")'
  <2>1. CASE desk'[c] = desk[c]
    BY <1>1, <2>1 DEF DepositsAreKnown, Verifying, DeskAt
  <2>2. CASE desk'[c] # desk[c]
    BY <1>1, <2>2
  <2> QED BY <2>1, <2>2
<1>2. ASSUME NEW d \in deposits'
      PROVE  batch'[d[1]].status # "COUNTING"
  <2>1. d \in deposits /\ d[1] \in DOMAIN batch
    BY <1>2 DEF HistoryTypeOK
  <2> QED BY <2>1 DEF DepositsAreKnown, TakingsKept
<1>3. Arrived' = Arrived
  <2>1. ASSUME NEW d \in deposits
        PROVE  Deposits(d)' <=> Deposits(d)
    <3>1. d[2] \in Clerks
      BY <2>1 DEF HistoryTypeOK
    <3> QED BY <3>1 DEF Deposits, DeskAt
  <2> QED BY <2>1 DEF Arrived
<1>4. Arrived \subseteq deposits'
  BY DEF Arrived
<1>5. SumsMatch'
  BY <1>3, <1>4, SumsStay DEF DepositsAreKnown
<1> QED BY <1>1, <1>2, <1>5 DEF DepositsAreKnown

LEMMA NothingRecorded ==
  ASSUME NEW stopped, RecordBatches(stopped, {}),
         \A c \in Clerks : desk'[c] = desk[c] \/ ~DeskAt(c, "verify.deposit")'
  PROVE  deposits' = deposits
<1>1. ASSUME NEW d \in Batches \X Clerks, Verifies(d), Deposits(d)'
      PROVE  FALSE
  <2>1. d[2] \in Clerks
    OBVIOUS
  <2> QED BY <1>1, <2>1 DEF Verifies, Deposits, DeskAt
<1> QED BY <1>1 DEF RecordBatches

\* Where a clerk's handler goes, other than on its way to the bank.
DeskReads(c) ==
  /\ ~DeskAt(c, "verify.deposit") /\ ~DeskAt(c, "verify.deposit")'
  /\ Verifying(c)' =>
       /\ desk'[c].id \in DOMAIN batch
       /\ \/ batch[desk'[c].id].status = "COUNTING"
          \/ Verifying(c) /\ desk'[c].id = desk[c].id

LEMMA ClerkDesk ==
  ASSUME OInv, NEW c \in Clerks, ClerkStep(c) \/ ClerkFail(c)
  PROVE  /\ \A x \in Clerks \ {c} : desk'[x] = desk[x]
         /\ \/ UNCHANGED bank /\ (desk'[c] = desk[c] \/ DeskReads(c))
            \/ VerifyUpdate(c) /\ desk[c].account # NoAccount
            \/ VerifyDeposit(c)
            \/ ClerkFail(c) /\ DeskAt(c, "verify.deposit")
<1>1. /\ desk \in [Clerks -> DeskStates] /\ DeskInv(c) /\ desk[c] \in DeskStates
  BY DEF OInv, OfferingInv, OfferingTypeOK
<1>2. \A x \in Clerks \ {c} : desk'[x] = desk[x]
  BY <1>1 DEF ClerkStep, BatchCreate, VerifyBegin, VerifyReadBank, VerifyReadSlip, VerifyUpdate,
              VerifyDeposit, ApproveBegin, ApproveUpdate, ClerkFail, DeskReturn, DeskGoto, SetDesk
<1>3. ASSUME NEW s, SetDesk(c, s)
      PROVE  desk'[c] = s
  BY <1>1, <1>3 DEF SetDesk
<1>4. ASSUME DeskReturn(c), ~DeskAt(c, "verify.deposit")
      PROVE  DeskReads(c)
  BY <1>3, <1>4 DEF DeskReturn, NoOne, DeskReads, Verifying, DeskAt
<1>5. CASE BatchCreate(c)
  BY <1>2, <1>5 DEF BatchCreate
<1>6. CASE VerifyBegin(c)
  <2>1. PICK b \in DOMAIN batch, u \in Callers, a \in BankAccounts \cup {NoAccount},
             s \in Slips \cup {NoSlip} : VerifyBegin(c)!(b, u, a, s)
    BY <1>6 DEF VerifyBegin
  <2>2. desk'[c].at \in {"verify.update", "verify.bank"} /\ desk'[c].id = b
    BY <1>3, <2>1
  <2>3. DeskReads(c)
    BY <2>1, <2>2 DEF DeskReads, DeskAt
  <2> QED BY <1>2, <2>1, <2>3
<1>7. CASE VerifyReadBank(c) \/ VerifyReadSlip(c)
  <2>1. /\ Verifying(c) /\ ~DeskAt(c, "verify.deposit") /\ desk[c].id \in DOMAIN batch
        /\ UNCHANGED bank
    BY <1>1, <1>7 DEF VerifyReadBank, VerifyReadSlip, Verifying, DeskAt, DeskInv
  <2>2. ASSUME NEW point \in {"verify.update", "verify.slip"}, DeskGoto(c, point)
        PROVE  DeskReads(c)
    <3>1. desk'[c].at = point /\ desk'[c].id = desk[c].id
      BY <1>1, <1>3, <2>2 DEF DeskGoto, DeskStates
    <3> QED BY <2>1, <3>1 DEF DeskReads, DeskAt
  <2>3. \/ DeskReturn(c)
        \/ \E point \in {"verify.update", "verify.slip"} : DeskGoto(c, point)
    BY <1>7 DEF VerifyReadBank, VerifyReadSlip
  <2> QED BY <1>2, <1>4, <2>1, <2>2, <2>3
<1>8. CASE VerifyUpdate(c) /\ desk[c].account = NoAccount
  <2>1. DeskReturn(c) /\ ~DeskAt(c, "verify.deposit") /\ UNCHANGED bank
    BY <1>8 DEF VerifyUpdate, DeskAt
  <2> QED BY <1>2, <1>4, <2>1
<1>9. CASE ApproveBegin(c)
  <2>1. PICK b \in DOMAIN batch : ApproveBegin(c)!(b)
    BY <1>9 DEF ApproveBegin
  <2>2. desk'[c].at = "approve.update"
    BY <1>3, <2>1 DEF NoOne
  <2> QED BY <1>2, <2>1, <2>2 DEF DeskReads, Verifying, DeskAt
<1>10. CASE ApproveUpdate(c)
  <2>1. DeskReturn(c) /\ ~DeskAt(c, "verify.deposit") /\ UNCHANGED bank
    BY <1>10 DEF ApproveUpdate, DeskAt
  <2> QED BY <1>2, <1>4, <2>1
<1>11. CASE ClerkFail(c) /\ ~DeskAt(c, "verify.deposit")
  BY <1>2, <1>4, <1>11 DEF ClerkFail
<1> QED BY <1>2, <1>5, <1>6, <1>7, <1>8, <1>9, <1>10, <1>11 DEF ClerkStep

\* The batch is recorded as deposited, and its money is on the way.
LEMMA DepositRecorded ==
  ASSUME OInv, HistoryTypeOK, DepositsAreKnown, TakingsKept, NEW c \in Clerks, VerifyUpdate(c),
         desk[c].account # NoAccount, NEW stopped, RecordBatches(stopped, {})
  PROVE  DepositsAreKnown'
<1> PICK b, new : b = desk[c].id /\ new = <<b, c>>
  OBVIOUS
<1>1. /\ DeskAt(c, "verify.update") /\ Verifying(c) /\ b \in DOMAIN batch
      /\ desk \in [Clerks -> DeskStates] /\ b \in Batches /\ desk[c] \in DeskStates
      /\ batch[b] \in BatchRows
  BY DEF VerifyUpdate, OInv, OfferingInv, OfferingTypeOK, DeskInv, Verifying, DeskAt
<1>2. new \notin deposits
  BY <1>1 DEF DepositsAreKnown, DeskAt
<1>3. /\ desk'[c].at = "verify.deposit" /\ desk'[c].id = b
      /\ \A x \in Clerks \ {c} : desk'[x] = desk[x]
  BY <1>1 DEF VerifyUpdate, DeskGoto, SetDesk, DeskStates
<1>4. UNCHANGED bank
  BY DEF VerifyUpdate
<1>5. batch'[b].status # "COUNTING"
  BY <1>1 DEF VerifyUpdate, SetBatch, BatchRows
<1>6. {d \in Batches \X Clerks : Verifies(d) /\ Deposits(d)'} = {new}
  <2>1. ASSUME NEW d \in Batches \X Clerks, Verifies(d), Deposits(d)'
        PROVE  d = new
    <3>1. d = <<d[1], d[2]>> /\ d[2] \in Clerks
      OBVIOUS
    <3>2. d[2] = c
      BY <1>3, <2>1, <3>1 DEF Verifies, Deposits, DeskAt
    <3>3. d[1] = b
      BY <2>1, <3>2 DEF Verifies
    <3> QED BY <3>1, <3>2, <3>3
  <2>2. new \in Batches \X Clerks /\ Verifies(new) /\ Deposits(new)'
    BY <1>1, <1>3 DEF Verifies, Deposits, DeskAt
  <2> QED BY <2>1, <2>2
<1>7. deposits' = deposits \cup {new}
  BY <1>6 DEF RecordBatches
<1>8. ASSUME NEW x \in Clerks, Verifying(x)'
      PROVE  <<desk'[x].id, x>> \in deposits' <=> DeskAt(x, "verify.deposit")'
  <2>1. CASE x = c
    BY <1>3, <1>7, <2>1 DEF DeskAt
  <2>2. CASE x # c
    <3>1. Verifying(x) /\ desk'[x] = desk[x] /\ <<desk'[x].id, x>> # new
      BY <1>3, <1>8, <2>2 DEF Verifying, DeskAt
    <3> QED BY <1>7, <3>1 DEF DepositsAreKnown, DeskAt
  <2> QED BY <2>1, <2>2
<1>9. ASSUME NEW d \in deposits'
      PROVE  batch'[d[1]].status # "COUNTING"
  <2>1. CASE d \in deposits
    <3>1. d[1] \in DOMAIN batch
      BY <2>1 DEF HistoryTypeOK
    <3> QED BY <2>1, <3>1 DEF DepositsAreKnown, TakingsKept
  <2>2. CASE d = new
    BY <1>5, <2>2
  <2> QED BY <1>7, <2>1, <2>2
<1>10. Arrived' = Arrived
  <2>1. Deposits(new)'
    BY <1>3 DEF Deposits, DeskAt
  <2>2. ASSUME NEW d \in deposits
        PROVE  Deposits(d)' <=> Deposits(d)
    <3>1. d = <<d[1], d[2]>> /\ d[2] \in Clerks /\ d # new
      BY <1>2, <2>2 DEF HistoryTypeOK
    <3>2. CASE d[2] = c
      BY <1>1, <1>3, <3>1, <3>2 DEF Deposits, DeskAt
    <3>3. CASE d[2] # c
      BY <1>3, <3>1, <3>3 DEF Deposits, DeskAt
    <3> QED BY <3>2, <3>3
  <2> QED BY <1>7, <2>1, <2>2 DEF Arrived
<1>11. Arrived \subseteq deposits'
  BY <1>7 DEF Arrived
<1>12. SumsMatch'
  BY <1>4, <1>10, <1>11, SumsStay DEF DepositsAreKnown
<1>13. IsFiniteSet(deposits')
  BY <1>7, FS_AddElement DEF DepositsAreKnown
<1> QED BY <1>8, <1>9, <1>12, <1>13 DEF DepositsAreKnown

\* A clerk leaves the way to the bank, with the deposits it has recorded.
LEMMA DeskLeft ==
  ASSUME OInv, HistoryTypeOK, DepositsAreKnown, TakingsKept, NEW c \in Clerks,
         desk'[c].at = "idle", \A x \in Clerks \ {c} : desk'[x] = desk[x],
         DeskAt(c, "verify.deposit"),
         deposits' \subseteq deposits, deposits \ deposits' \subseteq {<<desk[c].id, c>>}
  PROVE  /\ \A d \in deposits' : batch'[d[1]].status # "COUNTING"
         /\ \A x \in Clerks : Verifying(x)' =>
              (<<desk'[x].id, x>> \in deposits' <=> DeskAt(x, "verify.deposit")')
         /\ IsFiniteSet(deposits')
         /\ <<desk[c].id, c>> \in deposits
         /\ Arrived' = Arrived \cup (deposits' \cap {<<desk[c].id, c>>})
         /\ <<desk[c].id, c>> \notin Arrived
<1> PICK old : old = <<desk[c].id, c>>
  OBVIOUS
<1>1. ASSUME NEW x \in Clerks, Verifying(x)'
      PROVE  <<desk'[x].id, x>> \in deposits' <=> DeskAt(x, "verify.deposit")'
  <2>1. x # c
    BY <1>1 DEF Verifying, DeskAt
  <2>2. Verifying(x) /\ desk'[x] = desk[x] /\ <<desk'[x].id, x>> # old
    BY <1>1, <2>1 DEF Verifying, DeskAt
  <2> QED BY <2>2 DEF DepositsAreKnown, DeskAt
<1>2. ASSUME NEW d \in deposits'
      PROVE  batch'[d[1]].status # "COUNTING"
  <2>1. d \in deposits /\ d[1] \in DOMAIN batch
    BY <1>2 DEF HistoryTypeOK
  <2> QED BY <2>1 DEF DepositsAreKnown, TakingsKept
<1>3. IsFiniteSet(deposits')
  BY FS_Subset DEF DepositsAreKnown
<1>4. old \in deposits
  BY DEF DepositsAreKnown, Verifying
<1>5. ASSUME NEW d \in deposits
      PROVE  /\ d = old => Deposits(d) /\ ~Deposits(d)'
             /\ d # old => (Deposits(d)' <=> Deposits(d))
  <2>1. d = <<d[1], d[2]>> /\ d[2] \in Clerks
    BY <1>5 DEF HistoryTypeOK
  <2>2. CASE d[2] = c
    BY <2>1, <2>2 DEF Deposits, DeskAt
  <2>3. CASE d[2] # c
    BY <2>1, <2>3 DEF Deposits, DeskAt
  <2> QED BY <2>2, <2>3
<1>6. Arrived' = Arrived \cup (deposits' \cap {old}) /\ old \notin Arrived
  BY <1>4, <1>5 DEF Arrived
<1> QED BY <1>1, <1>2, <1>3, <1>4, <1>6

\* The money arrives.
LEMMA DepositBanked ==
  ASSUME IsFiniteSet(BankAccounts), OInv, HistoryTypeOK, DepositsAreKnown, TakingsKept,
         NEW c \in Clerks, VerifyDeposit(c), NEW stopped, RecordBatches(stopped, {})
  PROVE  DepositsAreKnown'
<1>0. PICK b, a, n, old : /\ b = desk[c].id /\ a = desk[c].account
                          /\ n = Total(batch[b].taking) /\ old = <<b, c>>
  OBVIOUS
<1>1. /\ DeskAt(c, "verify.deposit") /\ a \in BankAccounts
      /\ b \in DOMAIN batch /\ desk \in [Clerks -> DeskStates]
      /\ bank \in [BankAccounts -> [balance : Nat, inactive : BOOLEAN]]
  BY <1>0 DEF VerifyDeposit, OInv, OfferingInv, OfferingTypeOK, DeskInv, DeskAt
<1>2. /\ bank' = [bank EXCEPT ![a].balance = @ + n]
      /\ desk'[c].at = "idle" /\ \A x \in Clerks \ {c} : desk'[x] = desk[x]
      /\ UNCHANGED batch
  BY <1>0, <1>1 DEF VerifyDeposit, DeskReturn, SetDesk, NoOne
<1>3. deposits' = deposits
  <2>1. \A x \in Clerks : desk'[x] = desk[x] \/ ~DeskAt(x, "verify.deposit")'
    BY <1>2 DEF DeskAt
  <2> QED BY <2>1, NothingRecorded
<1>4. /\ \A d \in deposits' : batch'[d[1]].status # "COUNTING"
      /\ \A x \in Clerks : Verifying(x)' =>
           (<<desk'[x].id, x>> \in deposits' <=> DeskAt(x, "verify.deposit")')
      /\ old \in deposits /\ old \notin Arrived
      /\ Arrived' = Arrived \cup (deposits' \cap {old})
  BY <1>0, <1>1, <1>2, <1>3, DeskLeft
<1>5. Arrived' = Arrived \cup {old}
  BY <1>3, <1>4
<1>6. \A x \in DOMAIN batch : Total(batch[x].taking) \in Nat
  BY TakingsAssumption DEF OInv, OfferingInv, OfferingTypeOK, BatchRows, Counts, Total
<1>7. n \in Int
  BY <1>0, <1>1, <1>6
<1>8. SumOf(Held', BankAccounts) = SumOf(Held, BankAccounts) + n
  <2>1. \A x \in BankAccounts : Held[x] \in Int
    BY <1>1 DEF Held
  <2>2. /\ \A x \in BankAccounts \ {a} : Held'[x] = Held[x]
        /\ Held'[a] = Held[a] + n
    BY <1>1, <1>2 DEF Held
  <2>3. a \in BankAccounts
    BY <1>1
  <2> QED BY <1>7, <2>1, <2>2, <2>3, SumOfRaised
<1>9. IsFiniteSet(Arrived) /\ Arrived \subseteq deposits
  <2>1. Arrived \in SUBSET deposits
    BY DEF Arrived
  <2> QED BY <2>1, FS_Subset DEF DepositsAreKnown
<1>10. SumOf(Taken, Arrived \cup {old}) = SumOf(Taken, Arrived) + n
  <2>1. ASSUME NEW d \in Arrived \cup {old}
        PROVE  Taken[d] \in Int
    <3>1. d \in deposits /\ d[1] \in DOMAIN batch
      BY <1>4, <1>9, <2>1 DEF HistoryTypeOK
    <3> QED BY <1>6, <3>1 DEF Taken
  <2>2. Taken[old] = n
    BY <1>0, <1>4 DEF Taken
  <2>3. old \notin Arrived /\ IsFiniteSet(Arrived)
    BY <1>4, <1>9
  <2>4. \A d \in Arrived : Taken[d] = Taken[d]
    OBVIOUS
  <2> QED BY <2>1, <2>2, <2>3, <2>4, SumOfAdd
<1>11. Taken' = Taken
  BY <1>2, <1>3 DEF Taken
<1>12. SumsMatch'
  <2>1. SumOf(Held', BankAccounts) = SumOf(Taken', Arrived')
    BY <1>5, <1>8, <1>10, <1>11 DEF DepositsAreKnown, SumsMatch
  <2> QED BY <2>1 DEF SumsMatch
<1> QED BY <1>3, <1>4, <1>12 DEF DepositsAreKnown

\* A failure loses the deposit the clerk has recorded.
LEMMA DepositLost ==
  ASSUME OInv, HistoryTypeOK, DepositsAreKnown, TakingsKept, NEW c \in Clerks,
         ClerkFail(c), DeskAt(c, "verify.deposit"),
         RecordBatches({}, {d \in deposits : Deposits(d) /\ d[2] = c})
  PROVE  DepositsAreKnown'
<1> PICK old : old = <<desk[c].id, c>>
  OBVIOUS
<1>1. /\ desk'[c].at = "idle" /\ \A x \in Clerks \ {c} : desk'[x] = desk[x]
      /\ UNCHANGED bank
  BY DEF ClerkFail, DeskReturn, SetDesk, NoOne, OInv, OfferingInv, OfferingTypeOK
<1>2. {d \in deposits : Deposits(d) /\ d[2] = c} \subseteq {old}
  <2>1. ASSUME NEW d \in deposits, Deposits(d), d[2] = c
        PROVE  d = old
    <3>1. d = <<d[1], d[2]>>
      BY DEF HistoryTypeOK
    <3> QED BY <2>1, <3>1 DEF Deposits
  <2> QED BY <2>1
<1>3. {d \in Batches \X Clerks : Verifies(d) /\ Deposits(d)'} = {}
  <2>1. ASSUME NEW d \in Batches \X Clerks, Verifies(d), Deposits(d)'
        PROVE  FALSE
    <3>1. d[2] \in Clerks
      OBVIOUS
    <3> QED BY <1>1, <2>1, <3>1 DEF Verifies, Deposits, DeskAt
  <2> QED BY <2>1
<1>4. deposits' = deposits \ {d \in deposits : Deposits(d) /\ d[2] = c}
  BY <1>3 DEF RecordBatches
<1>5. deposits' \subseteq deposits /\ deposits \ deposits' \subseteq {old}
  BY <1>2, <1>4
<1>6. /\ \A d \in deposits' : batch'[d[1]].status # "COUNTING"
      /\ \A x \in Clerks : Verifying(x)' =>
           (<<desk'[x].id, x>> \in deposits' <=> DeskAt(x, "verify.deposit")')
      /\ IsFiniteSet(deposits') /\ old \in deposits /\ old \notin Arrived
      /\ Arrived' = Arrived \cup (deposits' \cap {old})
  BY <1>1, <1>5, DeskLeft
<1>7. old \notin deposits'
  BY <1>4, <1>6 DEF Deposits
<1>8. Arrived' = Arrived /\ Arrived \subseteq deposits'
  BY <1>5, <1>6, <1>7 DEF Arrived
<1>9. SumsMatch'
  BY <1>1, <1>8, SumsStay DEF DepositsAreKnown
<1> QED BY <1>6, <1>9 DEF DepositsAreKnown

\* A step of a clerk that reads, or writes a batch without a deposit.
LEMMA ClerkDeposits ==
  ASSUME OInv, HistoryTypeOK, DepositsAreKnown, TakingsKept, NEW c \in Clerks,
         \A x \in Clerks \ {c} : desk'[x] = desk[x], UNCHANGED bank,
         desk'[c] = desk[c] \/ DeskReads(c), deposits' = deposits
  PROVE  DepositsAreKnown'
<1>1. ASSUME DeskReads(c), Verifying(c)'
      PROVE  <<desk'[c].id, c>> \notin deposits
  <2>1. CASE batch[desk'[c].id].status = "COUNTING"
    BY <2>1 DEF DepositsAreKnown
  <2>2. CASE Verifying(c) /\ desk'[c].id = desk[c].id
    BY <1>1, <2>2 DEF DepositsAreKnown, DeskReads
  <2> QED BY <1>1, <2>1, <2>2 DEF DeskReads
<1> QED BY <1>1, DepositsStay DEF DeskReads

LEMMA DepositsStep ==
  ASSUME IsFiniteSet(BankAccounts), RInv, DepositsAreKnown, [RecordedNext]_recordedVars
  PROVE  DepositsAreKnown'
<1>1. OInv /\ HistoryTypeOK
  BY DEF RInv
<1>2. CASE UNCHANGED recordedVars
  <2>1. UNCHANGED <<batch, bank, desk, deposits>>
    BY <1>2 DEF recordedVars, allVars, offeringVars, batchHistory
  <2>2. TakingsKept
    BY <2>1 DEF TakingsKept
  <2> QED BY <1>1, <2>1, <2>2, DepositsStay
<1>3. ASSUME RecordedNext, NEW stopped, RecordBatches(stopped, {}), UNCHANGED desk,
             \A a \in BankAccounts : bank'[a].balance = bank[a].balance
      PROVE  DepositsAreKnown'
  <2>1. TakingsKept
    BY <1>1, <1>3, BatchesStay, RecordedNextIsOffering
  <2>2. deposits' = deposits
    BY <1>3, NothingRecorded
  <2> QED BY <1>1, <1>3, <2>1, <2>2, DepositsStay
<1>4. ASSUME RecordedNext, NEW stopped, RecordBatches(stopped, {}), NEW c \in Clerks, ClerkStep(c)
      PROVE  DepositsAreKnown'
  <2>1. TakingsKept
    BY <1>1, <1>4, BatchesStay, RecordedNextIsOffering
  <2>2. CASE VerifyUpdate(c) /\ desk[c].account # NoAccount
    BY <1>1, <1>4, <2>1, <2>2, DepositRecorded
  <2>3. CASE VerifyDeposit(c)
    BY <1>1, <1>4, <2>1, <2>3, DepositBanked
  <2>4. ASSUME ClerkFail(c), DeskAt(c, "verify.deposit"), ~VerifyDeposit(c)
        PROVE  FALSE
    BY <1>4, <2>4 DEF ClerkStep, BatchCreate, VerifyBegin, VerifyReadBank, VerifyReadSlip,
                      VerifyUpdate, ApproveBegin, ApproveUpdate, DeskAt
  <2>5. CASE /\ \A x \in Clerks \ {c} : desk'[x] = desk[x]
             /\ UNCHANGED bank /\ (desk'[c] = desk[c] \/ DeskReads(c))
    <3>1. \A x \in Clerks : desk'[x] = desk[x] \/ ~DeskAt(x, "verify.deposit")'
      BY <2>5 DEF DeskReads
    <3>2. deposits' = deposits
      BY <1>4, <3>1, NothingRecorded
    <3> QED BY <1>1, <2>1, <2>5, <3>2, ClerkDeposits
  <2> QED BY <1>1, <1>4, <2>2, <2>3, <2>4, <2>5, ClerkDesk
<1>5. ASSUME RecordedNext, NEW c \in Clerks, ClerkFail(c),
             RecordBatches({}, {d \in deposits : Deposits(d) /\ d[2] = c})
      PROVE  DepositsAreKnown'
  <2>1. TakingsKept
    BY <1>1, <1>5, BatchesStay, RecordedNextIsOffering
  <2>2. CASE DeskAt(c, "verify.deposit")
    BY <1>1, <1>5, <2>1, <2>2, DepositLost
  <2>3. CASE ~DeskAt(c, "verify.deposit")
    <3>1. {d \in deposits : Deposits(d) /\ d[2] = c} = {}
      BY <2>3 DEF Deposits
    <3>2. RecordBatches({}, {})
      BY <1>5, <3>1
    <3>3. /\ \A x \in Clerks \ {c} : desk'[x] = desk[x]
          /\ UNCHANGED bank /\ desk'[c].at = "idle"
      BY <1>1, <1>5 DEF ClerkFail, DeskReturn, SetDesk, NoOne, OInv, OfferingInv, OfferingTypeOK
    <3>4. DeskReads(c)
      BY <2>3, <3>3 DEF DeskReads, Verifying, DeskAt
    <3>5. \A x \in Clerks : desk'[x] = desk[x] \/ ~DeskAt(x, "verify.deposit")'
      BY <3>3 DEF DeskAt
    <3>6. deposits' = deposits
      BY <3>2, <3>5, NothingRecorded
    <3> QED BY <1>1, <2>1, <3>3, <3>4, <3>6, ClerkDeposits
  <2> QED BY <2>2, <2>3
<1>6. ASSUME NEW r \in Requests, GLPostBegin(r) \/ GLPostEnd(r)
      PROVE  UNCHANGED <<bank, desk>>
  BY <1>1, <1>6, GLPostBeginIsBegin, GLPostEndEffect DEF offeringVars
<1>7. ASSUME NEW a \in BankAccounts, BankDeactivate(a)
      PROVE  UNCHANGED desk /\ \A x \in BankAccounts : bank'[x].balance = bank[x].balance
  BY <1>1, <1>7 DEF BankDeactivate, OInv, OfferingInv, OfferingTypeOK
<1>8. ASSUME RecordedNext, OfferingProgress, NEW stopped, RecordBatches(stopped, {})
      PROVE  DepositsAreKnown'
  <2>1. CASE UNCHANGED offeringVars
    BY <1>3, <1>8, <2>1 DEF offeringVars
  <2>2. CASE \E r \in Requests : GLPostBegin(r) \/ GLPostEnd(r)
    BY <1>3, <1>6, <1>8, <2>2
  <2>3. CASE \E c \in Clerks : ClerkStep(c)
    BY <1>4, <1>8, <2>3
  <2>4. CASE \E a \in BankAccounts : BankDeactivate(a)
    BY <1>3, <1>7, <1>8, <2>4
  <2> QED BY <1>8, <2>1, <2>2, <2>3, <2>4 DEF OfferingProgress
<1>9. ASSUME RecordedNext, NEW r \in Requests, UNCHANGED offeringVars, RecordBatches({r}, {})
      PROVE  DepositsAreKnown'
  BY <1>3, <1>9 DEF offeringVars
<1> QED BY <1>2, <1>5, <1>8, <1>9 DEF RecordedNext

LEMMA DepositsInit ==
  ASSUME IsFiniteSet(BankAccounts)
  PROVE  RecordedInit => DepositsAreKnown
<1> SUFFICES ASSUME RecordedInit
             PROVE  DepositsAreKnown
  OBVIOUS
<1>1. /\ deposits = {} /\ \A c \in Clerks : desk[c].at = "idle"
      /\ \A a \in BankAccounts : Held[a] = 0
  BY DEF RecordedInit, OfferingInit, NoOne, Held
<1>2. Arrived = {}
  BY <1>1 DEF Arrived
<1>3. SumOf(Held, BankAccounts) = 0 /\ SumOf(Taken, {}) = 0
  BY <1>1, FS_EmptySet, SumOfZeros
<1> QED BY <1>1, <1>2, <1>3, FS_EmptySet DEF DepositsAreKnown, SumsMatch, Verifying, DeskAt

\* If deposit info provided, update bank account balance: however verifications
\* overlap and fail, the banks hold the totals of the deposits recorded, except
\* those on their way and those a failure has lost.
THEOREM BanksHoldTheDeposits ==
  ASSUME IsFiniteSet(BankAccounts)
  PROVE  RecordedSpec => []BankMatchesDeposits
<1>1. RInv /\ DepositsAreKnown /\ [RecordedNext]_recordedVars => DepositsAreKnown'
  BY DepositsStep
<1>2. DepositsAreKnown => BankMatchesDeposits
  <2> SUFFICES ASSUME DepositsAreKnown
               PROVE  BankMatchesDeposits
    OBVIOUS
  <2>1. Arrived \in SUBSET deposits
    BY DEF Arrived
  <2>2. IsFiniteSet(Arrived)
    BY <2>1, FS_Subset DEF DepositsAreKnown
  <2> QED BY <2>1, <2>2, BalancesAreASum, TakingsAreASum
          DEF DepositsAreKnown, SumsMatch, BankMatchesDeposits
<1>3. RecordedInit => DepositsAreKnown
  BY DepositsInit
<1> QED BY <1>1, <1>2, <1>3, RecordedInvariant, PTL DEF RecordedSpec

=============================================================================
