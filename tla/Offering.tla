------------------------------ MODULE Offering ------------------------------
(***************************************************************************)
(* Offering batches (finance/services/offering.service.ts) and the bank    *)
(* balances their deposits move, composed with the general ledger.         *)
(*                                                                         *)
(* Posting a batch runs in a request slot of Ledger, as it goes through    *)
(* createJournalEntry and postJournalEntry.  It is wrapped in a Prisma     *)
(* transaction, but JournalEntryService writes with its own client, so the *)
(* transaction covers the last update only and is no step of its own here. *)
(* The other mutations of a batch run in slots called clerks.              *)
(***************************************************************************)
EXTENDS Ledger

CONSTANTS
  Clerks,           \* request slots of the create, verify and approve mutations
  Callers,          \* user ids a request carries, NoUser when it has none
  Takings,          \* what a batch counted
  Mappings,         \* account mappings a client may post with
  InitialStatuses,  \* values a client may give CreateOfferingBatchInput.status
  BankAccounts, Slips,
  NoUser, NoAccount, NoSlip

Batches == Sources   \* primary keys of offering batches
BatchStatuses == {"COUNTING", "PENDING_VERIFICATION", "VERIFIED", "APPROVED",
                  "DEPOSITED", "POSTED", "REJECTED"}

\* cash: cash and mobile money, debited when the batch is posted;
\* other: cheques and foreign currency, for which no line is built;
\* contributed: contributions whose type has a revenue account.
Counts == [cash : Nat, other : Nat, contributed : Nat]
Total(t) == t.cash + t.other

\* Fault: the whole total is debited, cheques included.
PostLinesTotal(t) ==
  {[debitAccount |-> m.cash, creditAccount |-> m.revenue,
    debit |-> Total(t), credit |-> Total(t)] : m \in Mappings}

\* The lines a batch can be posted with: credit to the account given by the
\* client (the whole total), or to those of the contributions' types.
PostLines(t) ==
  {[debitAccount |-> m.cash, creditAccount |-> m.revenue,
    debit |-> t.cash, credit |-> c] : m \in Mappings, c \in {Total(t), t.contributed} \ {0}}

ASSUME TakingsAssumption ==
  /\ Takings \subseteq Counts
  /\ \A t \in Takings : Total(t) > 0 /\ PostLines(t) \subseteq Drafts
ASSUME InitialStatusesAssumption == InitialStatuses \subseteq BatchStatuses
ASSUME SourceAssumption == NoSource \notin Sources

BatchRows == [status : BatchStatuses, period : Periods, taking : Takings,
              createdBy : Callers, verifiedBy : Callers \cup {NoUser},
              verifiedAt : BOOLEAN, approvedAt : BOOLEAN, \* whether they are set
              depositSlipNumber : Slips \cup {NoSlip},
              isPostedToGL : BOOLEAN,
              journalEntryId : EntryIds \cup {NoEntry}]

VARIABLES
  batch,   \* table OfferingBatch: primary key -> row
  bank,    \* table BankAccount: account -> [balance, inactive]
  desk     \* the handler each clerk slot is running

offeringVars == <<batch, bank, desk>>
allVars == <<vars, offeringVars>>

DeskPoints == {"idle", "verify.bank", "verify.slip", "verify.update",
               "verify.deposit", "approve.update"}
NoOne == [at |-> "idle", id |-> NoSource, user |-> NoUser,
          account |-> NoAccount, slip |-> NoSlip]
DeskStates == [at : DeskPoints, id : Batches \cup {NoSource},
               user : Callers \cup {NoUser},
               account : BankAccounts \cup {NoAccount}, slip : Slips \cup {NoSlip}]

OfferingTypeOK ==
  /\ DOMAIN batch \subseteq Batches
  /\ \A b \in DOMAIN batch : batch[b] \in BatchRows
  /\ bank \in [BankAccounts -> [balance : Nat, inactive : BOOLEAN]]
  /\ desk \in [Clerks -> DeskStates]

OfferingInit ==
  /\ Init
  /\ batch = [b \in {} |-> NoSource]
  /\ bank = [a \in BankAccounts |-> [balance |-> 0, inactive |-> FALSE]]
  /\ desk = [c \in Clerks |-> NoOne]

-----------------------------------------------------------------------------
(* Clerks.                                                                 *)

DeskAt(c, point) == desk[c].at = point
SetDesk(c, state) == desk' = [desk EXCEPT ![c] = state]
DeskGoto(c, point) == SetDesk(c, [desk[c] EXCEPT !.at = point])
DeskReturn(c) == SetDesk(c, NoOne)
SetBatch(b, row) == batch' = [batch EXCEPT ![b] = row]

\* createOfferingBatch: one insert, its date not in the future.
BatchCreate(c) ==
  \E b \in Batches \ DOMAIN batch, t \in Takings, s \in InitialStatuses,
     u \in Callers, p \in 1..month :
    /\ DeskAt(c, "idle")
    /\ batch' = [x \in DOMAIN batch \cup {b} |->
         IF x # b THEN batch[x] ELSE
           [status |-> s, period |-> p, taking |-> t, createdBy |-> u,
            verifiedBy |-> NoUser, verifiedAt |-> FALSE, approvedAt |-> FALSE,
            depositSlipNumber |-> NoSlip,
            isPostedToGL |-> FALSE, journalEntryId |-> NoEntry]]
    /\ UNCHANGED <<vars, bank, desk>>

\* verifyOfferingBatch: the read of the batch.  Whether the verifier is the
\* creator is decided on that read, as is all that needs no other row.
VerifyBegin(c) ==
  \E b \in DOMAIN batch, u \in Callers, a \in BankAccounts \cup {NoAccount},
     s \in Slips \cup {NoSlip} :
    /\ DeskAt(c, "idle")
    /\ batch[b].status = "COUNTING"
    /\ u # NoUser => u # batch[b].createdBy
    /\ a = NoAccount => s = NoSlip     \* the resolver drops the slip
    /\ SetDesk(c, [at |-> IF a = NoAccount THEN "verify.update" ELSE "verify.bank",
                   id |-> b, user |-> u, account |-> a, slip |-> s])
    /\ UNCHANGED <<vars, batch, bank>>

VerifyReadBank(c) ==
  /\ DeskAt(c, "verify.bank")
  /\ IF bank[desk[c].account].inactive
       THEN DeskReturn(c)
       ELSE DeskGoto(c, IF desk[c].slip = NoSlip THEN "verify.update" ELSE "verify.slip")
  /\ UNCHANGED <<vars, batch, bank>>

VerifyReadSlip(c) ==
  /\ DeskAt(c, "verify.slip")
  /\ IF \E b \in DOMAIN batch \ {desk[c].id} :
          batch[b].depositSlipNumber = desk[c].slip
       THEN DeskReturn(c)
       ELSE DeskGoto(c, "verify.update")
  /\ UNCHANGED <<vars, batch, bank>>

\* The money moves whenever a bank account is given; the date of the deposit
\* is optional and read by nothing.
VerifyUpdate(c) ==
  LET b == desk[c].id
      deposits == desk[c].account # NoAccount
  IN
  /\ DeskAt(c, "verify.update")
  /\ SetBatch(b, [batch[b] EXCEPT
       !.status = IF deposits THEN "DEPOSITED" ELSE "VERIFIED",
       !.verifiedBy = desk[c].user,
       !.verifiedAt = TRUE,
       !.depositSlipNumber = IF desk[c].slip = NoSlip THEN @ ELSE desk[c].slip])
  /\ IF deposits THEN DeskGoto(c, "verify.deposit") ELSE DeskReturn(c)
  /\ UNCHANGED <<vars, bank>>

\* Fault: only the cash part is banked.
VerifyDepositCash(c) ==
  /\ DeskAt(c, "verify.deposit")
  /\ bank' = [bank EXCEPT ![desk[c].account].balance =
                @ + batch[desk[c].id].taking.cash]
  /\ DeskReturn(c)
  /\ UNCHANGED <<vars, batch>>

VerifyDeposit(c) ==
  /\ DeskAt(c, "verify.deposit")
  /\ bank' = [bank EXCEPT ![desk[c].account].balance =
                @ + Total(batch[desk[c].id].taking)]
  /\ DeskReturn(c)
  /\ UNCHANGED <<vars, batch>>

\* Fault: a batch still being counted is accepted.
ApproveBeginAny(c) ==
  \E b \in DOMAIN batch :
    /\ DeskAt(c, "idle")
    /\ batch[b].status \in {"COUNTING", "VERIFIED", "DEPOSITED"}
    /\ SetDesk(c, [NoOne EXCEPT !.at = "approve.update", !.id = b])
    /\ UNCHANGED <<vars, batch, bank>>

\* approveOfferingBatch.
ApproveBegin(c) ==
  \E b \in DOMAIN batch :
    /\ DeskAt(c, "idle")
    /\ batch[b].status \in {"VERIFIED", "DEPOSITED"}
    /\ SetDesk(c, [NoOne EXCEPT !.at = "approve.update", !.id = b])
    /\ UNCHANGED <<vars, batch, bank>>

ApproveUpdate(c) ==
  LET b == desk[c].id IN
  /\ DeskAt(c, "approve.update")
  /\ SetBatch(b, [batch[b] EXCEPT !.status = "APPROVED", !.approvedAt = TRUE])
  /\ DeskReturn(c)
  /\ UNCHANGED <<vars, bank>>

ClerkFail(c) ==
  /\ CanFail
  /\ ~DeskAt(c, "idle")
  /\ DeskReturn(c)
  /\ UNCHANGED <<vars, batch, bank>>

\* BankAccountService.deactivate.
BankDeactivate(a) ==
  /\ bank' = [bank EXCEPT ![a].inactive = TRUE]
  /\ UNCHANGED <<vars, batch, desk>>

-----------------------------------------------------------------------------
(* postOfferingToGL.                                                       *)

\* Fault: isPostedToGL is not looked at.
GLPostBeginAgain(r) ==
  \E b \in DOMAIN batch, l \in UNION {PostLines(t) : t \in Takings} :
    /\ batch[b].status = "APPROVED"
    /\ l \in PostLines(batch[b].taking)
    /\ RoomForEntry
    /\ Begin(r, OnRow("document", "create.period", DocumentRow(b, l, batch[b].period)))
    /\ UNCHANGED <<tables, offeringVars>>

\* Fault: the entry is inserted without the checks of createJournalEntry.
GLPostBeginUnchecked(r) ==
  \E b \in DOMAIN batch, l \in UNION {PostLines(t) : t \in Takings} :
    /\ batch[b].status = "APPROVED"
    /\ ~batch[b].isPostedToGL
    /\ l \in PostLines(batch[b].taking)
    /\ RoomForEntry
    /\ Begin(r, OnRow("document", "create.insert", DocumentRow(b, l, batch[b].period)))
    /\ UNCHANGED <<tables, offeringVars>>

\* The reads, the lines and the start of createJournalEntry.
GLPostBegin(r) ==
  \E b \in DOMAIN batch, l \in UNION {PostLines(t) : t \in Takings} :
    /\ batch[b].status = "APPROVED"
    /\ ~batch[b].isPostedToGL
    /\ l \in PostLines(batch[b].taking)
    /\ RoomForEntry
    /\ Begin(r, OnRow("document", "create.period", DocumentRow(b, l, batch[b].period)))
    /\ UNCHANGED <<tables, offeringVars>>

\* Fault: the flag is set without the link to the entry.
GLPostEndUnlinked(r) ==
  LET b == req[r].row.source IN
  /\ DocumentEnd(r)
  /\ SetBatch(b, [batch[b] EXCEPT !.status = "POSTED", !.isPostedToGL = TRUE])
  /\ UNCHANGED <<bank, desk>>

\* Fault: the link is set without the status and the flag.
GLPostEndUnflagged(r) ==
  LET b == req[r].row.source IN
  /\ DocumentEnd(r)
  /\ SetBatch(b, [batch[b] EXCEPT !.journalEntryId = req[r].id])
  /\ UNCHANGED <<bank, desk>>

\* The update after postJournalEntry has returned.
GLPostEnd(r) ==
  LET b == req[r].row.source IN
  /\ DocumentEnd(r)
  /\ SetBatch(b, [batch[b] EXCEPT !.status = "POSTED", !.isPostedToGL = TRUE,
                                  !.journalEntryId = req[r].id])
  /\ UNCHANGED <<bank, desk>>

ClerkStep(c) ==
  \/ BatchCreate(c)
  \/ VerifyBegin(c) \/ VerifyReadBank(c) \/ VerifyReadSlip(c)
  \/ VerifyUpdate(c) \/ VerifyDeposit(c)
  \/ ApproveBegin(c) \/ ApproveUpdate(c)

OfferingProgress ==
  \/ Progress /\ UNCHANGED offeringVars
  \/ \E r \in Requests : GLPostBegin(r) \/ GLPostEnd(r)
  \/ \E c \in Clerks : ClerkStep(c)
  \/ \E a \in BankAccounts : BankDeactivate(a)

OfferingNext ==
  \/ OfferingProgress
  \/ \E r \in Requests : Fail(r) /\ UNCHANGED offeringVars
  \/ \E c \in Clerks : ClerkFail(c)

OfferingSpec == OfferingInit /\ [][OfferingNext]_allVars

-----------------------------------------------------------------------------
(* Properties that hold however handlers overlap and fail.                 *)

\* The entries that postings of a batch have inserted.
DocumentEntries(b) == {e \in DOMAIN journal : journal[e].posting /\ journal[e].source = b}

Posting(r, b) == req[r].op = "document" /\ req[r].row.source = b

\* A batch flagged as posted to the ledger names an entry of its own that was
\* posted and debits what was taken in cash and mobile money.
PostedHasEntry ==
  \A b \in DOMAIN batch : batch[b].isPostedToGL =>
    /\ batch[b].journalEntryId \in DocumentEntries(b)
    /\ journal[batch[b].journalEntryId].status # "DRAFT"
    /\ journal[batch[b].journalEntryId].lines.debit = batch[b].taking.cash

\* Once a batch is posted and nobody is still posting it, it is never posted
\* again, though a late approval may set its status back to APPROVED.
Settled(b) ==
  batch[b].isPostedToGL /\ \A r \in Requests : ~Posting(r, b)
SettledIsFinal ==
  [][\A b \in DOMAIN batch : Settled(b) =>
       Settled(b)' /\ DocumentEntries(b)' = DocumentEntries(b)]_allVars

\* Composed with offerings, the ledger still behaves as Ledger specifies: a
\* batch reaches the journal through createJournalEntry and postJournalEntry.
RefinesLedger == Spec

\* What a clerk's handler relies on between two awaits.
DeskInv(c) ==
  /\ ~DeskAt(c, "idle") => desk[c].id \in DOMAIN batch
  /\ DeskAt(c, "verify.bank") \/ DeskAt(c, "verify.slip") \/ DeskAt(c, "verify.deposit")
     => desk[c].account \in BankAccounts
  /\ DeskAt(c, "verify.bank") \/ DeskAt(c, "verify.slip") \/ DeskAt(c, "verify.update")
     => desk[c].user \in Callers

\* A row that a posting inserts is of a batch, with the lines of that batch.
OwnRow(row) ==
  row.posting =>
    /\ row.source \in DOMAIN batch
    /\ row.reverses = NoEntry
    /\ row.lines \in PostLines(batch[row.source].taking)

\* What a request relies on: the row a posting carries is its batch's, and once
\* it has inserted the row, the entry it is posting is one of the batch.
PostInv(r) ==
  /\ At(r, "create.period") \/ At(r, "create.accounts") \/ At(r, "create.insert") =>
       /\ OwnRow(req[r].row)
       /\ req[r].row.posting <=> req[r].op = "document"
  /\ At(r, "document.update") => req[r].op = "document"
  /\ req[r].op = "document" =>
       /\ req[r].row.source \in DOMAIN batch
       /\ req[r].row.reverses = NoEntry
       /\ \/ At(r, "post.entry") \/ At(r, "post.period") \/ At(r, "post.createPeriod")
          \/ At(r, "post.update") \/ At(r, "document.update")
          => req[r].id \in DocumentEntries(req[r].row.source)
       /\ At(r, "document.update") => journal[req[r].id].status # "DRAFT"

\* The inductive invariant of offerings, on top of the ledger's.
OfferingInv ==
  /\ OfferingTypeOK
  /\ \A c \in Clerks : DeskInv(c)
  /\ \A r \in Requests : PostInv(r)
  /\ \A e \in DOMAIN journal : OwnRow(journal[e])
  /\ PostedHasEntry

-----------------------------------------------------------------------------
(* A statement of the code's comments that its behaviour contradicts.      *)

\* All operations must succeed or all fail (postOfferingToGL): when nobody is
\* posting it, a batch has an entry only if it is flagged as posted.
PostingAtomic ==
  \A b \in DOMAIN batch :
    (\A r \in Requests : ~Posting(r, b)) /\ DocumentEntries(b) # {} => batch[b].isPostedToGL

=============================================================================
