--------------------------- MODULE OfferingHistory ---------------------------
(***************************************************************************)
(* What postings, approvals and deposits achieve although handlers overlap *)
(* and fail.  The code neither excludes another handler nor undoes what a  *)
(* failed one has written, so this module adds to Offering the record of   *)
(* the status each batch was given, of the deposits recorded and of the    *)
(* postings that something came in the way of (history variables, written  *)
(* by every step and read by the properties only).                         *)
(***************************************************************************)
EXTENDS Offering

VARIABLES
  createdAs,    \* batch -> the status its creator gave it
  deposits,     \* <<batch, clerk>>: deposits recorded that no failure has lost
  interrupted   \* batches of which a posting was disturbed

batchHistory == <<createdAs, deposits, interrupted>>
recordedVars == <<allVars, batchHistory>>

Verifies(d) == desk[d[2]].id = d[1] /\ DeskAt(d[2], "verify.update")
Deposits(d) == desk[d[2]].id = d[1] /\ DeskAt(d[2], "verify.deposit")

\* A step of another handler changes what the posting in slot r has read: the
\* status of its entry, or the row of its period.
EntryTouched(r) ==
  req[r].id \in DOMAIN journal /\ journal'[req[r].id].status # journal[req[r].id].status
PeriodTouched(r) ==
  LET p == req[r].row.period IN
  \/ p \in DOMAIN period' \ DOMAIN period
  \/ p \in DOMAIN period /\ period'[p] # period[p]
Disturbed(r) == req'[r] = req[r] /\ (EntryTouched(r) \/ PeriodTouched(r))

RecordBatches(stopped, lost) ==
  /\ createdAs' = [b \in DOMAIN batch' |->
                     IF b \in DOMAIN batch THEN createdAs[b] ELSE batch'[b].status]
  /\ deposits' = (deposits \cup {d \in Batches \X Clerks : Verifies(d) /\ Deposits(d)'}) \ lost
  /\ interrupted' = interrupted \cup {b \in Batches : \E r \in stopped : Posting(r, b)}

RecordedInit ==
  OfferingInit /\ createdAs = [b \in {} |-> NoSource] /\ deposits = {} /\ interrupted = {}

RecordedNext ==
  \/ OfferingProgress /\ RecordBatches({r \in Requests : req[r].op = "document" /\ Disturbed(r)}, {})
  \/ \E r \in Requests : Fail(r) /\ UNCHANGED offeringVars /\ RecordBatches({r}, {})
  \/ \E c \in Clerks : ClerkFail(c) /\ RecordBatches({}, {d \in deposits : Deposits(d) /\ d[2] = c})

RecordedSpec == RecordedInit /\ [][RecordedNext]_recordedVars

-----------------------------------------------------------------------------

\* When: Offering batch approved and posted (FINANCE_IMPLEMENTATION_PLAN.md,
\* Automatic Posting Rules): a batch in the ledger has passed every step that
\* follows the status it was created with.
PostedWasApproved ==
  \A b \in DOMAIN batch : DocumentEntries(b) # {} =>
    \/ createdAs[b] = "APPROVED"
    \/ /\ batch[b].approvedAt
       /\ batch[b].verifiedAt \/ createdAs[b] \in {"VERIFIED", "DEPOSITED"}

\* All operations must succeed or all fail (postOfferingToGL): the only way to
\* an entry whose batch is not flagged as posted is a posting that fails, or
\* whose entry or period another handler changes meanwhile.
PostingCompletes ==
  \A b \in DOMAIN batch \ interrupted :
    (\A r \in Requests : ~Posting(r, b)) /\ DocumentEntries(b) # {} => batch[b].isPostedToGL

\* Batch already posted to GL (postOfferingToGL): the flag does not stop two
\* postings that overlap, but it stops each slot from posting a batch twice.
PostsBounded ==
  \A b \in DOMAIN batch \ interrupted :
    Cardinality(DocumentEntries(b)) <= Cardinality(Requests)

\* If deposit info provided, update bank account balance (verifyOfferingBatch):
\* the balances are the totals of the deposits recorded, once for each clerk
\* who recorded one, except those on their way and those a failure has lost.
Arrived == {d \in deposits : ~Deposits(d)}
BankMatchesDeposits ==
  MapThenSumSet(LAMBDA a : bank[a].balance, BankAccounts)
    = MapThenSumSet(LAMBDA d : Total(batch[d[1]].taking), Arrived)

-----------------------------------------------------------------------------
(* What is inductive about these.                                          *)

HistoryTypeOK ==
  /\ createdAs \in [DOMAIN batch -> BatchStatuses]
  /\ deposits \subseteq (DOMAIN batch) \X Clerks
  /\ interrupted \subseteq Batches

Verified(b) == batch[b].verifiedAt \/ createdAs[b] \in {"VERIFIED", "DEPOSITED"}
Approved(b) == createdAs[b] = "APPROVED" \/ (batch[b].approvedAt /\ Verified(b))

\* A status is reached from the one before it, and a posting starts when the
\* batch is approved.
ApprovalsInv ==
  /\ \A b \in DOMAIN batch :
       /\ batch[b].status \in {"VERIFIED", "DEPOSITED"} => Verified(b)
       /\ batch[b].status = "APPROVED" => Approved(b)
  /\ \A c \in Clerks : DeskAt(c, "approve.update") => Verified(desk[c].id)
  /\ \A r \in Requests : req[r].op = "document" => Approved(req[r].row.source)
  /\ PostedWasApproved

Inserting(r) == At(r, "create.period") \/ At(r, "create.accounts") \/ At(r, "create.insert")
HasEntry(r) ==
  \/ At(r, "post.entry") \/ At(r, "post.period") \/ At(r, "post.createPeriod")
  \/ At(r, "post.update") \/ At(r, "document.update")
Holds(r, e) == req[r].op = "document" /\ HasEntry(r) /\ req[r].id = e

\* What a posting has read still holds when it acts on it.
Fits(r) ==
  /\ Inserting(r) \/ HasEntry(r)
  /\ req[r].row.status = "DRAFT"
  /\ At(r, "create.accounts") \/ At(r, "create.insert") => ~Shut(req[r].row.period)
  /\ HasEntry(r) => journal[req[r].id].period = req[r].row.period
  /\ At(r, "post.entry") \/ At(r, "post.period") =>
       MayPost(req[r].id) /\ ~Shut(req[r].row.period)
  /\ At(r, "post.createPeriod") => req[r].row.period \notin DOMAIN period

\* Every entry of an undisturbed batch is in the hands of the slot that inserted
\* it until the batch is flagged; then no slot starts again, and those that have
\* yet to insert an entry are not among the ones that have.
FreeOf(b) == {r \in Requests : ~(Posting(r, b) /\ Inserting(r))}
PostingsInv ==
  /\ \A r \in Requests :
       req[r].op = "document" /\ req[r].row.source \notin interrupted => Fits(r)
  /\ \A b \in DOMAIN batch \ interrupted :
       /\ ~batch[b].isPostedToGL =>
            \A e \in DocumentEntries(b) : \E r \in Requests : Holds(r, e)
       /\ batch[b].isPostedToGL =>
            Cardinality(DocumentEntries(b)) <= Cardinality(FreeOf(b))

=============================================================================
