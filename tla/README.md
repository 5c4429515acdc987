# Chapelstack backend: verification project

Chapelstack is a NestJS/Prisma backend for churches (GraphQL, PostgreSQL, Bull
queues, cron jobs, Paystack webhooks).  This directory holds TLA+ models of its
core logic, the TLC configurations that check them, and proofs for TLAPS.
Source paths below are relative to `src/src/` unless they start with `prisma/`
or `docs/`.

Contents: 1 the system and its hazards; 2 how the code is modelled; 3 the
modules; 4 the runs; 5 the disagreements found; 6 the proofs; 7 what is only
model-checked or left out; 8 the plan.

## 1. The system

One Node process (or several behind a balancer) serves GraphQL.  Nearly every
mutation is an `async` handler of a service class that awaits a handful of
Prisma calls one after another.  Almost none opens a transaction, so each call
commits by itself: a handler that read a row acts later on what it remembers,
and one that fails half-way leaves its first writes behind.  The components, by
the state they own:

| Component | State | Operations that change it | Interacts with | What is hard | What makes it correct |
|---|---|---|---|---|---|
| Journal entries (`finance/services/journal-entry.service.ts`) | `JournalEntry`, `JournalEntryLine` | create, post, void, reverse | periods (read on create and post), accounts (active flag), offerings and other documents (callers) | a reversal is insert, flag, post: three writes; post and void act on a status read before | balanced entries; at most one reversal, a mirror of its original; few writes reach a period after its close |
| Fiscal periods (`fiscal-period.service.ts`) | `FiscalPeriod.status` | close, reopen, lock, create a year; a period is also created by posting | entries (draft count) | read-check-write over several awaits; twelve inserts in a row | none is shut with drafts that were there to be counted; years filled in order |
| Chart of accounts (`account.service.ts`) | `Account` | create, update, deactivate | entries | hierarchy and balance checks before a write | no posting to an inactive account |
| Offering batches (`offering.service.ts`) | `OfferingBatch` | create, verify (with deposit), approve, post | ledger (post), bank accounts (deposit) | a transaction that does not cover the writes of the services it calls | posted only after approval, with its own money, and once as far as the flag goes; all or nothing |
| Bank accounts and statements (`bank-account.service.ts`, `bank-statement.service.ts`) | balances, active flag | deposit, deactivate, set balance, upload | offerings, reconciliation | increments and absolute writes mixed | balances agree with deposits |
| Bank reconciliation (`bank-reconciliation.service.ts`) | `BankReconciliation` | save, review, approve, reject, void | bank balance | one per day and account, maker and checker | the balance is that of the newest reconciliation |
| Subscriptions (`subscriptions/services`) | `Subscription`, status of `Organisation` | create for an organisation, update, cancel; hourly job: expire, cancel after the grace period; managers enable and disable organisations | organisations, the clock | the job works through a list read before; two tables written in two calls, failures of the second swallowed; several rows for one organisation | access withdrawn only after the term (and grace); the organisation follows its subscription |
| Paystack webhooks (`subscriptions/services/webhook.service.ts`) | `WebhookEvent` | process, retry | event registrations (subscriptions: see section 7) | events late, repeated, out of order; four writes for one event; a retry has a row of its own | what is recorded of a charge is true, and a success is not lost |
| Workflows (`workflows/`) | `WorkflowExecution`, `WorkflowActionExecution`, Bull queue | trigger, run, cancel, retry | queue, messaging, members | cancel and retry race the worker; a worker that dies is replaced by one that starts again; database and queue are written apart | COMPLETED means done; none is forgotten; each ends |
| Automations (`automations/`) | automations, logs | schedule, run | cron, messaging | a run longer than the schedule | one run per due time |
| Child check-in (`children/services/checkin.service.ts`) | `CheckInRecord` | check in, check out | - | check then create | one open record per child |
| Event registrations (`events/events.service.ts`) | `EventRegistration` | register, update, cancel, delete, pay | webhooks | places are counted and payments looked up before the insert | overbooked at most by what is served at once; paid means paid |
| Authentication (`auth/auth.service.ts`) | `RefreshToken` | login, refresh, logout | - | reuse detection over three calls | a token is used once |
| Transfers (`transfers/transfers.service.ts`) | `TransferRequest`, branch of a member | create, update (to any status), remove | members | the member is moved before the request is updated | a completed request has moved its member |
| Members (`members/`, `member-id-generation.service.ts`) | `Member`, its card and branch | create, assign and remove cards, move, delete, deactivate | most components | card numbers come from a count that creations, moves and deletions change; five attempts | numbers unique and bounded; no card only for a reason |
| Reports, messaging, broadcasts, attendance, ministries, sacraments, assets, content, branches, administration | one table each | mostly one write per mutation | gateways, files | external I/O | - |

`PROJECT.json` lists these with their sources and status, and under `hazards`
every place found where an interleaving, a failure or a boundary can bite, with
the property that covers it or the reason why none does.

## 2. How the code is modelled

* **One action per awaited Prisma call.**  Node runs a handler without
  interruption between two awaits, and the database runs one call atomically.
  So an action is one call plus the synchronous code up to the next; the
  handler's local variables live in `req[r]` (ledger), `desk[c]` (offerings),
  `slot[r]` (subscriptions, registrations, members) or `worker[w]` and
  `caller[c]` (workflows) between two actions, and any other handler may act in
  between.  Guards that
  the code evaluates in memory after a read are evaluated in the action of the
  read, which is what makes them stale later.
* **First read and start are one action.**  Where the first action reads a row,
  an error return has no effect at all, so the request simply does not begin.
* **Failures.**  `Fail` and `ClerkFail` end a handler at any await: a rejected
  call, a lost connection or a stop of the process.  What it wrote stays.  In
  `Subscription` the two differ, as the code catches errors: `Reject` continues
  where the `catch` does, `Stop` ends every handler; so it is in `Registration`
  (`RejectCall`, `FailReport`, `Stop`).  In `Workflow` a call may reject
  (`CallerReject`, `WorkerReject`) and a worker may die at any await (`Crash`);
  Bull then finds its job stalled (`Recover`).
* **External parts.**  Bull and Paystack are modelled from how the code uses
  them.  Bull runs waiting jobs in order, one at a time per process, and runs a
  job whose worker died once more (`MaxStalled`).  A charge at Paystack may fail
  and then succeed; each outcome is reported until a delivery is answered with
  success, also while another delivery of it is being handled.
* **Histories.**  Variables such as `settled`, `disturbed`, `missed`, `entered`,
  `been` and `left` record what happened for the properties; no guard of a
  handler reads them.  Those of the ledger, the offerings and the subscriptions
  are in modules of their own (`LedgerHistory`, `OfferingHistory`,
  `SubscriptionHistory`), which add them to every step.  One column, `posting` of
  a journal entry, is of this kind too: it tells the entry that a batch's posting
  inserted from one to which a client gave the batch's `sourceTransactionId`.
* **Input.**  A client of `createJournalEntry` chooses the entry's status (any of
  the five of `JournalEntryStatus`) and its source, a client of
  `createOfferingBatch` the batch's status: `CreateStatuses`, `Sources` and
  `InitialStatuses` are what is tried.  Whatever is neither POSTED nor VOID can
  be posted (`MayPost`).
* **Transactions.**  `postOfferingToGL` opens `$transaction`, but calls
  `JournalEntryService`, which writes with its own client.  The transaction
  therefore covers only the final update of the batch and is no step of its own.
* **Data.**  An entry has one debit and one credit line: the code checks lines
  one by one, adds them per side and swaps them, and two lines distinguish all of
  that.  Amounts are cents; the floating-point comparison with 0.01 is modelled
  by what it can answer: no difference always balances, two cents never do, and
  one cent either way (`MayBalance`, `MayNotBalance`).  Dates are months.  A
  batch is what it counted in cash, in other means, and in contributions with
  a revenue account.  Texts, numbers printed on documents, audit columns and
  metadata are left out.
* **Environment.**  `NextMonth` and `Tick` (days) are the clocks, and accounts
  and bank accounts may be deactivated at any time.

Faulty variants (comment `Fault:`) stand beside some definitions: each is a
plausible bug, and the property named with it in `PROJECT.json` fails when it
replaces the definition, which shows the property depends on that code.

## 3. Modules

* `Ledger` - journal entries, fiscal periods and the active flag of accounts.
  `req[r]` is the handler running in slot `r` and the point it awaits at:
  `create.period -> create.accounts -> create.insert` is
  `createJournalEntry`; `post.entry -> post.period [-> post.createPeriod] ->
  post.update` is `postJournalEntry`, with the auto-creation of a missing
  period; `void.update`; a reversal is a create whose row has `reverses` set,
  then `reverse.mark`, then a post; `close.drafts -> close.previous ->
  close.update`, `reopen.update`, `lock.update`; `year.find / year.create`
  repeat over the months of `createFiscalYear`.  `DocumentBegin/DocumentEnd`
  are what another service does with the ledger: create an entry for a
  document, post it, then update the document.
* `Books` - the abstract promise: balanced rows are added, never removed; a row
  may mirror one other, none twice; a flagged row has its mirror; a status
  changes to POSTED or VOID only.  `Ledger!ImplementsBooks` is the refinement, the mapping
  forgets periods, sources and requests.
* `LedgerHistory` - EXTENDS `Ledger` by what slips past a close: `unseen`, the
  entries inserted into a period after a close had counted its drafts, and
  `late`, how many entries were inserted or posted in a period since it was shut.
* `Offering` - EXTENDS `Ledger`: batches, bank balances and the clerks that
  create, verify, deposit and approve; posting runs in a ledger slot as a
  document.  `OfferingNext` replaces the open `DocumentBegin/DocumentEnd` by
  `GLPostBegin/GLPostEnd`, which choose the document and update the batch;
  `RefinesLedger` states the composition is still `Ledger`.
* `OfferingHistory` - EXTENDS `Offering` by the status each batch was created
  with (`createdAs`), the deposits recorded and not lost by a failure
  (`deposits`, one for each batch and clerk), and the batches of which a posting
  failed or was disturbed (`interrupted`): another handler voided or posted its
  entry, or created, closed or reopened its period.
* `Subscription` - rows of `Subscription`, the status of organisations, the day.
  `slot[r]` runs `create.insert -> create.organisation`
  (`createOrganizationSubscription`), a mutation of one write, or the job:
  `ExpiredFind` reads a list, `expired.update -> expired.organisation` repeat
  over it in any order, `grace.find` reads the second list, `grace.update ->
  grace.organisation` repeat over that.  Runs may overlap (timer and
  `triggerSubscriptionLifecycleCheck`).  `findFirst` without an order returns
  any row that matches.
* `SubscriptionHistory` - EXTENDS `Subscription` by `apart`, the organisations of
  which the subscription and the status were not written together: one of the
  two by a mutation that leaves the other alone, the second write not made
  because of a failure or a stop, or two handlers between the two writes at once.
* `Workflow` - the status of executions, the waiting jobs of the queue, and the
  action rows that are still open.  A worker runs `mark`, then for each action
  `create -> (skip | start -> perform -> finish)`, then `complete`; an error goes
  through `rowfail` to `fail`; `ack` is the end of the job.  A caller runs
  `TriggerCreate -> add`, `CancelFind -> cancel.mark -> cancel.rows ->
  cancel.job`, or `RetryFind -> retry.reset -> retry.clear -> add`.
* `Registration` - one event's registrations, the charges that pay for them, the
  reports of Paystack and the `WebhookEvent` rows left unprocessed.  A
  registration runs `CountPlaces -> duplicate -> reference -> insert`; a report
  `LogReport (or Retry) -> find -> update -> processed`.  `retryFailedWebhookEvents`
  carries a list (`todo`) and handles its reports one after another.
* `Membership` - members with branch and card, and transfer requests.  `create`
  runs `StartCreate -> find -> (count -> find)* -> insert`;
  `updateTransferRequest` runs `StartUpdate -> move -> close`.  Handlers that
  only read whether the row exists before they write are one action: a write of
  a row that has gone rejects, as the check would have.  `NoCard` also stands for
  the time-stamped cards of `bulkAssignRfid`; `MoveMember` is every change of
  branch made outside a transfer.
* `LedgerProofs` - theorems about the journal, and the lemmas about sums over
  finite sets; `PeriodProofs` extends it, and `LedgerHistory`, with those about
  fiscal periods; `OfferingProofs` extends it and `OfferingHistory`.
* `SubscriptionProofs`, `RegistrationProofs`, `MembershipProofs`,
  `WorkflowProofs` and, extending it, `WorkflowRunProofs` (one run at a time) -
  theorems.
* `MCLedger`, `MCLedgerHistory`, `MCOffering`, `MCOfferingHistory`,
  `MCSubscription`, `MCWorkflow`, `MCRegistration`, `MCMembership` - symmetry sets, drafts, takings, plans, codes and entered cards
  for TLC.

The unique indexes on `reversedById` and on a period's organisation, branch
and month are the database's part: `CreateInsert` and the creations of periods
fail when they would be violated (`ReversalExists`, `p \in DOMAIN period`).  So do
`Insert` and `AssignCard` of `Membership` on `memberId`, and `Insert` of
`Registration` on the event with the member or the e-mail address.

## 4. Runs

Deadlock checking is off in every run: the keys of the journal, the months and
the batches are bounded, so a behaviour that has used them all and has locked
every period rests, as the idle server does; on the `LastDay` of
`Subscription` the job finds nothing more to do; an execution that is over and a
deleted member or registration with no key left rest in the same way.

| Run | Bounds | States | Question |
|---|---|---|---|
| `ledger_concurrent` | 2 requests, 2 entries, 2 periods (1 year), clients create APPROVED entries, entries may name a document, which is posted, 1 account that may be deactivated, failures | 1.7 million, about 85 s | what holds whatever overlaps |
| `ledger_history` | 2 requests, 3 entries, 1 period, entries created DRAFT, PENDING_APPROVAL or POSTED, 1 account that may be deactivated, failures | 393,000, about 45 s | what overlapping reversals leave, what slips past a close and how much, and do the handlers implement `Books` |
| `offering_overlap` | 1 request, 2 clerks, 1 batch created COUNTING or APPROVED, 2 entries, client entries that may name the batch, takings one and two cents off, 1 bank account, 1 slip, failures | 517,000, about 100 s | the invariants of the composition, its refinement of `Ledger`, and late approvals of a posted batch |
| `offering_postings` | 2 requests, 1 clerk, 1 batch created COUNTING or APPROVED, 3 entries, client entries that may name the batch, cash and a cheque, failures | 1.4 million, about 145 s | what overlapping postings leave of the link to the entry, what a posting that nothing disturbs leaves, how often a batch is posted, and after which steps |
| `offering_deposits` | 2 clerks, 2 batches created COUNTING or DEPOSITED, 2 bank accounts, 1 slip, cash and cheques, failures; no ledger requests | 186,000, about 20 s | do the balances agree with the deposits |
| `subscription_overlap` | 2 slots, 2 rows of 1 organisation, 5 days, grace 1 day, a plan with and one without trial, operators set ACTIVE, managers set ACTIVE, failures | 751,000, about 60 s | is access ever withdrawn too early, do the two tables agree |
| `subscription_fair` | 1 slot, the same, operators cancel, failures, fairness | 139,000, about 110 s | does the job make up for failures, and what keeps access from ending |
| `workflow_faults` | 1 execution of 2 actions, 2 workers, 1 caller, 1 waiting job, 1 crash, failures, fairness | 199,000, 30 s | what cancels, retries and crashes leave of an execution, and does it end |
| `registration_overlap` | 2 slots, 2 registrations of 2 people, 1 charge, 1 place, failures | 1.1 million, about 95 s | how far the checks before the insert hold, and is what is recorded of a payment true |
| `membership_overlap` | 2 slots, 3 members, 1 branch or none, 1 transfer, 2 attempts, 1 card entered by hand, failures | 525,000, about 75 s | which numbers are given out, and who gets none |
| `offering_half_post`, `subscription_renewal` | 1 handler, 1 or 2 rows | small | one counterexample each, section 5 |

Why the bounds suffice. A reversal relates one entry, its reversal and a rival:
three keys, in `ledger_history`. All conflicts in the code are between two
handlers (one reads, one writes), so two slots show them; the proofs of section
6 remove the bound for the main ones. Closing looks at a period and the one
before it, a year begins where the previous ends: two periods in
`ledger_concurrent`, with `YearLength` 2 in place of 12; what slips past a close
concerns the period that is closed, so one is enough in `ledger_history`. There
the count of drafts tells the statuses apart, so a draft, an entry awaiting
approval and a posted one are all tried; creating and posting tell apart only
POSTED, VOID and the rest, so elsewhere clients create APPROVED entries, beside
the drafts of reversals and postings. The ledger alone never looks at the source
of an entry: two values, a document and none, in `ledger_concurrent`, and none
in `ledger_history`. A batch meets the ledger through its entries alone, so one
batch with two slots shows double posting, with a third key for an entry of a
client that names the same batch, and two batches show slips and balances. A
batch posted by one slot can only be posted again after a second clerk's late
approval, hence two clerks in `offering_overlap`; postings that race each other
need two slots, hence `offering_postings`. `VerifyBegin` to `VerifyDeposit`
touch no entry, so `offering_deposits` needs no ledger request. A batch created
VERIFIED behaves like one that was verified. PENDING_VERIFICATION, REJECTED and
POSTED as a new batch's status lead nowhere: no call starts from them.

In `Subscription` two rows are an old subscription and its renewal; with a
start date in the past, a term of one day and a grace of one day, a row is
expired on day 2, cancelled on day 4, and one created later meets the job half-way.

In `Workflow` two workers are the one that runs and the one that takes its job
over, or that of a retry; the second action distinguishes a run that was broken
off from one that is done.  With one caller a cancel and a retry follow each
other while the worker goes on; two callers (with one action, 953,000 states,
without liveness) pass the safety properties too.  In `Registration` one place
and two slots overbook, one charge and two registrations share a payment, and
two slots handle the failure and the success of a charge out of order.
`ClientStatuses` is empty; with ATTENDING in it the same properties pass.  In
`Membership` the third member, or the card entered by hand, is what makes an
attempt fail; MaxAttempts is 2 in place of 5, as two creations must be able to
exhaust it.  A branch and having none have codes of their own in the run; one
code for both passes too.

Where the code prevents nothing.  A check and the write that relies on it are
separate calls, and no handler looks again or excludes another.  So nothing the
checks are for holds outright.  The history modules do not rule out a single
step; they record the steps by which it goes wrong, and the properties say that it goes
wrong in no other way:

| Property | What it says | What the code does not prevent |
|---|---|---|
| `ShutDraftsUnseen` (LedgerHistory) | a draft in a shut period was inserted after a close had counted its drafts | the insert of a create that read the period before the close |
| `LateWritesBounded` (LedgerHistory) | fewer entries reach a period after its close than there are slots | one write by every other handler that had read it open |
| `PostingCompletes` (OfferingHistory) | a batch with an entry is flagged, when nobody is posting it | failures, and voids, posts and period changes by others in between |
| `PostsBounded` (OfferingHistory) | one entry of a batch for each slot at most | postings that all pass the check of the flag, and the same disturbances |
| `PostedWasApproved` (OfferingHistory) | a batch in the ledger has passed every step after the status it was created with | creation with any status |
| `BankMatchesDeposits` (OfferingHistory) | the balances are the deposits recorded, once for each clerk who recorded one | two clerks who verify one batch, failures between the two updates |
| `OrganisationFollows` (SubscriptionHistory) | an organisation's status goes with its one subscription | mutations that write one of the two, failures, two handlers between the writes |
| `AccessEnds` (SubscriptionHistory) | without a subscription in force access ends | the same: `cancelSubscription` and `updateSubscription` never touch the organisation |

A posting is disturbed when another handler changes the status of its entry or
the row of its period while it waits.  Such a change may make `postJournalEntry`
throw, which leaves the entry behind an unflagged batch; some come too late
for that and are recorded all the same.  Everything else may happen in between
without being recorded: late approvals, other postings of the batch, a client's
entry with the same source and what becomes of it, the deactivation of accounts.

Assumptions.  `NumPeriods % YearLength = 0`: whole years.  The date of a deposit
is optional in the input and read by nothing, so the model has none: the
money moves whenever a bank account is given.  A caller may carry no user id
(`NoUser`), so a verifier may be nobody, as in the passing runs, whose properties do
not depend on who verified.  `RoomForEntry` bounds the journal; `month` stops at
`NumPeriods`.

In `subscription_overlap` no operator sets PAST_DUE or CANCELLED and no manager
suspends or cancels: the question is what the job does by itself.
`RoomForRow` bounds the rows, `LastDay` the time.

The histories name what a property cannot cover, because the code does not
prevent it: `disturbed` executions (a call for it was rejected, callers acted on
it together, its job stalled more often than it is run again, or a cancel
removed the job after a worker had started it), `revived` registrations (an
update put them back without counting places), `entered` ones (a client set the
payment itself), `missed` ones (inserted after the success was handled, or
sharing its reference), and places that somebody has `left`.  The properties are
about everything else.  `MaxWaiting` and `RoomForJob` bound the queue,
`MaxCrashes` the crashes; the keys of executions, registrations, members and
requests are used once.

Fairness.  None is assumed of the ledger, the offerings, registrations and
members: a handler may stop at any await, and the code retries nothing there by
itself (a retry of webhooks is a mutation).  The lifecycle job is a retry:
`@Cron(EVERY_HOUR)` starts it whatever happened before.  `Fairness` of
`Subscription` says that time passes, that the queries and the writes to
subscriptions, attempted infinitely often, succeed infinitely often (strong
fairness: a failure may come each time in between, but not for ever), and that a
handler under way does not halt (weak fairness; a failure is a way to go on).
Nothing is assumed of the calls on one particular row, nor of those to
organisations: a failed update of an organisation is swallowed and no later run
sees that row again, so it puts the organisation among those `apart`.

`Fairness` of `Workflow` is weak fairness of every worker and every caller: a
call that was made returns or rejects, an idle worker takes the job that waits,
and Bull looks for stalled jobs (its own timer).  Nothing obliges a caller to
cancel or retry, so `EveryRunEnds` is about the service alone.

## 5. Disagreements between code and documentation

Two are shown by a run:

* `offering_half_post`: posting is documented as all-or-nothing, but the entry
  survives a failure of the rest.
* `subscription_renewal`: an organisation renews when its term is over, but
  before the hourly job has run; the job then marks the old row PAST_DUE and
  suspends the organisation, and cancels it after the grace period, although
  the new subscription is in force.

The others are read in the code, and the models behave as it does.

Ledger.  A reopen that read CLOSED writes OPEN over a lock, which is documented
as permanent (`fiscal-period.service.ts:199`).  `voidJournalEntry` never looks
at the period, so entries of a locked one can be voided.  An entry stays flagged
as reversed although the posting of its reversal was refused
(`journal-entry.service.ts:498`); the index then refuses another reversal.  Two
posts of one batch both pass the check of `isPostedToGL`
(`offering.service.ts:511`).  `createOfferingBatch` stores the status the client
sends, so a batch created APPROVED is posted unverified.  The comment
above `postJournalEntry` says "Changes status from DRAFT to POSTED"
(`journal-entry.service.ts:325`), but an entry created PENDING_APPROVAL or APPROVED
is posted as well.  Closing counts only drafts
(`fiscal-period.service.ts:136`), so such entries stay unposted in a closed
period.  A client may give an entry the `sourceTransactionId` of an offering batch
(`journal-entry.resolver.ts:84`), and so may have two entries with that source
although the batch was posted once.

Subscriptions.  `cancelSubscription` and `updateSubscription` write the
subscription only: an organisation whose subscription an operator cancels keeps
its access for ever, as the job looks at ACTIVE, TRIALING and PAST_DUE rows only.
A cancellation between the job's query and its write is overwritten.  Two creations for one organisation both find no active row.

Workflows.  `cancelExecution` does not stop a job that runs, and the worker's
COMPLETED or FAILED replaces CANCELLED.  An execution whose `add` is rejected
stays PENDING for ever.  `checkScheduledWorkflows` never compares `nextRunAt`
with the time, and `members.service.ts` triggers the literal workflow
`MEMBER_CREATED_WORKFLOW_ID`, which does not exist.

Registrations.  A comment at `events.service.ts:1251` says a payment "will be
verified via webhook when Paystack confirms it", but a `charge.success` handled before
the registration is inserted finds none, is marked processed and never comes
again: the registration stays pending.  A `charge.failed` that is handled, or
retried, after the success overwrites it.  The retry of a failed event adds a
row and leaves the old one unprocessed.  `approveRegistration` writes CONFIRMED,
which is not an `RSVPStatus`, and so always rejects.

Members and transfers.  `importMembers` passes branch and organisation to
`generateMemberId` in the wrong order (`members.service.ts:2972`) and so creates
nobody.  `createMember`, used by the setup wizard, sets no `membershipDate`, by
which `generateMemberId` counts.  Once a member has left a branch, or another
branch shares its code, the number after the count may be taken: the five
attempts count the same number again and the member gets no card.  A transfer
takes any status from any other: one rejected after it was completed has moved
the member all the same, one completed twice moves the member again, and the
branch it comes from is never checked.  A half-done transfer has moved its
member while the request is pending.

## 6. Proofs

All theorems hold for any values of the constants (how many handlers, workers,
rows, periods, actions, places, attempts, which statuses clients give), and
with or without failures and overlaps, except as follows.  Deposits are summed
over finitely many bank accounts (`IsFiniteSet(BankAccounts)`).  Those on
withdrawn access assume that operators and managers do not withdraw it
themselves (`OnlyTheJob`).

`LedgerProofs`.  The invariant `IInv` joins the type invariant, `OneReversal`
and `ReversedHasMirror` with what they need to be inductive: `RequestInv`, that
what a handler carries over an await is still true (the entry it holds exists,
the row it will insert mirrors the stored original, the lines were balanced when
checked), and `EntryInv`, that stored entries are balanced and reversing ones
mirror their originals. It holds because the code never deletes an entry nor
changes its lines, so a stale copy of those is a good copy; only statuses go
stale, and `IInv` claims nothing of them.  The proof has a lemma per group of
writers (`InsertEffect`, `StatusEffect`, `MarkEffect`) and one step per action.
Theorems: `InductiveInvariant`, `TypeCorrect`, `AtMostOneReversal`,
`ReversedIsMirrored`, `HalfReversalStuck` (no retry completes a half-done
reversal), `LedgerImplementsBooks`.

Sums.  The trial balance and the bank balances are sums by `MapThenSumSet`, a
recursive function on the subsets of a set that takes away one chosen element at a
time.  The library's induction theorems take an
operator as a parameter, which the provers cannot instantiate, but
`WFMin`, that a non-empty set has a minimal element, does not: from it and the
well-foundedness of strict inclusion `SubsetInduction` is proved, with a set in
place of the predicate; with it `SumsExist` shows the recursion
defines a function, `SumsAdd` that the order of summation does not
matter, and `SumOfAdd`, `SumOfRaised`, `SumOfSame` and `SumOfZeros` what
one more or one greater summand does.  `TrialBalanceIsBounded` follows from
`IInv` (a stored entry is balanced to a cent) by induction over the posted
entries, of which there are finitely many at any time (`JournalIsFinite`)
even if there are infinitely many keys.

`PeriodProofs`.  `YearsHaveNoGaps`: several handlers may create the periods of one
year at once, and posts create missing ones in between, but when
`createFiscalYear` reaches a month every earlier one of that year has a row
(`YearPrefix`, inductive once it is known that only that handler is at its two
points; the rest is arithmetic on the months that begin a year).  It says nothing
of a year that no handler is creating: a single post may create a lone month.

`DraftsInv` follows the drafts of a period from the moment a close has counted
them (`Counted`) until it is reopened: a draft inserted in that time is
`unseen` and no other appears, as no status turns back into DRAFT
(`ShutPeriodsKeepNoDrafts`).  `WritesInv` counts, for a shut period, the late writes
together with the handlers that may still write (`LateWriters`): a handler
becomes one only by reading the period as not shut, a late write takes one away,
and the slot that shut the period was none, so the sum stays below the number
of slots (`LateWritesAreBounded`).

`OfferingProofs`.  `OInv` is `IInv` with `OfferingInv`: a row inserted by a
posting is a batch's own, a posting carries and then holds an entry of its
batch, and a posted batch names such an entry.  A client's entry may name the
batch as its source, and a reversal does: `posting` tells them apart.  The
ledger's steps enter the proof only through two facts about the journal
(`EntriesKept`, `EntriesAdded`).  `OfferingRefinesLedger` maps every step to a
ledger step or a stutter, so the ledger's theorems hold of the composition.
`SettledBatches` shows the re-approval of a posted batch is harmless.
`PostedNeedsApproval` uses `ApprovalsInv`: a status beyond the one a batch was
created with comes with the stamps of its approvals, also in the hands of a clerk.

`PostingsInv` says of a posting whose batch is not `interrupted` that what it has
read still holds (`Fits`), because every step of another handler that would
change it interrupts the batch, and that every entry of such a batch is in the
hands of the slot that inserted it (`Holds`) until the batch is flagged.  So no
check refuses the entry and leaves it behind (`PostingsComplete`).  Once the
flag is set no slot starts again, and those that have yet to insert an entry are
not among the slots that have (`FreeOf`): the entries are at most as many as the
slots (`PostsAreBounded`).

`BanksHoldTheDeposits`: the recording adds a deposit that has not arrived, the
second update adds its total to both sums (`DepositRecorded`, `DepositBanked`), a
failure in between takes it out of `deposits` (`DepositLost`), and every other
step leaves both sums (`DepositsStay`).  A clerk's desk holds one deposit at a
time, and one clerk records a batch once at most, since it is COUNTING before and
never again (`DeskLeft`).

`SubscriptionProofs`.  `LifecycleInv` says that what the job carries is still
justified (`SlotInv`: every row it has before it has lapsed, or is forfeited,
however long ago it was found), that a PAST_DUE row was last written after the end
of its term (`RowInv`), and `AccessKept`.  It is inductive because no
step changes a row's term or owner or removes it, and time only advances
(`Kept`), so a lapsed row never becomes unlapsed whatever its status does; the
updates of `updatedAt` only postpone the cancellation.  One lemma per kind
of step (`ReadStep`, `StatusStep`, `OrganisationStep`, `InsertStep`), then one
case per action.  Theorems: `LifecycleInvariant`, `AccessIsKept`,
`CancelledAfterGrace`.  They assume `OnlyTheJob`: operators and managers do
not withdraw access themselves.

`FollowInv` says, of an organisation that is not `apart`, that at most one handler
is between the two writes of a change, that the status this one goes on to
write is that of the subscription still, and that otherwise the two tables agree.
It is proved one organisation at a time (`Follows`): a step leaves it and those
between its writes alone (`Aside`), or is the first write (`FirstWrite`) or the
second (`SecondWrite`), or marks it `apart`.  Theorems: `FollowInvariant`,
`StatusFollows`, with no condition on operators, managers or failures.

`WorkflowProofs`.  `WorkflowInv` adds to its two properties that the actions a
worker has behind it are settled (`WorkerInv`): the worker's position, not the
status, is what justifies COMPLETED, and `settled` only grows.  `NeverForgotten`
is inductive by itself: the lemmas `Waiting...` say what adding, taking, removing
and putting back a job do to the jobs of an execution, and each step that gives
up the last job of an active execution is one of those that make it `disturbed`.
One lemma for what callers and one for what workers do to each of the three
parts (types, settled actions, forgotten executions).  Theorems:
`WorkflowInvariant`, `CompletedIsDone`, `NothingIsForgotten`.

`WorkflowRunProofs`.  `RunInv` says of an execution that no failed call, no second
caller and no stall has `disturbed`, as long as no worker has crashed: at most
one caller handles it (`OneCaller`), it has at most one source of work, a waiting
job, a busy worker or a caller about to add a job (`OneSource`), its status fits
that source (`StatusFits`: FAILED means that nothing works on it, so a retry
starts from nothing), a CANCELLED execution whose job still waits is one whose
cancel is under way (`CancelGoesOn`), and no row is left open behind it.  The
lemmas `AppendedJobs`, `TakenJob` and `RemovedJob` say what the queue's
operations do to the number of its jobs.  Theorems: `RunInvariant`,
`NeverRunsTwice`, `CancelTakesEffect`, `NoRowIsLeftOpen`.

`RegistrationProofs`.  `RegistrationInv` says what a handler holds across its
awaits (`HandlerHolds`; keys are not used again, so a row found by its reference
still has it or is gone), that reports on their way or left unprocessed are true
(`ReportsAreTrue`), and how far a handler has got with a success
(`SuccessInHand`).  `SuccessIsKept` follows from it: Paystack stops
reporting only when a handler is done, and by then every registration with that
reference it could see is no longer pending.  The two bounds are inductive given that
invariant, since they count the registrations together with the handlers
that may still add one: an admission happens only with a place free, and what
is admitted or inserted afterwards was admitted before, one per slot.  Theorems:
`RegistrationInvariant`, `PaidIsTrue`, `SuccessIsKept`, `OverbookingIsBounded`,
`SharingIsBounded`.

`MembershipProofs`.  `PlacesKept` relates the count of a branch to those who
have ever been there (equal as long as nobody has left), and `CreateKnows` says
that each failed attempt of `create` has seen another member arrive: the number
it tried was taken, the holder has been there, so the branch has
grown.  `KeysApart` keeps two creations from the same row.  Theorems:
`MembershipInvariant`, `NumbersAreBounded`, `GivingUpHasAReason`,
`CompletedIsMoved`.

The named assumptions (`PeriodsAssumption`, `DraftsAssumption`,
`TakingsAssumption` and so on) say only what kind of value each constant is.

## 7. Model-checked only, and left out

Only checked by TLC: the liveness of `Subscription` (`ExpiredIsHandled`,
`LapsedIsCancelled`, `AccessEnds`) and of `Workflow` (`EveryRunEnds`).  Liveness
under fairness, and with it ENABLED, is out of the prover's reach.  Every
invariant and every action property of a passing run is stated by a theorem.
`PostingAtomic` and `RenewalKeepsAccess` are violated.

Left out of the finance components: account creation and hierarchy,
listing queries, statistics, resolvers' role checks, entry numbers (a count
plus one), `updateBankBalance`, statement uploads.

Left out of subscriptions: `createSubscription` for a member always fails, since
`Subscription.customerId` refers to an organisation, and
`verifyPaymentAndCreateSubscription` has no caller left.  So no row ever gets a
Paystack code and no `SubscriptionPayment` is created: the subscription branches
of the webhook never find a row.  Expiry warnings only log.  Deleting an
organisation deletes its rows and is not modelled, nor are the texts a
cancellation stores.

Left out of workflows: editing templates, the timer and the events that trigger
(they are the arbitrary calls of `TriggerCreate`), and the texts of actions.
Left out of registrations: the events themselves, a change of capacity or price
while people register, registrations that name only a member or only an
e-mail address,
notifications.  Left out of members: deactivation, profiles, groups, families,
reports; the generators of cards that nothing calls
(`generateMemberIdForExisting`, `bulkGenerateMemberIds`).

Not modelled.  Bank reconciliation: through the API only RECONCILED and
VOIDED can be saved: the input's status is required, the service accepts
RECONCILED, PENDING and VOIDED, and PENDING is not in the enum; so the DRAFT that
review and approval start from never exists, and what is left is one write of the
balance per call.  Refresh tokens and child check-in: a look-up
and a write with nothing between that excludes a second one; the hazards say
what goes wrong, and no property of the exclusion would hold.  Automations
repeat the shape of workflows without retries.  The rest (reports, messaging,
broadcasts, attendance, ministries, administration, sacraments, assets, content,
branches) is one write per mutation or external I/O; it is most of the
repository's lines, which is why the modelled share of all lines is small.

Hazards without a property are those where the code offers nothing to state: the
reversal whose posting is refused, reopening over a lock, voiding in a locked
period, two creations of a subscription, the free statuses of a transfer,
check-in, refresh tokens, reconciliation.

## 8. Plan

Done: `Ledger`, `Books`, `Offering`, `Subscription`, `Workflow`, `Registration`
with the webhooks, `Membership` with the transfers, and a theorem for every
invariant and action property their passing runs check.

Possible next, each small: `Tokens` (what a stolen and rotated refresh token can
still do, how many sessions one token can grow into), check-in with its bound by
handlers as in `Registration`, the newest reconciliation against deposits in
`Offering`, `Accounts` (no cycle in the hierarchy under concurrent re-parenting),
and deactivation of members.
