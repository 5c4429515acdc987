---------------------------- MODULE Subscription ----------------------------
(***************************************************************************)
(* Subscriptions of organisations: the mutations and the hourly lifecycle  *)
(* job of subscriptions/services/subscriptions.service.ts and              *)
(* subscription-lifecycle.service.ts, and the organisation status that     *)
(* both set and organization-management.service.ts overrides.              *)
(*                                                                         *)
(* A mutation or a run of the job occupies a slot; an action is one Prisma *)
(* call with the synchronous code up to the next.  Runs of the job may     *)
(* overlap: nothing keeps a run from starting while another is under way,  *)
(* by the timer or by the mutation triggerSubscriptionLifecycleCheck.      *)
(* Time is counted in days.                                                *)
(***************************************************************************)
EXTENDS Integers, FiniteSets

CONSTANTS
  Slots,            \* handlers served at the same time
  Organisations,
  SubscriptionIds,  \* primary keys of subscriptions (bounds their number)
  Plans,            \* active plans: [length, trial] in days, trial 0 if none
  StartDates,       \* dates a client may ask a subscription to start at
  Updates,          \* statuses updateSubscription sets, Unchanged for none
  ManagedStatuses,  \* statuses that managers give organisations
  GracePeriod,      \* days (7 in the code)
  LastDay,          \* bound on time
  CanFail,          \* whether an awaited call may reject or the server stop
  Unchanged, NoRow, NoId

Days == 1..LastDay
Statuses == {"ACTIVE", "CANCELLED", "PAST_DUE", "TRIALING", "INCOMPLETE",
             "INCOMPLETE_EXPIRED", "PAUSED"}
OrganisationStatuses == {"ACTIVE", "SUSPENDED", "TRIAL", "CANCELLED", "INACTIVE"}

ASSUME PlansAssumption == Plans \subseteq [length : Nat \ {0}, trial : Nat]
ASSUME DatesAssumption ==
  LastDay \in Nat \ {0} /\ GracePeriod \in Nat /\ StartDates \subseteq Nat
ASSUME InputsAssumption ==
  /\ Updates \subseteq Statuses \cup {Unchanged}
  /\ ManagedStatuses \subseteq OrganisationStatuses
  /\ CanFail \in BOOLEAN /\ Unchanged \notin Statuses /\ NoId \notin SubscriptionIds

\* trialEnd is 0 when there is none.
Rows == [organisation : Organisations, status : Statuses,
         currentPeriodEnd : Nat, trialEnd : Nat, updatedAt : Days]

VARIABLES
  subscription,  \* table Subscription: primary key -> row
  organisation,  \* Organisation.status
  today,
  slot           \* the handler each slot is running

tables == <<subscription, organisation, today>>
vars == <<subscription, organisation, today, slot>>

\* The Prisma call a handler awaits next.
Points == {"idle", "create.insert", "create.organisation",
           "expired.update", "expired.organisation",
           "grace.find", "grace.update", "grace.organisation"}

Idle == [at |-> "idle", row |-> NoRow, id |-> NoId, todo |-> {}]
SlotStates == [at : Points,
               row : Rows \cup {NoRow},              \* being created
               id : SubscriptionIds \cup {NoId},     \* the job is working on
               todo : SUBSET SubscriptionIds]        \* and those after it

TypeOK ==
  /\ DOMAIN subscription \subseteq SubscriptionIds
  /\ \A s \in DOMAIN subscription : subscription[s] \in Rows
  /\ organisation \in [Organisations -> OrganisationStatuses]
  /\ today \in Days
  /\ slot \in [Slots -> SlotStates]

Init ==
  /\ subscription = [s \in {} |-> NoRow]
  /\ organisation = [o \in Organisations |-> "ACTIVE"]
  /\ today = 1
  /\ slot = [r \in Slots |-> Idle]

At(r, point) == slot[r].at = point
Move(r, state) == slot' = [slot EXCEPT ![r] = state]
Goto(r, point) == Move(r, [slot[r] EXCEPT !.at = point])
Return(r) == Move(r, Idle)

Of(o) == {s \in DOMAIN subscription : subscription[s].organisation = o}

SetStatus(s, status) ==
  subscription' = [subscription EXCEPT ![s].status = status, ![s].updatedAt = today]
SetOrganisation(o, status) == organisation' = [organisation EXCEPT ![o] = status]

\* Fault: statuses that withdraw access fall to the default.
OrganisationStatusDefault(status) ==
  CASE status = "ACTIVE" -> "ACTIVE"
    [] status = "TRIALING" -> "TRIAL"
    [] OTHER -> "INACTIVE"

\* The status an organisation is given with a subscription.
OrganisationStatus(status) ==
  CASE status = "ACTIVE" -> "ACTIVE"
    [] status = "TRIALING" -> "TRIAL"
    [] status = "PAST_DUE" -> "SUSPENDED"
    [] status = "CANCELLED" -> "CANCELLED"
    [] OTHER -> "INACTIVE"

-----------------------------------------------------------------------------
(* createOrganizationSubscription.                                         *)

\* Not expired, with the period of an ACTIVE one and the trial of the other.
TrulyActive(s) ==
  \/ /\ subscription[s].status = "ACTIVE"
     /\ today <= subscription[s].currentPeriodEnd
  \/ /\ subscription[s].status = "TRIALING"
     /\ subscription[s].trialEnd = 0 \/ today <= subscription[s].trialEnd

NewRow(o, plan, start) ==
  [organisation |-> o,
   status |-> IF plan.trial > 0 THEN "TRIALING" ELSE "ACTIVE",
   currentPeriodEnd |-> start + plan.length,
   trialEnd |-> IF plan.trial > 0 THEN start + plan.trial ELSE 0,
   updatedAt |-> today]

\* A bound: each insert under way still finds a key.
RoomForRow ==
  Cardinality(DOMAIN subscription) + Cardinality({r \in Slots : At(r, "create.insert")})
    < Cardinality(SubscriptionIds)

\* findFirst returns any one ACTIVE or TRIALING row (it states no order) and
\* only that one is looked at.  The organisation and the plan are read before.
CreateBegin(r) ==
  \E o \in Organisations, plan \in Plans, start \in StartDates \cup {today} :
    LET found == {s \in Of(o) : subscription[s].status \in {"ACTIVE", "TRIALING"}} IN
    /\ At(r, "idle")
    /\ RoomForRow
    /\ found = {} \/ \E s \in found : ~TrulyActive(s)
    /\ Move(r, [Idle EXCEPT !.at = "create.insert", !.row = NewRow(o, plan, start)])
    /\ UNCHANGED tables

CreateInsert(r) ==
  \E s \in SubscriptionIds \ DOMAIN subscription :
    /\ At(r, "create.insert")
    /\ subscription' = [x \in DOMAIN subscription \cup {s} |->
         IF x = s THEN [slot[r].row EXCEPT !.updatedAt = today] ELSE subscription[x]]
    /\ Goto(r, "create.organisation")
    /\ UNCHANGED <<organisation, today>>

CreateOrganisation(r) ==
  /\ At(r, "create.organisation")
  /\ SetOrganisation(slot[r].row.organisation, OrganisationStatus(slot[r].row.status))
  /\ Return(r)
  /\ UNCHANGED <<subscription, today>>

-----------------------------------------------------------------------------
(* Mutations of one write, on a row that always exists.                    *)

\* updateSubscription: the organisation is not touched.
UpdateSubscription(r) ==
  \E s \in DOMAIN subscription, u \in Updates :
    /\ At(r, "idle")
    /\ SetStatus(s, IF u = Unchanged THEN subscription[s].status ELSE u)
    /\ UNCHANGED <<organisation, today, slot>>

\* cancelSubscription, where operators cancel at all.
CancelSubscription(r) ==
  \E s \in DOMAIN subscription :
    /\ "CANCELLED" \in Updates
    /\ At(r, "idle")
    /\ SetStatus(s, "CANCELLED")
    /\ UNCHANGED <<organisation, today, slot>>

\* enableOrganization, disableOrganization and updateOrganizationStatus.
ManageOrganisation(r) ==
  \E o \in Organisations, status \in ManagedStatuses :
    /\ At(r, "idle")
    /\ organisation[o] # status
    /\ SetOrganisation(o, status)
    /\ UNCHANGED <<subscription, today, slot>>

-----------------------------------------------------------------------------
(* handleSubscriptionLifecycle.                                            *)

\* The filter of checkAndUpdateExpiredSubscriptions.
Expired(s) ==
  \/ subscription[s].status = "TRIALING" /\ subscription[s].trialEnd > 0
     /\ subscription[s].trialEnd < today
  \/ subscription[s].status = "ACTIVE" /\ subscription[s].currentPeriodEnd < today

\* Fault: a day on which the job did not run is not made up for.
PastGraceExact(s) ==
  /\ subscription[s].status = "PAST_DUE"
  /\ subscription[s].updatedAt = today - GracePeriod - 1
\* Fault: the grace period is not subtracted.
PastGraceNow(s) ==
  /\ subscription[s].status = "PAST_DUE"
  /\ subscription[s].updatedAt < today

\* The filter of checkAndCancelGracePeriodSubscriptions.
PastGrace(s) ==
  /\ subscription[s].status = "PAST_DUE"
  /\ subscription[s].updatedAt < today - GracePeriod

\* The loop of the given phase goes on with any subscription of todo, as the
\* query states no order; after the last, the next phase or the end.
TakeFrom(r, todo, update, after) ==
  \/ todo = {} /\ Move(r, after)
  \/ \E s \in todo :
       Move(r, [Idle EXCEPT !.at = update, !.id = s, !.todo = todo \ {s}])

GraceFind == [Idle EXCEPT !.at = "grace.find"]

ExpiredNext(r, todo) == TakeFrom(r, todo, "expired.update", GraceFind)
GraceNext(r, todo) == TakeFrom(r, todo, "grace.update", Idle)

\* Fault: a query of the trials only.
ExpiredFindTrials(r) ==
  /\ At(r, "idle")
  /\ ExpiredNext(r, {s \in DOMAIN subscription :
                      Expired(s) /\ subscription[s].status = "TRIALING"})
  /\ UNCHANGED tables

\* The timer or the mutation, and the first query.
ExpiredFind(r) ==
  /\ At(r, "idle")
  /\ ExpiredNext(r, {s \in DOMAIN subscription : Expired(s)})
  /\ UNCHANGED tables

\* Fault: a write that leaves updatedAt alone.
ExpiredUpdateUntouched(r) ==
  /\ At(r, "expired.update")
  /\ subscription' = [subscription EXCEPT ![slot[r].id].status = "PAST_DUE"]
  /\ Goto(r, "expired.organisation")
  /\ UNCHANGED <<organisation, today>>

ExpiredUpdate(r) ==
  /\ At(r, "expired.update")
  /\ SetStatus(slot[r].id, "PAST_DUE")
  /\ Goto(r, "expired.organisation")
  /\ UNCHANGED <<organisation, today>>

\* Fault: the organisation is cancelled at once.
ExpiredOrganisationCancel(r) ==
  /\ At(r, "expired.organisation")
  /\ SetOrganisation(subscription[slot[r].id].organisation, "CANCELLED")
  /\ ExpiredNext(r, slot[r].todo)
  /\ UNCHANGED <<subscription, today>>

ExpiredOrganisation(r) ==
  /\ At(r, "expired.organisation")
  /\ SetOrganisation(subscription[slot[r].id].organisation, OrganisationStatus("PAST_DUE"))
  /\ ExpiredNext(r, slot[r].todo)
  /\ UNCHANGED <<subscription, today>>

GraceQuery(r) ==
  /\ At(r, "grace.find")
  /\ GraceNext(r, {s \in DOMAIN subscription : PastGrace(s)})
  /\ UNCHANGED tables

GraceUpdate(r) ==
  /\ At(r, "grace.update")
  /\ SetStatus(slot[r].id, "CANCELLED")
  /\ Goto(r, "grace.organisation")
  /\ UNCHANGED <<organisation, today>>

\* Fault: the organisation keeps the status it has.
GraceOrganisationKept(r) ==
  /\ At(r, "grace.organisation")
  /\ GraceNext(r, slot[r].todo)
  /\ UNCHANGED tables

GraceOrganisation(r) ==
  /\ At(r, "grace.organisation")
  /\ SetOrganisation(subscription[slot[r].id].organisation, OrganisationStatus("CANCELLED"))
  /\ GraceNext(r, slot[r].todo)
  /\ UNCHANGED <<subscription, today>>

-----------------------------------------------------------------------------
(* Failures and time.                                                      *)

\* A call rejects.  The first check's errors are caught, so the second runs;
\* an error of the update of an organisation is caught, so the loop goes on.
Reject(r) ==
  /\ CanFail
  /\ \/ At(r, "create.insert") /\ Return(r)
     \/ At(r, "create.organisation") /\ Return(r)
     \/ At(r, "idle") /\ Move(r, GraceFind)
     \/ At(r, "expired.update") /\ Move(r, GraceFind)
     \/ At(r, "expired.organisation") /\ ExpiredNext(r, slot[r].todo)
     \/ At(r, "grace.find") /\ Return(r)
     \/ At(r, "grace.update") /\ Return(r)
     \/ At(r, "grace.organisation") /\ GraceNext(r, slot[r].todo)
  /\ UNCHANGED tables

\* The server stops; what the handlers have written stays.
Stop ==
  /\ CanFail
  /\ slot' = [r \in Slots |-> Idle]
  /\ UNCHANGED tables

Tick ==
  /\ today < LastDay
  /\ today' = today + 1
  /\ UNCHANGED <<subscription, organisation, slot>>

MutationStep(r) ==
  \/ CreateBegin(r) \/ CreateInsert(r) \/ CreateOrganisation(r)
  \/ UpdateSubscription(r) \/ CancelSubscription(r) \/ ManageOrganisation(r)

LifecycleStep(r) ==
  \/ ExpiredFind(r) \/ ExpiredUpdate(r) \/ ExpiredOrganisation(r)
  \/ GraceQuery(r) \/ GraceUpdate(r) \/ GraceOrganisation(r)

Next ==
  \/ \E r \in Slots : MutationStep(r) \/ LifecycleStep(r) \/ Reject(r)
  \/ Stop
  \/ Tick

Spec == Init /\ [][Next]_vars

\* The timer fires every hour whatever else is served, time passes, a handler
\* under way does not halt, and a call of the job that is made again and again
\* succeeds some time (strong fairness: it may fail each time but not forever).
Fairness ==
  /\ WF_vars(Tick)
  /\ \A r \in Slots :
       /\ SF_vars(ExpiredFind(r)) /\ SF_vars(ExpiredUpdate(r))
       /\ SF_vars(GraceQuery(r)) /\ SF_vars(GraceUpdate(r))
       /\ WF_vars(\/ CreateInsert(r) \/ CreateOrganisation(r)
                  \/ ExpiredOrganisation(r) \/ GraceOrganisation(r))

FairSpec == Spec /\ Fairness

-----------------------------------------------------------------------------
(* Properties that hold however handlers overlap and fail, as long as no   *)
(* operator declares a subscription past due or cancels one, and no        *)
(* manager suspends or cancels an organisation.                            *)

\* The day the term ends that the status first depends on.
TermEnd(s) ==
  IF subscription[s].trialEnd \in 1..subscription[s].currentPeriodEnd
    THEN subscription[s].trialEnd
    ELSE subscription[s].currentPeriodEnd

Lapsed(s) == TermEnd(s) < today
\* More than GracePeriod whole days lie between the end of the term and now.
Forfeited(s) == TermEnd(s) + 1 + GracePeriod < today

\* An organisation is suspended only if a term of one of its subscriptions is
\* over, and cancelled only if the grace period after it is over as well,
\* however old the list is that the job works through.
AccessKept ==
  \A o \in Organisations :
    /\ organisation[o] = "SUSPENDED" => \E s \in Of(o) : Lapsed(s)
    /\ organisation[o] = "CANCELLED" => \E s \in Of(o) : Forfeited(s)

\* No subscription is cancelled before its grace period is over.
CancelsAfterGrace ==
  [][\A s \in DOMAIN subscription :
       subscription[s].status # "CANCELLED" /\ subscription'[s].status = "CANCELLED"
         => Forfeited(s)]_vars

\* The subscriptions a run of the job has before it.
Pending(r) == slot[r].todo \cup ({slot[r].id} \ {NoId})

SlotInv(r) ==
  /\ At(r, "create.insert") \/ At(r, "create.organisation") =>
       /\ slot[r].row \in Rows
       /\ slot[r].row.status \in {"ACTIVE", "TRIALING"}
  /\ \/ At(r, "expired.update") \/ At(r, "expired.organisation")
     \/ At(r, "grace.update") \/ At(r, "grace.organisation")
     => slot[r].id \in DOMAIN subscription /\ slot[r].todo \subseteq DOMAIN subscription
  /\ At(r, "expired.update") \/ At(r, "expired.organisation") =>
       \A s \in Pending(r) : Lapsed(s)
  /\ At(r, "grace.update") \/ At(r, "grace.organisation") =>
       \A s \in Pending(r) : Forfeited(s)

\* A status of PAST_DUE was written, or renewed, after the end of the term.
RowInv(s) ==
  /\ subscription[s].status = "PAST_DUE" => TermEnd(s) < subscription[s].updatedAt
  /\ subscription[s].updatedAt <= today

\* The inductive invariant: what the job found stays true while it waits, and
\* the last write to a row that is past due came after the end of its term.
LifecycleInv ==
  /\ TypeOK
  /\ \A r \in Slots : SlotInv(r)
  /\ \A s \in DOMAIN subscription : RowInv(s)
  /\ AccessKept

-----------------------------------------------------------------------------
(* Liveness, under the fairness above.                                     *)

\* Every expired subscription is handled, whatever fails on the way.
ExpiredIsHandled ==
  \A s \in SubscriptionIds :
    LET due == s \in DOMAIN subscription /\ Expired(s) IN due ~> ~due

\* A subscription left past due is cancelled when the grace period is over (as
\* far as time goes), unless a write to it starts the period again too late.
LapsedIsCancelled ==
  \A s \in SubscriptionIds :
    LET waiting == /\ s \in DOMAIN subscription
                   /\ subscription[s].status = "PAST_DUE"
                   /\ subscription[s].updatedAt + GracePeriod < LastDay
    IN waiting ~> ~waiting

-----------------------------------------------------------------------------
(* A statement of the code's comments that its behaviour contradicts.      *)

\* Update organization status based on subscription status
\* (updateOrganizationStatusFromSubscription): an organisation with a
\* subscription in force is not suspended or cancelled.
RenewalKeepsAccess ==
  (\A r \in Slots : slot[r] = Idle) =>
    \A s \in DOMAIN subscription :
      TrulyActive(s) => organisation[subscription[s].organisation] \in {"ACTIVE", "TRIAL"}

=============================================================================
