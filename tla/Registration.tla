---------------------------- MODULE Registration ----------------------------
(***************************************************************************)
(* Registrations for one event, and the payments for them: the mutations   *)
(* of events/events.service.ts and the Paystack webhook of subscriptions/  *)
(* services/webhook.service.ts that reports how a charge went.             *)
(*                                                                         *)
(* A request or a delivery of a webhook occupies a slot; an action is one  *)
(* Prisma call with the synchronous code up to the next, the arrival of a  *)
(* request with its first one.  A charge is known by its reference.        *)
(* Paystack is external: a charge may fail, and then succeed in a second   *)
(* attempt; each outcome is reported until an answer says that it was      *)
(* processed, also while a report of it is under way.                      *)
(***************************************************************************)
EXTENDS Integers, FiniteSets

CONSTANTS
  Slots,            \* handlers served at the same time
  RegistrationIds,  \* primary keys of registrations (a bound: no insert without one)
  People,           \* who registers, by member and e-mail address
  References,       \* of charges
  Capacity,         \* places of the event
  IsFree,           \* whether the event is free
  NewStatus,        \* PENDING if the event requires approval, else ATTENDING
  ClientStatuses,   \* statuses that clients give registrations they create
  UpdateStatuses,   \* statuses that updateEventRegistration sets
  EnteredPayments,  \* values of paymentStatus that it sets
  CanFail,          \* whether an awaited call may reject or the server stop
  NoRow, NoId, NoReference, NoReport

\* RSVPStatus.
Statuses == {"PENDING", "ATTENDING", "NOT_ATTENDING", "MAYBE", "CANCELLED"}
\* Those that take a place.
Counted == {"ATTENDING", "PENDING"}

\* paymentStatus; "none" when the column is null.
Payments == {"none", "not_required", "pending", "completed", "failed"}
Rows == [person : People, status : Statuses, payment : Payments,
         reference : References \cup {NoReference}]

\* What a webhook reports.
Reports == [reference : References, outcome : {"success", "failed"}]

ASSUME RegistrationAssumption ==
  /\ IsFiniteSet(Slots) /\ IsFiniteSet(RegistrationIds)
  /\ Capacity \in Nat \ {0} /\ IsFree \in BOOLEAN
  /\ NewStatus \in {"PENDING", "ATTENDING"}
  /\ ClientStatuses \subseteq Statuses /\ UpdateStatuses \subseteq Statuses
  /\ EnteredPayments \subseteq Payments /\ CanFail \in BOOLEAN
  /\ NoRow \notin Rows /\ NoReport \notin Reports
  /\ NoId \notin RegistrationIds /\ NoReference \notin References

VARIABLES
  registration,  \* table EventRegistration: primary key -> row, NoRow if none
  deleted,       \* primary keys that are used up
  charge,        \* Paystack: what has become of each charge
  unconfirmed,   \* Paystack: reports that no answer has confirmed
  stuck,         \* table WebhookEvent: rows left unprocessed, by their report
  slot,          \* the handler each slot is running
  revived,       \* history: registrations an update gave a place again
  reported,      \* history: references whose success a handler has looked up
  missed,        \* history: registrations that such a handler did not find
  entered        \* history: registrations with payment fields from a client

tables == <<registration, deleted>>
paystack == <<charge, unconfirmed>>
history == <<revived, reported, missed, entered>>
vars == <<registration, deleted, charge, unconfirmed, stuck, slot, revived, reported, missed, entered>>

\* The Prisma call a handler awaits next.
Points == {"idle", "duplicate", "reference", "insert", "find", "update", "processed"}

Idle == [at |-> "idle", row |-> NoRow, report |-> NoReport, id |-> NoId,
         retry |-> FALSE, todo |-> {}]
SlotStates ==
  [at : Points,
   row : Rows \cup {NoRow},               \* to be inserted
   report : Reports \cup {NoReport},      \* being handled
   id : RegistrationIds \cup {NoId},      \* found for it
   retry : BOOLEAN, todo : SUBSET Reports]  \* by a retry, which has more to do

TypeOK ==
  /\ registration \in [RegistrationIds -> Rows \cup {NoRow}]
  /\ deleted \subseteq RegistrationIds
  /\ charge \in [References -> {"none", "failed", "success"}]
  /\ unconfirmed \subseteq Reports
  /\ stuck \subseteq Reports
  /\ slot \in [Slots -> SlotStates]
  /\ revived \subseteq RegistrationIds
  /\ reported \subseteq References
  /\ missed \subseteq RegistrationIds
  /\ entered \subseteq RegistrationIds

Init ==
  /\ registration = [i \in RegistrationIds |-> NoRow]
  /\ deleted = {}
  /\ charge = [x \in References |-> "none"]
  /\ unconfirmed = {}
  /\ stuck = {}
  /\ slot = [r \in Slots |-> Idle]
  /\ revived = {}
  /\ reported = {}
  /\ missed = {}
  /\ entered = {}

At(r, point) == slot[r].at = point
Move(r, state) == slot' = [slot EXCEPT ![r] = state]
Goto(r, point) == Move(r, [slot[r] EXCEPT !.at = point])
Return(r) == Move(r, Idle)

Live == {i \in RegistrationIds : registration[i] # NoRow}
Seated == {i \in Live : registration[i].status \in Counted}
Of(p) == {i \in Live : registration[i].person = p}
PaidWith(x) == {i \in Live : registration[i].reference = x}
\* Those that verifyAndRegisterForEvent inserted and no client has written to.
RegisteredWith(x) == PaidWith(x) \ entered

-----------------------------------------------------------------------------
(* createEventRegistration, registerForFreeEvent, verifyAndRegisterForEvent*)
(* The event, read first, does not change.                                 *)

\* Rows that the three of them create; only free events take the second kind.
Requests ==
  [person : People, status : ClientStatuses, payment : {"none"}, reference : {NoReference}]
  \cup [person : People, status : {NewStatus}, payment : IF IsFree THEN {"not_required"} ELSE {},
        reference : {NoReference}]
  \cup [person : People, status : {NewStatus}, payment : {"pending"}, reference : References]

\* Fault: an event with as many registrations as places takes one more.
CountPlacesLate(r) ==
  \E row \in Requests :
    /\ At(r, "idle")
    /\ Cardinality(Seated) <= Capacity
    /\ Move(r, [Idle EXCEPT !.at = "duplicate", !.row = row])
    /\ UNCHANGED <<tables, paystack, stuck, history>>

\* The first call; a request for a full event is refused, and nothing changes.
CountPlaces(r) ==
  \E row \in Requests :
    /\ At(r, "idle")
    /\ Cardinality(Seated) < Capacity
    /\ Move(r, [Idle EXCEPT !.at = "duplicate", !.row = row])
    /\ UNCHANGED <<tables, paystack, stuck, history>>

FindDuplicate(r) ==
  /\ At(r, "duplicate")
  /\ IF Of(slot[r].row.person) # {} THEN Return(r)
     ELSE Goto(r, IF slot[r].row.payment = "pending" THEN "reference" ELSE "insert")
  /\ UNCHANGED <<tables, paystack, stuck, history>>

\* Fault: only a payment that was recorded counts as used.
FindReferencePaid(r) ==
  /\ At(r, "reference")
  /\ IF \E i \in PaidWith(slot[r].row.reference) : registration[i].payment = "completed"
       THEN Return(r) ELSE Goto(r, "insert")
  /\ UNCHANGED <<tables, paystack, stuck, history>>

FindReference(r) ==
  /\ At(r, "reference")
  /\ IF PaidWith(slot[r].row.reference) # {} THEN Return(r) ELSE Goto(r, "insert")
  /\ UNCHANGED <<tables, paystack, stuck, history>>

\* Unique indexes refuse a second row of a person; none covers the reference.
Insert(r) ==
  /\ At(r, "insert")
  /\ \/ /\ Of(slot[r].row.person) = {}
        /\ \E i \in RegistrationIds \ (Live \cup deleted) :
             /\ registration' = [registration EXCEPT ![i] = slot[r].row]
             /\ missed' = IF slot[r].row.reference \in reported THEN missed \cup {i} ELSE missed
     \/ Of(slot[r].row.person) # {} /\ UNCHANGED <<registration, missed>>
  /\ Return(r)
  /\ UNCHANGED <<deleted, paystack, stuck, revived, reported, entered>>

-----------------------------------------------------------------------------
(* Mutations of one write.                                                 *)

\* Those that have their places from an update, once one has given i status s.
RevivedBy(i, s) ==
  CASE s \notin Counted -> revived \ {i}
    [] s \in Counted /\ i \notin Seated -> revived \cup {i}
    [] OTHER -> revived

\* updateEventRegistration counts no places.
UpdateRegistration(r) ==
  \E i \in Live, s \in UpdateStatuses :
    /\ At(r, "idle")
    /\ registration' = [registration EXCEPT ![i].status = s]
    /\ revived' = RevivedBy(i, s)
    /\ UNCHANGED <<deleted, paystack, stuck, slot, reported, missed, entered>>

\* The payment fields are part of its input too, as they are of that of
\* createEventRegistration: a payment entered there is one entered here at once.
EnterPayment(r) ==
  \E i \in Live, payment \in EnteredPayments, x \in References :
    /\ At(r, "idle")
    /\ registration' = [registration EXCEPT ![i].payment = payment, ![i].reference = x]
    /\ entered' = entered \cup {i}
    /\ UNCHANGED <<deleted, paystack, stuck, slot, revived, reported, missed>>

RejectRegistration(r) ==
  \E i \in Live :
    /\ At(r, "idle")
    /\ registration' = [registration EXCEPT ![i].status = "CANCELLED"]
    /\ revived' = RevivedBy(i, "CANCELLED")
    /\ UNCHANGED <<deleted, paystack, stuck, slot, reported, missed, entered>>

DeleteRegistration(r) ==
  \E i \in Live :
    /\ At(r, "idle")
    /\ registration' = [registration EXCEPT ![i] = NoRow]
    /\ deleted' = deleted \cup {i}
    /\ revived' = revived \ {i} /\ missed' = missed \ {i} /\ entered' = entered \ {i}
    /\ UNCHANGED <<paystack, stuck, slot, reported>>

-----------------------------------------------------------------------------
(* Paystack.                                                               *)

\* A success is final.
Charge(x) ==
  \E outcome \in {"failed", "success"} :
    /\ charge[x] # "success" /\ charge[x] # outcome
    /\ charge' = [charge EXCEPT ![x] = outcome]
    /\ unconfirmed' = unconfirmed \cup {[reference |-> x, outcome |-> outcome]}
    /\ UNCHANGED <<tables, stuck, slot, history>>

-----------------------------------------------------------------------------
(* The webhook: processWebhookEvent with the two handlers of registrations.*)

\* A delivery, and the insert of its row, with processed FALSE.
LogReport(r) ==
  \E w \in unconfirmed :
    /\ At(r, "idle")
    /\ Move(r, [Idle EXCEPT !.at = "find", !.report = w])
    /\ UNCHANGED <<tables, paystack, stuck, history>>

\* Reports whose WebhookEvent row is not, or not yet, processed.
Unprocessed ==
  stuck \cup {slot[r].report : r \in {q \in Slots : slot[q].report # NoReport}}

\* retryFailedWebhookEvents: the reports it found are handled one by one, each
\* with a row of its own.
Retry(r) ==
  \E todo \in SUBSET Unprocessed :
    /\ At(r, "idle")
    /\ \E w \in todo :
         Move(r, [Idle EXCEPT !.at = "find", !.report = w, !.retry = TRUE, !.todo = todo \ {w}])
    /\ UNCHANGED <<tables, paystack, stuck, history>>

\* Any registration with the reference; without one nothing is done.
FindRegistration(r) ==
  LET w == slot[r].report
      found == PaidWith(w.reference)
  IN
    /\ At(r, "find")
    /\ \/ \E i \in found :
            /\ Move(r, [slot[r] EXCEPT !.at = "update", !.id = i])
            /\ missed' = IF w.outcome = "success" THEN missed \cup (found \ {i}) ELSE missed
       \/ found = {} /\ Goto(r, "processed") /\ UNCHANGED missed
    /\ reported' = IF w.outcome = "success" THEN reported \cup {w.reference} ELSE reported
    /\ UNCHANGED <<tables, paystack, stuck, revived, entered>>

\* Fault: what the handler reports is not told apart.
RecordAnyOutcome(r) ==
  /\ At(r, "update") /\ slot[r].id \in Live
  /\ registration' = [registration EXCEPT ![slot[r].id].payment = "completed"]
  /\ Goto(r, "processed")
  /\ UNCHANGED <<deleted, paystack, stuck, history>>

\* 'completed' or 'failed', unless the registration has been deleted.
RecordOutcome(r) ==
  /\ At(r, "update") /\ slot[r].id \in Live
  /\ registration' = [registration EXCEPT ![slot[r].id].payment =
       IF slot[r].report.outcome = "success" THEN "completed" ELSE "failed"]
  /\ Goto(r, "processed")
  /\ UNCHANGED <<deleted, paystack, stuck, history>>

\* The end of the handler, or the next report of a retry; one whose row cannot
\* be inserted is passed over.
NextReport(r) ==
  \/ (slot[r].todo = {} \/ CanFail) /\ Return(r)
  \/ \E w \in slot[r].todo :
       Move(r, [slot[r] EXCEPT !.at = "find", !.report = w, !.id = NoId, !.todo = @ \ {w}])

\* The row is marked processed; the answer confirms the report to Paystack.
MarkProcessed(r) ==
  /\ At(r, "processed")
  /\ unconfirmed' = IF slot[r].retry THEN unconfirmed ELSE unconfirmed \ {slot[r].report}
  /\ NextReport(r)
  /\ UNCHANGED <<tables, charge, stuck, history>>

-----------------------------------------------------------------------------
(* Failures.                                                               *)

\* A call of a registration rejects: nothing has been written.
RejectCall(r) ==
  /\ CanFail
  /\ slot[r].at \in {"duplicate", "reference", "insert"}
  /\ Return(r)
  /\ UNCHANGED <<tables, paystack, stuck, history>>

HandlerFails(r) ==
  \/ CanFail /\ slot[r].at \in {"find", "update", "processed"}
  \/ At(r, "update") /\ slot[r].id \notin Live

\* Fault: a failure is answered like a success.
FailReportConfirmed(r) ==
  /\ HandlerFails(r)
  /\ stuck' = stuck \cup {slot[r].report}
  /\ unconfirmed' = unconfirmed \ {slot[r].report}
  /\ NextReport(r)
  /\ UNCHANGED <<tables, charge, history>>

\* A call of a webhook rejects, as the update always does when the registration
\* has been deleted.  The row, with or without the error, stays unprocessed for
\* ever: a retry has a row of its own.
FailReport(r) ==
  /\ HandlerFails(r)
  /\ stuck' = stuck \cup {slot[r].report}
  /\ NextReport(r)
  /\ UNCHANGED <<tables, paystack, history>>

\* The server stops; rows of reports under way stay unprocessed.
Stop ==
  /\ CanFail
  /\ stuck' = Unprocessed
  /\ slot' = [r \in Slots |-> Idle]
  /\ UNCHANGED <<tables, paystack, history>>

RegisterStep(r) ==
  \/ CountPlaces(r) \/ FindDuplicate(r) \/ FindReference(r) \/ Insert(r)
  \/ UpdateRegistration(r) \/ EnterPayment(r) \/ RejectRegistration(r) \/ DeleteRegistration(r)

WebhookStep(r) ==
  \/ LogReport(r) \/ Retry(r) \/ FindRegistration(r)
  \/ RecordOutcome(r) \/ MarkProcessed(r)

Next ==
  \/ \E r \in Slots : RegisterStep(r) \/ WebhookStep(r) \/ RejectCall(r) \/ FailReport(r)
  \/ \E x \in References : Charge(x)
  \/ Stop

Spec == Init /\ [][Next]_vars

Succeeded(x) == [reference |-> x, outcome |-> "success"]

-----------------------------------------------------------------------------
(* Places.                                                                 *)

\* Handlers that have found a place free and not taken it yet.
Admitted == {r \in Slots : slot[r].at \in {"duplicate", "reference", "insert"}}

\* The count and the insert are apart: the event is overbooked, and by no more
\* than one registration for each other handler served at the same time (and
\* those that an update put back).  With one slot, the capacity holds.
OverbookedBound ==
  Cardinality(Seated \ revived) + Cardinality(Admitted) <= Capacity - 1 + Cardinality(Slots)

\* Handlers that have found a reference unused and not used it yet.
UsesReference(x) == {r \in Slots : At(r, "insert") /\ slot[r].row.reference = x}

\* So are the check of the reference and the insert: one payment serves as many
\* registrations as handlers are served at the same time, and no more.
SharedPaymentBound ==
  \A x \in References :
    Cardinality(RegisteredWith(x)) + Cardinality(UsesReference(x)) <= Cardinality(Slots)

-----------------------------------------------------------------------------
(* Payments.                                                               *)

\* A registration is recorded as paid only if the charge it names succeeded,
\* however late, often and in whatever order the reports are handled.
CompletedWasPaid ==
  \A i \in Live \ entered : registration[i].payment = "completed" =>
    /\ registration[i].reference \in References
    /\ charge[registration[i].reference] = "success"

\* A success that is not recorded yet is one that Paystack goes on reporting,
\* whatever fails and stops, unless a handler of it missed the registration: it
\* was inserted after the report, or another one has the same reference.
SuccessIsNotLost ==
  \A i \in Live \ (missed \cup entered) :
    LET x == registration[i].reference IN
      registration[i].payment = "pending" /\ charge[x] = "success" => Succeeded(x) \in unconfirmed

-----------------------------------------------------------------------------
(* The inductive invariant.                                                *)

\* What a handler holds at each call.  Keys are not used again, so the row it
\* found is still the one with the reference, if it has not been deleted.
HandlerHolds(r) ==
  /\ slot[r].at \in {"duplicate", "reference", "insert"} => slot[r].row \in Requests
  /\ slot[r].at \in {"find", "update", "processed"} => slot[r].report \in Reports
  /\ At(r, "update") =>
       /\ slot[r].id \in Live \cup deleted
       /\ slot[r].id \in Live \ entered => registration[slot[r].id].reference = slot[r].report.reference

\* Reports that are on their way, or may be handled again.
Held == UNION {slot[r].todo : r \in Slots}

ReportsAreTrue ==
  \A w \in unconfirmed \cup Unprocessed \cup Held :
    w.outcome = "success" => charge[w.reference] = "success"

\* How far a handler has got with a success.
SuccessInHand(r, x) ==
  /\ At(r, "update") => x \in reported /\ RegisteredWith(x) \ missed \subseteq {slot[r].id}
  /\ At(r, "processed") =>
       x \in reported /\ \A i \in RegisteredWith(x) \ missed : registration[i].payment # "pending"

\* Types, and what the handlers know of the tables and of Paystack.
RegistrationInv ==
  /\ TypeOK
  /\ \A r \in Slots : HandlerHolds(r)
  /\ \A i \in Live \ entered : registration[i].payment = "pending" => registration[i].reference \in References
  /\ ReportsAreTrue
  /\ \A x \in References \ reported : charge[x] = "success" => Succeeded(x) \in unconfirmed
  /\ \A r \in Slots, x \in References : slot[r].report = Succeeded(x) => SuccessInHand(r, x)

=============================================================================
