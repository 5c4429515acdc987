------------------------- MODULE SubscriptionProofs -------------------------
(***************************************************************************)
(* Theorems about Subscription and SubscriptionHistory.  As long as no     *)
(* operator declares a subscription past due or cancels one, and no        *)
(* manager suspends or cancels an organisation, access is withdrawn, and   *)
(* subscriptions are cancelled, only when the term (and the grace period)  *)
(* is over, for any number of overlapping and failing runs of the job and  *)
(* of mutations.  And, with no such condition, an organisation's status    *)
(* follows its subscription but for what SubscriptionHistory records.      *)
(***************************************************************************)
EXTENDS SubscriptionHistory, TLAPS

\* Nobody but the job withdraws access.
OnlyTheJob ==
  /\ Updates \cap {"PAST_DUE", "CANCELLED"} = {}
  /\ ManagedStatuses \cap {"SUSPENDED", "CANCELLED"} = {}

\* What no step does: take rows away, change whose they are or their term, or
\* turn time back.
Kept ==
  /\ DOMAIN subscription \subseteq DOMAIN subscription'
  /\ \A s \in DOMAIN subscription :
       /\ subscription'[s].organisation = subscription[s].organisation
       /\ subscription'[s].currentPeriodEnd = subscription[s].currentPeriodEnd
       /\ subscription'[s].trialEnd = subscription[s].trialEnd
  /\ today <= today'

LEMMA TermIsNat ==
  ASSUME TypeOK, NEW s \in DOMAIN subscription
  PROVE  /\ TermEnd(s) \in Nat
         /\ today \in Nat /\ GracePeriod \in Nat
         /\ subscription[s].updatedAt \in Nat
  BY DatesAssumption DEF TypeOK, TermEnd, Rows, Days

LEMMA KeptTerm ==
  ASSUME TypeOK, TypeOK', Kept, NEW s \in DOMAIN subscription
  PROVE  /\ s \in DOMAIN subscription'
         /\ TermEnd(s)' = TermEnd(s)
         /\ Lapsed(s) => Lapsed(s)'
         /\ Forfeited(s) => Forfeited(s)'
<1>1. s \in DOMAIN subscription' /\ TermEnd(s)' = TermEnd(s)
  BY DEF Kept, TermEnd
<1>2. TermEnd(s) \in Nat /\ today \in Nat /\ GracePeriod \in Nat /\ today' \in Nat
  BY TermIsNat, DatesAssumption DEF TypeOK, Days
<1>3. today <= today'
  BY DEF Kept
<1> QED
  BY <1>1, <1>2, <1>3 DEF Lapsed, Forfeited

\* What a run of the job carries over an await stays true.
LEMMA SlotKept ==
  ASSUME TypeOK, TypeOK', Kept, NEW q \in Slots, SlotInv(q), slot'[q] = slot[q]
  PROVE  SlotInv(q)'
<1>1. ASSUME slot[q].id \in DOMAIN subscription, slot[q].todo \subseteq DOMAIN subscription
      PROVE  Pending(q) \subseteq DOMAIN subscription
  BY <1>1 DEF Pending
<1>2. Pending(q)' = Pending(q)
  BY DEF Pending
<1>3. DOMAIN subscription \subseteq DOMAIN subscription'
  BY DEF Kept
<1> QED
  BY <1>1, <1>2, <1>3, KeptTerm DEF SlotInv, At

LEMMA AccessStays ==
  ASSUME TypeOK, TypeOK', Kept, AccessKept, organisation' = organisation
  PROVE  AccessKept'
<1> SUFFICES ASSUME NEW o \in Organisations
             PROVE  /\ organisation[o] = "SUSPENDED" => \E s \in Of(o)' : Lapsed(s)'
                    /\ organisation[o] = "CANCELLED" => \E s \in Of(o)' : Forfeited(s)'
  BY DEF AccessKept
<1>1. Of(o) \subseteq Of(o)'
  BY DEF Of, Kept
<1>2. \A s \in Of(o) : s \in DOMAIN subscription
  BY DEF Of
<1> QED
  BY <1>1, <1>2, KeptTerm DEF AccessKept

\* An organisation's status is written; the rows stay.
LEMMA AccessSet ==
  ASSUME TypeOK, TypeOK', AccessKept, NEW o \in Organisations,
         NEW status \in OrganisationStatuses, SetOrganisation(o, status),
         UNCHANGED <<subscription, today>>,
         status = "SUSPENDED" => \E s \in Of(o) : Lapsed(s),
         status = "CANCELLED" => \E s \in Of(o) : Forfeited(s)
  PROVE  AccessKept'
<1>1. \A x \in Organisations : organisation'[x] = IF x = o THEN status ELSE organisation[x]
  BY DEF SetOrganisation, TypeOK
<1>2. \A x \in Organisations : Of(x)' = Of(x)
  BY DEF Of
<1>3. \A s \in DOMAIN subscription :
        (Lapsed(s)' <=> Lapsed(s)) /\ (Forfeited(s)' <=> Forfeited(s))
  BY DEF Lapsed, Forfeited, TermEnd
<1>4. \A x \in Organisations : Of(x) \subseteq DOMAIN subscription
  BY DEF Of
<1> QED
  BY <1>1, <1>2, <1>3, <1>4 DEF AccessKept

LEMMA MoveEffect ==
  ASSUME TypeOK, NEW r \in Slots, NEW state \in SlotStates, Move(r, state)
  PROVE  /\ slot' \in [Slots -> SlotStates]
         /\ slot'[r] = state
         /\ \A q \in Slots \ {r} : slot'[q] = slot[q]
  BY DEF Move, TypeOK

\* The first row of a list goes to work, or the list is done with.
LEMMA TakeEffect ==
  ASSUME TypeOK, NEW r \in Slots, NEW todo, todo \subseteq DOMAIN subscription,
         NEW update \in Points, NEW after \in SlotStates,
         TakeFrom(r, todo, update, after)
  PROVE  /\ slot' \in [Slots -> SlotStates]
         /\ \A q \in Slots \ {r} : slot'[q] = slot[q]
         /\ \/ slot'[r] = after
            \/ /\ slot'[r].at = update
               /\ slot'[r].id \in todo /\ slot'[r].todo \subseteq todo
<1>1. CASE todo = {} /\ Move(r, after)
  BY <1>1, MoveEffect
<1>2. CASE \E s \in todo :
             Move(r, [Idle EXCEPT !.at = update, !.id = s, !.todo = todo \ {s}])
  <2>1. PICK s \in todo :
          Move(r, [Idle EXCEPT !.at = update, !.id = s, !.todo = todo \ {s}])
    BY <1>2
  <2> DEFINE state == [Idle EXCEPT !.at = update, !.id = s, !.todo = todo \ {s}]
  <2>2. /\ state \in SlotStates /\ state.at = update
        /\ state.id = s /\ state.todo = todo \ {s}
    BY DEF Idle, SlotStates, TypeOK
  <2>3. Move(r, state)
    BY <2>1
  <2> HIDE DEF state
  <2> QED
    BY <2>2, <2>3, MoveEffect
<1> QED
  BY <1>1, <1>2 DEF TakeFrom

LEMMA ExpiredNextEffect ==
  ASSUME TypeOK, NEW r \in Slots, NEW todo, todo \subseteq DOMAIN subscription,
         \A s \in todo : Lapsed(s), ExpiredNext(r, todo), UNCHANGED <<subscription, today>>
  PROVE  /\ slot' \in [Slots -> SlotStates]
         /\ \A q \in Slots \ {r} : slot'[q] = slot[q]
         /\ SlotInv(r)'
<1>1. GraceFind \in SlotStates /\ GraceFind.at = "grace.find" /\ "expired.update" \in Points
  BY DEF GraceFind, Idle, SlotStates, Points
<1>2. /\ slot' \in [Slots -> SlotStates]
      /\ \A q \in Slots \ {r} : slot'[q] = slot[q]
      /\ \/ slot'[r] = GraceFind
         \/ /\ slot'[r].at = "expired.update"
            /\ slot'[r].id \in todo /\ slot'[r].todo \subseteq todo
  BY <1>1, TakeEffect DEF ExpiredNext
<1>3. SlotInv(r)'
  BY <1>1, <1>2 DEF SlotInv, At, Pending, Lapsed, TermEnd
<1> QED
  BY <1>2, <1>3

LEMMA GraceNextEffect ==
  ASSUME TypeOK, NEW r \in Slots, NEW todo, todo \subseteq DOMAIN subscription,
         \A s \in todo : Forfeited(s), GraceNext(r, todo), UNCHANGED <<subscription, today>>
  PROVE  /\ slot' \in [Slots -> SlotStates]
         /\ \A q \in Slots \ {r} : slot'[q] = slot[q]
         /\ SlotInv(r)'
<1>1. Idle \in SlotStates /\ Idle.at = "idle" /\ "grace.update" \in Points
  BY DEF Idle, SlotStates, Points
<1>2. /\ slot' \in [Slots -> SlotStates]
      /\ \A q \in Slots \ {r} : slot'[q] = slot[q]
      /\ \/ slot'[r] = Idle
         \/ /\ slot'[r].at = "grace.update"
            /\ slot'[r].id \in todo /\ slot'[r].todo \subseteq todo
  BY <1>1, TakeEffect DEF GraceNext
<1>3. SlotInv(r)'
  BY <1>1, <1>2 DEF SlotInv, At, Pending, Forfeited, TermEnd
<1> QED
  BY <1>2, <1>3

\* A status is written.
LEMMA StatusEffect ==
  ASSUME LifecycleInv, NEW s \in DOMAIN subscription, NEW status \in Statuses,
         SetStatus(s, status), today' = today,
         status = "PAST_DUE" => Lapsed(s)
  PROVE  /\ Kept
         /\ DOMAIN subscription' = DOMAIN subscription
         /\ \A x \in DOMAIN subscription' : subscription'[x] \in Rows /\ RowInv(x)'
         /\ \A x \in DOMAIN subscription \ {s} : subscription'[x] = subscription[x]
         /\ subscription'[s].status = status
<1>1. /\ DOMAIN subscription' = DOMAIN subscription
      /\ \A x \in DOMAIN subscription \ {s} : subscription'[x] = subscription[x]
      /\ subscription'[s] = [subscription[s] EXCEPT !.status = status, !.updatedAt = today]
  BY DEF SetStatus
<1>2. /\ subscription[s] \in Rows /\ today \in Days /\ today \in Nat
  BY TermIsNat DEF LifecycleInv, TypeOK
<1>3. /\ subscription'[s] \in Rows
      /\ subscription'[s].organisation = subscription[s].organisation
      /\ subscription'[s].currentPeriodEnd = subscription[s].currentPeriodEnd
      /\ subscription'[s].trialEnd = subscription[s].trialEnd
      /\ subscription'[s].status = status /\ subscription'[s].updatedAt = today
  BY <1>1, <1>2 DEF Rows
<1>4. Kept
  <2>1. ASSUME NEW x \in DOMAIN subscription
        PROVE  /\ subscription'[x].organisation = subscription[x].organisation
               /\ subscription'[x].currentPeriodEnd = subscription[x].currentPeriodEnd
               /\ subscription'[x].trialEnd = subscription[x].trialEnd
    <3>1. CASE x = s
      BY <3>1, <1>3
    <3>2. CASE x # s
      BY <3>2, <1>1
    <3> QED
      BY <3>1, <3>2
  <2>2. DOMAIN subscription \subseteq DOMAIN subscription' /\ today <= today'
    BY <1>1, <1>2
  <2> QED
    BY <2>1, <2>2 DEF Kept
<1>5. RowInv(s)'
  BY <1>2, <1>3 DEF RowInv, Lapsed, TermEnd
<1>6. \A x \in DOMAIN subscription \ {s} : RowInv(x)'
  BY <1>1 DEF RowInv, TermEnd, LifecycleInv
<1> QED
  BY <1>1, <1>3, <1>4, <1>5, <1>6 DEF LifecycleInv, TypeOK

\* A step of slot r preserves the invariant if it does so part by part.
LEMMA Assemble ==
  ASSUME LifecycleInv, TypeOK', Kept, NEW r \in Slots,
         \A q \in Slots \ {r} : slot'[q] = slot[q], SlotInv(r)',
         \A s \in DOMAIN subscription' : RowInv(s)', AccessKept'
  PROVE  LifecycleInv'
<1>1. ASSUME NEW q \in Slots PROVE SlotInv(q)'
  BY <1>1, SlotKept DEF LifecycleInv
<1> QED
  BY <1>1 DEF LifecycleInv

\* A step that leaves the tables alone.
LEMMA ReadStep ==
  ASSUME LifecycleInv, NEW r \in Slots, UNCHANGED tables,
         slot' \in [Slots -> SlotStates],
         \A q \in Slots \ {r} : slot'[q] = slot[q], SlotInv(r)'
  PROVE  LifecycleInv'
<1>1. TypeOK' /\ TypeOK
  BY DEF LifecycleInv, TypeOK, tables
<1>2. Kept
  BY <1>1 DEF Kept, tables, TypeOK, Days
<1>3. \A s \in DOMAIN subscription' : RowInv(s)'
  BY DEF RowInv, TermEnd, tables, LifecycleInv
<1>4. AccessKept'
  BY <1>1, <1>2, AccessStays DEF LifecycleInv, tables
<1> QED
  BY <1>1, <1>2, <1>3, <1>4, Assemble

\* A step that writes a status.
LEMMA StatusStep ==
  ASSUME LifecycleInv, NEW r \in Slots, NEW s \in DOMAIN subscription,
         NEW status \in Statuses, SetStatus(s, status),
         status = "PAST_DUE" => Lapsed(s),
         UNCHANGED <<organisation, today>>, slot' \in [Slots -> SlotStates],
         \A q \in Slots \ {r} : slot'[q] = slot[q], Kept /\ TypeOK' => SlotInv(r)'
  PROVE  LifecycleInv'
<1>1. /\ Kept
      /\ DOMAIN subscription' = DOMAIN subscription
      /\ \A x \in DOMAIN subscription' : subscription'[x] \in Rows /\ RowInv(x)'
  BY StatusEffect
<1>2. TypeOK' /\ TypeOK
  BY <1>1 DEF LifecycleInv, TypeOK
<1>3. AccessKept'
  BY <1>1, <1>2, AccessStays DEF LifecycleInv
<1> QED
  BY <1>1, <1>2, <1>3, Assemble

\* A step that writes the status of an organisation.
LEMMA OrganisationStep ==
  ASSUME LifecycleInv, NEW r \in Slots, NEW o \in Organisations,
         NEW status \in OrganisationStatuses, SetOrganisation(o, status),
         UNCHANGED <<subscription, today>>,
         status = "SUSPENDED" => \E s \in Of(o) : Lapsed(s),
         status = "CANCELLED" => \E s \in Of(o) : Forfeited(s),
         slot' \in [Slots -> SlotStates],
         \A q \in Slots \ {r} : slot'[q] = slot[q], SlotInv(r)'
  PROVE  LifecycleInv'
<1>1. TypeOK' /\ TypeOK
  BY DEF LifecycleInv, TypeOK, SetOrganisation
<1>2. Kept
  BY <1>1 DEF Kept, TypeOK, Days
<1>3. \A s \in DOMAIN subscription' : RowInv(s)'
  BY DEF RowInv, TermEnd, LifecycleInv
<1>4. AccessKept'
  BY <1>1, AccessSet DEF LifecycleInv
<1> QED
  BY <1>1, <1>2, <1>3, <1>4, Assemble

-----------------------------------------------------------------------------

\* The run's row belongs to its organisation.
LEMMA WorkedOn ==
  ASSUME LifecycleInv, NEW r \in Slots,
         \/ At(r, "expired.update") \/ At(r, "expired.organisation")
         \/ At(r, "grace.update") \/ At(r, "grace.organisation")
  PROVE  /\ slot[r].id \in DOMAIN subscription /\ slot[r].id \in Pending(r)
         /\ slot[r].todo \subseteq DOMAIN subscription /\ slot[r].todo \subseteq Pending(r)
         /\ subscription[slot[r].id].organisation \in Organisations
         /\ slot[r].id \in Of(subscription[slot[r].id].organisation)
<1>1. slot[r].id \in DOMAIN subscription /\ slot[r].todo \subseteq DOMAIN subscription
  BY DEF LifecycleInv, SlotInv
<1>2. slot[r].id # NoId
  BY <1>1, InputsAssumption DEF LifecycleInv, TypeOK
<1> QED
  BY <1>1, <1>2 DEF Pending, Of, LifecycleInv, TypeOK, Rows

\* Going to another point with the same row, or back to idle.
LEMMA GotoEffect ==
  ASSUME TypeOK, NEW r \in Slots, NEW point \in Points, Goto(r, point)
  PROVE  /\ slot' \in [Slots -> SlotStates]
         /\ \A q \in Slots \ {r} : slot'[q] = slot[q]
         /\ slot'[r].at = point /\ slot'[r].row = slot[r].row
         /\ slot'[r].id = slot[r].id /\ slot'[r].todo = slot[r].todo
<1> DEFINE state == [slot[r] EXCEPT !.at = point]
<1>1. slot[r] \in SlotStates
  BY DEF TypeOK
<1>2. /\ state \in SlotStates /\ state.at = point
      /\ state.row = slot[r].row /\ state.id = slot[r].id /\ state.todo = slot[r].todo
  BY <1>1 DEF SlotStates
<1>3. Move(r, state)
  BY DEF Goto
<1> HIDE DEF state
<1> QED
  BY <1>2, <1>3, MoveEffect

LEMMA RestEffect ==
  ASSUME TypeOK, NEW r \in Slots, NEW state \in {Idle, GraceFind}, Move(r, state)
  PROVE  /\ slot' \in [Slots -> SlotStates]
         /\ \A q \in Slots \ {r} : slot'[q] = slot[q]
         /\ SlotInv(r)'
<1>1. state \in SlotStates /\ state.at \in {"idle", "grace.find"}
  BY DEF Idle, GraceFind, SlotStates, Points
<1>2. /\ slot' \in [Slots -> SlotStates]
      /\ \A q \in Slots \ {r} : slot'[q] = slot[q]
      /\ slot'[r].at \in {"idle", "grace.find"}
  BY <1>1, MoveEffect
<1> QED
  BY <1>2 DEF SlotInv, At

\* A row is added.
LEMMA InsertStep ==
  ASSUME LifecycleInv, NEW r \in Slots, CreateInsert(r)
  PROVE  LifecycleInv'
<1>1. PICK k \in SubscriptionIds \ DOMAIN subscription :
        /\ At(r, "create.insert")
        /\ subscription' = [x \in DOMAIN subscription \cup {k} |->
             IF x = k THEN [slot[r].row EXCEPT !.updatedAt = today] ELSE subscription[x]]
        /\ Goto(r, "create.organisation")
        /\ UNCHANGED <<organisation, today>>
  BY DEF CreateInsert
<1> DEFINE row == [slot[r].row EXCEPT !.updatedAt = today]
<1>2. /\ DOMAIN subscription' = DOMAIN subscription \cup {k}
      /\ \A x \in DOMAIN subscription : subscription'[x] = subscription[x]
      /\ subscription'[k] = row
  BY <1>1
<1>3. slot[r].row \in Rows /\ slot[r].row.status \in {"ACTIVE", "TRIALING"}
  BY <1>1 DEF LifecycleInv, SlotInv
<1>4. today \in Days /\ today \in Nat
  BY DEF LifecycleInv, TypeOK, Days
<1>5. row \in Rows /\ row.status # "PAST_DUE" /\ row.updatedAt = today
  BY <1>3, <1>4 DEF Rows
<1> HIDE DEF row
<1>6. "create.organisation" \in Points
  BY DEF Points
<1>7. /\ slot' \in [Slots -> SlotStates]
      /\ \A q \in Slots \ {r} : slot'[q] = slot[q]
      /\ slot'[r].at = "create.organisation" /\ slot'[r].row = slot[r].row
  BY <1>1, <1>6, GotoEffect DEF LifecycleInv
<1>8. TypeOK' /\ TypeOK
  BY <1>1, <1>2, <1>5, <1>7 DEF LifecycleInv, TypeOK
<1>9. Kept
  BY <1>1, <1>2, <1>4 DEF Kept
<1>10. SlotInv(r)'
  BY <1>3, <1>7 DEF SlotInv, At
<1>11. \A s \in DOMAIN subscription' : RowInv(s)'
  <2>1. RowInv(k)'
    BY <1>1, <1>2, <1>4, <1>5 DEF RowInv
  <2>2. \A s \in DOMAIN subscription : RowInv(s)'
    BY <1>1, <1>2 DEF RowInv, TermEnd, LifecycleInv
  <2> QED
    BY <1>2, <2>1, <2>2
<1>12. AccessKept'
  BY <1>1, <1>8, <1>9, AccessStays DEF LifecycleInv
<1> QED
  BY <1>7, <1>8, <1>9, <1>10, <1>11, <1>12, Assemble

LEMMA BeginStep ==
  ASSUME LifecycleInv, NEW r \in Slots, CreateBegin(r)
  PROVE  LifecycleInv'
<1>1. PICK o \in Organisations, plan \in Plans, start \in StartDates \cup {today} :
        /\ Move(r, [Idle EXCEPT !.at = "create.insert", !.row = NewRow(o, plan, start)])
        /\ UNCHANGED tables
  BY DEF CreateBegin
<1>2. /\ plan.length \in Nat /\ plan.trial \in Nat /\ start \in Nat /\ today \in Days
  BY PlansAssumption, DatesAssumption DEF LifecycleInv, TypeOK, Days
<1>3. /\ NewRow(o, plan, start) \in Rows
      /\ NewRow(o, plan, start).status \in {"ACTIVE", "TRIALING"}
  BY <1>2 DEF NewRow, Rows, Statuses
<1> DEFINE state == [Idle EXCEPT !.at = "create.insert", !.row = NewRow(o, plan, start)]
<1>4. state \in SlotStates /\ state.at = "create.insert" /\ state.row = NewRow(o, plan, start)
  BY <1>3 DEF Idle, SlotStates, Points
<1>5. Move(r, state)
  BY <1>1
<1> HIDE DEF state
<1>6. /\ slot' \in [Slots -> SlotStates]
      /\ slot'[r] = state
      /\ \A q \in Slots \ {r} : slot'[q] = slot[q]
  BY <1>4, <1>5, MoveEffect DEF LifecycleInv
<1>7. SlotInv(r)'
  BY <1>3, <1>4, <1>6 DEF SlotInv, At
<1> QED
  BY <1>1, <1>6, <1>7, ReadStep

LEMMA MutationKeeps ==
  ASSUME OnlyTheJob, LifecycleInv, NEW r \in Slots, MutationStep(r)
  PROVE  LifecycleInv'
<1>0. TypeOK /\ SlotInv(r)
  BY DEF LifecycleInv
<1>1. CASE CreateBegin(r)
  BY <1>1, BeginStep
<1>2. CASE CreateInsert(r)
  BY <1>2, InsertStep
<1>3. CASE CreateOrganisation(r)
  <2> DEFINE row == slot[r].row
  <2>1. row.organisation \in Organisations /\ row.status \in {"ACTIVE", "TRIALING"}
    BY <1>0, <1>3 DEF CreateOrganisation, SlotInv, Rows
  <2>2. OrganisationStatus(row.status) \in {"ACTIVE", "TRIAL"}
    BY <2>1 DEF OrganisationStatus
  <2>3. /\ slot' \in [Slots -> SlotStates]
        /\ \A q \in Slots \ {r} : slot'[q] = slot[q]
        /\ SlotInv(r)'
    BY <1>0, <1>3, RestEffect DEF CreateOrganisation, Return
  <2>4. /\ SetOrganisation(row.organisation, OrganisationStatus(row.status))
        /\ UNCHANGED <<subscription, today>>
    BY <1>3 DEF CreateOrganisation
  <2>5. {"ACTIVE", "TRIAL"} \subseteq OrganisationStatuses
    BY DEF OrganisationStatuses
  <2> HIDE DEF row
  <2> QED
    BY <2>1, <2>2, <2>3, <2>4, <2>5, OrganisationStep
<1>4. CASE UpdateSubscription(r)
  <2>1. PICK s \in DOMAIN subscription, u \in Updates :
          /\ SetStatus(s, IF u = Unchanged THEN subscription[s].status ELSE u)
          /\ UNCHANGED <<organisation, today, slot>>
    BY <1>4 DEF UpdateSubscription
  <2> DEFINE status == IF u = Unchanged THEN subscription[s].status ELSE u
  <2>2. status \in Statuses
    BY <1>0, InputsAssumption DEF TypeOK, Rows
  <2>3. status = "PAST_DUE" => Lapsed(s)
    <3>1. status = "PAST_DUE" => subscription[s].status = "PAST_DUE"
      BY DEF OnlyTheJob
    <3>2. RowInv(s)
      BY DEF LifecycleInv
    <3> QED
      BY <1>0, <3>1, <3>2, TermIsNat DEF RowInv, Lapsed
  <2>4. SetStatus(s, status)
    BY <2>1
  <2> HIDE DEF status
  <2>5. slot' \in [Slots -> SlotStates] /\ \A q \in Slots \ {r} : slot'[q] = slot[q]
    BY <1>0, <2>1 DEF TypeOK
  <2>6. Kept /\ TypeOK' => SlotInv(r)'
    BY <1>0, <2>1, SlotKept
  <2> QED
    BY <2>1, <2>2, <2>3, <2>4, <2>5, <2>6, StatusStep
<1>5. CASE CancelSubscription(r)
  BY <1>5 DEF CancelSubscription, OnlyTheJob
<1>6. CASE ManageOrganisation(r)
  <2>1. PICK o \in Organisations, status \in ManagedStatuses :
          SetOrganisation(o, status) /\ UNCHANGED <<subscription, today, slot>>
    BY <1>6 DEF ManageOrganisation
  <2>2. status \in OrganisationStatuses \ {"SUSPENDED", "CANCELLED"}
    BY InputsAssumption DEF OnlyTheJob
  <2>3. slot' \in [Slots -> SlotStates] /\ \A q \in Slots \ {r} : slot'[q] = slot[q]
    BY <1>0, <2>1 DEF TypeOK
  <2>4. SlotInv(r)'
    BY <1>0, <2>1 DEF SlotInv, At, Pending, Lapsed, Forfeited, TermEnd
  <2> QED
    BY <2>1, <2>2, <2>3, <2>4, OrganisationStep
<1> QED
  BY <1>1, <1>2, <1>3, <1>4, <1>5, <1>6 DEF MutationStep

\* The job goes on to the call after the one it made.
LEMMA LifecycleKeeps ==
  ASSUME LifecycleInv, NEW r \in Slots, LifecycleStep(r)
  PROVE  LifecycleInv'
<1>0. TypeOK /\ SlotInv(r) /\ \A s \in DOMAIN subscription : RowInv(s)
  BY DEF LifecycleInv
<1> DEFINE id == slot[r].id
           o == subscription[id].organisation
<1>1. CASE ExpiredFind(r)
  <2> DEFINE todo == {s \in DOMAIN subscription : Expired(s)}
  <2>1. ASSUME NEW s \in todo PROVE Lapsed(s)
    <3>1. subscription[s] \in Rows /\ today \in Nat
      BY <1>0, TermIsNat DEF TypeOK
    <3> QED
      BY <3>1 DEF Expired, Lapsed, TermEnd, Rows
  <2>2. ExpiredNext(r, todo) /\ UNCHANGED tables
    BY <1>1 DEF ExpiredFind
  <2>3. todo \subseteq DOMAIN subscription
    OBVIOUS
  <2> HIDE DEF todo
  <2>4. /\ slot' \in [Slots -> SlotStates]
        /\ \A q \in Slots \ {r} : slot'[q] = slot[q]
        /\ SlotInv(r)'
    BY <1>0, <2>1, <2>2, <2>3, ExpiredNextEffect DEF tables
  <2> QED
    BY <2>2, <2>4, ReadStep
<1>2. CASE ExpiredUpdate(r)
  <2>1. id \in DOMAIN subscription /\ Lapsed(id) /\ slot[r].todo \subseteq DOMAIN subscription
    BY <1>0, <1>2, WorkedOn DEF ExpiredUpdate, SlotInv
  <2>2. /\ SetStatus(id, "PAST_DUE") /\ UNCHANGED <<organisation, today>>
        /\ "PAST_DUE" \in Statuses /\ "expired.organisation" \in Points
    BY <1>2 DEF ExpiredUpdate, Statuses, Points
  <2>3. /\ slot' \in [Slots -> SlotStates]
        /\ \A q \in Slots \ {r} : slot'[q] = slot[q]
        /\ slot'[r].at = "expired.organisation"
        /\ slot'[r].id = slot[r].id /\ slot'[r].todo = slot[r].todo
    BY <1>0, <1>2, <2>2, GotoEffect DEF ExpiredUpdate
  <2>4. ASSUME Kept, TypeOK' PROVE SlotInv(r)'
    <3>1. Pending(r)' = Pending(r) /\ \A s \in Pending(r) : s \in DOMAIN subscription /\ Lapsed(s)
      BY <1>0, <1>2, <2>1, <2>3 DEF Pending, SlotInv, ExpiredUpdate
    <3>2. \A s \in Pending(r) : Lapsed(s)'
      BY <1>0, <2>4, <3>1, KeptTerm
    <3>3. DOMAIN subscription \subseteq DOMAIN subscription'
      BY <2>4 DEF Kept
    <3> QED
      BY <2>1, <2>3, <3>1, <3>2, <3>3 DEF SlotInv, At
  <2> QED
    BY <2>1, <2>2, <2>3, <2>4, StatusStep
<1>3. CASE ExpiredOrganisation(r)
  <2>1. /\ o \in Organisations /\ id \in Of(o) /\ Lapsed(id)
        /\ slot[r].todo \subseteq DOMAIN subscription /\ \A s \in slot[r].todo : Lapsed(s)
    BY <1>0, <1>3, WorkedOn DEF ExpiredOrganisation, SlotInv
  <2>2. OrganisationStatus("PAST_DUE") = "SUSPENDED" /\ "SUSPENDED" \in OrganisationStatuses
    BY DEF OrganisationStatus, OrganisationStatuses
  <2>3. /\ SetOrganisation(o, "SUSPENDED") /\ ExpiredNext(r, slot[r].todo)
        /\ UNCHANGED <<subscription, today>>
    BY <1>3, <2>2 DEF ExpiredOrganisation
  <2>4. /\ slot' \in [Slots -> SlotStates]
        /\ \A q \in Slots \ {r} : slot'[q] = slot[q]
        /\ SlotInv(r)'
    BY <1>0, <2>1, <2>3, ExpiredNextEffect
  <2> QED
    BY <2>1, <2>2, <2>3, <2>4, OrganisationStep
<1>4. CASE GraceQuery(r)
  <2> DEFINE todo == {s \in DOMAIN subscription : PastGrace(s)}
  <2>1. ASSUME NEW s \in todo PROVE Forfeited(s)
    BY <1>0, TermIsNat DEF PastGrace, Forfeited, RowInv
  <2>2. GraceNext(r, todo) /\ UNCHANGED tables
    BY <1>4 DEF GraceQuery
  <2>3. todo \subseteq DOMAIN subscription
    OBVIOUS
  <2> HIDE DEF todo
  <2>4. /\ slot' \in [Slots -> SlotStates]
        /\ \A q \in Slots \ {r} : slot'[q] = slot[q]
        /\ SlotInv(r)'
    BY <1>0, <2>1, <2>2, <2>3, GraceNextEffect DEF tables
  <2> QED
    BY <2>2, <2>4, ReadStep
<1>5. CASE GraceUpdate(r)
  <2>1. id \in DOMAIN subscription /\ slot[r].todo \subseteq DOMAIN subscription
    BY <1>5, WorkedOn DEF GraceUpdate
  <2>2. /\ SetStatus(id, "CANCELLED") /\ UNCHANGED <<organisation, today>>
        /\ "CANCELLED" \in Statuses /\ "grace.organisation" \in Points
    BY <1>5 DEF GraceUpdate, Statuses, Points
  <2>3. /\ slot' \in [Slots -> SlotStates]
        /\ \A q \in Slots \ {r} : slot'[q] = slot[q]
        /\ slot'[r].at = "grace.organisation"
        /\ slot'[r].id = slot[r].id /\ slot'[r].todo = slot[r].todo
    BY <1>0, <1>5, <2>2, GotoEffect DEF GraceUpdate
  <2>4. ASSUME Kept, TypeOK' PROVE SlotInv(r)'
    <3>1. Pending(r)' = Pending(r) /\ \A s \in Pending(r) : s \in DOMAIN subscription /\ Forfeited(s)
      BY <1>0, <1>5, <2>1, <2>3 DEF Pending, SlotInv, GraceUpdate
    <3>2. \A s \in Pending(r) : Forfeited(s)'
      BY <1>0, <2>4, <3>1, KeptTerm
    <3>3. DOMAIN subscription \subseteq DOMAIN subscription'
      BY <2>4 DEF Kept
    <3> QED
      BY <2>1, <2>3, <3>1, <3>2, <3>3 DEF SlotInv, At
  <2> QED
    BY <2>1, <2>2, <2>3, <2>4, StatusStep
<1>6. CASE GraceOrganisation(r)
  <2>1. /\ o \in Organisations /\ id \in Of(o) /\ Forfeited(id)
        /\ slot[r].todo \subseteq DOMAIN subscription /\ \A s \in slot[r].todo : Forfeited(s)
    BY <1>0, <1>6, WorkedOn DEF GraceOrganisation, SlotInv
  <2>2. OrganisationStatus("CANCELLED") = "CANCELLED" /\ "CANCELLED" \in OrganisationStatuses
    BY DEF OrganisationStatus, OrganisationStatuses
  <2>3. /\ SetOrganisation(o, "CANCELLED") /\ GraceNext(r, slot[r].todo)
        /\ UNCHANGED <<subscription, today>>
    BY <1>6, <2>2 DEF GraceOrganisation
  <2>4. /\ slot' \in [Slots -> SlotStates]
        /\ \A q \in Slots \ {r} : slot'[q] = slot[q]
        /\ SlotInv(r)'
    BY <1>0, <2>1, <2>3, GraceNextEffect
  <2> QED
    BY <2>1, <2>2, <2>3, <2>4, OrganisationStep
<1> QED
  BY <1>1, <1>2, <1>3, <1>4, <1>5, <1>6 DEF LifecycleStep

\* A call fails: the job gives up this check, or the rest of it goes on.
LEMMA RejectKeeps ==
  ASSUME LifecycleInv, NEW r \in Slots, Reject(r)
  PROVE  LifecycleInv'
<1>0. /\ TypeOK /\ SlotInv(r)
      /\ UNCHANGED tables /\ UNCHANGED <<subscription, today>>
  BY DEF LifecycleInv, Reject, tables
<1>1. CASE Return(r) \/ Move(r, GraceFind)
  BY <1>0, <1>1, RestEffect, ReadStep DEF Return
<1>2. CASE At(r, "expired.organisation") /\ ExpiredNext(r, slot[r].todo)
  <2>1. slot[r].todo \subseteq DOMAIN subscription /\ \A s \in slot[r].todo : Lapsed(s)
    BY <1>0, <1>2, WorkedOn DEF SlotInv
  <2> QED
    BY <1>0, <1>2, <2>1, ExpiredNextEffect, ReadStep
<1>3. CASE At(r, "grace.organisation") /\ GraceNext(r, slot[r].todo)
  <2>1. slot[r].todo \subseteq DOMAIN subscription /\ \A s \in slot[r].todo : Forfeited(s)
    BY <1>0, <1>3, WorkedOn DEF SlotInv
  <2> QED
    BY <1>0, <1>3, <2>1, GraceNextEffect, ReadStep
<1> QED
  BY <1>1, <1>2, <1>3 DEF Reject

LEMMA StopKeeps ==
  ASSUME LifecycleInv, Stop
  PROVE  LifecycleInv'
<1>1. Idle \in SlotStates /\ Idle.at = "idle"
  BY DEF Idle, SlotStates, Points
<1>2. TypeOK /\ TypeOK'
  BY <1>1 DEF LifecycleInv, TypeOK, Stop, tables
<1>3. Kept
  BY <1>2 DEF Kept, Stop, tables, TypeOK, Days
<1>4. \A q \in Slots : SlotInv(q)'
  BY <1>1 DEF Stop, SlotInv, At
<1>5. \A s \in DOMAIN subscription' : RowInv(s)'
  BY DEF RowInv, TermEnd, Stop, tables, LifecycleInv
<1>6. AccessKept'
  BY <1>2, <1>3, AccessStays DEF LifecycleInv, Stop, tables
<1> QED
  BY <1>2, <1>4, <1>5, <1>6 DEF LifecycleInv

LEMMA TickKeeps ==
  ASSUME LifecycleInv, Tick
  PROVE  LifecycleInv'
<1>1. TypeOK /\ TypeOK'
  BY DatesAssumption DEF LifecycleInv, TypeOK, Tick, Days
<1>2. today \in Nat /\ today' = today + 1 /\ today <= today'
  BY <1>1 DEF TypeOK, Tick, Days
<1>3. Kept
  BY <1>2 DEF Kept, Tick
<1>4. \A q \in Slots : SlotInv(q)'
  BY <1>1, <1>3, SlotKept DEF Tick, LifecycleInv
<1>5. \A s \in DOMAIN subscription' : RowInv(s)'
  BY <1>1, <1>2, TermIsNat DEF RowInv, TermEnd, Tick, LifecycleInv
<1>6. AccessKept'
  BY <1>1, <1>3, AccessStays DEF LifecycleInv, Tick
<1> QED
  BY <1>1, <1>4, <1>5, <1>6 DEF LifecycleInv

LEMMA StutterKeeps ==
  ASSUME LifecycleInv, UNCHANGED vars
  PROVE  LifecycleInv'
  BY DEF LifecycleInv, TypeOK, SlotInv, At, Pending, Lapsed, Forfeited, TermEnd,
         RowInv, AccessKept, Of, vars

LEMMA StepKeeps ==
  ASSUME OnlyTheJob, LifecycleInv, [Next]_vars
  PROVE  LifecycleInv'
  BY MutationKeeps, LifecycleKeeps, RejectKeeps, StopKeeps, TickKeeps, StutterKeeps
     DEF Next

LEMMA InitHolds ==
  ASSUME Init
  PROVE  LifecycleInv
<1>1. Idle \in SlotStates /\ Idle.at = "idle"
  BY DEF Idle, SlotStates, Points
<1>2. TypeOK
  BY <1>1, DatesAssumption DEF Init, TypeOK, Days, OrganisationStatuses
<1>3. \A q \in Slots : SlotInv(q)
  BY <1>1 DEF Init, SlotInv, At
<1>4. DOMAIN subscription = {}
  BY DEF Init
<1>5. AccessKept
  BY DEF Init, AccessKept
<1> QED
  BY <1>2, <1>3, <1>4, <1>5 DEF LifecycleInv

-----------------------------------------------------------------------------

\* Whatever runs of the job and mutations overlap or fail: what a run found to
\* be over stays over while it waits, a row past due was written after the end
\* of its term, and access is withdrawn for a term (and grace) that is over.
THEOREM LifecycleInvariant ==
  ASSUME OnlyTheJob
  PROVE  Spec => []LifecycleInv
<1>1. Init => LifecycleInv
  BY InitHolds
<1>2. LifecycleInv /\ [Next]_vars => LifecycleInv'
  BY StepKeeps
<1> QED
  BY <1>1, <1>2, PTL DEF Spec

\* An organisation is suspended or cancelled by the lifecycle job only if a
\* term of one of its subscriptions, or the grace after it, is over.
THEOREM AccessIsKept ==
  ASSUME OnlyTheJob
  PROVE  Spec => []AccessKept
<1>1. LifecycleInv => AccessKept
  BY DEF LifecycleInv
<1> QED
  BY <1>1, LifecycleInvariant, PTL

LEMMA CancelStep ==
  ASSUME OnlyTheJob, LifecycleInv, [Next]_vars, NEW s \in DOMAIN subscription,
         subscription[s].status # "CANCELLED", subscription'[s].status = "CANCELLED"
  PROVE  Forfeited(s)
<1>0. TypeOK
  BY DEF LifecycleInv
<1>1. ASSUME NEW x \in DOMAIN subscription, NEW status, SetStatus(x, status)
      PROVE  s = x /\ status = "CANCELLED"
  <2>1. CASE x # s
    BY <1>1, <2>1 DEF SetStatus
  <2>2. CASE x = s
    <3>1. subscription[s] \in Rows
      BY <1>0 DEF TypeOK
    <3>2. subscription'[s] = [subscription[s] EXCEPT !.status = status, !.updatedAt = today]
      BY <1>1, <2>2 DEF SetStatus
    <3>3. subscription'[s].status = status
      BY <3>1, <3>2 DEF Rows
    <3> QED
      BY <2>2, <3>3
  <2> QED
    BY <2>1, <2>2
<1>2. subscription' # subscription
  OBVIOUS
<1>3. PICK r \in Slots : MutationStep(r) \/ LifecycleStep(r)
  BY <1>2 DEF Next, Reject, Stop, Tick, tables, vars
<1>4. ~CreateInsert(r)
  BY DEF CreateInsert
<1>5. ~UpdateSubscription(r)
  <2> SUFFICES ASSUME NEW x \in DOMAIN subscription, NEW u \in Updates,
                      SetStatus(x, IF u = Unchanged THEN subscription[x].status ELSE u)
               PROVE  FALSE
    BY DEF UpdateSubscription
  <2>1. s = x /\ (IF u = Unchanged THEN subscription[x].status ELSE u) = "CANCELLED"
    BY <1>1
  <2> QED
    BY <2>1 DEF OnlyTheJob
<1>6. ~CancelSubscription(r)
  BY DEF CancelSubscription, OnlyTheJob
<1>7. ExpiredUpdate(r) \/ GraceUpdate(r)
  BY <1>2, <1>3, <1>4, <1>5, <1>6
     DEF MutationStep, LifecycleStep, CreateBegin, CreateOrganisation, ManageOrganisation,
         ExpiredFind, ExpiredOrganisation, GraceQuery, GraceOrganisation, tables
<1>8. ~ExpiredUpdate(r)
  BY <1>1, WorkedOn DEF ExpiredUpdate
<1>9. At(r, "grace.update") /\ s = slot[r].id
  BY <1>1, <1>7, <1>8, WorkedOn DEF GraceUpdate
<1> QED
  BY <1>9, WorkedOn DEF LifecycleInv, SlotInv

\* No subscription is cancelled before its grace period is over, however old
\* the list is that the job works through.
THEOREM CancelledAfterGrace ==
  ASSUME OnlyTheJob
  PROVE  Spec => CancelsAfterGrace
<1>1. LifecycleInv /\ [Next]_vars =>
        [\A s \in DOMAIN subscription :
           subscription[s].status # "CANCELLED" /\ subscription'[s].status = "CANCELLED"
             => Forfeited(s)]_vars
  BY CancelStep
<1> QED
  BY <1>1, LifecycleInvariant, PTL DEF Spec, CancelsAfterGrace

------------------------------------------------------------------------

-----------------------------------------------------------------------------
(* The status of an organisation, whatever operators and managers do.      *)

\* What a handler has at hand across an await is there.
Known(r) ==
  /\ At(r, "create.insert") \/ At(r, "create.organisation") => slot[r].row \in Rows
  /\ \/ At(r, "expired.update") \/ At(r, "expired.organisation")
     \/ At(r, "grace.update") \/ At(r, "grace.organisation")
     => slot[r].id \in DOMAIN subscription /\ slot[r].todo \subseteq DOMAIN subscription

KnownInv == TypeOK /\ \A r \in Slots : Known(r)

\* What the handler is about to write to o goes with the row it has written.
Promised(r, o) ==
  /\ At(r, "create.organisation") =>
       \A s \in DOMAIN subscription :
         Of(o) = {s} => subscription[s].status = slot[r].row.status
  /\ At(r, "expired.organisation") => subscription[slot[r].id].status = "PAST_DUE"
  /\ At(r, "grace.organisation") => subscription[slot[r].id].status = "CANCELLED"

Follows(o) ==
  /\ ~Overlap(o)
  /\ \A r \in Slots : Between(r, o) => Promised(r, o)
  /\ \A s \in DOMAIN subscription :
       Of(o) = {s} /\ (\A r \in Slots : ~Between(r, o)) =>
         organisation[o] = OrganisationStatus(subscription[s].status)

AllFollow == \A o \in Organisations \ apart : Follows(o)

\* The points between the two writes of a change.
Halfway == {"create.organisation", "expired.organisation", "grace.organisation"}

LEMMA BetweenIsHalfway ==
  ASSUME NEW r \in Slots, NEW o, slot[r].at \notin Halfway
  PROVE  ~Between(r, o)
BY DEF Between, At, Halfway

\* An invariant about every organisation says what FollowInv says.
LEMMA FollowsAll ==
  ASSUME KnownInv, AllFollow, apart \subseteq Organisations
  PROVE  FollowInv
<1>1. ASSUME NEW r \in Slots, NEW o \in Organisations \ apart, Between(r, o)
      PROVE  Promised(r, o)
  BY <1>1 DEF AllFollow, Follows
<1>2. ASSUME NEW r \in Slots, At(r, "create.organisation"),
             slot[r].row.organisation \notin apart, NEW s \in DOMAIN subscription,
             Of(slot[r].row.organisation) = {s}
      PROVE  subscription[s].status = slot[r].row.status
  <2>1. slot[r].row.organisation \in Organisations \ apart
    BY <1>2 DEF KnownInv, Known, Rows
  <2>2. Between(r, slot[r].row.organisation)
    BY <1>2 DEF Between
  <2> QED BY <1>1, <1>2, <2>1, <2>2 DEF Promised
<1>3. ASSUME NEW r \in Slots, At(r, "expired.organisation") \/ At(r, "grace.organisation"),
             subscription[slot[r].id].organisation \notin apart
      PROVE  /\ At(r, "expired.organisation") => subscription[slot[r].id].status = "PAST_DUE"
             /\ At(r, "grace.organisation") => subscription[slot[r].id].status = "CANCELLED"
  <2>1. slot[r].id \in DOMAIN subscription
    BY <1>3 DEF KnownInv, Known
  <2>2. subscription[slot[r].id].organisation \in Organisations \ apart
    BY <1>3, <2>1 DEF KnownInv, TypeOK, Rows
  <2>3. Between(r, subscription[slot[r].id].organisation)
    BY <1>3 DEF Between
  <2> QED BY <1>1, <2>2, <2>3 DEF Promised
<1>4. ASSUME NEW s \in DOMAIN subscription, subscription[s].organisation \notin apart,
             Of(subscription[s].organisation) = {s},
             \A r \in Slots : ~Between(r, subscription[s].organisation)
      PROVE  organisation[subscription[s].organisation]
               = OrganisationStatus(subscription[s].status)
  <2>1. subscription[s].organisation \in Organisations \ apart
    BY <1>4 DEF KnownInv, TypeOK, Rows
  <2> QED BY <1>4, <2>1 DEF AllFollow, Follows
<1>5. OrganisationFollows
  BY <1>4 DEF OrganisationFollows
<1>6. \A o \in Organisations \ apart : ~Overlap(o)
  BY DEF AllFollow, Follows
<1> QED BY <1>2, <1>3, <1>5, <1>6 DEF FollowInv

\* The organisations that a step does not mark.
LEMMA Unmarked ==
  ASSUME NEW R \in SUBSET Slots, Mark(R), apart \subseteq Organisations
  PROVE  /\ apart' \subseteq Organisations
         /\ \A o \in Organisations \ apart' :
              /\ o \in Organisations \ apart
              /\ ~WrittenAlone(o) /\ ~Overlap(o)' /\ \A r \in R : ~Between(r, o)
BY DEF Mark

\* A step that leaves o, its rows and those between its two writes alone.
LEMMA Aside ==
  ASSUME KnownInv, NEW o, Follows(o), Of(o)' = Of(o),
         DOMAIN subscription \subseteq DOMAIN subscription',
         \A s \in DOMAIN subscription :
           subscription'[s].organisation = subscription[s].organisation,
         \A s \in Of(o) : subscription'[s].status = subscription[s].status,
         organisation'[o] = organisation[o],
         \A q \in Slots : slot'[q] = slot[q] \/ (~Between(q, o) /\ ~Between(q, o)')
  PROVE  Follows(o)'
<1>1. ASSUME NEW q \in Slots, slot'[q] = slot[q]
      PROVE  Between(q, o)' <=> Between(q, o)
  <2>1. CASE At(q, "expired.organisation") \/ At(q, "grace.organisation")
    <3>1. slot[q].id \in DOMAIN subscription
      BY <2>1 DEF KnownInv, Known
    <3>2. subscription'[slot[q].id].organisation = subscription[slot[q].id].organisation
      BY <3>1
    <3> QED BY <1>1, <2>1, <3>2 DEF Between, At
  <2>2. CASE ~(At(q, "expired.organisation") \/ At(q, "grace.organisation"))
    BY <1>1, <2>2 DEF Between, At
  <2> QED BY <2>1, <2>2
<1>2. \A q \in Slots : Between(q, o)' <=> Between(q, o)
  BY <1>1
<1>3. ~Overlap(o)'
  <2>1. ~Overlap(o)
    BY DEF Follows
  <2> QED BY <1>2, <2>1 DEF Overlap
<1>4. ASSUME NEW q \in Slots, Between(q, o)'
      PROVE  Promised(q, o)'
  <2>1. Between(q, o) /\ slot'[q] = slot[q]
    BY <1>2, <1>4
  <2>2. Promised(q, o)
    BY <2>1 DEF Follows
  <2>3. CASE At(q, "create.organisation")
    <3> SUFFICES ASSUME NEW s \in DOMAIN subscription', Of(o)' = {s}
                 PROVE  subscription'[s].status = slot'[q].row.status
      BY <2>1, <2>3 DEF Promised, At
    <3>1. s \in Of(o) /\ s \in DOMAIN subscription /\ Of(o) = {s}
      BY DEF Of
    <3>2. subscription[s].status = slot[q].row.status
      BY <2>2, <2>3, <3>1 DEF Promised
    <3> QED BY <2>1, <3>1, <3>2
  <2>4. CASE At(q, "expired.organisation") \/ At(q, "grace.organisation")
    <3>1. slot[q].id \in Of(o)
      BY <2>1, <2>4 DEF KnownInv, Known, Between, At, Of
    <3>2. subscription'[slot[q].id].status = subscription[slot[q].id].status
      BY <3>1
    <3> QED BY <2>1, <2>2, <2>4, <3>2 DEF Promised, At
  <2> QED BY <2>1, <2>3, <2>4 DEF Between
<1>5. ASSUME NEW s \in DOMAIN subscription', Of(o)' = {s}, \A q \in Slots : ~Between(q, o)'
      PROVE  organisation'[o] = OrganisationStatus(subscription'[s].status)
  <2>1. s \in Of(o) /\ s \in DOMAIN subscription /\ Of(o) = {s}
    BY <1>5 DEF Of
  <2>2. \A q \in Slots : ~Between(q, o)
    BY <1>2, <1>5
  <2>3. organisation[o] = OrganisationStatus(subscription[s].status)
    BY <2>1, <2>2 DEF Follows
  <2> QED BY <2>1, <2>3
<1> QED BY <1>3, <1>4, <1>5 DEF Follows

\* The first of the two writes, by a handler that then has the second to do.
LEMMA FirstWrite ==
  ASSUME NEW o, NEW r \in Slots, ~Overlap(o)', Between(r, o)', Promised(r, o)'
  PROVE  Follows(o)'
<1>1. \A q \in Slots : Between(q, o)' => q = r
  BY DEF Overlap
<1> QED BY <1>1 DEF Follows

\* The second.
LEMMA SecondWrite ==
  ASSUME KnownInv, NEW o, NEW r \in Slots, Follows(o), Between(r, o), UNCHANGED subscription,
         \A s \in DOMAIN subscription :
           Of(o) = {s} => organisation'[o] = OrganisationStatus(subscription[s].status),
         slot'[r].at \notin Halfway, \A q \in Slots \ {r} : slot'[q] = slot[q]
  PROVE  Follows(o)'
<1>1. Of(o)' = Of(o)
  BY DEF Of
<1>2. \A q \in Slots \ {r} : ~Between(q, o)
  BY DEF Follows, Overlap
<1>3. \A q \in Slots \ {r} : ~Between(q, o)'
  BY <1>2 DEF Between, At
<1>4. ~Between(r, o)'
  BY DEF Between, At, Halfway
<1>5. \A q \in Slots : ~Between(q, o)'
  BY <1>3, <1>4
<1>6. ~Overlap(o)'
  BY <1>5 DEF Overlap
<1> QED BY <1>1, <1>5, <1>6 DEF Follows

-----------------------------------------------------------------------------
(* What each step keeps.                                                   *)

\* The types, when only the slot r moves.
LEMMA KnownStep ==
  ASSUME KnownInv, NEW r \in Slots, DOMAIN subscription \subseteq DOMAIN subscription',
         DOMAIN subscription' \subseteq SubscriptionIds,
         \A s \in DOMAIN subscription' : subscription'[s] \in Rows,
         organisation' \in [Organisations -> OrganisationStatuses], today' = today,
         slot' \in [Slots -> SlotStates],
         \A q \in Slots \ {r} : slot'[q] = slot[q], Known(r)'
  PROVE  KnownInv'
<1>1. TypeOK'
  BY DEF KnownInv, TypeOK
<1>2. ASSUME NEW q \in Slots \ {r}
      PROVE  Known(q)'
  <2>1. Known(q) /\ slot'[q] = slot[q]
    BY DEF KnownInv
  <2> QED BY <2>1 DEF Known, At
<1> QED BY <1>1, <1>2 DEF KnownInv

\* A loop that goes on is at its first write, or done.
LEMMA LoopEffect ==
  ASSUME TypeOK, NEW r \in Slots, NEW todo, todo \subseteq DOMAIN subscription,
         ExpiredNext(r, todo) \/ GraceNext(r, todo), UNCHANGED subscription
  PROVE  /\ slot' \in [Slots -> SlotStates]
         /\ slot'[r].at \notin Halfway /\ Known(r)'
         /\ \A q \in Slots \ {r} : slot'[q] = slot[q]
<1>1. /\ GraceFind \in SlotStates /\ GraceFind.at = "grace.find"
      /\ Idle \in SlotStates /\ Idle.at = "idle"
      /\ "expired.update" \in Points /\ "grace.update" \in Points
  BY DEF GraceFind, Idle, SlotStates, Points
<1>2. ASSUME NEW update \in {"expired.update", "grace.update"},
             NEW after \in {GraceFind, Idle}, TakeFrom(r, todo, update, after)
      PROVE  /\ slot' \in [Slots -> SlotStates]
             /\ \A q \in Slots \ {r} : slot'[q] = slot[q]
             /\ \/ slot'[r].at \in {"grace.find", "idle"}
                \/ /\ slot'[r].at \in {"expired.update", "grace.update"}
                   /\ slot'[r].id \in todo /\ slot'[r].todo \subseteq todo
  <2>1. update \in Points /\ after \in SlotStates /\ after.at \in {"grace.find", "idle"}
    BY <1>1, <1>2
  <2>2. /\ slot' \in [Slots -> SlotStates]
        /\ \A q \in Slots \ {r} : slot'[q] = slot[q]
        /\ \/ slot'[r] = after
           \/ slot'[r].at = update /\ slot'[r].id \in todo /\ slot'[r].todo \subseteq todo
    BY <1>2, <2>1, TakeEffect
  <2> QED BY <2>1, <2>2
<1>3. /\ slot' \in [Slots -> SlotStates]
      /\ \A q \in Slots \ {r} : slot'[q] = slot[q]
      /\ \/ slot'[r].at \in {"grace.find", "idle"}
         \/ /\ slot'[r].at \in {"expired.update", "grace.update"}
            /\ slot'[r].id \in todo /\ slot'[r].todo \subseteq todo
  BY <1>2 DEF ExpiredNext, GraceNext
<1>4. slot'[r].at \notin Halfway
  BY <1>3 DEF Halfway
<1>5. Known(r)'
  BY <1>3 DEF Known, At
<1> QED BY <1>3, <1>4, <1>5

LEMMA RestsAt ==
  ASSUME TypeOK, NEW r \in Slots, NEW state \in {Idle, GraceFind}, Move(r, state)
  PROVE  /\ slot' \in [Slots -> SlotStates]
         /\ slot'[r].at \notin Halfway /\ Known(r)'
         /\ \A q \in Slots \ {r} : slot'[q] = slot[q]
<1>1. state \in SlotStates /\ state.at \in {"idle", "grace.find"}
  BY DEF Idle, GraceFind, SlotStates, Points
<1>2. /\ slot' \in [Slots -> SlotStates] /\ slot'[r].at \in {"idle", "grace.find"}
      /\ \A q \in Slots \ {r} : slot'[q] = slot[q]
  BY <1>1, MoveEffect
<1> QED BY <1>2 DEF Halfway, Known, At

LEMMA RowWritten ==
  ASSUME TypeOK, NEW s \in DOMAIN subscription, NEW status \in Statuses, SetStatus(s, status)
  PROVE  /\ DOMAIN subscription' = DOMAIN subscription
         /\ \A x \in DOMAIN subscription : subscription'[x] \in Rows
         /\ \A x \in DOMAIN subscription :
              subscription'[x].organisation = subscription[x].organisation
         /\ \A x \in DOMAIN subscription \ {s} : subscription'[x] = subscription[x]
         /\ subscription'[s].status = status
         /\ \A o : Of(o)' = Of(o)
<1>1. /\ DOMAIN subscription' = DOMAIN subscription
      /\ \A x \in DOMAIN subscription \ {s} : subscription'[x] = subscription[x]
      /\ subscription'[s] = [subscription[s] EXCEPT !.status = status, !.updatedAt = today]
  BY DEF SetStatus
<1>2. subscription[s] \in Rows /\ today \in Days
  BY DEF TypeOK
<1>3. /\ subscription'[s] \in Rows /\ subscription'[s].status = status
      /\ subscription'[s].organisation = subscription[s].organisation
  BY <1>1, <1>2 DEF Rows
<1>4. \A x \in DOMAIN subscription : subscription'[x] \in Rows
  BY <1>1, <1>3 DEF TypeOK
<1>5. \A x \in DOMAIN subscription :
        subscription'[x].organisation = subscription[x].organisation
  BY <1>1, <1>3
<1> QED BY <1>1, <1>3, <1>4, <1>5 DEF Of

\* A step of r that writes neither table and does not begin between two writes.
LEMMA QuietStep ==
  ASSUME KnownInv, apart \subseteq Organisations, AllFollow, NEW r \in Slots,
         NEW R \in SUBSET Slots, Mark(R), UNCHANGED tables, slot[r].at \notin Halfway \/ r \in R,
         slot' \in [Slots -> SlotStates], slot'[r].at \notin Halfway, Known(r)',
         \A q \in Slots \ {r} : slot'[q] = slot[q]
  PROVE  KnownInv' /\ AllFollow'
<1>0. TypeOK /\ UNCHANGED <<subscription, organisation, today>>
  BY DEF KnownInv, tables
<1>1. KnownInv'
  BY <1>0, KnownStep DEF TypeOK
<1>2. ASSUME NEW o \in Organisations \ apart'
      PROVE  Follows(o)'
  <2>1. o \in Organisations \ apart /\ \A q \in R : ~Between(q, o)
    BY Unmarked
  <2>2. ~Between(r, o) /\ ~Between(r, o)'
    BY <2>1 DEF Between, At, Halfway
  <2>3. Follows(o)
    BY <2>1 DEF AllFollow
  <2>4. Of(o)' = Of(o)
    BY <1>0 DEF Of
  <2>5. \A q \in Slots : slot'[q] = slot[q] \/ (~Between(q, o) /\ ~Between(q, o)')
    BY <2>2
  <2> QED BY <1>0, <2>3, <2>4, <2>5, Aside
<1> QED BY <1>1, <1>2 DEF AllFollow

LEMMA CreateFollows ==
  ASSUME KnownInv, apart \subseteq Organisations, AllFollow, NEW r \in Slots, Mark({}),
         CreateBegin(r) \/ CreateInsert(r) \/ CreateOrganisation(r)
  PROVE  KnownInv' /\ AllFollow'
<1>0. TypeOK /\ Known(r)
  BY DEF KnownInv
<1>1. CASE CreateBegin(r)
  <2>1. PICK o \in Organisations, plan \in Plans, start \in StartDates \cup {today} :
          /\ At(r, "idle")
          /\ Move(r, [Idle EXCEPT !.at = "create.insert", !.row = NewRow(o, plan, start)])
          /\ UNCHANGED tables
    BY <1>1 DEF CreateBegin
  <2>2. plan.length \in Nat /\ plan.trial \in Nat /\ start \in Nat /\ today \in Days
    BY <1>0, PlansAssumption, DatesAssumption DEF TypeOK, Days
  <2>3. NewRow(o, plan, start) \in Rows
    BY <2>2 DEF NewRow, Rows, Statuses
  <2> DEFINE state == [Idle EXCEPT !.at = "create.insert", !.row = NewRow(o, plan, start)]
  <2>4. state \in SlotStates /\ state.at = "create.insert" /\ state.row \in Rows
    BY <2>3 DEF Idle, SlotStates, Points
  <2>5. Move(r, state) /\ slot[r].at \notin Halfway
    BY <2>1 DEF At, Halfway
  <2> HIDE DEF state
  <2>6. /\ slot' \in [Slots -> SlotStates] /\ slot'[r] = state
        /\ \A q \in Slots \ {r} : slot'[q] = slot[q]
    BY <1>0, <2>4, <2>5, MoveEffect
  <2>7. slot'[r].at \notin Halfway /\ Known(r)'
    BY <2>4, <2>6 DEF Halfway, Known, At
  <2> QED BY <2>1, <2>5, <2>6, <2>7, QuietStep
<1>2. CASE CreateInsert(r)
  <2>1. PICK s \in SubscriptionIds \ DOMAIN subscription :
          /\ At(r, "create.insert")
          /\ subscription' = [x \in DOMAIN subscription \cup {s} |->
               IF x = s THEN [slot[r].row EXCEPT !.updatedAt = today] ELSE subscription[x]]
          /\ Goto(r, "create.organisation")
          /\ UNCHANGED <<organisation, today>>
    BY <1>2 DEF CreateInsert
  <2>2. slot[r].row \in Rows /\ today \in Days
    BY <1>0, <2>1 DEF Known, TypeOK
  <2>3. /\ DOMAIN subscription' = DOMAIN subscription \cup {s}
        /\ \A x \in DOMAIN subscription : subscription'[x] = subscription[x]
        /\ subscription'[s] = [slot[r].row EXCEPT !.updatedAt = today]
    BY <2>1
  <2>4. /\ subscription'[s] \in Rows
        /\ subscription'[s].organisation = slot[r].row.organisation
        /\ subscription'[s].status = slot[r].row.status
    BY <2>2, <2>3 DEF Rows
  <2>5. "create.organisation" \in Points
    BY DEF Points
  <2>6. /\ slot' \in [Slots -> SlotStates]
        /\ \A q \in Slots \ {r} : slot'[q] = slot[q]
        /\ slot'[r].at = "create.organisation" /\ slot'[r].row = slot[r].row
    BY <1>0, <2>1, <2>5, GotoEffect
  <2>7. Known(r)'
    BY <2>2, <2>6 DEF Known, At
  <2>8. \A x \in DOMAIN subscription' : subscription'[x] \in Rows
    BY <1>0, <2>3, <2>4 DEF TypeOK
  <2>9. KnownInv'
    BY <1>0, <2>1, <2>3, <2>6, <2>7, <2>8, KnownStep DEF TypeOK
  <2>10. ASSUME NEW o \in Organisations \ apart'
         PROVE  Follows(o)'
    <3>1. o \in Organisations \ apart /\ ~Overlap(o)'
      BY Unmarked
    <3>2. CASE slot[r].row.organisation = o
      <4>1. Between(r, o)'
        BY <2>6, <3>2 DEF Between, At
      <4>2. s \in Of(o)'
        BY <2>3, <2>4, <3>2 DEF Of
      <4>3. Promised(r, o)'
        BY <2>4, <2>6, <4>2 DEF Promised, At
      <4> QED BY <3>1, <4>1, <4>3, FirstWrite
    <3>3. CASE slot[r].row.organisation # o
      <4>1. Of(o)' = Of(o)
        BY <2>3, <2>4, <3>3 DEF Of
      <4>2. ~Between(r, o) /\ ~Between(r, o)'
        BY <2>1, <2>6, <3>3 DEF Between, At
      <4>3. \A x \in Of(o) : subscription'[x].status = subscription[x].status
        BY <2>3 DEF Of
      <4>4. Follows(o) /\ organisation'[o] = organisation[o]
        BY <2>1, <3>1 DEF AllFollow
      <4> QED BY <2>3, <2>6, <4>1, <4>2, <4>3, <4>4, Aside
    <3> QED BY <3>2, <3>3
  <2> QED BY <2>9, <2>10 DEF AllFollow
<1>3. CASE CreateOrganisation(r)
  <2>1. PICK row \in Rows : row = slot[r].row
    BY <1>0, <1>3 DEF CreateOrganisation, Known
  <2>2. PICK y \in Organisations : y = row.organisation
    BY <2>1 DEF Rows
  <2>3. PICK status : status = OrganisationStatus(row.status)
    OBVIOUS
  <2>4. /\ At(r, "create.organisation") /\ SetOrganisation(y, status)
        /\ Move(r, Idle) /\ UNCHANGED <<subscription, today>>
    BY <1>3, <2>1, <2>2, <2>3 DEF CreateOrganisation, Return
  <2>5. status \in OrganisationStatuses
    BY <2>3 DEF OrganisationStatus, OrganisationStatuses
  <2>6. /\ slot' \in [Slots -> SlotStates] /\ slot'[r].at \notin Halfway /\ Known(r)'
        /\ \A q \in Slots \ {r} : slot'[q] = slot[q]
    BY <1>0, <2>4, RestsAt
  <2>7. /\ \A o \in Organisations : organisation'[o] = IF o = y THEN status ELSE organisation[o]
        /\ organisation' \in [Organisations -> OrganisationStatuses]
    BY <1>0, <2>4, <2>5 DEF SetOrganisation, TypeOK
  <2>8. KnownInv'
    BY <1>0, <2>4, <2>6, <2>7, KnownStep DEF TypeOK
  <2>9. ASSUME NEW o \in Organisations \ apart'
        PROVE  Follows(o)'
    <3>1. o \in Organisations \ apart
      BY Unmarked
    <3>2. Follows(o)
      BY <3>1 DEF AllFollow
    <3>3. CASE o = y
      <4>1. Between(r, o)
        BY <2>1, <2>2, <2>4, <3>3 DEF Between
      <4>2. ASSUME NEW s \in DOMAIN subscription, Of(o) = {s}
            PROVE  organisation'[o] = OrganisationStatus(subscription[s].status)
        <5>1. Promised(r, o)
          BY <3>2, <4>1 DEF Follows
        <5>2. subscription[s].status = row.status
          BY <2>1, <2>4, <4>2, <5>1 DEF Promised
        <5> QED BY <2>3, <2>7, <3>3, <5>2
      <4> QED BY <2>4, <2>6, <3>2, <4>1, <4>2, SecondWrite
    <3>4. CASE o # y
      <4>1. ~Between(r, o) /\ ~Between(r, o)'
        BY <2>1, <2>2, <2>4, <2>6, <3>4 DEF Between, At, Halfway
      <4>2. Of(o)' = Of(o) /\ organisation'[o] = organisation[o]
        BY <2>4, <2>7, <3>4 DEF Of
      <4> QED BY <2>4, <2>6, <3>2, <4>1, <4>2, Aside
    <3> QED BY <3>3, <3>4
  <2> QED BY <2>8, <2>9 DEF AllFollow
<1> QED BY <1>1, <1>2, <1>3

\* A mutation of one write: what it changes, it changes alone.
LEMMA AloneFollows ==
  ASSUME KnownInv, apart \subseteq Organisations, AllFollow, NEW r \in Slots, Mark({}),
         UpdateSubscription(r) \/ CancelSubscription(r) \/ ManageOrganisation(r)
  PROVE  KnownInv' /\ AllFollow'
<1>0. TypeOK /\ Known(r)
  BY DEF KnownInv
<1>1. slot' = slot /\ today' = today
  BY DEF UpdateSubscription, CancelSubscription, ManageOrganisation
<1>2. /\ \A o : Of(o)' = Of(o)
      /\ DOMAIN subscription' = DOMAIN subscription
      /\ \A x \in DOMAIN subscription : subscription'[x] \in Rows
      /\ \A x \in DOMAIN subscription :
           subscription'[x].organisation = subscription[x].organisation
      /\ organisation' \in [Organisations -> OrganisationStatuses]
  <2>1. CASE UpdateSubscription(r) \/ CancelSubscription(r)
    <3>1. PICK s \in DOMAIN subscription, status \in Statuses :
            SetStatus(s, status) /\ organisation' = organisation
      <4>1. "CANCELLED" \in Statuses
        BY DEF Statuses
      <4>2. ASSUME NEW s \in DOMAIN subscription, NEW u \in Updates
            PROVE  (IF u = Unchanged THEN subscription[s].status ELSE u) \in Statuses
        BY <1>0, InputsAssumption DEF TypeOK, Rows
      <4> QED BY <2>1, <4>1, <4>2 DEF UpdateSubscription, CancelSubscription
    <3> QED BY <1>0, <3>1, RowWritten DEF TypeOK
  <2>2. CASE ManageOrganisation(r)
    <3>1. /\ subscription' = subscription
          /\ organisation' \in [Organisations -> OrganisationStatuses]
      BY <1>0, <2>2, InputsAssumption DEF ManageOrganisation, SetOrganisation, TypeOK
    <3> QED BY <1>0, <3>1 DEF Of, TypeOK
  <2> QED BY <2>1, <2>2
<1>3. KnownInv'
  <2>1. Known(r)'
    BY <1>0, <1>1, <1>2 DEF Known, At
  <2> QED BY <1>0, <1>1, <1>2, <2>1, KnownStep DEF TypeOK
<1>4. ASSUME NEW o \in Organisations \ apart'
      PROVE  Follows(o)'
  <2>1. o \in Organisations \ apart /\ ~WrittenAlone(o)
    BY Unmarked
  <2>2. /\ organisation'[o] = organisation[o]
        /\ \A s \in Of(o) : subscription'[s].status = subscription[s].status
    BY <1>1, <2>1 DEF WrittenAlone
  <2>3. Follows(o)
    BY <2>1 DEF AllFollow
  <2> QED BY <1>1, <1>2, <2>2, <2>3, Aside
<1> QED BY <1>3, <1>4 DEF AllFollow

LEMMA JobFollows ==
  ASSUME KnownInv, apart \subseteq Organisations, AllFollow, NEW r \in Slots, Mark({}),
         LifecycleStep(r)
  PROVE  KnownInv' /\ AllFollow'
<1>0. TypeOK /\ Known(r)
  BY DEF KnownInv
\* A query, and what the loop begins with.
<1>1. ASSUME NEW todo, todo \subseteq DOMAIN subscription, slot[r].at \notin Halfway,
             UNCHANGED tables, ExpiredNext(r, todo) \/ GraceNext(r, todo)
      PROVE  KnownInv' /\ AllFollow'
  <2>1. /\ slot' \in [Slots -> SlotStates] /\ slot'[r].at \notin Halfway /\ Known(r)'
        /\ \A q \in Slots \ {r} : slot'[q] = slot[q]
    BY <1>0, <1>1, LoopEffect DEF tables
  <2> QED BY <1>1, <2>1, QuietStep
\* The first write of a change.
<1>2. ASSUME NEW status \in Statuses, NEW point \in Points,
             At(r, "expired.update") \/ At(r, "grace.update"),
             SetStatus(slot[r].id, status), Goto(r, point), UNCHANGED <<organisation, today>>,
             \/ point = "expired.organisation" /\ status = "PAST_DUE"
             \/ point = "grace.organisation" /\ status = "CANCELLED"
      PROVE  KnownInv' /\ AllFollow'
  <2>1. PICK s \in DOMAIN subscription : s = slot[r].id
    BY <1>0, <1>2 DEF Known
  <2>2. slot[r].todo \subseteq DOMAIN subscription
    BY <1>0, <1>2 DEF Known
  <2>3. SetStatus(s, status)
    BY <1>2, <2>1
  <2>4. /\ DOMAIN subscription' = DOMAIN subscription
        /\ \A x \in DOMAIN subscription : subscription'[x] \in Rows
        /\ \A x \in DOMAIN subscription :
             subscription'[x].organisation = subscription[x].organisation
        /\ \A x \in DOMAIN subscription \ {s} : subscription'[x] = subscription[x]
        /\ subscription'[s].status = status
        /\ \A o : Of(o)' = Of(o)
    BY <1>0, <2>3, RowWritten
  <2>5. /\ slot' \in [Slots -> SlotStates]
        /\ \A q \in Slots \ {r} : slot'[q] = slot[q]
        /\ slot'[r].at = point /\ slot'[r].id = s /\ slot'[r].todo = slot[r].todo
    BY <1>0, <1>2, <2>1, GotoEffect
  <2>6. Known(r)'
    BY <1>2, <2>2, <2>4, <2>5 DEF Known, At
  <2>7. KnownInv'
    BY <1>0, <1>2, <2>4, <2>5, <2>6, KnownStep DEF TypeOK
  <2>8. ASSUME NEW o \in Organisations \ apart'
        PROVE  Follows(o)'
    <3>1. o \in Organisations \ apart /\ ~Overlap(o)'
      BY Unmarked
    <3>2. CASE subscription[s].organisation = o
      <4>1. Between(r, o)'
        BY <1>2, <2>4, <2>5, <3>2 DEF Between, At
      <4>2. Promised(r, o)'
        BY <1>2, <2>4, <2>5 DEF Promised, At
      <4> QED BY <3>1, <4>1, <4>2, FirstWrite
    <3>3. CASE subscription[s].organisation # o
      <4>1. subscription'[s].organisation # o
        BY <2>4, <3>3
      <4>2. ~Between(r, o)
        BY <1>2 DEF Between, At
      <4>3. ~Between(r, o)'
        BY <1>2, <2>5, <4>1 DEF Between, At
      <4>4. \A x \in Of(o) : subscription'[x].status = subscription[x].status
        BY <2>4, <3>3 DEF Of
      <4>5. Follows(o) /\ organisation'[o] = organisation[o]
        BY <1>2, <3>1 DEF AllFollow
      <4> QED BY <2>4, <2>5, <4>2, <4>3, <4>4, <4>5, Aside
    <3> QED BY <3>2, <3>3
  <2> QED BY <2>7, <2>8 DEF AllFollow
\* The second.
<1>3. ASSUME NEW status \in Statuses,
             \/ At(r, "expired.organisation") /\ status = "PAST_DUE"
             \/ At(r, "grace.organisation") /\ status = "CANCELLED",
             SetOrganisation(subscription[slot[r].id].organisation, OrganisationStatus(status)),
             ExpiredNext(r, slot[r].todo) \/ GraceNext(r, slot[r].todo),
             UNCHANGED <<subscription, today>>
      PROVE  KnownInv' /\ AllFollow'
  <2>1. PICK s \in DOMAIN subscription : s = slot[r].id
    BY <1>0, <1>3 DEF Known
  <2>2. PICK y \in Organisations : y = subscription[s].organisation
    BY <1>0 DEF TypeOK, Rows
  <2>3. OrganisationStatus(status) \in OrganisationStatuses
    BY DEF OrganisationStatus, OrganisationStatuses
  <2>4. /\ \A o \in Organisations : organisation'[o] =
             IF o = y THEN OrganisationStatus(status) ELSE organisation[o]
        /\ organisation' \in [Organisations -> OrganisationStatuses]
    BY <1>0, <1>3, <2>1, <2>2, <2>3 DEF SetOrganisation, TypeOK
  <2>5. slot[r].todo \subseteq DOMAIN subscription
    BY <1>0, <1>3 DEF Known
  <2>6. /\ slot' \in [Slots -> SlotStates] /\ slot'[r].at \notin Halfway /\ Known(r)'
        /\ \A q \in Slots \ {r} : slot'[q] = slot[q]
    BY <1>0, <1>3, <2>5, LoopEffect
  <2>7. KnownInv'
    BY <1>0, <1>3, <2>4, <2>6, KnownStep DEF TypeOK
  <2>8. ASSUME NEW o \in Organisations \ apart'
        PROVE  Follows(o)'
    <3>1. o \in Organisations \ apart
      BY Unmarked
    <3>2. Follows(o)
      BY <3>1 DEF AllFollow
    <3>3. CASE o = y
      <4>1. Between(r, o)
        BY <1>3, <2>1, <2>2, <3>3 DEF Between
      <4>2. ASSUME NEW x \in DOMAIN subscription, Of(o) = {x}
            PROVE  organisation'[o] = OrganisationStatus(subscription[x].status)
        <5>1. x = s
          BY <2>2, <3>3, <4>2 DEF Of
        <5>2. Promised(r, o)
          BY <3>2, <4>1 DEF Follows
        <5>3. subscription[s].status = status
          BY <1>3, <2>1, <5>2 DEF Promised
        <5> QED BY <2>4, <3>3, <5>1, <5>3
      <4> QED BY <1>3, <2>6, <3>2, <4>1, <4>2, SecondWrite
    <3>4. CASE o # y
      <4>1. ~Between(r, o) /\ ~Between(r, o)'
        BY <1>3, <2>1, <2>2, <2>6, <3>4 DEF Between, At, Halfway
      <4>2. Of(o)' = Of(o) /\ organisation'[o] = organisation[o]
        BY <1>3, <2>4, <3>4 DEF Of
      <4> QED BY <1>3, <2>6, <3>2, <4>1, <4>2, Aside
    <3> QED BY <3>3, <3>4
  <2> QED BY <2>7, <2>8 DEF AllFollow
<1>4. /\ {"PAST_DUE", "CANCELLED"} \subseteq Statuses
      /\ {"expired.organisation", "grace.organisation"} \subseteq Points
  BY DEF Statuses, Points
<1>5. CASE ExpiredFind(r)
  BY <1>1, <1>5 DEF ExpiredFind, At, Halfway
<1>6. CASE ExpiredUpdate(r)
  BY <1>2, <1>4, <1>6 DEF ExpiredUpdate
<1>7. CASE ExpiredOrganisation(r)
  BY <1>3, <1>4, <1>7 DEF ExpiredOrganisation
<1>8. CASE GraceQuery(r)
  BY <1>1, <1>8 DEF GraceQuery, At, Halfway
<1>9. CASE GraceUpdate(r)
  BY <1>2, <1>4, <1>9 DEF GraceUpdate
<1>10. CASE GraceOrganisation(r)
  BY <1>3, <1>4, <1>10 DEF GraceOrganisation
<1> QED BY <1>5, <1>6, <1>7, <1>8, <1>9, <1>10 DEF LifecycleStep

\* A call rejects: a handler that was between two writes is marked.
LEMMA RejectFollows ==
  ASSUME KnownInv, apart \subseteq Organisations, AllFollow, NEW r \in Slots, Mark({r}),
         Reject(r)
  PROVE  KnownInv' /\ AllFollow'
<1>0. TypeOK /\ Known(r) /\ UNCHANGED tables /\ UNCHANGED subscription
  BY DEF KnownInv, Reject, tables
<1>1. CASE Move(r, Idle) \/ Move(r, GraceFind)
  BY <1>0, <1>1, RestsAt, QuietStep
<1>2. CASE \/ At(r, "expired.organisation") /\ ExpiredNext(r, slot[r].todo)
           \/ At(r, "grace.organisation") /\ GraceNext(r, slot[r].todo)
  <2>1. slot[r].todo \subseteq DOMAIN subscription
    BY <1>0, <1>2 DEF Known
  <2>2. /\ slot' \in [Slots -> SlotStates] /\ slot'[r].at \notin Halfway /\ Known(r)'
        /\ \A q \in Slots \ {r} : slot'[q] = slot[q]
    BY <1>0, <1>2, <2>1, LoopEffect
  <2> QED BY <1>0, <2>2, QuietStep
<1> QED BY <1>1, <1>2 DEF Reject, Return

LEMMA StopFollows ==
  ASSUME KnownInv, apart \subseteq Organisations, AllFollow, Mark(Slots), Stop
  PROVE  KnownInv' /\ AllFollow'
<1>0. TypeOK /\ UNCHANGED <<subscription, organisation, today>>
  BY DEF KnownInv, Stop, tables
<1>1. Idle \in SlotStates /\ Idle.at = "idle"
  BY DEF Idle, SlotStates, Points
<1>2. slot' \in [Slots -> SlotStates] /\ \A q \in Slots : slot'[q].at = "idle"
  BY <1>1 DEF Stop
<1>3. KnownInv'
  BY <1>0, <1>2 DEF KnownInv, TypeOK, Known, At
<1>4. ASSUME NEW o \in Organisations \ apart'
      PROVE  Follows(o)'
  <2>1. o \in Organisations \ apart /\ \A q \in Slots : ~Between(q, o)
    BY Unmarked
  <2>2. \A q \in Slots : ~Between(q, o)'
    BY <1>2 DEF Between, At
  <2>3. Follows(o) /\ Of(o)' = Of(o)
    BY <1>0, <2>1 DEF AllFollow, Of
  <2> QED BY <1>0, <2>1, <2>2, <2>3, Aside
<1> QED BY <1>3, <1>4 DEF AllFollow

LEMMA TickFollows ==
  ASSUME KnownInv, apart \subseteq Organisations, AllFollow, Mark({}), Tick
  PROVE  KnownInv' /\ AllFollow'
<1>0. TypeOK /\ UNCHANGED <<subscription, organisation, slot>>
  BY DEF KnownInv, Tick
<1>1. today' \in Days
  BY <1>0, DatesAssumption DEF TypeOK, Tick, Days
<1>2. KnownInv'
  BY <1>0, <1>1 DEF KnownInv, TypeOK, Known, At
<1>3. ASSUME NEW o \in Organisations \ apart'
      PROVE  Follows(o)'
  <2>1. o \in Organisations \ apart
    BY Unmarked
  <2>2. Follows(o) /\ Of(o)' = Of(o)
    BY <1>0, <2>1 DEF AllFollow, Of
  <2> QED BY <1>0, <2>2, Aside
<1> QED BY <1>2, <1>3 DEF AllFollow

LEMMA FollowStep ==
  ASSUME KnownInv, apart \subseteq Organisations, AllFollow, [FollowNext]_followVars
  PROVE  KnownInv' /\ apart' \subseteq Organisations /\ AllFollow'
<1>1. CASE FollowNext
  <2>1. ASSUME NEW r \in Slots, MutationStep(r) \/ LifecycleStep(r), Mark({})
        PROVE  KnownInv' /\ AllFollow'
    BY <2>1, CreateFollows, AloneFollows, JobFollows DEF MutationStep
  <2>2. KnownInv' /\ AllFollow'
    BY <1>1, <2>1, RejectFollows, StopFollows, TickFollows DEF FollowNext
  <2>3. apart' \subseteq Organisations
    BY <1>1, Unmarked DEF FollowNext
  <2> QED BY <2>2, <2>3
<1>2. CASE UNCHANGED followVars
  <2>1. UNCHANGED <<subscription, organisation, today, slot, apart>>
    BY <1>2 DEF followVars, vars
  <2>2. KnownInv' /\ apart' \subseteq Organisations
    BY <2>1 DEF KnownInv, TypeOK, Known, At
  <2>3. ASSUME NEW o \in Organisations \ apart'
        PROVE  Follows(o)'
    <3>1. Follows(o) /\ Of(o)' = Of(o)
      BY <2>1 DEF AllFollow, Of
    <3> QED BY <2>1, <3>1, Aside
  <2> QED BY <2>2, <2>3 DEF AllFollow
<1> QED BY <1>1, <1>2

LEMMA FollowBegins ==
  ASSUME FollowInit
  PROVE  KnownInv /\ apart \subseteq Organisations /\ AllFollow
<1>1. Idle \in SlotStates /\ Idle.at = "idle"
  BY DEF Idle, SlotStates, Points
<1>2. Init /\ apart = {} /\ DOMAIN subscription = {}
  BY DEF FollowInit, Init
<1>3. slot \in [Slots -> SlotStates] /\ \A r \in Slots : slot[r].at = "idle"
  BY <1>1, <1>2 DEF Init
<1>4. TypeOK
  BY <1>2, <1>3, DatesAssumption DEF Init, TypeOK, Days, OrganisationStatuses
<1>5. KnownInv
  BY <1>3, <1>4 DEF KnownInv, Known, At
<1>6. \A o \in Organisations, r \in Slots : ~Between(r, o)
  BY <1>3 DEF Between, At
<1>7. AllFollow
  BY <1>2, <1>6 DEF AllFollow, Follows, Overlap
<1> QED BY <1>2, <1>5, <1>7

\* Whatever handlers overlap, fail or are stopped, and whatever operators and
\* managers write: a handler between the two writes for an organisation that is
\* not recorded as written apart is alone there, and gives it the status that
\* its subscription still has.
THEOREM FollowInvariant == FollowSpec => []FollowInv
<1> DEFINE Inv == KnownInv /\ apart \subseteq Organisations /\ AllFollow
<1>1. FollowInit => Inv
  BY FollowBegins
<1>2. Inv /\ [FollowNext]_followVars => Inv'
  BY FollowStep
<1>3. Inv => FollowInv
  BY FollowsAll
<1> HIDE DEF Inv
<1> QED BY <1>1, <1>2, <1>3, PTL DEF FollowSpec

\* The organisation of a single subscription has the status that goes with it
\* whenever no handler is between the two writes, but for those of which the
\* two were written apart: by a mutation of one of them only, by a handler that
\* failed in between, or by two handlers at once.
THEOREM StatusFollows == FollowSpec => []OrganisationFollows
<1>1. FollowInv => OrganisationFollows
  BY DEF FollowInv
<1> QED BY <1>1, FollowInvariant, PTL

=============================================================================
