------------------------- MODULE RegistrationProofs -------------------------
(***************************************************************************)
(* Theorems about Registration, for any number of handlers, people and     *)
(* charges, and any failures: how far an event can be overbooked and a     *)
(* payment be shared, and that what is recorded of a payment is true.      *)
(***************************************************************************)
EXTENDS Registration, FiniteSetTheorems, TLAPS

LEMMA IdleType == Idle \in SlotStates /\ Idle.at = "idle" /\ Idle.report = NoReport /\ Idle.todo = {}
  BY DEF Idle, SlotStates, Points

LEMMA RequestRows == Requests \subseteq Rows
  BY RegistrationAssumption DEF Requests, Rows, Payments, Statuses

LEMMA SlotMoved ==
  ASSUME TypeOK, NEW r \in Slots, NEW state \in SlotStates, Move(r, state)
  PROVE  /\ slot' \in [Slots -> SlotStates]
         /\ slot'[r] = state
         /\ \A q \in Slots \ {r} : slot'[q] = slot[q]
  BY DEF TypeOK, Move

LEMMA SlotGoes ==
  ASSUME TypeOK, NEW r \in Slots, NEW point \in Points, Goto(r, point)
  PROVE  /\ slot' \in [Slots -> SlotStates]
         /\ slot'[r].at = point /\ slot'[r].row = slot[r].row /\ slot'[r].report = slot[r].report
         /\ slot'[r].id = slot[r].id /\ slot'[r].todo = slot[r].todo
         /\ \A q \in Slots \ {r} : slot'[q] = slot[q]
<1> DEFINE state == [slot[r] EXCEPT !.at = point]
<1>1. slot[r] \in SlotStates
  BY DEF TypeOK
<1>2. /\ state \in SlotStates /\ state.at = point /\ state.row = slot[r].row
      /\ state.report = slot[r].report /\ state.id = slot[r].id /\ state.todo = slot[r].todo
  BY <1>1 DEF SlotStates
<1>3. Move(r, state)
  BY DEF Goto
<1> HIDE DEF state
<1> QED
  BY <1>2, <1>3, SlotMoved

LEMMA SlotReturns ==
  ASSUME TypeOK, NEW r \in Slots, Return(r)
  PROVE  /\ slot' \in [Slots -> SlotStates]
         /\ slot'[r] = Idle
         /\ \A q \in Slots \ {r} : slot'[q] = slot[q]
<1>1. Move(r, Idle)
  BY DEF Return
<1> QED
  BY <1>1, IdleType, SlotMoved

\* The next report of a retry, found with the others.
LEMMA SlotGoesOn ==
  ASSUME TypeOK, NEW r \in Slots, NextReport(r)
  PROVE  /\ slot' \in [Slots -> SlotStates]
         /\ \A q \in Slots \ {r} : slot'[q] = slot[q]
         /\ \/ slot'[r] = Idle
            \/ /\ slot'[r].at = "find" /\ slot'[r].report \in slot[r].todo
               /\ slot'[r].report \in Reports /\ slot'[r].todo \subseteq slot[r].todo
<1>1. CASE Return(r)
  BY <1>1, SlotReturns
<1>2. CASE \E w \in slot[r].todo :
             Move(r, [slot[r] EXCEPT !.at = "find", !.report = w, !.id = NoId, !.todo = @ \ {w}])
  <2>1. PICK w \in slot[r].todo :
          Move(r, [slot[r] EXCEPT !.at = "find", !.report = w, !.id = NoId, !.todo = @ \ {w}])
    BY <1>2
  <2> DEFINE state == [slot[r] EXCEPT !.at = "find", !.report = w, !.id = NoId, !.todo = @ \ {w}]
  <2>2. slot[r] \in SlotStates
    BY DEF TypeOK
  <2>3. "find" \in Points /\ w \in Reports /\ slot[r].todo \ {w} \in SUBSET Reports
    BY <2>2 DEF Points, SlotStates
  <2>4. /\ state \in SlotStates /\ state.at = "find" /\ state.report = w
        /\ state.todo = slot[r].todo \ {w}
    BY <2>2, <2>3 DEF SlotStates
  <2>5. Move(r, state)
    BY <2>1
  <2> HIDE DEF state
  <2> QED
    BY <2>3, <2>4, <2>5, SlotMoved
<1> QED
  BY <1>1, <1>2 DEF NextReport

-----------------------------------------------------------------------------
(* What other handlers rely on.                                            *)

\* Rows that no client writes to keep their reference, none becomes pending,
\* and keys are not used again; a row inserted after its success was looked up
\* is missed.
RowsKept ==
  /\ Live \cup deleted \subseteq Live' \cup deleted'
  /\ reported \subseteq reported'
  /\ \A i \in Live' \ entered' :
       \/ /\ i \in Live \ entered /\ registration'[i].reference = registration[i].reference
          /\ registration'[i].payment = "pending" => registration[i].payment = "pending"
          /\ i \in missed => i \in missed'
       \/ /\ i \notin Live \cup deleted /\ registration'[i] \in Requests
          /\ registration'[i].reference \in reported => i \in missed'

LEMMA RowsUnchanged ==
  ASSUME UNCHANGED <<registration, deleted, entered>>, missed \subseteq missed', reported \subseteq reported'
  PROVE  RowsKept
  BY DEF RowsKept, Live

\* What a handler holds stays true while others move.
LEMMA OthersHold ==
  ASSUME RowsKept, NEW q \in Slots, slot'[q] = slot[q], HandlerHolds(q)
  PROVE  HandlerHolds(q)'
<1>1. slot[q].at \in {"duplicate", "reference", "insert"} => slot[q].row \in Requests'
  BY DEF HandlerHolds, Requests
<1>2. ASSUME At(q, "update")
      PROVE  /\ slot[q].id \in Live' \cup deleted'
             /\ slot[q].id \in Live' \ entered' => registration'[slot[q].id].reference = slot[q].report.reference
  BY <1>2 DEF HandlerHolds, RowsKept
<1>3. slot[q].at \in {"find", "update", "processed"} => slot[q].report \in Reports'
  BY DEF HandlerHolds, Reports
<1> QED
  BY <1>1, <1>2, <1>3 DEF HandlerHolds, At

LEMMA OthersInHand ==
  ASSUME RowsKept, NEW q \in Slots, NEW x \in References, slot'[q] = slot[q], SuccessInHand(q, x)
  PROVE  SuccessInHand(q, x)'
<1>1. ASSUME x \in reported, NEW i \in RegisteredWith(x)' \ missed'
      PROVE  /\ i \in RegisteredWith(x) \ missed
             /\ registration'[i].payment = "pending" => registration[i].payment = "pending"
  BY <1>1 DEF RowsKept, PaidWith, RegisteredWith
<1>2. x \in reported => x \in reported'
  BY DEF RowsKept
<1> QED
  BY <1>1, <1>2 DEF SuccessInHand, At

LEMMA PendingIsPaid ==
  ASSUME RowsKept,
         \A i \in Live \ entered : registration[i].payment = "pending" => registration[i].reference \in References
  PROVE  \A i \in Live' \ entered' : registration'[i].payment = "pending" => registration'[i].reference \in References
<1>1. \A row \in Requests : row.payment = "pending" => row.reference \in References
  BY DEF Requests
<1> QED
  BY <1>1 DEF RowsKept

\* Reports that go from one place to another.
LEMMA ReportsStayTrue ==
  ASSUME ReportsAreTrue, UNCHANGED charge, unconfirmed' \subseteq unconfirmed,
         stuck' \subseteq Unprocessed, NEW r \in Slots,
         \A q \in Slots \ {r} : slot'[q] = slot[q],
         slot'[r].report \in unconfirmed \cup Unprocessed \cup Held \cup {NoReport},
         slot'[r].todo \subseteq Unprocessed \cup Held
  PROVE  ReportsAreTrue'
<1>1. Unprocessed' \subseteq unconfirmed \cup Unprocessed \cup Held
  BY DEF Unprocessed
<1>2. Held' \subseteq Unprocessed \cup Held
  BY DEF Held
<1> QED
  BY <1>1, <1>2 DEF ReportsAreTrue

\* A handler goes on and no report changes.
LEMMA HandlerGoesOn ==
  ASSUME RegistrationInv, RowsKept, NEW r \in Slots,
         UNCHANGED charge, unconfirmed' \subseteq unconfirmed,
         \A x \in References \ reported : Succeeded(x) \in unconfirmed => Succeeded(x) \in unconfirmed',
         slot' \in [Slots -> SlotStates], \A q \in Slots \ {r} : slot'[q] = slot[q],
         stuck' \subseteq Unprocessed, TypeOK', HandlerHolds(r)',
         \A x \in References : slot'[r].report = Succeeded(x) => SuccessInHand(r, x)',
         slot'[r].report \in unconfirmed \cup Unprocessed \cup Held \cup {NoReport},
         slot'[r].todo \subseteq Unprocessed \cup Held
  PROVE  RegistrationInv'
<1> USE DEF RegistrationInv
<1>1. \A q \in Slots : HandlerHolds(q)'
  BY OthersHold
<1>2. \A i \in Live' \ entered' : registration'[i].payment = "pending" => registration'[i].reference \in References
  BY PendingIsPaid
<1>3. ReportsAreTrue'
  BY ReportsStayTrue
<1>4. \A x \in References \ reported' : charge'[x] = "success" => Succeeded(x) \in unconfirmed'
  BY DEF RowsKept
<1>5. \A q \in Slots, x \in References : slot'[q].report = Succeeded(x) => SuccessInHand(q, x)'
  BY OthersInHand
<1>6. \A x \in References : Succeeded(x)' = Succeeded(x)
  BY DEF Succeeded
<1> QED
  BY <1>1, <1>2, <1>3, <1>4, <1>5, <1>6

-----------------------------------------------------------------------------
(* Each action keeps the invariant.                                        *)

\* A handler that holds no report, or has a row to look up.
LEMMA NothingInHand ==
  ASSUME NEW r \in Slots, slot'[r].at \in {"idle", "find"},
         slot'[r].at = "find" => slot'[r].report \in Reports
  PROVE  HandlerHolds(r)' /\ \A x \in References : SuccessInHand(r, x)'
  BY DEF HandlerHolds, SuccessInHand, At, Reports

LEMMA RegisterMoves ==
  ASSUME RegistrationInv, NEW r \in Slots, UNCHANGED <<tables, paystack, stuck, history>>,
         slot' \in [Slots -> SlotStates], \A q \in Slots \ {r} : slot'[q] = slot[q],
         \/ slot'[r] = Idle
         \/ /\ slot'[r].at \in {"duplicate", "reference", "insert"} /\ slot'[r].row \in Requests
            /\ slot'[r].report \in Unprocessed \cup {NoReport} /\ slot'[r].todo \subseteq Held
  PROVE  RegistrationInv' /\ RowsKept
<1>1. RowsKept
  BY RowsUnchanged DEF tables, history
<1>2. TypeOK'
  BY DEF RegistrationInv, TypeOK, tables, paystack, history, Rows, Reports, SlotStates
<1>3. HandlerHolds(r)' /\ \A x \in References : SuccessInHand(r, x)'
  BY IdleType DEF HandlerHolds, SuccessInHand, At, Requests, Reports
<1>4. /\ UNCHANGED <<charge, unconfirmed>> /\ stuck' \subseteq Unprocessed
      /\ slot'[r].report \in Unprocessed \cup {NoReport} /\ slot'[r].todo \subseteq Held
  BY IdleType DEF paystack, Unprocessed
<1> QED
  BY <1>1, <1>2, <1>3, <1>4, HandlerGoesOn

LEMMA CountPlacesKeeps ==
  ASSUME RegistrationInv, NEW r \in Slots, CountPlaces(r)
  PROVE  RegistrationInv' /\ RowsKept
<1>1. PICK row \in Requests :
        /\ Move(r, [Idle EXCEPT !.at = "duplicate", !.row = row])
        /\ UNCHANGED <<tables, paystack, stuck, history>>
  BY DEF CountPlaces
<1> DEFINE state == [Idle EXCEPT !.at = "duplicate", !.row = row]
<1>2. /\ state \in SlotStates /\ state.at = "duplicate" /\ state.row = row
      /\ state.report = NoReport /\ state.todo = {}
  BY IdleType, RequestRows DEF Idle, SlotStates, Points
<1>3. Move(r, state)
  BY <1>1
<1> HIDE DEF state
<1>4. slot' \in [Slots -> SlotStates] /\ slot'[r] = state /\ \A q \in Slots \ {r} : slot'[q] = slot[q]
  BY <1>2, <1>3, SlotMoved DEF RegistrationInv
<1> QED
  BY <1>1, <1>2, <1>4, RegisterMoves

LEMMA RefusedOrAdmitted ==
  ASSUME RegistrationInv, NEW r \in Slots, UNCHANGED <<tables, paystack, stuck, history>>,
         slot[r].at \in {"duplicate", "reference", "insert"},
         Return(r) \/ Goto(r, "reference") \/ Goto(r, "insert")
  PROVE  RegistrationInv' /\ RowsKept
<1>1. TypeOK /\ slot[r].row \in Requests
  BY DEF RegistrationInv, HandlerHolds
<1>2. slot[r].report \in Unprocessed \cup {NoReport} /\ slot[r].todo \subseteq Held
  BY DEF Unprocessed, Held
<1>3. CASE Return(r)
  BY <1>1, <1>3, SlotReturns, RegisterMoves
<1>4. ASSUME NEW point \in {"reference", "insert"}, Goto(r, point)
      PROVE  RegistrationInv' /\ RowsKept
  <2>1. point \in Points
    BY DEF Points
  <2>2. /\ slot' \in [Slots -> SlotStates] /\ slot'[r].at = point /\ slot'[r].row = slot[r].row
        /\ slot'[r].report = slot[r].report /\ slot'[r].todo = slot[r].todo
        /\ \A q \in Slots \ {r} : slot'[q] = slot[q]
    BY <1>1, <1>4, <2>1, SlotGoes
  <2> QED
    BY <1>1, <1>2, <2>2, RegisterMoves
<1> QED
  BY <1>3, <1>4

LEMMA InsertKeeps ==
  ASSUME RegistrationInv, NEW r \in Slots, Insert(r)
  PROVE  RegistrationInv' /\ RowsKept
<1>1. TypeOK /\ slot[r].row \in Requests /\ slot[r].row \in Rows
  BY RequestRows DEF RegistrationInv, HandlerHolds, Insert, At
<1>2. /\ slot' \in [Slots -> SlotStates] /\ slot'[r] = Idle
      /\ \A q \in Slots \ {r} : slot'[q] = slot[q]
  BY <1>1, SlotReturns DEF Insert
<1>3. UNCHANGED <<deleted, charge, unconfirmed, stuck, revived, reported, entered>>
  BY DEF Insert, paystack
<1>4. RowsKept /\ registration' \in [RegistrationIds -> Rows \cup {NoRow}] /\ missed' \subseteq RegistrationIds
  <2>1. CASE UNCHANGED <<registration, missed>>
    BY <1>1, <1>3, <2>1, RowsUnchanged DEF TypeOK
  <2>2. ASSUME NEW i \in RegistrationIds \ (Live \cup deleted),
               registration' = [registration EXCEPT ![i] = slot[r].row],
               missed' = IF slot[r].row.reference \in reported THEN missed \cup {i} ELSE missed
        PROVE  RowsKept /\ registration' \in [RegistrationIds -> Rows \cup {NoRow}] /\ missed' \subseteq RegistrationIds
    <3>1. registration' \in [RegistrationIds -> Rows \cup {NoRow}] /\ missed' \subseteq RegistrationIds
      BY <1>1, <2>2 DEF TypeOK
    <3>2. registration'[i] = slot[r].row /\ \A j \in RegistrationIds \ {i} : registration'[j] = registration[j]
      BY <1>1, <2>2 DEF TypeOK
    <3> QED
      BY <1>1, <1>3, <2>2, <3>1, <3>2 DEF RowsKept, Live
  <2> QED
    BY <2>1, <2>2 DEF Insert
<1>5. TypeOK'
  BY <1>1, <1>2, <1>3, <1>4 DEF TypeOK, Rows, Reports, SlotStates
<1>6. HandlerHolds(r)' /\ \A x \in References : SuccessInHand(r, x)'
  BY <1>2, IdleType, NothingInHand
<1> QED
  BY <1>2, <1>3, <1>4, <1>5, <1>6, IdleType, HandlerGoesOn DEF Unprocessed

\* A write that leaves the handlers alone.
LEMMA WriteKeeps ==
  ASSUME RegistrationInv, RowsKept, NEW r \in Slots, UNCHANGED <<paystack, stuck, slot>>, TypeOK',
         At(r, "idle")
  PROVE  RegistrationInv' /\ RowsKept
<1> USE DEF RegistrationInv
<1>1. \A q \in Slots : HandlerHolds(q)'
  BY OthersHold
<1>2. \A i \in Live' \ entered' : registration'[i].payment = "pending" => registration'[i].reference \in References
  BY PendingIsPaid
<1>3. ReportsAreTrue'
  BY DEF ReportsAreTrue, Unprocessed, Held, paystack
<1>4. \A x \in References \ reported' : charge'[x] = "success" => Succeeded(x) \in unconfirmed'
  BY DEF RowsKept, paystack
<1>5. \A q \in Slots, x \in References : slot'[q].report = Succeeded(x) => SuccessInHand(q, x)'
  BY OthersInHand
<1>6. \A x \in References : Succeeded(x)' = Succeeded(x)
  BY DEF Succeeded
<1> QED
  BY <1>1, <1>2, <1>3, <1>4, <1>5, <1>6

\* The status of a row.
LEMMA StatusWritten ==
  ASSUME TypeOK, NEW i \in Live, NEW s \in Statuses,
         registration' = [registration EXCEPT ![i].status = s],
         UNCHANGED <<deleted, reported, missed, entered>>
  PROVE  registration' \in [RegistrationIds -> Rows \cup {NoRow}] /\ RowsKept
<1>1. registration[i] \in Rows /\ i \in RegistrationIds
  BY DEF TypeOK, Live
<1> DEFINE row == [registration[i] EXCEPT !.status = s]
<1>2. row \in Rows /\ row.reference = registration[i].reference /\ row.payment = registration[i].payment
  BY <1>1 DEF Rows
<1>3. registration' = [registration EXCEPT ![i] = row]
  OBVIOUS
<1> HIDE DEF row
<1>4. registration'[i] = row /\ \A j \in RegistrationIds \ {i} : registration'[j] = registration[j]
  BY <1>1, <1>3 DEF TypeOK
<1>5. registration' \in [RegistrationIds -> Rows \cup {NoRow}]
  BY <1>1, <1>2, <1>3 DEF TypeOK
<1> QED
  BY <1>1, <1>2, <1>4, <1>5, RegistrationAssumption DEF RowsKept, Live

LEMMA UpdateKeeps ==
  ASSUME RegistrationInv, NEW r \in Slots, UpdateRegistration(r) \/ RejectRegistration(r)
  PROVE  RegistrationInv' /\ RowsKept
<1>1. PICK i \in Live, s \in Statuses : registration' = [registration EXCEPT ![i].status = s]
  BY RegistrationAssumption DEF UpdateRegistration, RejectRegistration, Statuses
<1>2. /\ UNCHANGED <<deleted, paystack, stuck, slot, reported, missed, entered>> /\ At(r, "idle")
      /\ revived' \subseteq RegistrationIds
  BY DEF UpdateRegistration, RejectRegistration, RevivedBy, history, Live, RegistrationInv, TypeOK
<1>3. registration' \in [RegistrationIds -> Rows \cup {NoRow}] /\ RowsKept
  BY <1>1, <1>2, StatusWritten DEF RegistrationInv
<1>4. TypeOK'
  BY <1>2, <1>3 DEF RegistrationInv, TypeOK, paystack
<1> QED
  BY <1>2, <1>3, <1>4, WriteKeeps

\* The payment fields of a row.
LEMMA PaymentWritten ==
  ASSUME TypeOK, NEW i \in Live, NEW payment \in Payments, NEW x \in References,
         registration' = [registration EXCEPT ![i].payment = payment, ![i].reference = x]
  PROVE  /\ registration' \in [RegistrationIds -> Rows \cup {NoRow}] /\ Live' = Live
         /\ registration'[i].status = registration[i].status
         /\ \A j \in RegistrationIds \ {i} : registration'[j] = registration[j]
<1>1. registration[i] \in Rows /\ i \in RegistrationIds
  BY DEF TypeOK, Live
<1> DEFINE row == [registration[i] EXCEPT !.payment = payment, !.reference = x]
<1>2. row \in Rows /\ row.status = registration[i].status
  BY <1>1 DEF Rows
<1>3. registration' = [registration EXCEPT ![i] = row]
  BY <1>1 DEF TypeOK
<1> HIDE DEF row
<1>4. registration'[i] = row /\ \A j \in RegistrationIds \ {i} : registration'[j] = registration[j]
  BY <1>1, <1>3 DEF TypeOK
<1>5. registration' \in [RegistrationIds -> Rows \cup {NoRow}]
  BY <1>1, <1>2, <1>3 DEF TypeOK
<1> QED
  BY <1>1, <1>2, <1>4, <1>5, RegistrationAssumption DEF Live

LEMMA EnterKeeps ==
  ASSUME RegistrationInv, NEW r \in Slots, EnterPayment(r)
  PROVE  RegistrationInv' /\ RowsKept
<1>1. PICK i \in Live, payment \in EnteredPayments, x \in References :
        /\ registration' = [registration EXCEPT ![i].payment = payment, ![i].reference = x]
        /\ entered' = entered \cup {i}
  BY DEF EnterPayment
<1>2. payment \in Payments /\ TypeOK
  BY RegistrationAssumption DEF RegistrationInv
<1>3. /\ registration' \in [RegistrationIds -> Rows \cup {NoRow}] /\ Live' = Live
      /\ \A j \in RegistrationIds \ {i} : registration'[j] = registration[j]
  BY <1>1, <1>2, PaymentWritten
<1>4. UNCHANGED <<deleted, paystack, stuck, slot, revived, reported, missed>> /\ At(r, "idle")
  BY DEF EnterPayment
<1>5. RowsKept
  BY <1>1, <1>3, <1>4 DEF RowsKept, Live
<1>6. TypeOK'
  BY <1>1, <1>2, <1>3, <1>4 DEF TypeOK, paystack, Live
<1> QED
  BY <1>4, <1>5, <1>6, WriteKeeps

LEMMA DeleteKeeps ==
  ASSUME RegistrationInv, NEW r \in Slots, DeleteRegistration(r)
  PROVE  RegistrationInv' /\ RowsKept
<1>1. PICK i \in Live :
        /\ registration' = [registration EXCEPT ![i] = NoRow] /\ deleted' = deleted \cup {i}
        /\ revived' = revived \ {i} /\ missed' = missed \ {i} /\ entered' = entered \ {i}
  BY DEF DeleteRegistration
<1>2. UNCHANGED <<paystack, stuck, slot, reported>> /\ At(r, "idle")
  BY DEF DeleteRegistration
<1>3. TypeOK /\ TypeOK'
  BY <1>1, <1>2 DEF RegistrationInv, TypeOK, paystack, Live
<1>4. \A j \in RegistrationIds \ {i} : registration'[j] = registration[j]
  BY <1>1, <1>3 DEF TypeOK
<1>5. RowsKept
  BY <1>1, <1>2, <1>3, <1>4 DEF TypeOK, RowsKept, Live
<1> QED
  BY <1>2, <1>3, <1>5, WriteKeeps

LEMMA ChargeKeeps ==
  ASSUME RegistrationInv, NEW x \in References, Charge(x)
  PROVE  RegistrationInv' /\ RowsKept
<1> USE DEF RegistrationInv
<1>1. PICK outcome \in {"failed", "success"} :
        /\ charge[x] # "success"
        /\ charge' = [charge EXCEPT ![x] = outcome]
        /\ unconfirmed' = unconfirmed \cup {[reference |-> x, outcome |-> outcome]}
  BY DEF Charge
<1>2. UNCHANGED <<tables, stuck, slot, history>>
  BY DEF Charge
<1>3. RowsKept
  BY <1>2, RowsUnchanged DEF tables, history
<1>4. TypeOK'
  BY <1>1, <1>2 DEF TypeOK, tables, history, Reports
<1>5. \A q \in Slots : HandlerHolds(q)'
  BY <1>2, <1>3, OthersHold
<1>6. ReportsAreTrue'
  <2>1. \A y \in References : charge[y] = "success" => charge'[y] = "success"
    BY <1>1 DEF TypeOK
  <2>2. unconfirmed \cup Unprocessed \cup Held \subseteq Reports
    BY DEF TypeOK, SlotStates, Unprocessed, Held
  <2>3. Unprocessed' = Unprocessed /\ Held' = Held
    BY <1>2 DEF Unprocessed, Held
  <2>4. charge'[x] = outcome
    BY <1>1 DEF TypeOK
  <2> QED
    BY <1>1, <2>1, <2>2, <2>3, <2>4 DEF ReportsAreTrue, Reports
<1>7. \A y \in References \ reported' : charge'[y] = "success" => Succeeded(y) \in unconfirmed'
  BY <1>1, <1>2 DEF TypeOK, history, Succeeded
<1>8. \A q \in Slots, y \in References : slot'[q].report = Succeeded(y) => SuccessInHand(q, y)'
  BY <1>2, <1>3, OthersInHand
<1>9. \A i \in Live' \ entered' : registration'[i].payment = "pending" => registration'[i].reference \in References
  BY <1>3, PendingIsPaid
<1> QED
  BY <1>3, <1>4, <1>5, <1>6, <1>7, <1>8, <1>9 DEF Succeeded

LEMMA LogReportKeeps ==
  ASSUME RegistrationInv, NEW r \in Slots, LogReport(r)
  PROVE  RegistrationInv' /\ RowsKept
<1>1. PICK w \in unconfirmed : Move(r, [Idle EXCEPT !.at = "find", !.report = w])
  BY DEF LogReport
<1> DEFINE state == [Idle EXCEPT !.at = "find", !.report = w]
<1>2. state \in SlotStates /\ state.at = "find" /\ state.report = w /\ state.todo = {}
  BY IdleType DEF RegistrationInv, TypeOK, Idle, SlotStates, Points
<1>3. Move(r, state)
  BY <1>1
<1> HIDE DEF state
<1>4. slot' \in [Slots -> SlotStates] /\ slot'[r] = state /\ \A q \in Slots \ {r} : slot'[q] = slot[q]
  BY <1>2, <1>3, SlotMoved DEF RegistrationInv
<1>5. UNCHANGED <<tables, paystack, stuck, history>>
  BY DEF LogReport
<1>6. RowsKept
  BY <1>5, RowsUnchanged DEF tables, history
<1>7. TypeOK'
  BY <1>4, <1>5 DEF RegistrationInv, TypeOK, tables, paystack, history
<1>8. w \in Reports
  BY DEF RegistrationInv, TypeOK
<1>9. HandlerHolds(r)' /\ \A x \in References : SuccessInHand(r, x)'
  BY <1>2, <1>4, <1>8, NothingInHand
<1> QED
  BY <1>2, <1>4, <1>5, <1>6, <1>7, <1>9, HandlerGoesOn DEF paystack, Unprocessed

LEMMA RetryKeeps ==
  ASSUME RegistrationInv, NEW r \in Slots, Retry(r)
  PROVE  RegistrationInv' /\ RowsKept
<1>0. PICK todo \in SUBSET Unprocessed : \E w \in todo :
        Move(r, [Idle EXCEPT !.at = "find", !.report = w, !.retry = TRUE, !.todo = todo \ {w}])
  BY DEF Retry
<1>1. PICK w \in todo :
        Move(r, [Idle EXCEPT !.at = "find", !.report = w, !.retry = TRUE, !.todo = todo \ {w}])
  BY <1>0
<1> DEFINE state == [Idle EXCEPT !.at = "find", !.report = w, !.retry = TRUE, !.todo = todo \ {w}]
<1>2. Unprocessed \subseteq Reports
  BY DEF RegistrationInv, TypeOK, SlotStates, Unprocessed
<1>3. state \in SlotStates /\ state.at = "find" /\ state.report = w /\ state.todo = todo \ {w}
  BY <1>2, IdleType DEF Idle, SlotStates, Points
<1>4. Move(r, state)
  BY <1>1
<1> HIDE DEF state
<1>5. slot' \in [Slots -> SlotStates] /\ slot'[r] = state /\ \A q \in Slots \ {r} : slot'[q] = slot[q]
  BY <1>3, <1>4, SlotMoved DEF RegistrationInv
<1>6. UNCHANGED <<tables, paystack, stuck, history>>
  BY DEF Retry
<1>7. RowsKept
  BY <1>6, RowsUnchanged DEF tables, history
<1>8. TypeOK'
  BY <1>5, <1>6 DEF RegistrationInv, TypeOK, tables, paystack, history
<1>9. HandlerHolds(r)' /\ \A x \in References : SuccessInHand(r, x)'
  BY <1>2, <1>3, <1>5, NothingInHand
<1>10. stuck \subseteq Unprocessed
  BY DEF Unprocessed
<1> QED
  BY <1>1, <1>3, <1>5, <1>6, <1>7, <1>8, <1>9, <1>10, HandlerGoesOn DEF paystack

LEMMA FindRegistrationKeeps ==
  ASSUME RegistrationInv, NEW r \in Slots, FindRegistration(r)
  PROVE  RegistrationInv' /\ RowsKept
<1> DEFINE w == slot[r].report
           found == PaidWith(w.reference)
<1>1. TypeOK /\ slot[r] \in SlotStates /\ w \in Reports
  BY DEF RegistrationInv, TypeOK, HandlerHolds, FindRegistration, At
<1>2. /\ UNCHANGED <<registration, deleted, charge, unconfirmed, stuck, revived, entered>>
      /\ reported' = IF w.outcome = "success" THEN reported \cup {w.reference} ELSE reported
  BY DEF FindRegistration, tables, paystack
<1>3. w \in unconfirmed \cup Unprocessed \cup Held \cup {NoReport} /\ slot[r].todo \subseteq Held
  BY DEF Unprocessed, Held
<1>4. ASSUME NEW i \in found, Move(r, [slot[r] EXCEPT !.at = "update", !.id = i]),
             missed' = IF w.outcome = "success" THEN missed \cup (found \ {i}) ELSE missed
      PROVE  RegistrationInv' /\ RowsKept
  <2> DEFINE state == [slot[r] EXCEPT !.at = "update", !.id = i]
  <2>1. i \in Live /\ i \in RegistrationIds /\ registration[i].reference = w.reference
    BY DEF PaidWith, Live
  <2>2. /\ state \in SlotStates /\ state.at = "update" /\ state.id = i
        /\ state.report = w /\ state.todo = slot[r].todo
    BY <1>1, <2>1 DEF SlotStates, Points
  <2>3. Move(r, state)
    BY <1>4
  <2> HIDE DEF state
  <2>4. slot' \in [Slots -> SlotStates] /\ slot'[r] = state /\ \A q \in Slots \ {r} : slot'[q] = slot[q]
    BY <1>1, <2>2, <2>3, SlotMoved
  <2>5. found \subseteq RegistrationIds /\ Live' = Live /\ found = PaidWith(w.reference)'
    BY <1>2, <2>2, <2>4 DEF PaidWith, Live
  <2>6. RowsKept
    BY <1>2, <1>4, <2>5 DEF RowsKept, Live
  <2>7. TypeOK'
    BY <1>1, <1>2, <1>4, <2>4, <2>5 DEF TypeOK, Reports
  <2>8. HandlerHolds(r)'
    BY <1>1, <1>2, <2>1, <2>2, <2>4, <2>5 DEF HandlerHolds, At, Reports, Live
  <2>9. ASSUME NEW x \in References, w = Succeeded(x)
        PROVE  SuccessInHand(r, x)'
    <3>1. w.outcome = "success" /\ w.reference = x
      BY <2>9 DEF Succeeded
    <3>2. x \in reported' /\ RegisteredWith(x)' \ missed' \subseteq {i}
      BY <1>2, <1>4, <2>5, <3>1 DEF PaidWith, RegisteredWith
    <3> QED
      BY <2>2, <2>4, <3>2 DEF SuccessInHand, At
  <2> QED
    BY <1>2, <1>3, <2>2, <2>4, <2>6, <2>7, <2>8, <2>9, HandlerGoesOn DEF Unprocessed
<1>5. ASSUME found = {}, Goto(r, "processed"), UNCHANGED missed
      PROVE  RegistrationInv' /\ RowsKept
  <2>1. /\ slot' \in [Slots -> SlotStates] /\ slot'[r].at = "processed"
        /\ slot'[r].report = w /\ slot'[r].todo = slot[r].todo
        /\ \A q \in Slots \ {r} : slot'[q] = slot[q]
    BY <1>1, <1>5, SlotGoes DEF Points
  <2>2. RowsKept
    BY <1>2, <1>5, RowsUnchanged
  <2>3. TypeOK'
    BY <1>1, <1>2, <1>5, <2>1 DEF TypeOK, Reports
  <2>4. HandlerHolds(r)'
    BY <1>1, <2>1 DEF HandlerHolds, At, Reports
  <2>5. ASSUME NEW x \in References, w = Succeeded(x)
        PROVE  SuccessInHand(r, x)'
    <3>1. w.outcome = "success" /\ w.reference = x
      BY <2>5 DEF Succeeded
    <3>2. x \in reported' /\ RegisteredWith(x)' = {}
      BY <1>2, <1>5, <3>1 DEF PaidWith, RegisteredWith, Live
    <3> QED
      BY <2>1, <3>2 DEF SuccessInHand, At
  <2> QED
    BY <1>2, <1>3, <2>1, <2>2, <2>3, <2>4, <2>5, HandlerGoesOn DEF Unprocessed
<1> QED
  BY <1>4, <1>5 DEF FindRegistration

LEMMA RecordOutcomeKeeps ==
  ASSUME RegistrationInv, NEW r \in Slots, RecordOutcome(r)
  PROVE  RegistrationInv' /\ RowsKept
<1> DEFINE i == slot[r].id
           w == slot[r].report
           payment == IF w.outcome = "success" THEN "completed" ELSE "failed"
           row == [registration[i] EXCEPT !.payment = payment]
<1>1. TypeOK /\ w \in Reports /\ i \in Live /\ i \in RegistrationIds
  BY DEF RegistrationInv, HandlerHolds, RecordOutcome, At, Live
<1>2. registration[i] \in Rows /\ payment \in Payments
  BY <1>1 DEF TypeOK, Live, Payments
<1>3. row \in Rows /\ row.reference = registration[i].reference /\ row.payment = payment
  BY <1>2 DEF Rows
<1>4. registration' = [registration EXCEPT ![i] = row] /\ UNCHANGED <<deleted, paystack, stuck, history>>
  BY DEF RecordOutcome
<1>5. /\ slot' \in [Slots -> SlotStates] /\ slot'[r].at = "processed"
      /\ slot'[r].report = w /\ slot'[r].todo = slot[r].todo
      /\ \A q \in Slots \ {r} : slot'[q] = slot[q]
  BY <1>1, SlotGoes DEF RecordOutcome, Points
<1> HIDE DEF row
<1>6. registration'[i] = row /\ \A j \in RegistrationIds \ {i} : registration'[j] = registration[j]
  BY <1>1, <1>4 DEF TypeOK
<1>7. Live' = Live
  BY <1>1, <1>3, <1>6, RegistrationAssumption DEF Live
<1>8. RowsKept
  BY <1>1, <1>3, <1>4, <1>6, <1>7 DEF RowsKept, history, Live
<1>9. registration' \in [RegistrationIds -> Rows \cup {NoRow}]
  BY <1>1, <1>3, <1>4 DEF TypeOK
<1>10. TypeOK'
  BY <1>1, <1>4, <1>5, <1>9 DEF TypeOK, paystack, history, Reports
<1>11. HandlerHolds(r)'
  BY <1>1, <1>5 DEF HandlerHolds, At, Reports
<1>12. ASSUME NEW x \in References, w = Succeeded(x)
       PROVE  SuccessInHand(r, x)'
  <2>1. x \in reported /\ RegisteredWith(x) \ missed \subseteq {i}
    BY <1>12 DEF RegistrationInv, SuccessInHand, RecordOutcome
  <2>2. RegisteredWith(x)' = RegisteredWith(x) /\ missed' = missed /\ reported' = reported
    BY <1>1, <1>3, <1>4, <1>6, <1>7 DEF PaidWith, RegisteredWith, history, Live
  <2>3. registration'[i].payment # "pending"
    BY <1>3, <1>6
  <2> QED
    BY <1>5, <2>1, <2>2, <2>3 DEF SuccessInHand, At
<1>13. w \in unconfirmed \cup Unprocessed \cup Held \cup {NoReport} /\ slot[r].todo \subseteq Held
  BY DEF Unprocessed, Held
<1>14. UNCHANGED <<charge, unconfirmed>> /\ stuck' \subseteq Unprocessed
  BY <1>4 DEF paystack, Unprocessed
<1> QED
  BY <1>5, <1>8, <1>10, <1>11, <1>12, <1>13, <1>14, HandlerGoesOn

LEMMA MarkProcessedKeeps ==
  ASSUME RegistrationInv, NEW r \in Slots, MarkProcessed(r)
  PROVE  RegistrationInv' /\ RowsKept
<1>1. TypeOK /\ At(r, "processed") /\ NextReport(r) /\ UNCHANGED <<tables, charge, stuck, history>>
  BY DEF RegistrationInv, MarkProcessed
<1>2. unconfirmed' \subseteq unconfirmed
  BY DEF MarkProcessed
<1>3. ASSUME NEW x \in References \ reported, Succeeded(x) \in unconfirmed
      PROVE  Succeeded(x) \in unconfirmed'
  BY <1>1, <1>3 DEF MarkProcessed, RegistrationInv, SuccessInHand
<1>4. /\ slot' \in [Slots -> SlotStates] /\ \A q \in Slots \ {r} : slot'[q] = slot[q]
      /\ \/ slot'[r] = Idle
         \/ /\ slot'[r].at = "find" /\ slot'[r].report \in slot[r].todo
            /\ slot'[r].report \in Reports /\ slot'[r].todo \subseteq slot[r].todo
  BY <1>1, SlotGoesOn
<1>5. slot'[r].report \in Held \cup {NoReport} /\ slot'[r].todo \subseteq Held
  BY <1>4, IdleType DEF Held
<1>6. RowsKept
  BY <1>1, RowsUnchanged DEF tables, history
<1>7. TypeOK'
  BY <1>1, <1>2, <1>4 DEF TypeOK, tables, history
<1>8. HandlerHolds(r)' /\ \A x \in References : SuccessInHand(r, x)'
  BY <1>4, IdleType, NothingInHand
<1> QED
  BY <1>1, <1>2, <1>3, <1>4, <1>5, <1>6, <1>7, <1>8, HandlerGoesOn DEF Unprocessed

LEMMA FailReportKeeps ==
  ASSUME RegistrationInv, NEW r \in Slots, FailReport(r)
  PROVE  RegistrationInv' /\ RowsKept
<1>1. /\ TypeOK /\ NextReport(r) /\ UNCHANGED <<tables, paystack, history>>
      /\ slot[r].report \in Reports /\ stuck' = stuck \cup {slot[r].report}
  BY DEF RegistrationInv, HandlerHolds, FailReport, HandlerFails, At
<1>2. /\ slot' \in [Slots -> SlotStates] /\ \A q \in Slots \ {r} : slot'[q] = slot[q]
      /\ \/ slot'[r] = Idle
         \/ /\ slot'[r].at = "find" /\ slot'[r].report \in slot[r].todo
            /\ slot'[r].report \in Reports /\ slot'[r].todo \subseteq slot[r].todo
  BY <1>1, SlotGoesOn
<1>3. slot'[r].report \in Held \cup {NoReport} /\ slot'[r].todo \subseteq Held
  BY <1>2, IdleType DEF Held
<1>4. RowsKept
  BY <1>1, RowsUnchanged DEF tables, history
<1>5. TypeOK'
  BY <1>1, <1>2 DEF TypeOK, tables, paystack, history
<1>6. HandlerHolds(r)' /\ \A x \in References : SuccessInHand(r, x)'
  BY <1>2, IdleType, NothingInHand
<1>7. stuck' \subseteq Unprocessed
  BY <1>1, RegistrationAssumption DEF Unprocessed
<1>8. UNCHANGED <<charge, unconfirmed>>
  BY <1>1 DEF paystack
<1> QED
  BY <1>2, <1>3, <1>4, <1>5, <1>6, <1>7, <1>8, HandlerGoesOn

LEMMA StopKeeps ==
  ASSUME RegistrationInv, Stop
  PROVE  RegistrationInv' /\ RowsKept
<1> USE DEF RegistrationInv
<1>1. /\ stuck' = Unprocessed /\ UNCHANGED <<tables, paystack, history>>
      /\ \A r \in Slots : slot'[r] = Idle
      /\ slot' \in [Slots -> SlotStates]
  BY IdleType DEF Stop
<1>2. Unprocessed \subseteq Reports
  BY DEF TypeOK, SlotStates, Unprocessed
<1>3. TypeOK'
  BY <1>1, <1>2 DEF TypeOK, tables, paystack, history
<1>4. RowsKept
  BY <1>1, RowsUnchanged DEF tables, history
<1>5. \A r \in Slots : HandlerHolds(r)' /\ \A x \in References : SuccessInHand(r, x)'
  BY <1>1, IdleType, NothingInHand
<1>6. \A i \in Live' \ entered' : registration'[i].payment = "pending" => registration'[i].reference \in References
  BY <1>4, PendingIsPaid
<1>7. ReportsAreTrue'
  <2>1. Held' = {} /\ Unprocessed' = Unprocessed
    BY <1>1, IdleType DEF Held, Unprocessed
  <2> QED
    BY <1>1, <2>1 DEF ReportsAreTrue, paystack
<1>8. \A x \in References \ reported' : charge'[x] = "success" => Succeeded(x) \in unconfirmed'
  BY <1>1 DEF paystack, history
<1> QED
  BY <1>3, <1>4, <1>5, <1>6, <1>7, <1>8 DEF Succeeded

LEMMA StepKeeps ==
  ASSUME RegistrationInv, [Next]_vars
  PROVE  RegistrationInv' /\ RowsKept
<1>1. ASSUME NEW r \in Slots, RegisterStep(r)
      PROVE  RegistrationInv' /\ RowsKept
  <2>1. CASE FindDuplicate(r) \/ FindReference(r)
    BY <2>1, RefusedOrAdmitted DEF FindDuplicate, FindReference, At
  <2> QED
    BY <1>1, <2>1, CountPlacesKeeps, InsertKeeps, UpdateKeeps, EnterKeeps, DeleteKeeps DEF RegisterStep
<1>2. ASSUME NEW r \in Slots, WebhookStep(r)
      PROVE  RegistrationInv' /\ RowsKept
  BY <1>2, LogReportKeeps, RetryKeeps, FindRegistrationKeeps, RecordOutcomeKeeps, MarkProcessedKeeps
     DEF WebhookStep
<1>3. ASSUME NEW r \in Slots, RejectCall(r)
      PROVE  RegistrationInv' /\ RowsKept
  BY <1>3, RefusedOrAdmitted DEF RejectCall
<1>4. CASE UNCHANGED vars
  <2>1. RowsKept
    BY <1>4, RowsUnchanged DEF vars
  <2> QED
    BY <1>4, <2>1 DEF vars, RegistrationInv, TypeOK, HandlerHolds, SuccessInHand, ReportsAreTrue, Live,
                PaidWith, RegisteredWith, Unprocessed, Held, At, Requests, Rows, Reports, SlotStates, Succeeded
<1> QED
  BY <1>1, <1>2, <1>3, <1>4, FailReportKeeps, ChargeKeeps, StopKeeps DEF Next

LEMMA InitKeeps ==
  ASSUME Init
  PROVE  RegistrationInv
<1>1. Live = {} /\ Unprocessed = {} /\ Held = {}
  BY IdleType DEF Init, Live, Unprocessed, Held
<1>2. TypeOK
  BY IdleType DEF Init, TypeOK
<1>3. \A r \in Slots : HandlerHolds(r)
  BY IdleType DEF Init, HandlerHolds, At
<1>4. \A r \in Slots, x \in References : SuccessInHand(r, x)
  BY IdleType DEF Init, SuccessInHand, At
<1>5. \A x \in References : charge[x] = "none"
  BY DEF Init
<1>6. ReportsAreTrue
  BY <1>1 DEF Init, ReportsAreTrue
<1> QED
  BY <1>1, <1>2, <1>3, <1>4, <1>5, <1>6 DEF RegistrationInv

\* Types, and what the handlers know of the tables and of Paystack (TypeOK).
THEOREM RegistrationInvariant == Spec => []RegistrationInv
<1>1. Init => RegistrationInv
  BY InitKeeps
<1>2. RegistrationInv /\ [Next]_vars => RegistrationInv'
  BY StepKeeps
<1> QED
  BY <1>1, <1>2, PTL DEF Spec

-----------------------------------------------------------------------------
(* Payments.                                                               *)

\* A registration is recorded as paid only if its charge succeeded
\* (handleEventRegistrationPayment, whatever it is handed, and how often).
THEOREM PaidIsTrue == Spec => []CompletedWasPaid
<1>1. Init => CompletedWasPaid
  BY DEF Init, CompletedWasPaid, Live
<1>2. ASSUME CompletedWasPaid, RegistrationInv, [Next]_vars
      PROVE  CompletedWasPaid'
  <2>1. \A x \in References : charge[x] = "success" => charge'[x] = "success"
    BY <1>2 DEF Next, vars, RegistrationInv, TypeOK, Charge, Stop, RegisterStep, WebhookStep, RejectCall,
                FailReport, CountPlaces, FindDuplicate, FindReference, Insert, UpdateRegistration,
                EnterPayment, RejectRegistration, DeleteRegistration, LogReport, Retry, FindRegistration,
                RecordOutcome, MarkProcessed, paystack
  <2>2. CASE UNCHANGED <<registration, entered>>
    BY <1>2, <2>1, <2>2 DEF CompletedWasPaid, Live
  <2>3. ASSUME NEW r \in Slots, Insert(r)
        PROVE  CompletedWasPaid'
    <3>1. slot[r].row \in Requests
      BY <1>2, <2>3 DEF Insert, At, RegistrationInv, HandlerHolds
    <3>2. slot[r].row.payment # "completed"
      BY <3>1 DEF Requests
    <3>3. \A i \in Live' : registration'[i] = registration[i] \/ registration'[i] = slot[r].row
      BY <1>2, <2>3 DEF Insert, RegistrationInv, TypeOK, Live
    <3>4. UNCHANGED entered
      BY <2>3 DEF Insert
    <3>5. \A i \in Live' : registration'[i] # slot[r].row => i \in Live
      BY <3>3 DEF Live
    <3> QED
      BY <1>2, <2>1, <3>2, <3>3, <3>4, <3>5 DEF CompletedWasPaid
  <2>4. ASSUME NEW r \in Slots, UpdateRegistration(r) \/ RejectRegistration(r)
        PROVE  CompletedWasPaid'
    <3>1. PICK i \in Live, s \in Statuses : registration' = [registration EXCEPT ![i].status = s]
      BY <2>4, RegistrationAssumption DEF UpdateRegistration, RejectRegistration, Statuses
    <3>2. \A j \in RegistrationIds \ {i} : registration'[j] = registration[j]
      BY <1>2, <3>1 DEF RegistrationInv, TypeOK
    <3>3. registration[i] \in Rows /\ registration'[i] = [registration[i] EXCEPT !.status = s]
      BY <1>2, <3>1 DEF RegistrationInv, TypeOK, Live
    <3>4. registration'[i].payment = registration[i].payment /\ registration'[i].reference = registration[i].reference
      BY <3>3 DEF Rows
    <3>5. UNCHANGED entered
      BY <2>4 DEF UpdateRegistration, RejectRegistration, history
    <3> QED
      BY <1>2, <2>1, <3>2, <3>4, <3>5 DEF CompletedWasPaid, Live
  <2>5. ASSUME NEW r \in Slots, DeleteRegistration(r)
        PROVE  CompletedWasPaid'
    <3>1. PICK i \in Live : registration' = [registration EXCEPT ![i] = NoRow] /\ entered' = entered \ {i}
      BY <2>5 DEF DeleteRegistration
    <3>2. registration'[i] = NoRow /\ \A j \in RegistrationIds \ {i} : registration'[j] = registration[j]
      BY <1>2, <3>1 DEF RegistrationInv, TypeOK, Live
    <3> QED
      BY <1>2, <2>1, <3>1, <3>2 DEF CompletedWasPaid, Live
  <2>8. ASSUME NEW r \in Slots, EnterPayment(r)
        PROVE  CompletedWasPaid'
    <3>1. PICK i \in Live, payment \in EnteredPayments, x \in References :
            /\ registration' = [registration EXCEPT ![i].payment = payment, ![i].reference = x]
            /\ entered' = entered \cup {i}
      BY <2>8 DEF EnterPayment
    <3>2. Live' = Live /\ \A j \in RegistrationIds \ {i} : registration'[j] = registration[j]
      BY <1>2, <3>1, PaymentWritten, RegistrationAssumption DEF RegistrationInv
    <3> QED
      BY <1>2, <2>1, <3>1, <3>2 DEF CompletedWasPaid, Live
  <2>6. ASSUME NEW r \in Slots, RecordOutcome(r)
        PROVE  CompletedWasPaid'
    <3> DEFINE i == slot[r].id
               w == slot[r].report
    <3>1. /\ w \in Reports /\ i \in Live /\ registration[i] \in Rows
          /\ i \notin entered => registration[i].reference = w.reference
          /\ w.outcome = "success" => charge[w.reference] = "success"
      BY <1>2, <2>6, RegistrationAssumption
         DEF RecordOutcome, RegistrationInv, HandlerHolds, TypeOK, At, Live, ReportsAreTrue, Unprocessed
    <3>2. \A j \in RegistrationIds \ {i} : registration'[j] = registration[j]
      BY <1>2, <2>6 DEF RecordOutcome, RegistrationInv, TypeOK
    <3>3. registration'[i] = [registration[i] EXCEPT
            !.payment = IF w.outcome = "success" THEN "completed" ELSE "failed"]
      BY <1>2, <2>6, <3>1 DEF RecordOutcome, RegistrationInv, TypeOK, Live
    <3>4. /\ registration'[i].reference = registration[i].reference /\ w.reference \in References
          /\ registration'[i].payment = IF w.outcome = "success" THEN "completed" ELSE "failed"
      BY <3>1, <3>3 DEF Rows, Reports
    <3>5. UNCHANGED entered
      BY <2>6 DEF RecordOutcome, history
    <3> HIDE DEF i, w
    <3> QED
      BY <1>2, <2>1, <3>1, <3>2, <3>4, <3>5 DEF CompletedWasPaid, Live
  <2>7. \/ UNCHANGED <<registration, entered>>
        \/ \E r \in Slots : \/ Insert(r) \/ UpdateRegistration(r) \/ RejectRegistration(r)
                           \/ EnterPayment(r) \/ DeleteRegistration(r) \/ RecordOutcome(r)
    BY <1>2 DEF Next, vars, Charge, Stop, RegisterStep, WebhookStep, RejectCall, FailReport, CountPlaces,
                FindDuplicate, FindReference, LogReport, Retry, FindRegistration, MarkProcessed, tables, history
  <2> QED
    BY <2>2, <2>3, <2>4, <2>5, <2>6, <2>7, <2>8
<1> QED
  BY <1>1, <1>2, RegistrationInvariant, PTL DEF Spec

\* A success that no row shows yet is one that Paystack goes on reporting
\* (handleWebhook answers an error as long as it is not recorded).
THEOREM SuccessIsKept == Spec => []SuccessIsNotLost
<1>1. Init => SuccessIsNotLost
  BY DEF Init, SuccessIsNotLost, Live
<1>2. ASSUME SuccessIsNotLost, RegistrationInv, [Next]_vars
      PROVE  SuccessIsNotLost'
  <2>1. RowsKept /\ RegistrationInv'
    BY <1>2, StepKeeps
  <2>2. SUFFICES ASSUME NEW i \in Live' \ (missed' \cup entered'), registration'[i].payment = "pending",
                        charge'[registration'[i].reference] = "success"
                 PROVE  Succeeded(registration'[i].reference) \in unconfirmed'
    BY DEF SuccessIsNotLost, Succeeded
  <2> DEFINE x == registration'[i].reference
  <2>3. x \in References
    BY <2>1, <2>2 DEF RegistrationInv
  <2>4. \/ /\ i \in Live /\ i \notin missed \cup entered /\ registration[i].reference = x
           /\ registration[i].payment = "pending"
        \/ x \notin reported
    BY <2>1, <2>2 DEF RowsKept
  <2>5. \/ charge[x] = "success"
        \/ Succeeded(x) \in unconfirmed'
    <3>1. CASE UNCHANGED charge
      BY <2>2, <3>1
    <3>2. ASSUME NEW y \in References, Charge(y)
          PROVE  charge[x] = "success" \/ Succeeded(x) \in unconfirmed'
      BY <1>2, <2>2, <2>3, <3>2 DEF Charge, RegistrationInv, TypeOK, Succeeded
    <3>3. UNCHANGED charge \/ \E y \in References : Charge(y)
      BY <1>2 DEF Next, vars, Stop, RegisterStep, WebhookStep, RejectCall,
                FailReport, CountPlaces, FindDuplicate, FindReference, Insert, UpdateRegistration,
                EnterPayment, RejectRegistration, DeleteRegistration, LogReport, Retry, FindRegistration,
                RecordOutcome, MarkProcessed, paystack
    <3> QED
      BY <3>1, <3>2, <3>3
  <2>6. charge[x] = "success" => Succeeded(x) \in unconfirmed
    BY <1>2, <2>3, <2>4 DEF SuccessIsNotLost, RegistrationInv
  <2>7. Succeeded(x) \in unconfirmed => Succeeded(x) \in unconfirmed'
    <3>1. ASSUME NEW r \in Slots, MarkProcessed(r), slot[r].report = Succeeded(x)
          PROVE  FALSE
      <4>1. SuccessInHand(r, x) /\ At(r, "processed")
        BY <1>2, <2>3, <3>1 DEF MarkProcessed, RegistrationInv
      <4> QED
        BY <2>4, <4>1 DEF SuccessInHand, PaidWith, RegisteredWith
    <3>2. ASSUME NEW r \in Slots, MarkProcessed(r), Succeeded(x) \in unconfirmed
          PROVE  Succeeded(x) \in unconfirmed'
      BY <3>1, <3>2 DEF MarkProcessed
    <3>3. unconfirmed \subseteq unconfirmed' \/ \E r \in Slots : MarkProcessed(r)
      BY <1>2 DEF Next, vars, Stop, Charge, RegisterStep, WebhookStep, RejectCall,
                FailReport, CountPlaces, FindDuplicate, FindReference, Insert, UpdateRegistration,
                EnterPayment, RejectRegistration, DeleteRegistration, LogReport, Retry, FindRegistration,
                RecordOutcome, paystack
    <3> QED
      BY <3>2, <3>3
  <2> QED
    BY <2>5, <2>6, <2>7
<1> QED
  BY <1>1, <1>2, RegistrationInvariant, PTL DEF Spec

-----------------------------------------------------------------------------
(* Places.                                                                 *)

Placed == Seated \ revived

LEMMA PlacesFinite ==
  ASSUME TypeOK
  PROVE  /\ IsFiniteSet(Seated) /\ IsFiniteSet(Placed) /\ IsFiniteSet(Admitted)
         /\ Cardinality(Seated) \in Nat /\ Cardinality(Placed) \in Nat /\ Cardinality(Admitted) \in Nat
         /\ Cardinality(Placed) <= Cardinality(Seated) /\ Cardinality(Admitted) <= Cardinality(Slots)
         /\ Cardinality(Slots) \in Nat /\ Capacity \in Nat
<1>1. Seated \in SUBSET RegistrationIds /\ Placed \in SUBSET Seated /\ Admitted \in SUBSET Slots
  BY DEF Seated, Live, Placed, Admitted
<1> QED
  BY <1>1, RegistrationAssumption, FS_Subset, FS_CardinalityType

\* No place is taken.
LEMMA PlacesKept ==
  ASSUME OverbookedBound, TypeOK, Placed' \subseteq Placed, Admitted' \subseteq Admitted
  PROVE  OverbookedBound'
<1>1. Cardinality(Placed') <= Cardinality(Placed) /\ Cardinality(Placed') \in Nat
  BY PlacesFinite, FS_Subset, FS_CardinalityType
<1>2. Cardinality(Admitted') <= Cardinality(Admitted) /\ Cardinality(Admitted') \in Nat
  BY PlacesFinite, FS_Subset, FS_CardinalityType
<1>3. Cardinality(Placed) + Cardinality(Admitted) <= Capacity - 1 + Cardinality(Slots)
  BY DEF OverbookedBound, Placed
<1>4. Cardinality(Placed') + Cardinality(Admitted') <= Capacity - 1 + Cardinality(Slots)
  BY <1>1, <1>2, <1>3, PlacesFinite
<1> QED
  BY <1>4 DEF OverbookedBound, Placed

\* A handler is admitted only below the capacity.
LEMMA PlaceFound ==
  ASSUME TypeOK, TypeOK', NEW r \in Slots, CountPlaces(r)
  PROVE  OverbookedBound'
<1>1. Cardinality(Seated) < Capacity /\ UNCHANGED <<registration, revived>>
  BY DEF CountPlaces, tables, history
<1>2. Cardinality(Placed) <= Capacity - 1
  BY <1>1, PlacesFinite
<1>3. Placed' = Placed
  BY <1>1 DEF Placed, Seated, Live
<1>4. Admitted' \subseteq Slots
  BY DEF Admitted
<1>5. Cardinality(Admitted') <= Cardinality(Slots) /\ Cardinality(Admitted') \in Nat
  BY <1>4, RegistrationAssumption, FS_Subset, FS_CardinalityType
<1>6. Cardinality(Placed') + Cardinality(Admitted') <= Capacity - 1 + Cardinality(Slots)
  BY <1>2, <1>3, <1>5, PlacesFinite
<1> QED
  BY <1>6 DEF OverbookedBound, Placed

\* It takes the place that it has been admitted to.
LEMMA PlaceTaken ==
  ASSUME OverbookedBound, TypeOK, NEW r \in Slots, Insert(r)
  PROVE  OverbookedBound'
<1>1. r \in Admitted /\ slot'[r].at = "idle" /\ \A q \in Slots \ {r} : slot'[q] = slot[q]
  BY SlotReturns, IdleType DEF Insert, At, Admitted
<1>2. Admitted' \subseteq Admitted \ {r}
  BY <1>1 DEF Admitted
<1>3. Placed' \subseteq Placed \/ \E i \in RegistrationIds : Placed' \subseteq Placed \cup {i}
  <2>1. UNCHANGED revived
    BY DEF Insert
  <2>2. CASE UNCHANGED registration
    BY <2>1, <2>2 DEF Placed, Seated, Live
  <2>3. ASSUME NEW i \in RegistrationIds, registration' = [registration EXCEPT ![i] = slot[r].row]
        PROVE  Placed' \subseteq Placed \cup {i}
    <3>1. \A j \in RegistrationIds \ {i} : registration'[j] = registration[j]
      BY <2>3 DEF TypeOK
    <3> QED
      BY <2>1, <3>1 DEF Placed, Seated, Live
  <2> QED
    BY <2>2, <2>3 DEF Insert
<1>4. PICK i : Placed' \subseteq Placed \cup {i}
  BY <1>3
<1>5. Cardinality(Placed') <= Cardinality(Placed) + 1 /\ Cardinality(Placed') \in Nat
  <2>0. IsFiniteSet(Placed) /\ Cardinality(Placed) \in Nat
    BY PlacesFinite
  <2>1. IsFiniteSet(Placed \cup {i}) /\ Cardinality(Placed \cup {i}) <= Cardinality(Placed) + 1
    <3>1. /\ IsFiniteSet(Placed \cup {i})
          /\ Cardinality(Placed \cup {i}) =
               IF i \in Placed THEN Cardinality(Placed) ELSE Cardinality(Placed) + 1
      BY <2>0, FS_AddElement, Zenon
    <3> QED
      BY <2>0, <3>1
  <2>2. Cardinality(Placed \cup {i}) \in Nat
    BY <2>1, FS_CardinalityType
  <2>3. Cardinality(Placed') <= Cardinality(Placed \cup {i}) /\ Cardinality(Placed') \in Nat
    BY <1>4, <2>1, FS_Subset, FS_CardinalityType
  <2> QED
    BY <2>1, <2>2, <2>3, PlacesFinite
<1>6. Cardinality(Admitted') <= Cardinality(Admitted) - 1 /\ Cardinality(Admitted') \in Nat
  <2>1. IsFiniteSet(Admitted \ {r}) /\ Cardinality(Admitted \ {r}) = Cardinality(Admitted) - 1
    BY <1>1, PlacesFinite, FS_RemoveElement
  <2> QED
    BY <1>2, <2>1, FS_Subset, FS_CardinalityType
<1>7. Cardinality(Placed) + Cardinality(Admitted) <= Capacity - 1 + Cardinality(Slots)
  BY DEF OverbookedBound, Placed
<1>8. Cardinality(Placed') + Cardinality(Admitted') <= Capacity - 1 + Cardinality(Slots)
  BY <1>5, <1>6, <1>7, PlacesFinite
<1> QED
  BY <1>8 DEF OverbookedBound, Placed

\* Webhooks, and calls that reject, admit nobody and take no place.
LEMMA WebhookAdmitsNone ==
  ASSUME TypeOK, NEW r \in Slots, WebhookStep(r) \/ RejectCall(r) \/ FailReport(r)
  PROVE  /\ slot' \in [Slots -> SlotStates] /\ \A q \in Slots \ {r} : slot'[q] = slot[q]
         /\ slot'[r].at \notin {"duplicate", "reference", "insert"}
         /\ Admitted' \subseteq Admitted
         /\ UNCHANGED <<revived, entered>> /\ Live' = Live
         /\ \A i \in Live : /\ registration'[i].status = registration[i].status
                           /\ registration'[i].reference = registration[i].reference
         /\ Placed' \subseteq Placed
<1>1. /\ slot' \in [Slots -> SlotStates] /\ \A q \in Slots \ {r} : slot'[q] = slot[q]
      /\ slot'[r].at \notin {"duplicate", "reference", "insert"}
  <2>1. CASE LogReport(r)
    <3>1. PICK w \in unconfirmed : Move(r, [Idle EXCEPT !.at = "find", !.report = w])
      BY <2>1 DEF LogReport
    <3>2. [Idle EXCEPT !.at = "find", !.report = w] \in SlotStates
      BY IdleType DEF TypeOK, Idle, SlotStates, Points
    <3>3. [Idle EXCEPT !.at = "find", !.report = w].at = "find"
      BY DEF Idle
    <3> QED
      BY <3>1, <3>2, <3>3, SlotMoved
  <2>2. CASE Retry(r)
    <3>1. PICK todo \in SUBSET Unprocessed : \E w \in todo :
            Move(r, [Idle EXCEPT !.at = "find", !.report = w, !.retry = TRUE, !.todo = todo \ {w}])
      BY <2>2 DEF Retry
    <3>2. PICK w \in todo :
            Move(r, [Idle EXCEPT !.at = "find", !.report = w, !.retry = TRUE, !.todo = todo \ {w}])
      BY <3>1
    <3> DEFINE state == [Idle EXCEPT !.at = "find", !.report = w, !.retry = TRUE, !.todo = todo \ {w}]
    <3>3. Unprocessed \subseteq Reports
      BY DEF TypeOK, SlotStates, Unprocessed
    <3>4. state \in SlotStates /\ state.at = "find"
      BY <3>3, IdleType DEF Idle, SlotStates, Points
    <3>5. Move(r, state)
      BY <3>2
    <3> HIDE DEF state
    <3> QED
      BY <3>4, <3>5, SlotMoved
  <2>3. CASE FindRegistration(r)
    <3>1. CASE Goto(r, "processed")
      BY <3>1, SlotGoes DEF Points
    <3>2. ASSUME NEW i \in RegistrationIds, Move(r, [slot[r] EXCEPT !.at = "update", !.id = i])
          PROVE  /\ slot' \in [Slots -> SlotStates] /\ \A q \in Slots \ {r} : slot'[q] = slot[q]
                 /\ slot'[r].at \notin {"duplicate", "reference", "insert"}
      <4> DEFINE state == [slot[r] EXCEPT !.at = "update", !.id = i]
      <4>1. state \in SlotStates /\ state.at = "update"
        BY DEF TypeOK, SlotStates, Points
      <4>2. Move(r, state)
        BY <3>2
      <4> HIDE DEF state
      <4> QED
        BY <4>1, <4>2, SlotMoved
    <3> QED
      BY <2>3, <3>1, <3>2 DEF FindRegistration, PaidWith, Live
  <2>4. CASE RecordOutcome(r)
    BY <2>4, SlotGoes DEF RecordOutcome, Points
  <2>5. CASE MarkProcessed(r) \/ FailReport(r)
    BY <2>5, SlotGoesOn, IdleType DEF MarkProcessed, FailReport
  <2>6. CASE RejectCall(r)
    BY <2>6, SlotReturns, IdleType DEF RejectCall
  <2> QED
    BY <2>1, <2>2, <2>3, <2>4, <2>5, <2>6 DEF WebhookStep
<1>2. Admitted' \subseteq Admitted
  BY <1>1 DEF Admitted
<1>3. /\ UNCHANGED <<revived, entered>> /\ Live' = Live
      /\ \A i \in Live : /\ registration'[i].status = registration[i].status
                        /\ registration'[i].reference = registration[i].reference
  <2>1. CASE RecordOutcome(r)
    <3> DEFINE i == slot[r].id
               payment == IF slot[r].report.outcome = "success" THEN "completed" ELSE "failed"
               row == [registration[i] EXCEPT !.payment = payment]
    <3>1. i \in Live /\ i \in RegistrationIds /\ registration[i] \in Rows /\ payment \in Payments
      BY <2>1 DEF RecordOutcome, TypeOK, Live, Payments
    <3>2. row \in Rows /\ row.status = registration[i].status /\ row.reference = registration[i].reference
      BY <3>1 DEF Rows
    <3>3. registration' = [registration EXCEPT ![i] = row]
      BY <2>1 DEF RecordOutcome
    <3> HIDE DEF row
    <3>4. registration'[i] = row /\ \A j \in RegistrationIds \ {i} : registration'[j] = registration[j]
      BY <3>1, <3>3 DEF TypeOK
    <3>5. UNCHANGED <<revived, entered>>
      BY <2>1 DEF RecordOutcome, history
    <3> QED
      BY <3>1, <3>2, <3>4, <3>5, RegistrationAssumption DEF Live
  <2>2. CASE ~RecordOutcome(r)
    BY <2>2 DEF WebhookStep, RejectCall, FailReport, LogReport, Retry, FindRegistration, MarkProcessed,
                tables, history, Live
  <2> QED
    BY <2>1, <2>2
<1>4. Placed' \subseteq Placed
  BY <1>3 DEF Placed, Seated
<1> QED
  BY <1>1, <1>2, <1>3, <1>4

\* An event is overbooked by no more than one registration for each other
\* handler served at the same time (the three methods that count places).
THEOREM OverbookingIsBounded == Spec => []OverbookedBound
<1>1. ASSUME Init
      PROVE  OverbookedBound
  <2>1. Placed = {} /\ Admitted = {}
    BY <1>1, IdleType DEF Init, Placed, Seated, Live, Admitted
  <2>2. Cardinality(Slots) \in Nat /\ Capacity \in Nat \ {0}
    BY RegistrationAssumption, FS_CardinalityType
  <2>3. Cardinality(Placed) = 0 /\ Cardinality(Admitted) = 0
    BY <2>1, FS_EmptySet
  <2>4. Cardinality(Placed) + Cardinality(Admitted) <= Capacity - 1 + Cardinality(Slots)
    BY <2>2, <2>3
  <2> QED
    BY <2>4 DEF OverbookedBound, Placed
<1>2. ASSUME OverbookedBound, RegistrationInv, [Next]_vars
      PROVE  OverbookedBound'
  <2>1. TypeOK /\ TypeOK'
    BY <1>2, StepKeeps DEF RegistrationInv
  <2>2. ASSUME UNCHANGED <<registration, revived>>, Admitted' \subseteq Admitted
        PROVE  OverbookedBound'
    BY <1>2, <2>1, <2>2, PlacesKept DEF Placed, Seated, Live
  <2>3. ASSUME NEW r \in Slots, RegisterStep(r)
        PROVE  OverbookedBound'
    <3>1. CASE CountPlaces(r)
      BY <2>1, <3>1, PlaceFound
    <3>2. CASE FindDuplicate(r)
      <4>1. UNCHANGED <<registration, revived>> /\ r \in Admitted
        BY <3>2 DEF FindDuplicate, tables, history, Admitted, At
      <4>2. \A q \in Slots \ {r} : slot'[q] = slot[q]
        BY <2>1, <3>2, SlotReturns, SlotGoes DEF FindDuplicate, Points
      <4> QED
        BY <2>2, <4>1, <4>2 DEF Admitted
    <3>3. CASE FindReference(r)
      <4>1. UNCHANGED <<registration, revived>> /\ r \in Admitted
        BY <3>3 DEF FindReference, tables, history, Admitted, At
      <4>2. \A q \in Slots \ {r} : slot'[q] = slot[q]
        BY <2>1, <3>3, SlotReturns, SlotGoes DEF FindReference, Points
      <4> QED
        BY <2>2, <4>1, <4>2 DEF Admitted
    <3>4. CASE Insert(r)
      BY <1>2, <2>1, <3>4, PlaceTaken
    <3>5. ASSUME UpdateRegistration(r) \/ RejectRegistration(r)
          PROVE  OverbookedBound'
      <4>1. PICK i \in Live, s \in Statuses :
              /\ registration' = [registration EXCEPT ![i].status = s]
              /\ revived' = RevivedBy(i, s)
        BY <3>5, RegistrationAssumption DEF UpdateRegistration, RejectRegistration, Statuses, history, Counted
      <4>2. \A j \in RegistrationIds \ {i} : registration'[j] = registration[j]
        BY <2>1, <4>1 DEF TypeOK
      <4>3. registration[i] \in Rows /\ registration'[i] = [registration[i] EXCEPT !.status = s]
        BY <2>1, <4>1 DEF TypeOK, Live
      <4>4. registration'[i].status = s
        BY <4>3 DEF Rows
      <4>5. Placed' \subseteq Placed
        BY <4>1, <4>2, <4>4 DEF RevivedBy, Placed, Seated, Live
      <4>6. Admitted' \subseteq Admitted
        BY <3>5 DEF UpdateRegistration, RejectRegistration, Admitted
      <4> QED
        BY <1>2, <2>1, <4>5, <4>6, PlacesKept
    <3>7. CASE EnterPayment(r)
      <4>1. PICK i \in Live, payment \in EnteredPayments, x \in References :
              registration' = [registration EXCEPT ![i].payment = payment, ![i].reference = x]
        BY <3>7 DEF EnterPayment
      <4>2. /\ Live' = Live /\ registration'[i].status = registration[i].status
            /\ \A j \in RegistrationIds \ {i} : registration'[j] = registration[j]
        BY <2>1, <4>1, PaymentWritten, RegistrationAssumption
      <4>3. Placed' \subseteq Placed /\ Admitted' \subseteq Admitted
        BY <3>7, <4>2 DEF EnterPayment, Placed, Seated, Live, Admitted
      <4> QED
        BY <1>2, <2>1, <4>3, PlacesKept
    <3>6. CASE DeleteRegistration(r)
      <4>1. PICK i \in Live : registration' = [registration EXCEPT ![i] = NoRow] /\ revived' = revived \ {i}
        BY <3>6 DEF DeleteRegistration
      <4>2. registration'[i] = NoRow /\ \A j \in RegistrationIds \ {i} : registration'[j] = registration[j]
        BY <2>1, <4>1 DEF TypeOK, Live
      <4>3. Placed' \subseteq Placed /\ Admitted' \subseteq Admitted
        BY <3>6, <4>1, <4>2 DEF DeleteRegistration, Placed, Seated, Live, Admitted
      <4> QED
        BY <1>2, <2>1, <4>3, PlacesKept
    <3> QED
      BY <2>3, <3>1, <3>2, <3>3, <3>4, <3>5, <3>6, <3>7 DEF RegisterStep
  <2>4. ASSUME NEW r \in Slots, WebhookStep(r) \/ RejectCall(r) \/ FailReport(r)
        PROVE  OverbookedBound'
    <3>1. Admitted' \subseteq Admitted
      BY <2>1, <2>4, WebhookAdmitsNone
    <3>2. UNCHANGED revived /\ Placed' \subseteq Placed
      BY <1>2, <2>1, <2>4, WebhookAdmitsNone
    <3> QED
      BY <1>2, <2>1, <3>1, <3>2, PlacesKept
  <2>5. CASE Stop
    BY <2>1, <2>2, <2>5, IdleType DEF Stop, Admitted, tables, history
  <2>6. ASSUME NEW x \in References, Charge(x)
        PROVE  OverbookedBound'
    BY <2>2, <2>6 DEF Charge, Admitted, tables, history
  <2>7. CASE UNCHANGED vars
    BY <2>2, <2>7 DEF vars, Admitted
  <2> QED
    BY <1>2, <2>3, <2>4, <2>5, <2>6, <2>7 DEF Next
<1> QED
  BY <1>1, <1>2, RegistrationInvariant, PTL DEF Spec

-----------------------------------------------------------------------------
(* References.                                                             *)

\* SharedPaymentBound, for one charge.
SharedBy(x) == Cardinality(RegisteredWith(x)) + Cardinality(UsesReference(x)) <= Cardinality(Slots)

LEMMA UsersFinite ==
  ASSUME TypeOK, NEW x \in References
  PROVE  /\ IsFiniteSet(RegisteredWith(x)) /\ Cardinality(RegisteredWith(x)) \in Nat
         /\ IsFiniteSet(UsesReference(x)) /\ Cardinality(UsesReference(x)) \in Nat
         /\ Cardinality(Slots) \in Nat
<1>1. RegisteredWith(x) \in SUBSET RegistrationIds /\ UsesReference(x) \in SUBSET Slots
  BY DEF PaidWith, RegisteredWith, Live, UsesReference
<1> QED
  BY <1>1, RegistrationAssumption, FS_Subset, FS_CardinalityType

\* Nobody else comes to use the reference.
LEMMA SharedKept ==
  ASSUME TypeOK, NEW x \in References, SharedBy(x),
         RegisteredWith(x)' \subseteq RegisteredWith(x), UsesReference(x)' \subseteq UsesReference(x)
  PROVE  SharedBy(x)'
<1>1. Cardinality(RegisteredWith(x)') <= Cardinality(RegisteredWith(x)) /\ Cardinality(RegisteredWith(x)') \in Nat
  BY UsersFinite, FS_Subset, FS_CardinalityType
<1>2. /\ Cardinality(UsesReference(x)') <= Cardinality(UsesReference(x))
      /\ Cardinality(UsesReference(x)') \in Nat
  BY UsersFinite, FS_Subset, FS_CardinalityType
<1>3. Cardinality(RegisteredWith(x)') + Cardinality(UsesReference(x)') <= Cardinality(Slots)
  BY <1>1, <1>2, UsersFinite DEF SharedBy
<1> QED
  BY <1>3 DEF SharedBy

\* A reference is found unused.
LEMMA ReferenceFound ==
  ASSUME TypeOK, NEW r \in Slots, NEW x \in References, FindReference(r), Goto(r, "insert"),
         slot[r].row.reference = x
  PROVE  SharedBy(x)'
<1>1. RegisteredWith(x)' = {}
  <2>1. slot'[r].at = "insert"
    BY SlotGoes DEF Points
  <2>2. ~Return(r)
    BY <2>1, SlotReturns, IdleType
  <2>3. PaidWith(x) = {} /\ UNCHANGED registration
    BY <2>2 DEF FindReference, tables
  <2> QED
    BY <2>3 DEF PaidWith, RegisteredWith, Live
<1>2. UsesReference(x)' \in SUBSET Slots
  BY DEF UsesReference
<1>3. Cardinality(RegisteredWith(x)') = 0
  BY <1>1, FS_EmptySet
<1>4. Cardinality(UsesReference(x)') <= Cardinality(Slots) /\ Cardinality(UsesReference(x)') \in Nat
  BY <1>2, RegistrationAssumption, FS_Subset, FS_CardinalityType
<1>5. Cardinality(RegisteredWith(x)') + Cardinality(UsesReference(x)') <= Cardinality(Slots)
  BY <1>3, <1>4, UsersFinite
<1> QED
  BY <1>5 DEF SharedBy

\* It is used by a handler that had found it unused.
LEMMA ReferenceUsed ==
  ASSUME TypeOK, NEW r \in Slots, NEW x \in References, Insert(r), SharedBy(x)
  PROVE  SharedBy(x)'
<1>1. At(r, "insert") /\ slot'[r].at = "idle" /\ \A q \in Slots \ {r} : slot'[q] = slot[q]
  BY SlotReturns, IdleType DEF Insert
<1>2. UsesReference(x)' \subseteq UsesReference(x) \ {r}
  BY <1>1 DEF UsesReference, At
<1>3. CASE RegisteredWith(x)' \subseteq RegisteredWith(x)
  BY <1>2, <1>3, SharedKept
<1>4. ASSUME NEW i \in RegistrationIds, registration' = [registration EXCEPT ![i] = slot[r].row],
             ~(RegisteredWith(x)' \subseteq RegisteredWith(x))
      PROVE  SharedBy(x)'
  <2>1. UNCHANGED entered /\ \A j \in RegistrationIds \ {i} : registration'[j] = registration[j]
    BY <1>4 DEF TypeOK, Insert
  <2>2. registration'[i] = slot[r].row
    BY <1>4 DEF TypeOK
  <2>3. RegisteredWith(x)' \subseteq RegisteredWith(x) \cup {i}
    BY <2>1 DEF PaidWith, RegisteredWith, Live
  <2>4. slot[r].row.reference = x
    BY <1>4, <2>1, <2>2 DEF PaidWith, RegisteredWith, Live
  <2>5. r \in UsesReference(x)
    BY <1>1, <2>4 DEF UsesReference
  <2>6. /\ IsFiniteSet(RegisteredWith(x)) /\ Cardinality(RegisteredWith(x)) \in Nat
        /\ IsFiniteSet(UsesReference(x)) /\ Cardinality(UsesReference(x)) \in Nat
        /\ Cardinality(Slots) \in Nat
    BY UsersFinite
  <2>7. /\ IsFiniteSet(RegisteredWith(x) \cup {i})
        /\ Cardinality(RegisteredWith(x) \cup {i}) =
             IF i \in RegisteredWith(x) THEN Cardinality(RegisteredWith(x)) ELSE Cardinality(RegisteredWith(x)) + 1
    BY <2>6, FS_AddElement, Zenon
  <2>8. /\ Cardinality(RegisteredWith(x)') <= Cardinality(RegisteredWith(x) \cup {i})
        /\ Cardinality(RegisteredWith(x)') \in Nat
    BY <2>3, <2>7, FS_Subset, FS_CardinalityType
  <2>9. /\ IsFiniteSet(UsesReference(x) \ {r})
        /\ Cardinality(UsesReference(x) \ {r}) = Cardinality(UsesReference(x)) - 1
    BY <2>5, <2>6, FS_RemoveElement
  <2>10. /\ Cardinality(UsesReference(x)') <= Cardinality(UsesReference(x) \ {r})
         /\ Cardinality(UsesReference(x)') \in Nat
    BY <1>2, <2>9, FS_Subset, FS_CardinalityType
  <2>11. Cardinality(RegisteredWith(x)') + Cardinality(UsesReference(x)') <= Cardinality(Slots)
    BY <2>6, <2>7, <2>8, <2>9, <2>10 DEF SharedBy
  <2> QED
    BY <2>11 DEF SharedBy
<1>5. CASE UNCHANGED registration
  BY <1>3, <1>5 DEF Insert, PaidWith, RegisteredWith, Live
<1> QED
  BY <1>3, <1>4, <1>5 DEF Insert

\* One payment serves as many registrations as handlers are served at the same
\* time, and no more (verifyAndRegisterForEvent).
THEOREM SharingIsBounded == Spec => []SharedPaymentBound
<1>1. ASSUME Init
      PROVE  \A x \in References : SharedBy(x)
  <2>1. ASSUME NEW x \in References
        PROVE  SharedBy(x)
    <3>1. RegisteredWith(x) = {} /\ UsesReference(x) = {}
      BY <1>1, IdleType DEF Init, PaidWith, RegisteredWith, Live, UsesReference, At
    <3>2. Cardinality(Slots) \in Nat
      BY RegistrationAssumption, FS_CardinalityType
    <3>3. Cardinality(RegisteredWith(x)) = 0 /\ Cardinality(UsesReference(x)) = 0
      BY <3>1, FS_EmptySet
    <3> QED
      BY <3>2, <3>3 DEF SharedBy
  <2> QED
    BY <2>1
<1>2. ASSUME RegistrationInv, [Next]_vars, NEW x \in References, SharedBy(x)
      PROVE  SharedBy(x)'
  <2>1. TypeOK /\ \A r \in Slots : HandlerHolds(r)
    BY <1>2 DEF RegistrationInv
  <2>2. ASSUME UNCHANGED <<registration, entered>>, UsesReference(x)' \subseteq UsesReference(x)
        PROVE  SharedBy(x)'
    BY <1>2, <2>1, <2>2, SharedKept DEF PaidWith, RegisteredWith, Live
  <2>3. ASSUME NEW r \in Slots, RegisterStep(r)
        PROVE  SharedBy(x)'
    <3>1. CASE CountPlaces(r)
      <4>1. PICK row \in Requests : Move(r, [Idle EXCEPT !.at = "duplicate", !.row = row])
        BY <3>1 DEF CountPlaces
      <4>2. [Idle EXCEPT !.at = "duplicate", !.row = row] \in SlotStates
        BY IdleType, RequestRows DEF Idle, SlotStates, Points
      <4>3. [Idle EXCEPT !.at = "duplicate", !.row = row].at = "duplicate"
        BY DEF Idle
      <4>4. slot'[r].at = "duplicate" /\ \A q \in Slots \ {r} : slot'[q] = slot[q]
        BY <2>1, <4>1, <4>2, <4>3, SlotMoved
      <4> QED
        BY <2>2, <3>1, <4>4 DEF CountPlaces, tables, history, UsesReference, At
    <3>2. CASE FindDuplicate(r)
      <4>1. UNCHANGED <<registration, entered>> /\ slot[r].row \in Requests
        BY <2>1, <3>2 DEF FindDuplicate, tables, history, HandlerHolds, At
      <4>2. /\ \A q \in Slots \ {r} : slot'[q] = slot[q]
            /\ slot'[r].at = "insert" =>
                 slot'[r].row = slot[r].row /\ slot[r].row.payment # "pending"
        BY <2>1, <3>2, SlotReturns, SlotGoes, IdleType DEF FindDuplicate, Points
      <4>3. slot[r].row.payment # "pending" => slot[r].row.reference # x
        BY <4>1, RegistrationAssumption DEF Requests
      <4> QED
        BY <2>2, <4>1, <4>2, <4>3 DEF UsesReference, At
    <3>3. CASE FindReference(r)
      <4>1. UNCHANGED <<registration, entered>>
        BY <3>3 DEF FindReference, tables, history
      <4>2. CASE Goto(r, "insert") /\ slot[r].row.reference = x
        BY <2>1, <3>3, <4>2, ReferenceFound
      <4>3. CASE ~(Goto(r, "insert") /\ slot[r].row.reference = x)
        <5>1. /\ \A q \in Slots \ {r} : slot'[q] = slot[q]
              /\ slot'[r].at = "insert" => slot'[r].row.reference # x
          BY <2>1, <3>3, <4>3, SlotReturns, SlotGoes, IdleType DEF FindReference, Points
        <5> QED
          BY <2>2, <4>1, <5>1 DEF UsesReference, At
      <4> QED
        BY <4>2, <4>3
    <3>4. CASE Insert(r)
      BY <1>2, <2>1, <3>4, ReferenceUsed
    <3>5. ASSUME UpdateRegistration(r) \/ RejectRegistration(r)
          PROVE  SharedBy(x)'
      <4>1. PICK i \in Live, s \in Statuses : registration' = [registration EXCEPT ![i].status = s]
        BY <3>5, RegistrationAssumption DEF UpdateRegistration, RejectRegistration, Statuses
      <4>2. \A j \in RegistrationIds \ {i} : registration'[j] = registration[j]
        BY <2>1, <4>1 DEF TypeOK
      <4>3. registration[i] \in Rows /\ registration'[i] = [registration[i] EXCEPT !.status = s]
        BY <2>1, <4>1 DEF TypeOK, Live
      <4>4. registration'[i].reference = registration[i].reference
        BY <4>3 DEF Rows
      <4>5. RegisteredWith(x)' \subseteq RegisteredWith(x)
        BY <3>5, <4>1, <4>2, <4>4 DEF UpdateRegistration, RejectRegistration, history, PaidWith, RegisteredWith, Live
      <4>6. UsesReference(x)' \subseteq UsesReference(x)
        BY <3>5 DEF UpdateRegistration, RejectRegistration, UsesReference, At
      <4> QED
        BY <1>2, <2>1, <4>5, <4>6, SharedKept
    <3>6. CASE DeleteRegistration(r)
      <4>1. PICK i \in Live : registration' = [registration EXCEPT ![i] = NoRow] /\ entered' = entered \ {i}
        BY <3>6 DEF DeleteRegistration
      <4>2. registration'[i] = NoRow /\ \A j \in RegistrationIds \ {i} : registration'[j] = registration[j]
        BY <2>1, <4>1 DEF TypeOK, Live
      <4>3. RegisteredWith(x)' \subseteq RegisteredWith(x) /\ UsesReference(x)' \subseteq UsesReference(x)
        BY <3>6, <4>1, <4>2 DEF DeleteRegistration, PaidWith, RegisteredWith, Live, UsesReference, At
      <4> QED
        BY <1>2, <2>1, <4>3, SharedKept
    <3>7. CASE EnterPayment(r)
      <4>1. PICK i \in Live, payment \in EnteredPayments, y \in References :
              /\ registration' = [registration EXCEPT ![i].payment = payment, ![i].reference = y]
              /\ entered' = entered \cup {i}
        BY <3>7 DEF EnterPayment
      <4>2. /\ Live' = Live
            /\ \A j \in RegistrationIds \ {i} : registration'[j] = registration[j]
        BY <2>1, <4>1, PaymentWritten, RegistrationAssumption
      <4>3. RegisteredWith(x)' \subseteq RegisteredWith(x) /\ UsesReference(x)' \subseteq UsesReference(x)
        BY <3>7, <4>1, <4>2 DEF EnterPayment, PaidWith, RegisteredWith, Live, UsesReference, At
      <4> QED
        BY <1>2, <2>1, <4>3, SharedKept
    <3> QED
      BY <2>3, <3>1, <3>2, <3>3, <3>4, <3>5, <3>6, <3>7 DEF RegisterStep
  <2>4. ASSUME NEW r \in Slots, WebhookStep(r) \/ RejectCall(r) \/ FailReport(r)
        PROVE  SharedBy(x)'
    <3>1. UsesReference(x)' \subseteq UsesReference(x) /\ RegisteredWith(x)' \subseteq RegisteredWith(x)
      BY <2>1, <2>4, WebhookAdmitsNone DEF UsesReference, At, PaidWith, RegisteredWith
    <3> QED
      BY <1>2, <2>1, <3>1, SharedKept
  <2>5. CASE Stop
    BY <2>1, <2>2, <2>5, IdleType DEF Stop, UsesReference, At, tables, history
  <2>6. ASSUME NEW y \in References, Charge(y)
        PROVE  SharedBy(x)'
    BY <2>2, <2>6 DEF Charge, UsesReference, At, tables, history
  <2>7. CASE UNCHANGED vars
    BY <2>2, <2>7 DEF vars, UsesReference, At
  <2> QED
    BY <1>2, <2>3, <2>4, <2>5, <2>6, <2>7 DEF Next
<1> DEFINE Shared == \A x \in References : SharedBy(x)
<1>3. Init => Shared
  BY <1>1
<1>4. Shared /\ RegistrationInv /\ [Next]_vars => Shared'
  BY <1>2
<1>5. Shared <=> SharedPaymentBound
  BY DEF SharedBy, SharedPaymentBound
<1> HIDE DEF Shared
<1> QED
  BY <1>3, <1>4, <1>5, RegistrationInvariant, PTL DEF Spec

=============================================================================
