-------------------------- MODULE MembershipProofs --------------------------
(***************************************************************************)
(* Theorems about Membership, for any number of members, branches, codes   *)
(* and handlers: what a card's number says, when create gives none, and    *)
(* that a completed transfer has taken place.                              *)
(***************************************************************************)
EXTENDS Membership, FiniteSetTheorems, TLAPS

LEMMA IdleType == Idle \in SlotStates /\ Idle.at = "idle"
  BY MembershipAssumption DEF Idle, SlotStates, Points, Places, Holdings, Statuses

LEMMA SlotBecomes ==
  ASSUME TypeOK, NEW r \in Slots, NEW state \in SlotStates, Become(r, state)
  PROVE  /\ slot' \in [Slots -> SlotStates]
         /\ slot'[r] = state
         /\ \A q \in Slots \ {r} : slot'[q] = slot[q]
  BY DEF TypeOK, Become

LEMMA SlotReturns ==
  ASSUME TypeOK, NEW r \in Slots, Return(r)
  PROVE  /\ slot' \in [Slots -> SlotStates]
         /\ slot'[r].at = "idle"
         /\ \A q \in Slots \ {r} : slot'[q] = slot[q]
<1>1. Become(r, Idle)
  BY DEF Return
<1> QED
  BY <1>1, IdleType, SlotBecomes

LEMMA SlotGoes ==
  ASSUME TypeOK, NEW r \in Slots, NEW point \in Points, Goto(r, point)
  PROVE  /\ slot' \in [Slots -> SlotStates]
         /\ slot'[r] = [slot[r] EXCEPT !.at = point]
         /\ \A q \in Slots \ {r} : slot'[q] = slot[q]
<1>1. [slot[r] EXCEPT !.at = point] \in SlotStates
  BY DEF TypeOK, SlotStates
<1> QED
  BY <1>1, SlotBecomes DEF Goto

-----------------------------------------------------------------------------
(* How many have been at a place.                                          *)

LEMMA Sizes ==
  ASSUME TypeOK, NEW b \in Places
  PROVE  IsFiniteSet(been[b]) /\ Cardinality(been[b]) \in Nat
<1>1. been[b] \subseteq MemberIds
  BY DEF TypeOK
<1> QED
  BY <1>1, MembershipAssumption, FS_Subset, FS_CardinalityType

LEMMA CountTypes ==
  ASSUME TypeOK, PlacesKept, NEW b \in Places
  PROVE  /\ Cardinality(CountedAt(b)) \in Nat
         /\ Cardinality(CountedAt(b)) <= Cardinality(been[b])
<1>1. CountedAt(b) \subseteq been[b]
  BY DEF PlacesKept
<1> QED
  BY <1>1, Sizes, FS_Subset, FS_CardinalityType

\* The number generated while a row is still to come is one of Numbers.
LEMMA GeneratedType ==
  ASSUME TypeOK, PlacesKept, NEW b \in Places, NEW i \in MemberIds, member[i] = NoRow
  PROVE  /\ Generated(b) \in Cards
         /\ Generated(b).code = Code[b]
         /\ Generated(b).number = Cardinality(CountedAt(b)) + 1
<1>1. i \notin been[b] /\ been[b] \subseteq MemberIds \ {i}
  BY DEF PlacesKept, TypeOK
<1>2. /\ IsFiniteSet(MemberIds \ {i}) /\ Cardinality(MemberIds \ {i}) = Cardinality(MemberIds) - 1
      /\ Cardinality(MemberIds) \in Nat
  BY MembershipAssumption, FS_RemoveElement, FS_CardinalityType
<1>3. Cardinality(been[b]) <= Cardinality(MemberIds) - 1
  BY <1>1, <1>2, FS_Subset
<1>4. Cardinality(CountedAt(b)) + 1 \in Numbers
  BY <1>2, <1>3, CountTypes, Sizes DEF Numbers
<1>5. Code[b] \in Codes
  BY MembershipAssumption
<1> QED
  BY <1>4, <1>5 DEF Generated, Cards

LEMMA HoldersAreMembers ==
  ASSUME TypeOK, NEW c \in Cards, NEW i \in HeldBy(c)
  PROVE  i \in MemberIds /\ i \in Present /\ member[i].card = c
  BY DEF HeldBy, Present

-----------------------------------------------------------------------------
(* What handlers know of others' steps.                                    *)

\* The histories only grow.
Grow ==
  /\ \A b \in Places : been[b] \subseteq been'[b]
  /\ left \subseteq left' /\ entered \subseteq entered' /\ moved \subseteq moved'

\* GaveUpForAReason, of one handler.
HadReason(r) ==
  slot[r].at = "insert" /\ slot[r].card = NoCard /\ Alone(slot[r].branch) =>
    Cardinality(been[slot[r].branch]) >= slot[r].first + MaxAttempts

LEMMA SizesGrow ==
  ASSUME TypeOK, TypeOK', Grow, NEW b \in Places
  PROVE  /\ Cardinality(been[b]) \in Nat /\ Cardinality(been'[b]) \in Nat
         /\ Cardinality(been[b]) <= Cardinality(been'[b])
<1>1. IsFiniteSet(been'[b]) /\ Cardinality(been'[b]) \in Nat
  <2>1. been'[b] \subseteq MemberIds
    BY DEF TypeOK
  <2> QED
    BY <2>1, MembershipAssumption, FS_Subset, FS_CardinalityType
<1>2. been[b] \subseteq been'[b]
  BY DEF Grow
<1> QED
  BY <1>1, <1>2, Sizes, FS_Subset

LEMMA AloneEarlier ==
  ASSUME Grow, NEW b \in Places, Alone(b)'
  PROVE  Alone(b)
  BY DEF Grow, Alone

LEMMA SlotTypes ==
  ASSUME TypeOK, NEW r \in Slots
  PROVE  /\ slot[r] \in SlotStates /\ slot[r].at \in Points /\ slot[r].branch \in Places
         /\ slot[r].card \in Holdings /\ slot[r].first \in Nat
         /\ slot[r].attempt \in 0 .. MaxAttempts - 1 /\ slot[r].attempt \in Nat
         /\ slot[r].member \in MemberIds \cup {NoMember}
         /\ slot[r].request \in RequestIds \cup {NoRequest} /\ slot[r].status \in Statuses
<1>1. slot[r] \in SlotStates
  BY DEF TypeOK
<1>2. MaxAttempts \in Nat
  BY MembershipAssumption
<1> QED
  BY <1>1, <1>2 DEF SlotStates

\* A handler that does not move keeps what it knows.
LEMMA Stays ==
  ASSUME TypeOK, TypeOK', Grow, NEW q \in Slots, slot'[q] = slot[q],
         CreateKnows(q), UpdateKnows(q), HadReason(q),
         slot[q].at \in Creating => member'[slot[q].member] = NoRow
  PROVE  CreateKnows(q)' /\ UpdateKnows(q)' /\ HadReason(q)'
<1> DEFINE s == slot[q]
           n == Cardinality(been[s.branch])
           m == Cardinality(been'[s.branch])
<1>1. /\ s.branch \in Places /\ s.first \in Nat /\ s.attempt \in Nat
      /\ s.card \in Cards => s.card.number \in Nat
  BY SlotTypes DEF Cards, Numbers
<1>2. n \in Nat /\ m \in Nat /\ n <= m
  BY <1>1, SizesGrow
<1>3. Alone(s.branch)' => Alone(s.branch)
  <2>1. SUFFICES ASSUME Alone(s.branch)' PROVE Alone(slot[q].branch)
    OBVIOUS
  <2>2. Alone(slot[q].branch)'
    BY <2>1
  <2>3. \A b \in Places : Alone(b)' => Alone(b)
    BY AloneEarlier
  <2> QED
    BY <1>1, <2>2, <2>3 DEF Alone
<1>4. MaxAttempts \in Nat
  BY MembershipAssumption
<1>5. CreateKnows(q)'
  <2>1. s.at \in {"find", "insert"} /\ s.card \in Cards =>
          s.card.code = Code[s.branch] /\ s.card.number <= m + 1
    BY <1>1, <1>2 DEF CreateKnows
  <2>2. s.at = "find" /\ Alone(s.branch)' => s.card.number > s.first + s.attempt
    BY <1>3 DEF CreateKnows
  <2>3. s.at = "count" /\ Alone(s.branch)' => m >= s.first + s.attempt
    <3>1. SUFFICES ASSUME s.at = "count", Alone(s.branch)' PROVE m >= s.first + s.attempt
      OBVIOUS
    <3>2. n >= s.first + s.attempt
      BY <1>3, <3>1 DEF CreateKnows
    <3> HIDE DEF s, n, m
    <3> QED
      BY <1>1, <1>2, <3>2
  <2>4. /\ s.at \in Creating => s.member \in MemberIds /\ member'[s.member] = NoRow
        /\ s.at \in {"find", "count"} => s.card \in Cards
    BY DEF CreateKnows
  <2> QED
    BY <2>1, <2>2, <2>3, <2>4 DEF CreateKnows
<1>6. UpdateKnows(q)'
  BY DEF UpdateKnows, Grow
<1>7. HadReason(q)'
  <2>1. SUFFICES ASSUME s.at = "insert", s.card = NoCard, Alone(s.branch)'
                 PROVE  m >= s.first + MaxAttempts
    BY DEF HadReason
  <2>2. n >= s.first + MaxAttempts
    BY <1>3, <2>1 DEF HadReason
  <2> HIDE DEF s, n, m
  <2> QED
    BY <1>1, <1>2, <1>4, <2>2
<1> QED
  BY <1>5, <1>6, <1>7

\* All that the handlers know.
SlotsOK ==
  /\ KeysApart
  /\ \A r \in Slots : CreateKnows(r) /\ UpdateKnows(r) /\ HadReason(r)

LEMMA OneSlotMoves ==
  ASSUME TypeOK, TypeOK', SlotsOK, Grow, NEW r \in Slots,
         \A q \in Slots \ {r} : slot'[q] = slot[q],
         \A i \in MemberIds : member[i] = NoRow =>
           \/ member'[i] = NoRow
           \/ slot[r].at \in Creating /\ slot[r].member = i,
         slot'[r].at \in Creating =>
           \/ slot[r].at \in Creating /\ slot'[r].member = slot[r].member
           \/ \A q \in Slots : slot[q].member # slot'[r].member,
         CreateKnows(r)' /\ UpdateKnows(r)' /\ HadReason(r)'
  PROVE  SlotsOK'
<1>1. ASSUME NEW q \in Slots \ {r}, slot[q].at \in Creating
      PROVE  member'[slot[q].member] = NoRow
  <2>1. slot[q].member \in MemberIds /\ member[slot[q].member] = NoRow
    BY <1>1 DEF SlotsOK, CreateKnows
  <2>2. ~(slot[r].at \in Creating /\ slot[r].member = slot[q].member)
    BY <1>1 DEF SlotsOK, KeysApart
  <2> QED
    BY <2>1, <2>2
<1>2. ASSUME NEW q \in Slots
      PROVE  CreateKnows(q)' /\ UpdateKnows(q)' /\ HadReason(q)'
  <2>1. CASE q = r
    BY <2>1
  <2>2. CASE q # r
    <3>1. q \in Slots \ {r} /\ slot'[q] = slot[q]
      BY <2>2
    <3>2. CreateKnows(q) /\ UpdateKnows(q) /\ HadReason(q)
      BY DEF SlotsOK
    <3> QED
      BY <1>1, <3>1, <3>2, Stays
  <2> QED
    BY <2>1, <2>2
<1>3. KeysApart'
  <2>1. SUFFICES ASSUME NEW q \in Slots, NEW p \in Slots, slot'[q].at \in Creating,
                        slot'[p].at \in Creating, slot'[q].member = slot'[p].member
                 PROVE  q = p
    BY DEF KeysApart
  <2>2. \A a, b \in Slots : slot[a].at \in Creating /\ slot[b].at \in Creating
                            /\ slot[a].member = slot[b].member => a = b
    BY DEF SlotsOK, KeysApart
  <2>3. CASE q # r /\ p # r
    BY <2>1, <2>2, <2>3
  <2>4. CASE q = r /\ p # r
    BY <2>1, <2>2, <2>4
  <2>5. CASE q # r /\ p = r
    BY <2>1, <2>2, <2>5
  <2> QED
    BY <2>3, <2>4, <2>5
<1> QED
  BY <1>2, <1>3 DEF SlotsOK

\* A step that is no handler's, and one that only changes tables.
LEMMA NoSlotMoves ==
  ASSUME TypeOK, TypeOK', SlotsOK, Grow, slot' = slot,
         \A i \in MemberIds : member[i] = NoRow => member'[i] = NoRow
  PROVE  SlotsOK'
<1>1. ASSUME NEW q \in Slots
      PROVE  CreateKnows(q)' /\ UpdateKnows(q)' /\ HadReason(q)'
  <2>1. CreateKnows(q) /\ UpdateKnows(q) /\ HadReason(q)
    BY DEF SlotsOK
  <2>2. slot[q].at \in Creating => member'[slot[q].member] = NoRow
    BY <2>1 DEF CreateKnows
  <2> QED
    BY <2>1, <2>2, Stays
<1> QED
  BY <1>1 DEF SlotsOK, KeysApart

\* An idle handler knows nothing.
LEMMA IdleKnows ==
  ASSUME NEW r \in Slots, slot'[r].at = "idle"
  PROVE  CreateKnows(r)' /\ UpdateKnows(r)' /\ HadReason(r)' /\ slot'[r].at \notin Creating
  BY DEF CreateKnows, UpdateKnows, HadReason, Creating

-----------------------------------------------------------------------------
(* The tables.                                                             *)

MembersOK == OneHolder /\ PlacesKept /\ NumbersFollowSize

LEMMA MembersUnchanged ==
  ASSUME MembersOK, UNCHANGED <<member, been, left, entered>>
  PROVE  MembersOK'
  BY DEF MembersOK, OneHolder, PlacesKept, NumbersFollowSize, CountedAt, Belonging, Present

LEMMA NothingChanges ==
  ASSUME UNCHANGED history
  PROVE  Grow
  BY DEF Grow, history

\* Numbers stay bounded where no card is given.
LEMMA NumbersStay ==
  ASSUME TypeOK, TypeOK', Grow, NumbersFollowSize,
         \A i \in Present' : /\ i \in Present
                             /\ member'[i].card = member[i].card \/ member'[i].card \notin Cards \ entered'
  PROVE  NumbersFollowSize'
<1>1. SUFFICES ASSUME NEW i \in Present', member'[i].card \in Cards \ entered'
               PROVE  \E b \in Places : Code[b] = member'[i].card.code
                                        /\ member'[i].card.number <= Cardinality(been'[b])
  BY DEF NumbersFollowSize, Cards
<1>2. i \in Present /\ member'[i].card = member[i].card /\ member[i].card \in Cards \ entered
  BY <1>1 DEF Grow
<1>3. PICK b \in Places : Code[b] = member[i].card.code /\ member[i].card.number <= Cardinality(been[b])
  BY <1>2 DEF NumbersFollowSize
<1>4. member[i].card.number \in Nat
  BY <1>2 DEF Cards, Numbers
<1>5. member[i].card.number <= Cardinality(been'[b])
  BY <1>3, <1>4, SizesGrow
<1> QED
  BY <1>2, <1>3, <1>5

\* One member settles somewhere.
LEMMA SettleKeeps ==
  ASSUME TypeOK, MembersOK, NEW i \in Present, NEW b \in Places, Settle(i, b),
         UNCHANGED entered, moved \subseteq moved'
  PROVE  /\ member' \in [MemberIds -> Members \cup {NoRow, Gone}]
         /\ been' \in [Places -> SUBSET MemberIds] /\ left' \subseteq Places
         /\ Grow /\ Present' = Present
         /\ \A j \in MemberIds : member[j] = NoRow => member'[j] = NoRow
         /\ \A j \in Present : member'[j].card = member[j].card
         /\ OneHolder' /\ PlacesKept'
<1>1. i \in MemberIds /\ member[i] \in Members /\ member[i].branch \in Places
  BY DEF Present, Members
<1>2. /\ member' = [member EXCEPT ![i].branch = b]
      /\ been' = [been EXCEPT ![b] = @ \cup {i}]
      /\ left' = left \cup ({member[i].branch} \ {b, NoBranch})
  BY DEF Settle
<1>3. /\ member'[i] \in Members /\ member'[i].branch = b /\ member'[i].card = member[i].card
      /\ \A j \in MemberIds \ {i} : member'[j] = member[j]
      /\ DOMAIN member' = MemberIds
  BY <1>1, <1>2 DEF TypeOK, Members
<1>4. member' \in [MemberIds -> Members \cup {NoRow, Gone}]
  <2>1. \A j \in MemberIds : member'[j] \in Members \cup {NoRow, Gone}
    BY <1>3 DEF TypeOK
  <2>2. member' = [j \in MemberIds |-> member'[j]]
    BY <1>2 DEF TypeOK
  <2> QED
    BY <2>1, <2>2
<1>5. NoRow \notin Members
  BY MembershipAssumption
<1>6. Present' = Present
  BY <1>1, <1>3 DEF Present
<1>7. /\ been' \in [Places -> SUBSET MemberIds] /\ left' \subseteq Places
      /\ Grow
      /\ \A p \in Places : been'[p] = IF p = b THEN been[p] \cup {i} ELSE been[p]
  BY <1>1, <1>2 DEF TypeOK, Grow
<1>8. \A j \in MemberIds : (member[j] = NoRow <=> member'[j] = NoRow)
  BY <1>1, <1>3, <1>5
<1>9. \A j \in Present : member'[j].card = member[j].card
  BY <1>3 DEF Present
<1>10. OneHolder'
  BY <1>6, <1>9 DEF MembersOK, OneHolder
<1>11. \A p \in Places : CountedAt(p)' = IF p = NoBranch THEN Present
         ELSE IF p = b THEN Belonging(p) \cup {i} ELSE Belonging(p) \ {i}
  <2>1. ASSUME NEW p \in Places, p # NoBranch
        PROVE  CountedAt(p)' = IF p = b THEN Belonging(p) \cup {i} ELSE Belonging(p) \ {i}
    <3>1. CountedAt(p)' = {j \in Present : member'[j].branch = p}
      BY <1>6, <2>1 DEF CountedAt, Belonging
    <3>2. i \in Present /\ \A j \in Present \ {i} : member'[j].branch = member[j].branch
      BY <1>3 DEF Present
    <3> QED
      BY <1>3, <3>1, <3>2 DEF Belonging
  <2>2. CountedAt(NoBranch)' = Present
    BY <1>6 DEF CountedAt
  <2> QED
    BY <2>1, <2>2
<1>12. PlacesKept'
  <2>1. ASSUME NEW p \in Places PROVE CountedAt(p)' \subseteq been'[p]
    <3>1. CountedAt(p) \subseteq been[p]
      BY DEF MembersOK, PlacesKept
    <3> QED
      BY <1>7, <1>11, <3>1 DEF CountedAt
  <2>2. ASSUME NEW p \in Places, p \notin left' PROVE been'[p] = CountedAt(p)'
    <3>1. p \notin left /\ been[p] = CountedAt(p)
      BY <1>2, <2>2 DEF MembersOK, PlacesKept
    <3>2. CASE p = NoBranch
      BY <1>7, <1>11, <3>1, <3>2 DEF CountedAt
    <3>3. CASE p # NoBranch /\ p = b
      <4>1. CountedAt(p)' = Belonging(p) \cup {i} /\ been'[p] = been[p] \cup {i}
        BY <1>7, <1>11, <3>3
      <4>2. been[p] = Belonging(p)
        BY <3>1, <3>3 DEF CountedAt
      <4> QED
        BY <4>1, <4>2
    <3>4. CASE p # NoBranch /\ p # b
      <4>1. member[i].branch # p
        BY <1>2, <2>2, <3>4
      <4>2. i \notin Belonging(p)
        BY <4>1 DEF Belonging
      <4>3. CountedAt(p)' = Belonging(p) \ {i} /\ been'[p] = been[p]
        BY <1>7, <1>11, <3>4
      <4>4. been[p] = Belonging(p)
        BY <3>1, <3>4 DEF CountedAt
      <4> QED
        BY <4>2, <4>3, <4>4
    <3> QED
      BY <3>2, <3>3, <3>4
  <2>3. ASSUME NEW p \in Places, NEW j \in been'[p] PROVE member'[j] # NoRow
    <3>1. j \in MemberIds /\ (j = i \/ j \in been[p])
      BY <1>1, <1>7 DEF TypeOK
    <3>2. member[j] # NoRow
      BY <1>1, <1>5, <3>1 DEF MembersOK, PlacesKept
    <3> QED
      BY <1>8, <3>1, <3>2
  <2> QED
    BY <2>1, <2>2, <2>3 DEF PlacesKept
<1> QED
  BY <1>4, <1>6, <1>7, <1>8, <1>9, <1>10, <1>12

-----------------------------------------------------------------------------
(* create.                                                                 *)

Kept == TypeOK /\ MembersOK /\ SlotsOK /\ CompletedWasMoved

LEMMA KeptIsInv == MembershipInv <=> Kept
  BY DEF MembershipInv, Kept, MembersOK, SlotsOK, HadReason, GaveUpForAReason

\* Steps that only change what one handler knows.
LEMMA OnlySlotChanges ==
  ASSUME Kept, NEW r \in Slots, UNCHANGED <<tables, history>>,
         slot' \in [Slots -> SlotStates],
         \A q \in Slots \ {r} : slot'[q] = slot[q],
         slot'[r].at \in Creating =>
           \/ slot[r].at \in Creating /\ slot'[r].member = slot[r].member
           \/ \A q \in Slots : slot[q].member # slot'[r].member,
         CreateKnows(r)' /\ UpdateKnows(r)' /\ HadReason(r)'
  PROVE  Kept'
<1>1. TypeOK'
  BY DEF Kept, TypeOK, tables, history
<1>2. Grow
  BY NothingChanges DEF history
<1>3. SlotsOK'
  BY <1>1, <1>2, OneSlotMoves DEF Kept, tables
<1>4. MembersOK'
  BY MembersUnchanged DEF Kept, tables, history
<1>5. CompletedWasMoved'
  BY DEF Kept, CompletedWasMoved, Open, tables, history
<1> QED
  BY <1>1, <1>3, <1>4, <1>5 DEF Kept

LEMMA ReturnKeeps ==
  ASSUME Kept, NEW r \in Slots, Return(r), UNCHANGED <<tables, history>>
  PROVE  Kept'
<1>1. TypeOK
  BY DEF Kept
<1>2. /\ slot' \in [Slots -> SlotStates] /\ slot'[r].at = "idle"
      /\ \A q \in Slots \ {r} : slot'[q] = slot[q]
  BY <1>1, SlotReturns
<1> QED
  BY <1>2, IdleKnows, OnlySlotChanges

LEMMA StartCreateKeeps ==
  ASSUME Kept, NEW r \in Slots, StartCreate(r)
  PROVE  Kept'
<1> USE DEF Kept
<1>1. PICK i \in Fresh, b \in Places :
        Become(r, [Idle EXCEPT !.at = "find", !.member = i, !.branch = b, !.card = Generated(b),
                               !.first = Cardinality(CountedAt(b))])
  BY DEF StartCreate
<1> DEFINE state == [Idle EXCEPT !.at = "find", !.member = i, !.branch = b, !.card = Generated(b),
                                 !.first = Cardinality(CountedAt(b))]
<1>2. i \in MemberIds /\ member[i] = NoRow /\ \A q \in Slots : slot[q].member # i
  BY DEF Fresh
<1>3. /\ Generated(b) \in Cards /\ Generated(b).code = Code[b]
      /\ Generated(b).number = Cardinality(CountedAt(b)) + 1
  BY <1>2, GeneratedType DEF MembersOK
<1>4. Cardinality(CountedAt(b)) \in Nat /\ Cardinality(CountedAt(b)) <= Cardinality(been[b])
  BY CountTypes DEF MembersOK
<1>5. Idle \in SlotStates /\ Idle.attempt = 0
  BY IdleType DEF Idle
<1>6. /\ state \in SlotStates /\ state.at = "find" /\ state.member = i /\ state.branch = b
      /\ state.card = Generated(b) /\ state.first = Cardinality(CountedAt(b)) /\ state.attempt = 0
  BY <1>2, <1>3, <1>4, <1>5 DEF SlotStates, Points, Creating, Holdings
<1>7. Become(r, state) /\ UNCHANGED <<tables, history>>
  BY <1>1 DEF StartCreate
<1> HIDE DEF state
<1>8. /\ slot' \in [Slots -> SlotStates] /\ slot'[r] = state
      /\ \A q \in Slots \ {r} : slot'[q] = slot[q]
  BY <1>6, <1>7, SlotBecomes
<1>9. been' = been /\ member' = member /\ Cardinality(been[b]) \in Nat
  BY <1>7, Sizes DEF tables, history
<1>10. CreateKnows(r)'
  <2>1. /\ slot'[r].member \in MemberIds /\ member'[slot'[r].member] = NoRow
        /\ slot'[r].card \in Cards
        /\ slot'[r].card.code = Code[slot'[r].branch]
    BY <1>2, <1>3, <1>6, <1>8, <1>9
  <2>2. /\ slot'[r].card.number <= Cardinality(been'[slot'[r].branch]) + 1
        /\ slot'[r].card.number > slot'[r].first + slot'[r].attempt
    BY <1>3, <1>4, <1>6, <1>8, <1>9
  <2>3. slot'[r].at = "find"
    BY <1>6, <1>8
  <2> QED
    BY <2>1, <2>2, <2>3 DEF CreateKnows
<1>11. UpdateKnows(r)' /\ HadReason(r)'
  BY <1>6, <1>8 DEF UpdateKnows, HadReason
<1>12. \A q \in Slots : slot[q].member # slot'[r].member
  BY <1>2, <1>6, <1>8
<1> QED
  BY <1>7, <1>8, <1>10, <1>11, <1>12, OnlySlotChanges

\* If the number is taken and nothing else explains it, that many members have come.
LEMMA TakenMeansCome ==
  ASSUME Kept, NEW r \in Slots, slot[r].at = "find", HeldBy(slot[r].card) # {}, Alone(slot[r].branch)
  PROVE  Cardinality(been[slot[r].branch]) >= slot[r].first + slot[r].attempt + 1
<1> USE DEF Kept
<1> DEFINE b == slot[r].branch
           c == slot[r].card
<1>1. /\ b \in Places /\ slot[r].first \in Nat /\ slot[r].attempt \in Nat
      /\ Cardinality(been[b]) \in Nat
  BY SlotTypes, Sizes
<1>2. c \in Cards /\ c.code = Code[b] /\ c.number > slot[r].first + slot[r].attempt
  BY DEF SlotsOK, CreateKnows
<1>3. PICK i \in HeldBy(c) : TRUE
  OBVIOUS
<1>4. i \in Present /\ member[i].card = c
  BY <1>2, HoldersAreMembers
<1>5. c \notin entered
  BY <1>2 DEF Alone
<1>6. PICK p \in Places : Code[p] = c.code /\ c.number <= Cardinality(been[p])
  BY <1>2, <1>4, <1>5 DEF MembersOK, NumbersFollowSize
<1>7. p = b
  BY <1>1, <1>2, <1>6 DEF Alone
<1>8. c.number \in Nat
  BY <1>2 DEF Cards, Numbers
<1> HIDE DEF b, c
<1>9. Cardinality(been[b]) >= slot[r].first + slot[r].attempt + 1
  BY <1>1, <1>2, <1>6, <1>7, <1>8
<1> QED
  BY <1>9 DEF b

LEMMA FindCardKeeps ==
  ASSUME Kept, NEW r \in Slots, FindCard(r)
  PROVE  Kept'
<1> USE DEF Kept
<1> DEFINE s == slot[r]
           b == slot[r].branch
<1>1. s.at = "find" /\ UNCHANGED <<tables, history>>
  BY DEF FindCard
<1>2. /\ s \in SlotStates /\ b \in Places /\ s.first \in Nat /\ s.attempt \in Nat
      /\ s.attempt \in 0 .. MaxAttempts - 1 /\ s.card \in Holdings
  BY SlotTypes
<1>3. /\ s.member \in MemberIds /\ member[s.member] = NoRow /\ s.card \in Cards
      /\ s.card.code = Code[b] /\ s.card.number <= Cardinality(been[b]) + 1
  BY <1>1 DEF SlotsOK, CreateKnows, Creating
<1>4. been' = been /\ member' = member /\ left' = left /\ entered' = entered
  BY <1>1 DEF tables, history
<1>5. Cardinality(been[b]) \in Nat /\ MaxAttempts \in Nat \ {0} /\ NoCard \notin Cards
  BY <1>2, Sizes, MembershipAssumption
<1>6. CASE HeldBy(s.card) = {} /\ Goto(r, "insert")
  <2>1. /\ slot' \in [Slots -> SlotStates] /\ slot'[r] = [s EXCEPT !.at = "insert"]
        /\ \A q \in Slots \ {r} : slot'[q] = slot[q]
    BY <1>6, SlotGoes DEF Points, Creating
  <2>2. /\ slot'[r].at = "insert" /\ slot'[r].member = s.member /\ slot'[r].branch = b
        /\ slot'[r].card = s.card
    BY <1>2, <2>1 DEF SlotStates
  <2>3. CreateKnows(r)' /\ UpdateKnows(r)' /\ HadReason(r)'
    BY <1>3, <1>4, <1>5, <2>2 DEF CreateKnows, UpdateKnows, HadReason, Creating
  <2>4. s.at \in Creating
    BY <1>1 DEF Creating
  <2> QED
    BY <1>1, <2>1, <2>2, <2>3, <2>4, OnlySlotChanges
<1>7. CASE /\ HeldBy(s.card) # {} /\ s.attempt + 1 < MaxAttempts
           /\ Become(r, [s EXCEPT !.at = "count", !.attempt = @ + 1])
  <2> DEFINE state == [s EXCEPT !.at = "count", !.attempt = @ + 1]
  <2>1. s.attempt + 1 \in 0 .. MaxAttempts - 1
    BY <1>2, <1>5, <1>7
  <2>2. /\ state \in SlotStates /\ state.at = "count" /\ state.member = s.member
        /\ state.branch = b /\ state.card = s.card /\ state.first = s.first
        /\ state.attempt = s.attempt + 1
    BY <1>2, <2>1 DEF SlotStates, Points, Creating
  <2>3. Become(r, state)
    BY <1>7
  <2> HIDE DEF state
  <2>4. /\ slot' \in [Slots -> SlotStates] /\ slot'[r] = state
        /\ \A q \in Slots \ {r} : slot'[q] = slot[q]
    BY <2>2, <2>3, SlotBecomes
  <2>5. Alone(b) => Cardinality(been[b]) >= s.first + s.attempt + 1
    BY <1>1, <1>7, TakenMeansCome
  <2>6. Alone(slot[r].branch)' => Alone(b)
    BY <1>4, <2>2, <2>4 DEF Alone
  <2>7. Alone(slot[r].branch)' =>
          Cardinality(been'[slot'[r].branch]) >= slot'[r].first + slot'[r].attempt
    <3>1. SUFFICES ASSUME Alone(slot[r].branch)'
                   PROVE  Cardinality(been[b]) >= s.first + (s.attempt + 1)
      BY <1>4, <2>2, <2>4
    <3>2. Cardinality(been[b]) >= s.first + s.attempt + 1
      BY <2>5, <2>6, <3>1
    <3> HIDE DEF s, b
    <3> QED
      BY <1>2, <1>5, <3>2
  <2>8. CreateKnows(r)' /\ UpdateKnows(r)' /\ HadReason(r)'
    BY <1>3, <1>4, <2>2, <2>4, <2>7 DEF CreateKnows, UpdateKnows, HadReason, Creating
  <2>9. s.at \in Creating
    BY <1>1 DEF Creating
  <2> QED
    BY <1>1, <2>2, <2>4, <2>8, <2>9, OnlySlotChanges
<1>8. CASE /\ HeldBy(s.card) # {} /\ s.attempt + 1 = MaxAttempts
           /\ Become(r, [s EXCEPT !.at = "insert", !.card = NoCard])
  <2> DEFINE state == [s EXCEPT !.at = "insert", !.card = NoCard]
  <2>1. /\ state \in SlotStates /\ state.at = "insert" /\ state.member = s.member
        /\ state.branch = b /\ state.card = NoCard /\ state.first = s.first
    BY <1>2 DEF SlotStates, Points, Creating, Holdings
  <2>2. Become(r, state)
    BY <1>8
  <2> HIDE DEF state
  <2>3. /\ slot' \in [Slots -> SlotStates] /\ slot'[r] = state
        /\ \A q \in Slots \ {r} : slot'[q] = slot[q]
    BY <2>1, <2>2, SlotBecomes
  <2>4. Alone(b) => Cardinality(been[b]) >= s.first + s.attempt + 1
    BY <1>1, <1>8, TakenMeansCome
  <2>5. Alone(slot[r].branch)' => Alone(b)
    BY <1>4, <2>1, <2>3 DEF Alone
  <2>6. HadReason(r)'
    <3>1. SUFFICES ASSUME Alone(slot[r].branch)'
                   PROVE  Cardinality(been[b]) >= s.first + MaxAttempts
      BY <1>4, <2>1, <2>3 DEF HadReason
    <3>2. Cardinality(been[b]) >= s.first + s.attempt + 1
      BY <2>4, <2>5, <3>1
    <3>3. s.attempt + 1 = MaxAttempts
      BY <1>8
    <3> HIDE DEF s, b
    <3> QED
      BY <1>2, <1>5, <3>2, <3>3
  <2>7. CreateKnows(r)' /\ UpdateKnows(r)'
    BY <1>3, <1>4, <1>5, <2>1, <2>3 DEF CreateKnows, UpdateKnows, Creating
  <2>8. s.at \in Creating
    BY <1>1 DEF Creating
  <2> QED
    BY <1>1, <2>1, <2>3, <2>6, <2>7, <2>8, OnlySlotChanges
<1> QED
  BY <1>6, <1>7, <1>8 DEF FindCard

LEMMA CountAgainKeeps ==
  ASSUME Kept, NEW r \in Slots, CountAgain(r)
  PROVE  Kept'
<1> USE DEF Kept
<1> DEFINE s == slot[r]
           b == slot[r].branch
           state == [slot[r] EXCEPT !.at = "find", !.card = Generated(slot[r].branch)]
<1>1. s.at = "count" /\ UNCHANGED <<tables, history>> /\ Become(r, state)
  BY DEF CountAgain
<1>2. s \in SlotStates /\ b \in Places /\ s.first \in Nat /\ s.attempt \in Nat
  BY SlotTypes
<1>3. s.member \in MemberIds /\ member[s.member] = NoRow
  BY <1>1 DEF SlotsOK, CreateKnows, Creating
<1>4. /\ Generated(b) \in Cards /\ Generated(b).code = Code[b]
      /\ Generated(b).number = Cardinality(CountedAt(b)) + 1
  BY <1>2, <1>3, GeneratedType DEF MembersOK
<1>5. /\ Cardinality(CountedAt(b)) \in Nat /\ Cardinality(CountedAt(b)) <= Cardinality(been[b])
      /\ Cardinality(been[b]) \in Nat
  BY <1>2, CountTypes, Sizes DEF MembersOK
<1>6. Alone(b) => Generated(b).number > s.first + s.attempt
  <2>1. SUFFICES ASSUME Alone(b) PROVE Generated(b).number > s.first + s.attempt
    OBVIOUS
  <2>2. Cardinality(been[b]) >= s.first + s.attempt
    BY <1>1, <2>1 DEF SlotsOK, CreateKnows
  <2>3. been[b] = CountedAt(b)
    BY <1>2, <2>1 DEF Alone, MembersOK, PlacesKept
  <2> HIDE DEF s, b
  <2> QED
    BY <1>2, <1>4, <1>5, <2>2, <2>3
<1>7. /\ state \in SlotStates /\ state.at = "find" /\ state.member = s.member /\ state.branch = b
      /\ state.card = Generated(b) /\ state.first = s.first /\ state.attempt = s.attempt
  BY <1>2, <1>4 DEF SlotStates, Points, Creating, Holdings
<1> HIDE DEF state
<1>8. /\ slot' \in [Slots -> SlotStates] /\ slot'[r] = state
      /\ \A q \in Slots \ {r} : slot'[q] = slot[q]
  BY <1>1, <1>7, SlotBecomes
<1>9. been' = been /\ member' = member /\ left' = left /\ entered' = entered
  BY <1>1 DEF tables, history
<1>10. Alone(slot[r].branch)' => Alone(b)
  BY <1>7, <1>8, <1>9 DEF Alone
<1>11. slot'[r].card.number <= Cardinality(been'[slot'[r].branch]) + 1
  BY <1>4, <1>5, <1>7, <1>8, <1>9
<1>12. Alone(slot[r].branch)' => slot'[r].card.number > slot'[r].first + slot'[r].attempt
  BY <1>6, <1>7, <1>8, <1>10
<1>13. CreateKnows(r)' /\ UpdateKnows(r)' /\ HadReason(r)'
  BY <1>3, <1>4, <1>7, <1>8, <1>9, <1>11, <1>12 DEF CreateKnows, UpdateKnows, HadReason, Creating
<1>14. s.at \in Creating
  BY <1>1 DEF Creating
<1> QED
  BY <1>1, <1>7, <1>8, <1>13, <1>14, OnlySlotChanges

\* The row that create inserts.
LEMMA InsertedKeeps ==
  ASSUME Kept, NEW r \in Slots, Insert(r), slot[r].card = NoCard \/ HeldBy(slot[r].card) = {}
  PROVE  Kept'
<1> USE DEF Kept
<1> DEFINE i == slot[r].member
           b == slot[r].branch
           c == slot[r].card
           row == [branch |-> slot[r].branch, card |-> slot[r].card]
<1>1. /\ slot[r].at = "insert" /\ Return(r)
      /\ member' = [member EXCEPT ![i] = row]
      /\ been' = [p \in Places |-> IF p \in {b, NoBranch} THEN been[p] \cup {i} ELSE been[p]]
      /\ UNCHANGED <<request, left, entered, moved>>
  BY DEF Insert
<1>2. b \in Places /\ c \in Holdings
  BY SlotTypes
<1>3. i \in MemberIds /\ member[i] = NoRow
  BY <1>1 DEF SlotsOK, CreateKnows, Creating
<1>4. row \in Members /\ row.branch = b /\ row.card = c
  BY <1>2 DEF Members
<1>5. NoRow \notin Members /\ NoCard \notin Cards
  BY MembershipAssumption
<1>6. /\ slot' \in [Slots -> SlotStates] /\ slot'[r].at = "idle"
      /\ \A q \in Slots \ {r} : slot'[q] = slot[q]
  BY <1>1, SlotReturns
<1> HIDE DEF i, b, c, row
<1>7. /\ member' \in [MemberIds -> Members \cup {NoRow, Gone}]
      /\ member'[i] = row /\ \A j \in MemberIds \ {i} : member'[j] = member[j]
  BY <1>1, <1>3, <1>4 DEF TypeOK
<1>8. /\ been' \in [Places -> SUBSET MemberIds]
      /\ \A p \in Places : been'[p] = IF p \in {b, NoBranch} THEN been[p] \cup {i} ELSE been[p]
  BY <1>1, <1>3 DEF TypeOK
<1>9. TypeOK'
  BY <1>1, <1>6, <1>7, <1>8 DEF TypeOK
<1>10. Grow
  BY <1>1, <1>8 DEF Grow
<1>11. i \notin Present /\ Present' = Present \cup {i}
  BY <1>3, <1>4, <1>5, <1>7 DEF Present
<1>12. \A j \in Present : j # i /\ member'[j] = member[j]
  BY <1>7, <1>11 DEF Present
<1>13. \A p \in Places : CountedAt(p)' = IF p \in {b, NoBranch} THEN CountedAt(p) \cup {i} ELSE CountedAt(p)
  <2>1. CountedAt(NoBranch)' = CountedAt(NoBranch) \cup {i}
    BY <1>11 DEF CountedAt
  <2>2. ASSUME NEW p \in Places, p # NoBranch
        PROVE  CountedAt(p)' = IF p = b THEN CountedAt(p) \cup {i} ELSE CountedAt(p)
    <3>1. CountedAt(p)' = {j \in Present' : member'[j].branch = p}
      BY <2>2 DEF CountedAt, Belonging
    <3>2. CountedAt(p) = {j \in Present : member[j].branch = p}
      BY <2>2 DEF CountedAt, Belonging
    <3> QED
      BY <1>4, <1>7, <1>11, <1>12, <3>1, <3>2
  <2> QED
    BY <2>1, <2>2
<1>14. PlacesKept'
  <2>1. \A p \in Places : CountedAt(p) \subseteq been[p] /\ (p \notin left => been[p] = CountedAt(p))
    BY DEF MembersOK, PlacesKept
  <2>2. \A p \in Places : CountedAt(p)' \subseteq been'[p]
    BY <1>8, <1>13, <2>1
  <2>3. \A p \in Places : p \notin left' => been'[p] = CountedAt(p)'
    BY <1>1, <1>8, <1>13, <2>1
  <2>4. \A p \in Places : \A j \in been'[p] : member'[j] # NoRow
    <3>1. SUFFICES ASSUME NEW p \in Places, NEW j \in been'[p] PROVE member'[j] # NoRow
      OBVIOUS
    <3>2. j = i \/ (j # i /\ j \in been[p])
      BY <1>8
    <3>3. j \in MemberIds /\ (j \in been[p] => member[j] # NoRow)
      BY <1>8, <3>1 DEF MembersOK, PlacesKept
    <3> QED
      BY <1>4, <1>5, <1>7, <3>2, <3>3
  <2> QED
    BY <2>2, <2>3, <2>4 DEF PlacesKept
<1>15. c \in Cards => \A j \in Present : member[j].card # c
  BY <1>2, <1>5 DEF HeldBy, c
<1>16. OneHolder'
  <2>1. SUFFICES ASSUME NEW j \in Present', NEW k \in Present', member'[j].card \in Cards,
                        member'[j].card = member'[k].card
                 PROVE  j = k
    BY DEF OneHolder, Cards
  <2>2. member'[i].card = c
    BY <1>4, <1>7
  <2>3. CASE j = i /\ k # i
    BY <1>11, <1>12, <1>15, <2>1, <2>2, <2>3
  <2>4. CASE j # i /\ k = i
    BY <1>11, <1>12, <1>15, <2>1, <2>2, <2>4
  <2>5. CASE j # i /\ k # i
    BY <1>11, <1>12, <2>1, <2>5 DEF MembersOK, OneHolder
  <2> QED
    BY <2>3, <2>4, <2>5
<1>17. c \in Cards => c.code = Code[b] /\ c.number <= Cardinality(been'[b])
  <2>1. SUFFICES ASSUME c \in Cards PROVE c.code = Code[b] /\ c.number <= Cardinality(been'[b])
    OBVIOUS
  <2>2. c.code = Code[b] /\ c.number <= Cardinality(been[b]) + 1
    BY <1>1, <2>1 DEF SlotsOK, CreateKnows, c, b
  <2>3. been'[b] = been[b] \cup {i} /\ i \notin been[b]
    BY <1>2, <1>3, <1>8 DEF MembersOK, PlacesKept
  <2>4. Cardinality(been'[b]) = Cardinality(been[b]) + 1
    BY <1>2, <2>3, Sizes, FS_AddElement
  <2> QED
    BY <2>2, <2>4
<1>18. NumbersFollowSize'
  <2>1. SUFFICES ASSUME NEW j \in Present', member'[j].card \in Cards \ entered'
                 PROVE  \E p \in Places : Code[p] = member'[j].card.code
                                          /\ member'[j].card.number <= Cardinality(been'[p])
    BY DEF NumbersFollowSize, Cards
  <2>2. CASE j = i
    BY <1>2, <1>4, <1>7, <1>17, <2>1, <2>2
  <2>3. CASE j # i
    <3>1. j \in Present /\ member'[j] = member[j] /\ member[j].card \in Cards \ entered
      BY <1>1, <1>11, <1>12, <2>1, <2>3
    <3>2. PICK p \in Places : Code[p] = member[j].card.code /\ member[j].card.number <= Cardinality(been[p])
      BY <3>1 DEF MembersOK, NumbersFollowSize
    <3>3. member[j].card.number \in Nat
      BY <3>1 DEF Cards, Numbers
    <3>4. member[j].card.number <= Cardinality(been'[p])
      BY <1>9, <1>10, <3>2, <3>3, SizesGrow
    <3> QED
      BY <3>1, <3>2, <3>4
  <2> QED
    BY <2>2, <2>3
<1>19. SlotsOK'
  <2>1. \A j \in MemberIds : member[j] = NoRow =>
          member'[j] = NoRow \/ (slot[r].at \in Creating /\ slot[r].member = j)
    BY <1>1, <1>7 DEF i, Creating
  <2> QED
    BY <1>6, <1>9, <1>10, <2>1, IdleKnows, OneSlotMoves
<1>20. CompletedWasMoved'
  BY <1>1 DEF CompletedWasMoved, Open
<1> QED
  BY <1>9, <1>14, <1>16, <1>18, <1>19, <1>20 DEF MembersOK

LEMMA InsertKeeps ==
  ASSUME Kept, NEW r \in Slots, Insert(r)
  PROVE  Kept'
<1>1. CASE slot[r].card = NoCard \/ HeldBy(slot[r].card) = {}
  BY <1>1, InsertedKeeps
<1>2. CASE slot[r].card # NoCard /\ HeldBy(slot[r].card) # {}
  <2>1. Return(r) /\ UNCHANGED <<tables, history>>
    BY <1>2 DEF Insert, tables, history
  <2> QED
    BY <2>1, ReturnKeeps
<1> QED
  BY <1>1, <1>2

-----------------------------------------------------------------------------
(* Cards, moves and deletions.                                             *)

LEMMA AssignCardKeeps ==
  ASSUME Kept, AssignCard
  PROVE  Kept'
<1> USE DEF Kept
<1>1. PICK i \in Present, c \in EnteredCards :
        /\ HeldBy(c) \subseteq {i}
        /\ member' = [member EXCEPT ![i].card = c]
        /\ entered' = entered \cup {c}
        /\ UNCHANGED <<request, slot, been, left, moved>>
  BY DEF AssignCard
<1>2. i \in MemberIds /\ member[i] \in Members /\ c \in Cards
  BY MembershipAssumption DEF Present
<1>3. NoRow \notin Members
  BY MembershipAssumption
<1>4. /\ member' \in [MemberIds -> Members \cup {NoRow, Gone}]
      /\ member'[i] \in Members /\ member'[i].card = c /\ member'[i].branch = member[i].branch
      /\ \A j \in MemberIds \ {i} : member'[j] = member[j]
  BY <1>1, <1>2 DEF TypeOK, Members, Holdings
<1>5. TypeOK' /\ Grow
  BY <1>1, <1>2, <1>4 DEF TypeOK, Grow
<1>6. Present' = Present
  BY <1>2, <1>4 DEF Present
<1>7. PlacesKept'
  <2>1. \A p \in Places : CountedAt(p)' = CountedAt(p)
    BY <1>4, <1>6 DEF CountedAt, Belonging, Present
  <2>2. \A j \in MemberIds : member'[j] = NoRow <=> member[j] = NoRow
    BY <1>2, <1>3, <1>4
  <2>3. \A p \in Places : \A j \in been'[p] : member'[j] # NoRow
    BY <1>1, <2>2 DEF MembersOK, PlacesKept, TypeOK
  <2> QED
    BY <1>1, <2>1, <2>3 DEF MembersOK, PlacesKept
<1>8. OneHolder'
  <2>1. \A j \in Present : member[j].card = c => j = i
    BY <1>1, <1>2 DEF HeldBy
  <2> QED
    BY <1>4, <1>6, <2>1 DEF MembersOK, OneHolder, Present
<1>9. NumbersFollowSize'
  <2>1. \A j \in Present' : /\ j \in Present
                            /\ member'[j].card = member[j].card \/ member'[j].card \notin Cards \ entered'
    BY <1>1, <1>4, <1>6 DEF Present
  <2> QED
    BY <1>5, <2>1, NumbersStay DEF MembersOK
<1>10. SlotsOK'
  BY <1>1, <1>2, <1>3, <1>4, <1>5, NoSlotMoves
<1>11. CompletedWasMoved'
  BY <1>1 DEF CompletedWasMoved, Open
<1> QED
  BY <1>5, <1>7, <1>8, <1>9, <1>10, <1>11 DEF MembersOK

LEMMA LoseCardKeeps ==
  ASSUME Kept, LoseCard
  PROVE  Kept'
<1> USE DEF Kept
<1>1. PICK i \in Present :
        /\ member' = [member EXCEPT ![i].card = NoCard]
        /\ UNCHANGED <<request, slot, history>>
  BY DEF LoseCard
<1>2. i \in MemberIds /\ member[i] \in Members
  BY DEF Present
<1>3. NoRow \notin Members /\ NoCard \notin Cards
  BY MembershipAssumption
<1>4. /\ member' \in [MemberIds -> Members \cup {NoRow, Gone}]
      /\ member'[i] \in Members /\ member'[i].card = NoCard /\ member'[i].branch = member[i].branch
      /\ \A j \in MemberIds \ {i} : member'[j] = member[j]
  BY <1>1, <1>2 DEF TypeOK, Members, Holdings
<1>5. TypeOK' /\ Grow
  BY <1>1, <1>4 DEF TypeOK, Grow, history
<1>6. Present' = Present
  BY <1>2, <1>4 DEF Present
<1>7. PlacesKept'
  <2>1. \A p \in Places : CountedAt(p)' = CountedAt(p)
    BY <1>4, <1>6 DEF CountedAt, Belonging, Present
  <2>2. \A j \in MemberIds : member'[j] = NoRow <=> member[j] = NoRow
    BY <1>2, <1>3, <1>4
  <2>3. been' = been /\ left' = left
    BY <1>1 DEF history
  <2>4. \A p \in Places : \A j \in been'[p] : member'[j] # NoRow
    BY <2>2, <2>3 DEF MembersOK, PlacesKept, TypeOK
  <2> QED
    BY <2>1, <2>3, <2>4 DEF MembersOK, PlacesKept
<1>8. OneHolder'
  BY <1>3, <1>4, <1>6 DEF MembersOK, OneHolder, Present
<1>9. NumbersFollowSize'
  <2>1. \A j \in Present' : /\ j \in Present
                            /\ member'[j].card = member[j].card \/ member'[j].card \notin Cards \ entered'
    BY <1>3, <1>4, <1>6 DEF Present
  <2> QED
    BY <1>5, <2>1, NumbersStay DEF MembersOK
<1>10. SlotsOK'
  BY <1>1, <1>2, <1>3, <1>4, <1>5, NoSlotMoves
<1>11. CompletedWasMoved'
  BY <1>1 DEF CompletedWasMoved, Open, history
<1> QED
  BY <1>5, <1>7, <1>8, <1>9, <1>10, <1>11 DEF MembersOK

\* What a move keeps, whoever makes it.
LEMMA SettledMembers ==
  ASSUME Kept, NEW i \in Present, NEW b \in Places, Settle(i, b), UNCHANGED entered,
         request' = request, slot' \in [Slots -> SlotStates],
         moved \subseteq moved', moved' \subseteq RequestIds
  PROVE  /\ TypeOK' /\ Grow /\ MembersOK'
         /\ \A j \in MemberIds : member[j] = NoRow => member'[j] = NoRow
<1> USE DEF Kept
<1>1. /\ member' \in [MemberIds -> Members \cup {NoRow, Gone}]
      /\ been' \in [Places -> SUBSET MemberIds] /\ left' \subseteq Places
      /\ Grow /\ Present' = Present
      /\ \A j \in MemberIds : member[j] = NoRow => member'[j] = NoRow
      /\ \A j \in Present : member'[j].card = member[j].card
      /\ OneHolder' /\ PlacesKept'
  BY SettleKeeps
<1>2. TypeOK'
  BY <1>1 DEF TypeOK
<1>3. NumbersFollowSize'
  BY <1>1, <1>2, NumbersStay DEF MembersOK
<1> QED
  BY <1>1, <1>2, <1>3 DEF MembersOK

LEMMA MoveMemberKeeps ==
  ASSUME Kept, MoveMember
  PROVE  Kept'
<1> USE DEF Kept
<1>1. PICK i \in Present, b \in Places : Settle(i, b) /\ UNCHANGED <<request, slot, entered, moved>>
  BY DEF MoveMember
<1>2. slot' \in [Slots -> SlotStates] /\ moved' \subseteq RequestIds
  BY <1>1 DEF TypeOK
<1>3. /\ TypeOK' /\ Grow /\ MembersOK'
      /\ \A j \in MemberIds : member[j] = NoRow => member'[j] = NoRow
  BY <1>1, <1>2, SettledMembers
<1>4. SlotsOK'
  BY <1>1, <1>3, NoSlotMoves
<1>5. CompletedWasMoved'
  BY <1>1 DEF CompletedWasMoved, Open
<1> QED
  BY <1>3, <1>4, <1>5

LEMMA DeleteMemberKeeps ==
  ASSUME Kept, DeleteMember
  PROVE  Kept'
<1> USE DEF Kept
<1>1. PICK i \in Present :
        /\ member' = [member EXCEPT ![i] = Gone]
        /\ left' = left \cup {member[i].branch, NoBranch}
        /\ request' = [t \in RequestIds |->
             IF request[t] \in Requests /\ request[t].member = i THEN Gone ELSE request[t]]
        /\ UNCHANGED <<slot, been, entered, moved>>
  BY DEF DeleteMember
<1>2. i \in MemberIds /\ member[i] \in Members /\ member[i].branch \in Places
  BY DEF Present, Members
<1>3. Gone \notin Members \cup Requests /\ Gone # NoRow /\ NoRow \notin Members /\ NoBranch \in Places
  BY MembershipAssumption DEF Places
<1>4. /\ member' \in [MemberIds -> Members \cup {NoRow, Gone}]
      /\ member'[i] = Gone /\ \A j \in MemberIds \ {i} : member'[j] = member[j]
  BY <1>1, <1>2 DEF TypeOK
<1>5. TypeOK' /\ Grow
  BY <1>1, <1>2, <1>3, <1>4 DEF TypeOK, Grow
<1>6. Present' = Present \ {i}
  BY <1>2, <1>3, <1>4 DEF Present
<1>7. \A j \in Present' : j \in Present /\ member'[j] = member[j]
  BY <1>4, <1>6 DEF Present
<1>8. PlacesKept'
  <2>1. \A p \in Places : CountedAt(p)' = CountedAt(p) \ {i}
    <3>1. CountedAt(NoBranch)' = CountedAt(NoBranch) \ {i}
      BY <1>6 DEF CountedAt
    <3>2. ASSUME NEW p \in Places, p # NoBranch PROVE CountedAt(p)' = CountedAt(p) \ {i}
      BY <1>6, <1>7, <3>2 DEF CountedAt, Belonging
    <3> QED
      BY <3>1, <3>2
  <2>2. ASSUME NEW p \in Places, p \notin left' PROVE been'[p] = CountedAt(p)'
    <3>1. p # NoBranch /\ p # member[i].branch /\ p \notin left
      BY <1>1, <2>2
    <3>2. i \notin CountedAt(p)
      BY <3>1 DEF CountedAt, Belonging
    <3> QED
      BY <1>1, <2>1, <3>1, <3>2 DEF MembersOK, PlacesKept
  <2>3. \A p \in Places : CountedAt(p)' \subseteq been'[p]
    BY <1>1, <2>1 DEF MembersOK, PlacesKept
  <2>4. \A p \in Places : \A j \in been'[p] : member'[j] # NoRow
    <3>1. SUFFICES ASSUME NEW p \in Places, NEW j \in been[p] PROVE member'[j] # NoRow
      BY <1>1
    <3>2. j \in MemberIds /\ member[j] # NoRow
      BY DEF MembersOK, PlacesKept, TypeOK
    <3> QED
      BY <1>3, <1>4, <3>2
  <2> QED
    BY <2>2, <2>3, <2>4 DEF PlacesKept
<1>9. OneHolder'
  BY <1>7 DEF MembersOK, OneHolder
<1>10. NumbersFollowSize'
  BY <1>5, <1>7, NumbersStay DEF MembersOK
<1>11. SlotsOK'
  <2>1. \A j \in MemberIds : member[j] = NoRow => member'[j] = NoRow
    BY <1>2, <1>3, <1>4
  <2> QED
    BY <1>1, <1>5, <2>1, NoSlotMoves
<1>12. CompletedWasMoved'
  <2>1. \A t \in Open' : t \in Open /\ request'[t] = request[t]
    BY <1>1, <1>3 DEF Open
  <2> QED
    BY <1>1, <2>1 DEF CompletedWasMoved
<1> QED
  BY <1>5, <1>8, <1>9, <1>10, <1>11, <1>12 DEF MembersOK

-----------------------------------------------------------------------------
(* Transfer requests.                                                      *)

\* Steps that write requests only.
LEMMA OnlyRequestsChange ==
  ASSUME Kept, UNCHANGED <<member, history>>,
         request' \in [RequestIds -> Requests \cup {NoRow, Gone}],
         SlotsOK', slot' \in [Slots -> SlotStates], CompletedWasMoved'
  PROVE  Kept'
<1>1. TypeOK'
  BY DEF Kept, TypeOK, history
<1>2. MembersOK'
  BY MembersUnchanged DEF Kept, history
<1> QED
  BY <1>1, <1>2 DEF Kept

LEMMA RequestTransferKeeps ==
  ASSUME Kept, RequestTransfer
  PROVE  Kept'
<1> USE DEF Kept
<1>1. PICK t \in RequestIds, i \in Present, b \in Branches :
        /\ request' = [request EXCEPT ![t] = [member |-> i, to |-> b, status |-> "PENDING"]]
        /\ UNCHANGED <<member, slot, history>>
  BY DEF RequestTransfer
<1>2. [member |-> i, to |-> b, status |-> "PENDING"] \in Requests
  BY DEF Requests, Statuses, Present
<1>3. request' \in [RequestIds -> Requests \cup {NoRow, Gone}] /\ slot' \in [Slots -> SlotStates]
  BY <1>1, <1>2 DEF TypeOK
<1>4. TypeOK' /\ Grow
  BY <1>1, <1>3, NothingChanges DEF TypeOK, history
<1>5. SlotsOK'
  BY <1>1, <1>4, NoSlotMoves
<1>6. CompletedWasMoved'
  <2>1. SUFFICES ASSUME NEW u \in Open', request'[u].status = "COMPLETED" PROVE u \in moved
    BY <1>1 DEF CompletedWasMoved, history
  <2>2. u # t
    BY <1>1, <2>1 DEF TypeOK
  <2>3. u \in Open /\ request[u].status = "COMPLETED"
    BY <1>1, <2>1, <2>2 DEF Open, TypeOK
  <2> QED
    BY <2>3 DEF CompletedWasMoved
<1> QED
  BY <1>1, <1>3, <1>5, <1>6, OnlyRequestsChange

LEMMA RemoveRequestKeeps ==
  ASSUME Kept, RemoveRequest
  PROVE  Kept'
<1> USE DEF Kept
<1>1. PICK t \in Open : request' = [request EXCEPT ![t] = Gone] /\ UNCHANGED <<member, slot, history>>
  BY DEF RemoveRequest
<1>2. Gone \notin Requests
  BY MembershipAssumption
<1>3. request' \in [RequestIds -> Requests \cup {NoRow, Gone}] /\ slot' \in [Slots -> SlotStates]
  BY <1>1 DEF TypeOK
<1>4. TypeOK' /\ Grow
  BY <1>1, <1>3, NothingChanges DEF TypeOK, history
<1>5. SlotsOK'
  BY <1>1, <1>4, NoSlotMoves
<1>6. \A u \in Open' : u \in Open /\ request'[u] = request[u]
  BY <1>1, <1>2 DEF Open, TypeOK
<1>7. CompletedWasMoved'
  BY <1>1, <1>6 DEF CompletedWasMoved, history
<1> QED
  BY <1>1, <1>3, <1>5, <1>7, OnlyRequestsChange

LEMMA StartUpdateKeeps ==
  ASSUME Kept, NEW r \in Slots, StartUpdate(r)
  PROVE  Kept'
<1> USE DEF Kept
<1>1. PICK t \in Open, s \in NewStatuses :
        /\ Become(r, [Idle EXCEPT !.at = IF s = "COMPLETED" THEN "move" ELSE "close",
                                  !.member = request[t].member, !.branch = request[t].to,
                                  !.request = t, !.status = s])
        /\ UNCHANGED <<tables, history>>
  BY DEF StartUpdate
<1> DEFINE state == [Idle EXCEPT !.at = IF s = "COMPLETED" THEN "move" ELSE "close",
                                 !.member = request[t].member, !.branch = request[t].to,
                                 !.request = t, !.status = s]
<1>2. /\ t \in RequestIds /\ request[t].member \in MemberIds /\ request[t].to \in Branches
      /\ s \in Statuses
  BY MembershipAssumption DEF Open, Requests
<1>3. /\ state \in SlotStates /\ state.at = IF s = "COMPLETED" THEN "move" ELSE "close"
      /\ state.member = request[t].member /\ state.branch = request[t].to
      /\ state.request = t /\ state.status = s
  BY <1>2, IdleType DEF SlotStates, Points, Places
<1>4. Become(r, state)
  BY <1>1
<1> HIDE DEF state
<1>5. /\ slot' \in [Slots -> SlotStates] /\ slot'[r] = state
      /\ \A q \in Slots \ {r} : slot'[q] = slot[q]
  BY <1>3, <1>4, SlotBecomes
<1>6. slot'[r].at \notin Creating /\ slot'[r].at \in {"move", "close"}
  BY <1>3, <1>5 DEF Creating
<1>7. CreateKnows(r)' /\ HadReason(r)'
  BY <1>6 DEF CreateKnows, HadReason, Creating
<1>8. UpdateKnows(r)'
  BY <1>2, <1>3, <1>5 DEF UpdateKnows
<1> QED
  BY <1>1, <1>5, <1>6, <1>7, <1>8, OnlySlotChanges

LEMMA MoveByRequestKeeps ==
  ASSUME Kept, NEW r \in Slots, MoveByRequest(r)
  PROVE  Kept'
<1> USE DEF Kept
<1> DEFINE i == slot[r].member
           b == slot[r].branch
<1>1. CASE i \in Present
  <2>1. /\ slot[r].at = "move" /\ Settle(i, b) /\ Goto(r, "close")
        /\ moved' = moved \cup {slot[r].request} /\ UNCHANGED <<request, entered>>
    BY <1>1 DEF MoveByRequest
  <2>2. slot[r].request \in RequestIds /\ b \in Places
    BY <2>1, SlotTypes DEF SlotsOK, UpdateKnows
  <2>3. /\ slot' \in [Slots -> SlotStates] /\ slot'[r] = [slot[r] EXCEPT !.at = "close"]
        /\ \A q \in Slots \ {r} : slot'[q] = slot[q]
    BY <2>1, SlotGoes DEF Points
  <2>4. slot'[r].at = "close" /\ slot'[r].request = slot[r].request
    BY <2>3, SlotTypes DEF SlotStates
  <2>5. moved \subseteq moved' /\ moved' \subseteq RequestIds
    BY <2>1, <2>2 DEF TypeOK
  <2>6. /\ TypeOK' /\ Grow /\ MembersOK'
        /\ \A j \in MemberIds : member[j] = NoRow => member'[j] = NoRow
    BY <1>1, <2>1, <2>2, <2>3, <2>5, SettledMembers
  <2>7. CreateKnows(r)' /\ UpdateKnows(r)' /\ HadReason(r)' /\ slot'[r].at \notin Creating
    BY <2>1, <2>2, <2>4 DEF CreateKnows, UpdateKnows, HadReason, Creating
  <2>8. SlotsOK'
    BY <2>3, <2>6, <2>7, OneSlotMoves
  <2>9. CompletedWasMoved'
    BY <2>1, <2>5 DEF CompletedWasMoved, Open
  <2> QED
    BY <2>6, <2>8, <2>9
<1>2. CASE i \notin Present
  <2>1. Return(r) /\ UNCHANGED <<tables, history>>
    BY <1>2 DEF MoveByRequest, tables, history
  <2> QED
    BY <2>1, ReturnKeeps
<1> QED
  BY <1>1, <1>2

LEMMA WriteStatusKeeps ==
  ASSUME Kept, NEW r \in Slots, WriteStatus(r)
  PROVE  Kept'
<1> USE DEF Kept
<1> DEFINE t == slot[r].request
<1>1. /\ slot[r].at = "close" /\ Return(r) /\ UNCHANGED <<member, history>>
      /\ request' = IF t \in Open THEN [request EXCEPT ![t].status = slot[r].status] ELSE request
  BY DEF WriteStatus
<1>2. slot[r].status \in Statuses /\ (slot[r].status = "COMPLETED" => t \in moved)
  BY <1>1, SlotTypes DEF SlotsOK, UpdateKnows
<1>3. /\ slot' \in [Slots -> SlotStates] /\ slot'[r].at = "idle"
      /\ \A q \in Slots \ {r} : slot'[q] = slot[q]
  BY <1>1, SlotReturns
<1>4. CASE t \in Open
  <2>1. t \in RequestIds /\ request[t] \in Requests
    BY <1>4 DEF Open
  <2>2. /\ request' \in [RequestIds -> Requests \cup {NoRow, Gone}]
        /\ request'[t].status = slot[r].status
        /\ \A u \in RequestIds \ {t} : request'[u] = request[u]
    BY <1>1, <1>2, <1>4, <2>1 DEF TypeOK, Requests
  <2>3. TypeOK' /\ Grow
    BY <1>1, <1>3, <2>2, NothingChanges DEF TypeOK, history
  <2>4. SlotsOK'
    BY <1>1, <1>3, <2>3, IdleKnows, OneSlotMoves
  <2>5. CompletedWasMoved'
    BY <1>1, <1>2, <2>2 DEF CompletedWasMoved, Open, history
  <2> QED
    BY <1>1, <1>3, <2>2, <2>4, <2>5, OnlyRequestsChange
<1>5. CASE t \notin Open
  <2>1. UNCHANGED <<tables, history>>
    BY <1>1, <1>5 DEF tables
  <2> QED
    BY <1>1, <2>1, ReturnKeeps
<1> QED
  BY <1>4, <1>5

-----------------------------------------------------------------------------
(* The theorems.                                                           *)

LEMMA InitKeeps == Init => Kept
<1> SUFFICES ASSUME Init PROVE Kept
  OBVIOUS
<1>1. \A r \in Slots : slot[r] = Idle /\ slot[r].at = "idle"
  BY IdleType DEF Init
<1>2. Present = {} /\ Open = {}
  BY MembershipAssumption DEF Init, Present, Open
<1>3. TypeOK
  BY IdleType DEF Init, TypeOK
<1>4. MembersOK
  BY <1>2 DEF Init, MembersOK, OneHolder, PlacesKept, NumbersFollowSize, CountedAt, Belonging
<1>5. SlotsOK
  BY <1>1 DEF SlotsOK, KeysApart, CreateKnows, UpdateKnows, HadReason, Creating
<1> QED
  BY <1>2, <1>3, <1>4, <1>5 DEF Kept, CompletedWasMoved

LEMMA StutterKeeps ==
  ASSUME Kept, UNCHANGED vars
  PROVE  Kept'
<1> USE DEF Kept
<1>1. UNCHANGED <<tables, history>> /\ slot' = slot
  BY DEF vars, tables, history
<1>2. TypeOK' /\ Grow
  BY <1>1, NothingChanges DEF TypeOK, tables, history
<1>3. SlotsOK'
  BY <1>1, <1>2, NoSlotMoves DEF tables
<1>4. MembersOK' /\ CompletedWasMoved'
  BY <1>1, MembersUnchanged DEF tables, history, CompletedWasMoved, Open
<1> QED
  BY <1>2, <1>3, <1>4

LEMMA NextKeeps == Kept /\ [Next]_vars => Kept'
<1> SUFFICES ASSUME Kept, [Next]_vars PROVE Kept'
  OBVIOUS
<1>1. ASSUME NEW r \in Slots, SlotStep(r) PROVE Kept'
  <2>1. CASE StartCreate(r) BY <2>1, StartCreateKeeps
  <2>2. CASE FindCard(r) BY <2>2, FindCardKeeps
  <2>3. CASE CountAgain(r) BY <2>3, CountAgainKeeps
  <2>4. CASE Insert(r) BY <2>4, InsertKeeps
  <2>5. CASE StartUpdate(r) BY <2>5, StartUpdateKeeps
  <2>6. CASE MoveByRequest(r) BY <2>6, MoveByRequestKeeps
  <2>7. CASE WriteStatus(r) BY <2>7, WriteStatusKeeps
  <2>8. CASE Fail(r)
    BY <2>8, ReturnKeeps DEF Fail
  <2> QED
    BY <1>1, <2>1, <2>2, <2>3, <2>4, <2>5, <2>6, <2>7, <2>8 DEF SlotStep
<1>2. CASE AssignCard BY <1>2, AssignCardKeeps
<1>3. CASE LoseCard BY <1>3, LoseCardKeeps
<1>4. CASE MoveMember BY <1>4, MoveMemberKeeps
<1>5. CASE DeleteMember BY <1>5, DeleteMemberKeeps
<1>6. CASE RequestTransfer BY <1>6, RequestTransferKeeps
<1>7. CASE RemoveRequest BY <1>7, RemoveRequestKeeps
<1>8. CASE UNCHANGED vars BY <1>8, StutterKeeps
<1> QED
  BY <1>1, <1>2, <1>3, <1>4, <1>5, <1>6, <1>7, <1>8 DEF Next

\* The inductive invariant holds for any members, branches, codes and handlers: types, the
\* histories against the table, and what each handler of create and of
\* updateTransferRequest knows at each call.
THEOREM MembershipInvariant == Spec => []MembershipInv
<1>1. Spec => []Kept
  BY InitKeeps, NextKeeps, PTL DEF Spec
<1> QED
  BY <1>1, KeptIsInv, PTL

\* No card that create gave out has a number above the most members that a branch of its
\* code has ever had.
THEOREM NumbersAreBounded == Spec => []NumbersFollowSize
<1>1. MembershipInv => NumbersFollowSize
  BY DEF MembershipInv
<1> QED
  BY <1>1, MembershipInvariant, PTL

\* Whatever the number of attempts and of other handlers, create gives up only for a reason.
THEOREM GivingUpHasAReason == Spec => []GaveUpForAReason
<1>1. MembershipInv => GaveUpForAReason
  BY DEF MembershipInv
<1> QED
  BY <1>1, MembershipInvariant, PTL

\* What is stored as completed has been carried out, also after failures and deletions.
THEOREM CompletedIsMoved == Spec => []CompletedWasMoved
<1>1. MembershipInv => CompletedWasMoved
  BY DEF MembershipInv
<1> QED
  BY <1>1, MembershipInvariant, PTL
=============================================================================
