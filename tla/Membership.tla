----------------------------- MODULE Membership -----------------------------
(***************************************************************************)
(* Members, the card each carries, the branch each belongs to, and the     *)
(* requests to move them: members/services/members.service.ts and          *)
(* transfers/transfers.service.ts.                                         *)
(*                                                                         *)
(* The card is the unique column memberId.  A new member is given the      *)
(* number after the count of the members of the branch, under a code that  *)
(* is the start of the branch's name and so need not be its own.           *)
(*                                                                         *)
(* A handler that reads what it later depends on occupies a slot, and an   *)
(* action is one Prisma call with the synchronous code up to the next.  A  *)
(* handler that only reads whether the row is there before it writes is    *)
(* one action, as the write rejects all the same when the row is gone.     *)
(***************************************************************************)
EXTENDS Integers, FiniteSets

CONSTANTS
  Slots,          \* handlers served at the same time
  MemberIds,      \* primary keys of members (a bound: no insert without one)
  RequestIds,     \* primary keys of transfer requests (a bound, likewise)
  Branches,
  Codes, Code,    \* the code of each branch, and of having none
  EnteredCards,   \* cards that clients enter by hand, from a card reader
  NewStatuses,    \* statuses that updateTransferRequest sets
  MaxAttempts,    \* counts that create makes before it gives up: 5
  CanFail,        \* whether an awaited call may reject or the server stop
  NoBranch, NoCard, NoRow, Gone, NoMember, NoRequest

\* TransferStatus.
Statuses == {"PENDING", "APPROVED", "REJECTED", "COMPLETED"}

Places == Branches \cup {NoBranch}
Numbers == 1 .. Cardinality(MemberIds)
Cards == [code : Codes, number : Numbers]
\* NoCard also stands for the cards of bulkAssignRfid, which hold the time and no number.
Holdings == Cards \cup {NoCard}
Members == [branch : Places, card : Holdings]
Requests == [member : MemberIds, to : Branches, status : Statuses]

ASSUME MembershipAssumption ==
  /\ IsFiniteSet(Slots) /\ IsFiniteSet(MemberIds)
  /\ NoBranch \notin Branches /\ Code \in [Places -> Codes]
  /\ EnteredCards \subseteq Cards /\ NewStatuses \subseteq Statuses
  /\ MaxAttempts \in Nat \ {0} /\ CanFail \in BOOLEAN
  /\ NoCard \notin Cards
  /\ NoRow \notin Members \cup Requests /\ Gone \notin Members \cup Requests \cup {NoRow}
  /\ NoMember \notin MemberIds /\ NoRequest \notin RequestIds

VARIABLES
  member,     \* table Member: primary key -> row, NoRow before it, Gone after it
  request,    \* table TransferRequest: likewise
  slot,       \* the handler each slot is running
  been,       \* history: who has ever been counted at each place
  left,       \* history: places that somebody has left
  entered,    \* history: cards that have been entered by hand
  moved       \* history: requests that have moved their member

tables == <<member, request>>
history == <<been, left, entered, moved>>
vars == <<member, request, slot, been, left, entered, moved>>

\* The Prisma call a handler awaits next.
Creating == {"find", "count", "insert"}
Points == {"idle", "move", "close"} \cup Creating

Idle == [at |-> "idle", member |-> NoMember, branch |-> NoBranch, card |-> NoCard,
         attempt |-> 0, first |-> 0, request |-> NoRequest, status |-> "PENDING"]
SlotStates ==
  [at : Points,
   member : MemberIds \cup {NoMember},
   branch : Places, card : Holdings,                 \* of the member to be created
   attempt : 0 .. MaxAttempts - 1, first : Nat,      \* failed so far; the first count
   request : RequestIds \cup {NoRequest}, status : Statuses]  \* to be given to it

Present == {i \in MemberIds : member[i] \in Members}
Belonging(b) == {i \in Present : member[i].branch = b}
\* Those that create counts; with no branch to name, all of them.
CountedAt(b) == IF b = NoBranch THEN Present ELSE Belonging(b)
HeldBy(c) == {i \in Present : member[i].card = c}

TypeOK ==
  /\ member \in [MemberIds -> Members \cup {NoRow, Gone}]
  /\ request \in [RequestIds -> Requests \cup {NoRow, Gone}]
  /\ slot \in [Slots -> SlotStates]
  /\ been \in [Places -> SUBSET MemberIds]
  /\ left \subseteq Places
  /\ entered \subseteq Cards
  /\ moved \subseteq RequestIds

Init ==
  /\ member = [i \in MemberIds |-> NoRow]
  /\ request = [t \in RequestIds |-> NoRow]
  /\ slot = [r \in Slots |-> Idle]
  /\ been = [b \in Places |-> {}]
  /\ left = {}
  /\ entered = {}
  /\ moved = {}

Become(r, state) == slot' = [slot EXCEPT ![r] = state]
Goto(r, point) == Become(r, [slot[r] EXCEPT !.at = point])
Return(r) == Become(r, Idle)

\* A member's branch changes.
Settle(i, b) ==
  /\ member' = [member EXCEPT ![i].branch = b]
  /\ been' = [been EXCEPT ![b] = @ \cup {i}]
  /\ left' = left \cup ({member[i].branch} \ {b, NoBranch})

-----------------------------------------------------------------------------
(* create.  The primary key is chosen when the request arrives.            *)

Fresh == {i \in MemberIds : member[i] = NoRow /\ \A r \in Slots : slot[r].member # i}

\* Fault: the members of all branches are counted.
GeneratedFromAll(b) == [code |-> Code[b], number |-> Cardinality(Present) + 1]
Generated(b) == [code |-> Code[b], number |-> Cardinality(CountedAt(b)) + 1]

StartCreate(r) ==
  \E i \in Fresh, b \in Places :
    /\ slot[r].at = "idle"
    /\ Become(r, [Idle EXCEPT !.at = "find", !.member = i, !.branch = b, !.card = Generated(b),
                              !.first = Cardinality(CountedAt(b))])
    /\ UNCHANGED <<tables, history>>

FindCard(r) ==
  /\ slot[r].at = "find"
  /\ \/ /\ HeldBy(slot[r].card) = {}
        /\ Goto(r, "insert")
     \/ /\ HeldBy(slot[r].card) # {} /\ slot[r].attempt + 1 < MaxAttempts
        /\ Become(r, [slot[r] EXCEPT !.at = "count", !.attempt = @ + 1])
     \/ /\ HeldBy(slot[r].card) # {} /\ slot[r].attempt + 1 = MaxAttempts
        /\ Become(r, [slot[r] EXCEPT !.at = "insert", !.card = NoCard])
  /\ UNCHANGED <<tables, history>>

\* Fault: the count stays outside the loop.
CountNoMore(r) ==
  /\ slot[r].at = "count"
  /\ Goto(r, "find")
  /\ UNCHANGED <<tables, history>>

CountAgain(r) ==
  /\ slot[r].at = "count"
  /\ Become(r, [slot[r] EXCEPT !.at = "find", !.card = Generated(slot[r].branch)])
  /\ UNCHANGED <<tables, history>>

\* The unique index rejects a card that another member has got meanwhile.
Insert(r) ==
  LET new == slot[r].member
      b == slot[r].branch IN
  /\ slot[r].at = "insert"
  /\ IF slot[r].card # NoCard /\ HeldBy(slot[r].card) # {} THEN UNCHANGED <<member, been>>
     ELSE /\ member' = [member EXCEPT ![new] = [branch |-> b, card |-> slot[r].card]]
          /\ been' = [p \in Places |-> IF p \in {b, NoBranch} THEN been[p] \cup {new} ELSE been[p]]
  /\ Return(r)
  /\ UNCHANGED <<request, left, entered, moved>>

-----------------------------------------------------------------------------
(* Cards that clients enter and take away.                                 *)

\* assignRfidCard: the unique index rejects all that the look-up before the write does.
AssignCard ==
  \E i \in Present, c \in EnteredCards :
    /\ HeldBy(c) \subseteq {i}
    /\ member' = [member EXCEPT ![i].card = c]
    /\ entered' = entered \cup {c}
    /\ UNCHANGED <<request, slot, been, left, moved>>

\* removeRfidCard, and one member of bulkAssignRfid, which stops at any of them.
LoseCard ==
  \E i \in Present :
    /\ member' = [member EXCEPT ![i].card = NoCard]
    /\ UNCHANGED <<request, slot, history>>

-----------------------------------------------------------------------------
(* Branches and deletion.                                                  *)

\* transferMember, addMemberToBranch, removeMemberFromBranch, update, and one member of
\* bulkTransfer, which moves several in one statement.
MoveMember ==
  \E i \in Present, b \in Places :
    /\ Settle(i, b)
    /\ UNCHANGED <<request, slot, entered, moved>>

\* permanentlyDeleteMember, of a member that has been deactivated: who has is left open.
DeleteMember ==
  \E i \in Present :
    /\ member' = [member EXCEPT ![i] = Gone]
    /\ left' = left \cup {member[i].branch, NoBranch}
    /\ request' = [t \in RequestIds |->
         IF request[t] \in Requests /\ request[t].member = i THEN Gone ELSE request[t]]
    /\ UNCHANGED <<slot, been, entered, moved>>

-----------------------------------------------------------------------------
(* Transfer requests.                                                      *)

Open == {t \in RequestIds : request[t] \in Requests}

\* createTransferRequest; whether the member is at the source is not looked at.
RequestTransfer ==
  \E t \in RequestIds, i \in Present, b \in Branches :
    /\ request[t] = NoRow
    /\ request' = [request EXCEPT ![t] = [member |-> i, to |-> b, status |-> "PENDING"]]
    /\ UNCHANGED <<member, slot, history>>

\* Fault: the status is written before the member is moved.
StartUpdateStatusFirst(r) ==
  \E t \in Open, s \in NewStatuses :
    /\ slot[r].at = "idle"
    /\ request' = [request EXCEPT ![t].status = s]
    /\ IF s = "COMPLETED"
       THEN Become(r, [Idle EXCEPT !.at = "move", !.member = request[t].member,
                                   !.branch = request[t].to, !.request = t, !.status = s])
       ELSE UNCHANGED slot
    /\ UNCHANGED <<member, history>>

\* updateTransferRequest, from any status to any other.
StartUpdate(r) ==
  \E t \in Open, s \in NewStatuses :
    /\ slot[r].at = "idle"
    /\ Become(r, [Idle EXCEPT !.at = IF s = "COMPLETED" THEN "move" ELSE "close",
                              !.member = request[t].member, !.branch = request[t].to,
                              !.request = t, !.status = s])
    /\ UNCHANGED <<tables, history>>

MoveByRequest(r) ==
  /\ slot[r].at = "move"
  /\ IF slot[r].member \in Present
     THEN /\ Settle(slot[r].member, slot[r].branch)
          /\ moved' = moved \cup {slot[r].request}
          /\ Goto(r, "close")
     ELSE Return(r) /\ UNCHANGED <<member, been, left, moved>>
  /\ UNCHANGED <<request, entered>>

WriteStatus(r) ==
  LET t == slot[r].request IN
  /\ slot[r].at = "close"
  /\ request' = IF t \in Open THEN [request EXCEPT ![t].status = slot[r].status] ELSE request
  /\ Return(r)
  /\ UNCHANGED <<member, history>>

RemoveRequest ==
  \E t \in Open :
    /\ request' = [request EXCEPT ![t] = Gone]
    /\ UNCHANGED <<member, slot, history>>

-----------------------------------------------------------------------------
\* A call rejects, or the server stops: what is written stays.
Fail(r) ==
  /\ CanFail /\ slot[r].at # "idle"
  /\ Return(r)
  /\ UNCHANGED <<tables, history>>

SlotStep(r) ==
  \/ StartCreate(r) \/ FindCard(r) \/ CountAgain(r) \/ Insert(r)
  \/ StartUpdate(r) \/ MoveByRequest(r) \/ WriteStatus(r)
  \/ Fail(r)

Next ==
  \/ \E r \in Slots : SlotStep(r)
  \/ AssignCard \/ LoseCard \/ MoveMember \/ DeleteMember
  \/ RequestTransfer \/ RemoveRequest

Spec == Init /\ [][Next]_vars

-----------------------------------------------------------------------------
\* Members held by the same card are one: the unique index, with every write under it.
OneHolder ==
  \A i, j \in Present :
    member[i].card \in Cards /\ member[i].card = member[j].card => i = j

\* Who is at a place has been there, and the ones missing have left.
PlacesKept ==
  /\ \A b \in Places : CountedAt(b) \subseteq been[b]
  /\ \A b \in Places : b \notin left => been[b] = CountedAt(b)
  /\ \A b \in Places : \A i \in been[b] : member[i] # NoRow

\* Nothing but the count of members of a branch stands behind a number of it.
Alone(b) ==
  /\ \A p \in Places : Code[p] = Code[b] => p = b
  /\ b \notin left
  /\ \A c \in entered : c.code # Code[b]

\* What a handler of create knows: each failed attempt has seen another member arrive.
CreateKnows(r) ==
  LET s == slot[r] IN
  /\ s.at \in Creating => s.member \in MemberIds /\ member[s.member] = NoRow
  /\ s.at \in {"find", "count"} => s.card \in Cards
  /\ s.at \in {"find", "insert"} /\ s.card \in Cards =>
       s.card.code = Code[s.branch] /\ s.card.number <= Cardinality(been[s.branch]) + 1
  /\ s.at = "find" /\ Alone(s.branch) => s.card.number > s.first + s.attempt
  /\ s.at = "count" /\ Alone(s.branch) => Cardinality(been[s.branch]) >= s.first + s.attempt

\* No two of them create the same row.
KeysApart ==
  \A q, r \in Slots :
    slot[q].at \in Creating /\ slot[r].at \in Creating /\ slot[q].member = slot[r].member => q = r

\* What a handler of updateTransferRequest knows.
UpdateKnows(r) ==
  LET s == slot[r] IN
  /\ s.at \in {"move", "close"} => s.request \in RequestIds
  /\ s.at = "move" => s.member \in MemberIds /\ s.branch \in Branches
  /\ s.at = "close" /\ s.status = "COMPLETED" => s.request \in moved

\* A card that create has given out is numbered no higher than its branch, or one with
\* the same code, has ever had members, whatever the order of creations, moves and deletions.
NumbersFollowSize ==
  \A i \in Present :
    member[i].card \in Cards \ entered =>
      \E b \in Places : Code[b] = member[i].card.code /\ member[i].card.number <= Cardinality(been[b])

\* create leaves a new member without a card only for a reason: another branch uses the
\* code, somebody has left, a card of the code was entered by hand, or as many members as
\* it makes attempts arrived while it made them.
GaveUpForAReason ==
  \A r \in Slots :
    slot[r].at = "insert" /\ slot[r].card = NoCard /\ Alone(slot[r].branch) =>
      Cardinality(been[slot[r].branch]) >= slot[r].first + MaxAttempts

\* A transfer that is stored as completed has moved its member.
CompletedWasMoved ==
  \A t \in Open : request[t].status = "COMPLETED" => t \in moved

\* The inductive invariant.
MembershipInv ==
  /\ TypeOK /\ OneHolder /\ PlacesKept /\ KeysApart
  /\ \A r \in Slots : CreateKnows(r) /\ UpdateKnows(r)
  /\ NumbersFollowSize /\ GaveUpForAReason /\ CompletedWasMoved

=============================================================================
