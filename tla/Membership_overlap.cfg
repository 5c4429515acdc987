SPECIFICATION Spec
CONSTANTS
  r1 = r1  r2 = r2  m1 = m1  m2 = m2  m3 = m3  b1 = b1 b2 = b2  t1 = t1
  NoBranch = NoBranch  NoCard = NoCard  NoRow = NoRow
  Gone = Gone  NoMember = NoMember  NoRequest = NoRequest
  Slots = {r1, r2}
  MemberIds = {m1, m2, m3}
  RequestIds = {t1}
  Branches = {b1}
  Codes = {b1, NoBranch}
  Code <- Own
  EnteredCards <- SecondOfEach
  NewStatuses = {"REJECTED", "COMPLETED"}
  MaxAttempts = 2
  CanFail = TRUE
SYMMETRY Symmetry
INVARIANTS MembershipInv NumbersFollowSize GaveUpForAReason CompletedWasMoved
CHECK_DEADLOCK FALSE
