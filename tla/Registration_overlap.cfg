SPECIFICATION Spec
CONSTANTS
  r1 = r1  r2 = r2  i1 = i1  i2 = i2  p1 = p1  p2 = p2  x1 = x1
  NoRow = NoRow  NoId = NoId  NoReference = NoReference  NoReport = NoReport
  Slots = {r1, r2}
  RegistrationIds = {i1, i2}
  People = {p1, p2}
  References = {x1}
  Capacity = 1
  IsFree = FALSE
  NewStatus = "ATTENDING"
  ClientStatuses = {}
  UpdateStatuses = {"ATTENDING"}
  EnteredPayments = {"completed"}
  CanFail = TRUE
SYMMETRY Symmetry
INVARIANTS RegistrationInv OverbookedBound SharedPaymentBound CompletedWasPaid SuccessIsNotLost
CHECK_DEADLOCK FALSE
