SPECIFICATION FollowSpec
CONSTANTS
  r1 = r1  r2 = r2  s1 = s1  s2 = s2  s3 = s3  o1 = o1
  Unchanged = Unchanged  NoRow = NoRow  NoId = NoId
  Slots = {r1, r2}
  Organisations = {o1}
  SubscriptionIds = {s1, s2}
  Plans <- TrialAndPaid
  StartDates = {0}
  Updates = {"ACTIVE", Unchanged}
  ManagedStatuses = {"ACTIVE"}
  GracePeriod = 1
  LastDay = 5
  CanFail = TRUE
SYMMETRY Symmetry
INVARIANTS LifecycleInv AccessKept OrganisationFollows
PROPERTIES CancelsAfterGrace
CHECK_DEADLOCK FALSE
