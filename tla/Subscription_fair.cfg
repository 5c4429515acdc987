SPECIFICATION FairFollowSpec
CONSTANTS
  r1 = r1  r2 = r2  s1 = s1  s2 = s2  s3 = s3  o1 = o1
  Unchanged = Unchanged  NoRow = NoRow  NoId = NoId
  Slots = {r1}
  Organisations = {o1}
  SubscriptionIds = {s1, s2}
  Plans <- TrialAndPaid
  StartDates = {0}
  Updates = {"CANCELLED", Unchanged}
  ManagedStatuses = {}
  GracePeriod = 1
  LastDay = 5
  CanFail = TRUE
PROPERTIES ExpiredIsHandled LapsedIsCancelled AccessEnds
CHECK_DEADLOCK FALSE
