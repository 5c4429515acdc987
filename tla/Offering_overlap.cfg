SPECIFICATION OfferingSpec
CONSTANTS
  r1 = r1  r2 = r2  e1 = e1  e2 = e2  c1 = c1  c2 = c2  b1 = b1  b2 = b2  u1 = u1
  cash = cash  revenue = revenue  current = current
  NoEntry = NoEntry  NoSource = NoSource  NoRow = NoRow
  NoUser = NoUser  NoAccount = NoAccount  NoSlip = NoSlip
  Requests = {r1}
  EntryIds = {e1, e2}
  NumPeriods = 1
  YearLength = 1
  Accounts = {cash, revenue}
  SystemAccounts = {cash, revenue}
  Drafts <- AllLines
  Sources = {b1}
  CreateStatuses = {"APPROVED"}
  CanFail = TRUE
  Clerks = {c1, c2}
  Callers = {NoUser}
  Takings <- UnevenTakings
  Mappings <- OneMapping
  InitialStatuses = {"COUNTING", "APPROVED"}
  BankAccounts = {current}
  Slips = {1}
SYMMETRY OfferingSymmetry
INVARIANTS OfferingInv DriftBounded
PROPERTIES RefinesLedger SettledIsFinal
CHECK_DEADLOCK FALSE
