SPECIFICATION RecordedSpec
CONSTANTS
  r1 = r1  r2 = r2  e1 = e1  e2 = e2  e3 = e3  c1 = c1  c2 = c2  b1 = b1  b2 = b2  u1 = u1
  cash = cash  revenue = revenue  current = current  savings = savings
  NoEntry = NoEntry  NoSource = NoSource  NoRow = NoRow
  NoUser = NoUser  NoAccount = NoAccount  NoSlip = NoSlip
  Requests = {}
  EntryIds = {}
  NumPeriods = 1
  YearLength = 1
  Accounts = {cash, revenue}
  SystemAccounts = {cash, revenue}
  Drafts <- AllLines
  Sources = {b1, b2}
  CreateStatuses = {}
  CanFail = TRUE
  Clerks = {c1, c2}
  Callers = {NoUser}
  Takings <- CashAndCheque
  Mappings <- OneMapping
  InitialStatuses = {"COUNTING", "DEPOSITED"}
  BankAccounts = {current, savings}
  Slips = {1}
SYMMETRY HistorySymmetry
INVARIANTS BankMatchesDeposits
CHECK_DEADLOCK FALSE
