SPECIFICATION HistorySpec
CONSTANTS
  r1 = r1  r2 = r2  e1 = e1  e2 = e2  e3 = e3  cash = cash  revenue = revenue  doc = doc
  NoEntry = NoEntry  NoSource = NoSource  NoRow = NoRow
  Requests = {r1, r2}
  EntryIds = {e1, e2, e3}
  NumPeriods = 1
  YearLength = 1
  Accounts = {cash, revenue}
  SystemAccounts = {cash}
  Drafts <- OneDraft
  Sources = {}
  CreateStatuses = {"DRAFT", "PENDING_APPROVAL", "POSTED"}
  CanFail = TRUE
SYMMETRY Symmetry
INVARIANTS OneReversal ShutDraftsUnseen LateWritesBounded
PROPERTIES HalfReversalIsForever ImplementsBooks
CHECK_DEADLOCK FALSE
