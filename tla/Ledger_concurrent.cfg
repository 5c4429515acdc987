SPECIFICATION Spec
CONSTANTS
  r1 = r1  r2 = r2  r3 = r3  e1 = e1  e2 = e2  e3 = e3  cash = cash  revenue = revenue  doc = doc
  NoEntry = NoEntry  NoSource = NoSource  NoRow = NoRow
  Requests = {r1, r2}
  EntryIds = {e1, e2}
  NumPeriods = 2
  YearLength = 2
  Accounts = {cash, revenue}
  SystemAccounts = {cash}
  Drafts <- OneDraft
  Sources = {doc}
  CreateStatuses = {"APPROVED"}
  CanFail = TRUE
SYMMETRY Symmetry
INVARIANTS IInv YearPrefix ReversedHasMirror
CHECK_DEADLOCK FALSE
