CONSTANTS
  Session = {s1, s2}
  DebtId = {1, 2}
  EntryId = {1, 2, 3}
  Sums = {1, 2}
  Tx = {"rent1", "rent2", "rent3", "fee", "gift"}
  Worth <- MCWorth
  Lent = {"fee"}
  MaxRequests = 2
  Opened = {"gift", "rent3"}
  Day <- MCDay
  Payee <- MCPayee
  Contact = {"landlord"}
  KnownAs <- MCKnownAs
  Category = {"home"}
  Months <- MCMonths
  BudgetId = {"b1", "b2", "b3"}
  Threshold = 2
  Lookback = 3
  Factor <- MCFactor
  MinOccurrences = 3
SPECIFICATION Spec
INVARIANT DebtNotSpending
CHECK_DEADLOCK FALSE
