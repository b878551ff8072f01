CONSTANTS
  Session = {s1, s2}
  Tx <- MCTx
  TxAmount <- MCTxAmount
  TxDay <- MCTxDay
  TxRef <- MCTxRef
  NoTx = NoTx
  NoRef = NoRef
  Terms <- MCTerms
  Patch <- MCPatch
  Month = 3
  Window = 2
  MaxDay = 1
  MaxLoans = 1
  MaxRequests = 5
SYMMETRY Symmetry
SPECIFICATION Spec
CHECK_DEADLOCK FALSE
INVARIANTS
  TypeOK
  ScheduleComplete
  PaidExact
  SettledExact
