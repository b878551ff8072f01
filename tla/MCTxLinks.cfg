CONSTANTS
  Tx <- MCTx
  Account = {"melli", "saman"}
  Key = {"11264"}
  AccountOf <- MCAccountOf
  Amount <- MCAmount
  OccurredAt <- MCOccurredAt
  ReversalText = {"return", "old_return"}
  FeeText = {"fee"}
  PointsTo <- MCPointsTo
  Keys <- MCKeys
  Session = {s1, s2}
  Statement <- MCStatement
  Naming <- MCNaming
  Declared = {}
  AliasMatch = {"pol_in"}
  Patchable = {"pol_out"}
  MayFail = TRUE
  MaxRequests = 3
SYMMETRY Symmetry
SPECIFICATION Spec
CHECK_DEADLOCK FALSE
INVARIANTS
  TypeOK
  ReversedExact
  RunPairsDisjoint
  RunComplete
  NearestWins
  LinksAreWhatTheySay
PROPERTY ApplyRepairs
