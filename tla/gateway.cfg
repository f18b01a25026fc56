SPECIFICATION MCSpec
CONSTANTS
  Sess = {s1}
  Calls = {r1, r2}
  Clients = {c1, c2}
  Setups <- MCSetups
  Scenario <- MCScenario
  MaxTurns = 2
  ReplayLimit = 3
  MaxEvents = 8
  MaxSeq = 8
  Dl = {d1, d2}
  Registry <- MCRegistry
  Keys <- MCKeys
  Values <- MCValues
  Null = null
SYMMETRY MCSymmetry
CHECK_DEADLOCK FALSE
INVARIANTS
  SessionsAgree
  WindowsInSync
  UnsavedLeavesNothing
  ModelsAreHonest
PROPERTY
  AnswersStand
