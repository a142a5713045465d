SPECIFICATION Spec
CONSTANTS
  Tables <- MCTables
  SkelGroups <- MCGroups
  SkelPasswd <- MCPasswd
  MinId = 1000
  MaxId = 1002
  MaxRuns = 3
  MaxKills = 1
INVARIANTS UidsUnique GidsUnique TableInEffect Memberships HomesOwned
PROPERTIES SameForEveryImage UidsStay
CHECK_DEADLOCK FALSE
