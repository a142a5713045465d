SPECIFICATION BoardSpec
CONSTANTS
  Procs = {}
  q1 = q1
  q2 = q2
  Scenes <- MCDrivers
  MaxRuns = 0
  Programs = {1}
INVARIANTS LedsOff
CHECK_DEADLOCK FALSE
