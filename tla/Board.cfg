SPECIFICATION FairBoard
CONSTANTS
  Procs = {q1, q2}
  q1 = q1
  q2 = q2
  Scenes <- MCScenes
  MaxRuns = 3
  Programs = {1, 2}
INVARIANTS NothingDangles   
PROPERTIES NobodyStuck Flashes ReadEnds
CHECK_DEADLOCK FALSE
