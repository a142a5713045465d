SPECIFICATION FairSpec
CONSTANTS
  src = src
  patch = patch
  t1 = t1
  t2 = t2
  Files <- MCFiles
  Trees = {t1, t2}
  Configs <- MCAll
  MaxCrashes = 1
  MaxFails = 1
INVARIANTS StampedPresent UndisturbedComplete
PROPERTIES CompleteStays Recovers SharesCopies Atomic
