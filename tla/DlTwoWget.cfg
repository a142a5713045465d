SPECIFICATION Spec
CONSTANTS
  src = src
  patch = patch
  t1 = t1
  t2 = t2
  Files <- MCFiles
  Trees = {t1, t2}
  Configs <- MCTwoWget
  MaxCrashes = 0
  MaxFails = 0
INVARIANTS CacheComplete
