SPECIFICATION Spec
CONSTANTS
  M = M
  co1 = co1
  co2 = co2
  Threads = {M, co1, co2}
  Main = M
  MaxCCalls = 4
  CSlack = 1
  BasicCI = 1
  MaxCalls = 4
  Programs <- MCPrograms
INVARIANTS StatesRestored FramesMatch JumpsLand
PROPERTIES CoroutinesPromise
CHECK_DEADLOCK FALSE
SYMMETRY TwoCoroutines
