SPECIFICATION SandboxSpec
CONSTANTS
  M = M
  co1 = co1
  co2 = co2
  Threads = {M, co1, co2}
  Main = M
  MaxCCalls = 3
  CSlack = 1
  BasicCI = 1
  MaxCalls = 4
  Programs <- MCPrograms
INVARIANT FramesMatch
CHECK_DEADLOCK FALSE
SYMMETRY TwoCoroutines
