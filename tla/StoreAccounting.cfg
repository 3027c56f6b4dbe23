CONSTANTS
  c1 = c1
  Nil = Nil  Garbage = Garbage
  Threads = {t1, t2}
  Chunks = {c1, c2}
  Size <- MCSize
  StripeOf <- MCTwoStripes
  ShardOf <- MCOneShard
  Ops = {"put", "delete"}
  RelockOutcomes = {"enters", "blocks", "throws"}
  Faults <- MCSyncFaults
  MaxCrashes = 1
  MaxRots = 0
  UintModulus = 16
SPECIFICATION Spec
SYMMETRY MCThreads
CHECK_DEADLOCK FALSE
INVARIANTS CountExact BytesExact AckedPutSurvives
