CONSTANTS
  c1 = c1
  Nil = Nil  Garbage = Garbage
  Threads = {t1, t2}
  Chunks = {c1}
  Size <- MCSize
  StripeOf <- MCOneStripe
  ShardOf <- MCOneShard
  Ops = {"put", "get", "delete", "exists"}
  RelockOutcomes = {"enters", "blocks", "throws"}
  Faults <- MCTempFaults
  MaxCrashes = 2
  MaxRots = 1
  UintModulus = 2
SPECIFICATION Spec
SYMMETRY MCThreads
CHECK_DEADLOCK FALSE
INVARIANTS TypeOK StripeExclusion NoTornChunk NoTempLeak
