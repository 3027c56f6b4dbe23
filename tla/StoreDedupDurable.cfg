CONSTANTS
  c1 = c1
  Nil = Nil  Garbage = Garbage
  Threads = {t1, t2}
  Chunks = {c1}
  Size <- MCSize
  StripeOf <- MCOneStripe
  ShardOf <- MCOneShard
  Ops = {"put"}
  RelockOutcomes = {"enters"}
  Faults <- MCNoFaults
  MaxCrashes = 2
  MaxRots = 0
  UintModulus = 16
SPECIFICATION Spec
INVARIANT AckedPutSurvives
