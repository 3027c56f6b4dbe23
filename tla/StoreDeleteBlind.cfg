CONSTANTS
  c1 = c1
  Nil = Nil  Garbage = Garbage
  Threads = {t1, t2}
  Chunks = {c1}
  Size <- MCSize
  StripeOf <- MCOneStripe
  ShardOf <- MCOneShard
  Ops = {"put", "delete"}
  RelockOutcomes = {"enters"}
  Faults <- MCStatFault
  MaxCrashes = 0
  MaxRots = 0
  UintModulus = 16
SPECIFICATION Spec
PROPERTY DeleteOkMeansGone
