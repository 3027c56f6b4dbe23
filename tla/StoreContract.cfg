CONSTANTS
  c1 = c1
  Nil = Nil  Garbage = Garbage
  Threads = {t1, t2}
  Chunks = {c1}
  Size <- MCSize
  StripeOf <- MCOneStripe
  ShardOf <- MCOneShard
  Ops = {"put", "get", "delete", "exists"}
  RelockOutcomes = {"enters"}
  Faults <- MCNoStatFaults
  MaxCrashes = 1
  MaxRots = 1
  UintModulus = 16
SPECIFICATION FairSpec
PROPERTIES DeleteOkMeansGone ImplementsContract CallCompletes
