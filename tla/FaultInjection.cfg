CONSTANTS
  Threads = {t1, t2}
  Errors = {"IoError"}
  Nil = Nil
  Counts = {0, 1, 2}
  MaxCalls = 4
  MaxArms = 3
SPECIFICATION Spec
SYMMETRY MCSymmetry
INVARIANTS TypeOK OneShotHitsOnce FailsAfterN
