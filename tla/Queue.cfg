CONSTANTS
  Producers = {p1, p2, p3}
  Consumers = {k1, k2}
  Capacity = 2
  MaxPushes = 4
SPECIFICATION FairSpec
INVARIANTS TypeOK NoLostWakeup Fifo
PROPERTIES WaitersProceed ShutdownReleases DeadlinesHold
