CONSTANTS
  n1 = n1
  n2 = n2
  w1 = w1
  w2 = w2
  c3 = c3
  Nil = Nil
  Nodes = {n1, n2}
  Workers = {w1, w2}
  NodeOf <- MCOneEach
  Chunks = {c3}
  Blocks = {"x", "y"}
  Content <- MCThree
  MaxChunkBytes <- MCLimits
  FrameSize = 2
  DeclaredSizes = {0, 3}
  Frames <- MCFrames
  Rpcs <- MCAll
  MaxCalls = 1
  MaxFaults = 0
SPECIFICATION Spec
CHECK_DEADLOCK FALSE
INVARIANTS VersionFirst
