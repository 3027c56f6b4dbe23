CONSTANTS
  n1 = n1
  n2 = n2
  w1 = w1
  w2 = w2
  c3 = c3
  Nil = Nil
  Nodes = {n1, n2}
  Workers = {w1, w2}
  NodeOf <- MCOneEach
  Chunks = {c3}
  Blocks = {"x", "y"}
  Content <- MCThree
  MaxChunkBytes <- MCLimits
  FrameSize = 2
  DeclaredSizes = {0, 3}
  Frames <- MCFrames
  Rpcs <- MCAll
  MaxCalls = 2
  MaxFaults = 1
SPECIFICATION FairSpec
CHECK_DEADLOCK FALSE
INVARIANTS TypeOK WithinLimit NoSpuriousMismatch
PROPERTIES HandlersReturn DrainEnds
