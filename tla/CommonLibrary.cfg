SPECIFICATION MCSpec
CONSTANTS
  slash = slash
  dot = dot
  nul = nul
  letter = letter
  star = star
  MaxLen = 6
  Char <- MCChar
  Slash = slash
  Dot = dot
  Nul = nul
  Allowed <- MCAllowed
  MaxComponent = 2
  MaxPath = 5
  Paths <- MCPaths
  N = 2
  HexTexts <- MCHexTexts
  Digests <- MCDigests
  Nodes = {n1, n2}
  Files <- MCFiles
  Envs <- MCEnvs
  Schemas <- MCSchemas
  Absent = Absent
  LimitKey <- MCLimitKey
  ThreadsKey <- MCThreadsKey
  DefaultLimit = 4
  DefaultThreads = 3
  Word = 16
  IntWord = 8
  MaxTime = 6
  MaxTtl = 3
  Tolerance = 1
CHECK_DEADLOCK FALSE
INVARIANTS
  VerdictRight
  DisplayCollapses
  ValidShownAsIs
  ParseExact
  RoundTrip
  LimitAgreed
  ValidateForesees
  ExpiryWithinSkew
