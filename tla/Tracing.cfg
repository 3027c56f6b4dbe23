SPECIFICATION Spec
CONSTANTS
  Threads <- MCThreads
  NoId = NoId
  MinLevel = 2
  Calls = {c1, c2, c3}
  Handlers = {h1, h2}
  Greeters = {g}
  Testers = {t}
  NoCall = NoCall
  NoMetadata = NoMetadata
  Current = 1
  Versions = {1, 2}
  MaxScopes = 2
SYMMETRY MCSymmetry
INVARIANTS
  ScopesNest
  TraceFollows
  TracesApart
