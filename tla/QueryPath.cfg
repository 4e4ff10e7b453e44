SPECIFICATION Spec
CONSTANTS
  r1 = r1
  r2 = r2
  Requests <- MCRequests
  Shapes <- MCShapes
  HealthTTL = 2
  HealthTimeout = 1
  EmbedTimeout = 1
  GenerateTimeout = 1
  MaxNames = 1
  MaxHops = 1
  QueryTTL = 2
  NodeSince = 1
  MaxRequests = 3
  MaxMerges = 1
  MaxFlips = 1
INVARIANTS
  TypeOK
  AnsweredInTime
  MergeDropsOldAnswers
  MetricsBalance
PROPERTIES
  StaleIsBounded
  ReadyIsRecent
SYMMETRY RequestSymmetry
