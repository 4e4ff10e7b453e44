SPECIFICATION Spec
CONSTANTS
  EmptyKey = EmptyKey
  Anonymous = Anonymous
  NoMaster = NoMaster
  k1 = k1
  k2 = k2
  Headers <- MCHeaders
  MasterKeys <- MCMasterKeys
  Unit = 2
  Rate = 1
  Capacity = 4
  PruneAfter = 4
  PruneEvery = 2
  MaxIdle = 5
  MaxWindow = 3
INVARIANTS
  TypeOK
  WindowBound
PROPERTIES
  ImplementsPromise
