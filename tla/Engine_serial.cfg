SPECIFICATION FairSpec
CONSTANTS
    w1 = w1  w2 = w2  w3 = w3
    a = a  b = b  c = c  d = d
    Writers = {w1, w2, w3}
    Mergers = {m1}
    Entities = {a, b, c, d}
    Request <- SerialRequest
    Seeder = Seeder
    SeedEnts <- Seed
    MergeThreshold = 2
    MaxInFlight = 1
    MaxForced = 0
    FaultKinds = {}
    MaxFaults = 0
INVARIANTS
    TypeOK
    NoWriteForgotten
    IndicesAgree
    FlushedOnExit
PROPERTIES
    MergeCompletes
    ImplementsKnowledgeGraph
