SPECIFICATION Spec
CONSTANTS
    w1 = w1  w2 = w2  w3 = w3
    a = a  b = b  c = c  d = d
    Writers = {w1, w2}
    Mergers = {m1}
    Entities = {a, b, c, d}
    Request <- PairRequest
    Seeder = Seeder
    SeedEnts <- Seed
    MergeThreshold = 2
    MaxInFlight = 2
    MaxForced = 0
    FaultKinds = {"crash"}
    MaxFaults = 1
INVARIANTS
    CounterPastKnownIds
