SPECIFICATION Spec
CONSTANTS
    a = a  b = b  c = c
    t = t  u = u
    Names = {a, b, c}
    EdgeTypes = {t, u}
    WeightOf <- TypeWeights
    Snapshots <- EmptyOrRelated
    NoName = NoName
    MaxNodes = 3
    MaxPending = 1
    MaxEdges = 2
    MaxMerges = 1
    MaxImports = 0
SYMMETRY NameSymmetry
INVARIANT RelatedSearchFindsAll
