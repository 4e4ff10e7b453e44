SPECIFICATION Spec
CONSTANTS
    Callers = {c1, c2, c3}
    Instances = 3
    RangeSize = 6
    Instance = 1
    BaseCounts = {2, 9, 14}
INVARIANTS
    TypeOK
    UniqueIds
    FreshIds
    NoGaps
SYMMETRY CallerSymmetry
