SPECIFICATION Spec
CONSTANTS
    Callers = {c1, c2, c3}
    Instances = 3
    RangeSize = 6
    Instance = 2
    BaseCounts = {2, 9, 16}
INVARIANT FreshIds
