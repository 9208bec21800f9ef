SPECIFICATION Spec
CONSTANTS
    Keys = {k1, k2, k3}
    Values = {v1, v2}
    NoValue = NoValue
    Capacity = 2
    TTL = 1
    SECOND = 2
    Kinds = {"cache.h", "OrderedDict"}
    MaxTime = 8
SYMMETRY Symmetry
INVARIANTS
    TypeOK
    RecencyOrder
    WorkingSetKept
PROPERTIES
    CacheImplemented
