\* All message classes: two objects, every pair of fields.
SPECIFICATION Spec
CONSTANTS
    Classes <- AllClasses
    Objects = {x, y}
    Values = {0, 1}
    MaxNumber = 10
    MaxLive = 2
    MaxLen = 1
SYMMETRY AlikeObjects
INVARIANTS HasBitsCover ConcatIsMerge SizeMatches
PROPERTY MessageImplemented
