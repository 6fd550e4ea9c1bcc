SPECIFICATION Spec
CONSTANTS
    Digits <- MCDigits
    Suffix <- MCSuffix
    Segments <- MCSegments
    IntRange = 33554432
    FieldNames <- MCFieldNames
    Targets <- MCTargets
    Inputs <- MCNested
    MaxHops = 1
INVARIANT
    EachBlockPrioritized
