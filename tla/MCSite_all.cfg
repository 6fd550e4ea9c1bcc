SPECIFICATION FairSpec
CONSTANTS
    Digits <- MCDigits
    Suffix <- MCSuffix
    Segments <- MCSegments
    IntRange = 33554432
    FieldNames <- MCFieldNames
    Targets <- MCTargets
    Inputs <- MCInputs
    MaxHops = 4
INVARIANTS
    TypeOK
    ParsedAsWritten
    ListensAsWritten
    NearestBlockDecides
    StrictNeverWarned
    StrictWithinLimits
    EndlessRedirectWarned
    HeaderAsSent
    RequestsSurvived
PROPERTIES
    AnsweredInTheEnd
