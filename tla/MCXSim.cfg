CONSTANT
    PhysSize = 65536
    MCLength = 3
    Images <- MCImages
    Limits <- MCLimits
SPECIFICATION FairSpec
INVARIANTS
    TypeOK
    LimitRespected
    DumpIsCurrent
PROPERTY
    Terminates
CHECK_DEADLOCK FALSE
