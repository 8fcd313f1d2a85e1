CONSTANT
    PhysSize = 65536
    Images <- RecursionProgram
    Limits = {0}
    Junk = {57005}
SPECIFICATION EndSpec
PROPERTY
    JitEmulates
