CONSTANT
    PhysSize = 65536
    Images <- LongBranchProgram
    Limits = {0}
    Junk = {57005}
SPECIFICATION EndSpec
PROPERTY
    JitEmulates
