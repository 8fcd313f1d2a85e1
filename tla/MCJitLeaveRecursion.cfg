CONSTANT
    PhysSize = 65536
    Images <- LeaveRecursionProgram
    Limits = {0}
    Junk = {57005}
SPECIFICATION EndSpec
INVARIANT
    HostStackBalanced
