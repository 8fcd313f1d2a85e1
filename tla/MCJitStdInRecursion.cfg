CONSTANT
    PhysSize = 65536
    Images <- StdInRecursionProgram
    Limits = {0}
    Junk = {57005}
SPECIFICATION EndSpec
PROPERTIES
    HandoffKeepsRegisters
