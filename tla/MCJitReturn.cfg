CONSTANT
    PhysSize = 65536
    Images <- ReturnProgram
    Limits = {0}
    Junk = {57005}
SPECIFICATION EndSpec
INVARIANT
    StopsWithInterpreter
