CONSTANT
    PhysSize = 65536
    Images <- MCCompiled
    Limits = {0}
    Junk = {57005}
SPECIFICATION EndSpec
INVARIANTS
    JitTypeOK
    CompiledOnce
    HostStackBalanced
    Regular
PROPERTIES
    JitEmulates
    HandoffKeepsRegisters
