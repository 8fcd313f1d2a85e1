CONSTANT
    PhysSize = 65536
    Images <- MCUncompared
    Limits = {0}
    Junk = {57005}
SPECIFICATION EndSpec
INVARIANTS
    PatchedSitesAgree
    HostStackBalanced
