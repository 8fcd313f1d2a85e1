CONSTANT
    PhysSize = 65536
    Images <- MCTestImages
    Limits = {0, 10000}
    Junk = {57005}
SPECIFICATION MCTestSpec
INVARIANT
    TestsPass
