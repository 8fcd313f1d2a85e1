CONSTANT
    PhysSize = 65536
    Requested <- MCRequested
    Host <- MCHost
    Unwritten = {0, 20000}
SPECIFICATION EmitSpec
INVARIANTS
    EmitTypeOK
    CodeFitsBuffer
    MatchesJitCode
    FlowStaysOnInstructions
    FrameSurvives
PROPERTIES
    StraightCodeAgrees
    CallsHandOver
    SitesKeepTheirSize
    JumpsHandOver
    LinkedJumpsArrive
