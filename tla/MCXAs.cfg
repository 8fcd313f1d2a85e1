SPECIFICATION Spec

CONSTANTS
    Fill = 170
    MaxLines = 3
    Programs <- MCPrograms
    Library <- MCLibrary
    Bases <- MCBases

INVARIANTS
    XasTypeOK
    CodeFitsObject
    NoInvalidReloc
    AcceptsExactly
    FileIsTheProgram
    TableRoundTrips
    LinksWithLibrary
