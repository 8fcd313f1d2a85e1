SPECIFICATION Spec

CONSTANTS
    Fill = 170
    MaxLines = 1
    Programs <- WordsPrograms
    Library <- MCLibrary
    Bases <- MCBases

PROPERTY
    WordsArePositive

CHECK_DEADLOCK TRUE
