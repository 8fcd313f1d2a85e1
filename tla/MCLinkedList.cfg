SPECIFICATION ListSpec
CONSTANTS
    Node = {n1, n2, n3}
    Item = {x, y}
    Null = Null
INVARIANTS
    LlTypeOK
    WellLinked
PROPERTIES
    ImplementsList
