SPECIFICATION AnySpec
CONSTANTS
    Node = {n1, n2, n3}
    Item = {x, y}
    Null = Null
PROPERTY
    RemoveNeedsNext
CHECK_DEADLOCK FALSE
