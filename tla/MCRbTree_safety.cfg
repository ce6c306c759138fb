\* A tree of up to eight nodes, with keys that occur twice.
CONSTANTS
    Root = Root
    Nil = Nil
    NULL = NULL
    Size = 8
    Nodes <- SomeNodes
    KeyOf <- SomeKeys
SPECIFICATION Spec
INVARIANTS
    RedBlack
    Finds
    Enumerates
PROPERTY ImplementsSorted
