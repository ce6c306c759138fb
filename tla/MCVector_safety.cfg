\* A vector that starts empty, gets its default capacity and grows twice.
CONSTANTS
    a = a
    b = b
    junk = junk
    Elements <- TwoElements
    Junk = junk
    InitialCapacity = 0
    DefaultCapacity = 2
    MaxCapacity = 8
    Faults <- AllFaults
SPECIFICATION Spec
INVARIANTS
    InBounds
PROPERTY ImplementsSequence
