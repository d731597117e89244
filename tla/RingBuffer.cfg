CONSTANTS
    Values = {v1, v2}
    Capacity = 4
    Empty = Empty
SPECIFICATION Spec
INVARIANTS
    NoSlotRace
PROPERTIES
    ImplementsFifo
