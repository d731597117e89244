\* Four requests, two versions.
CONSTANTS
    Requests = {q1, q2, q3, q4}
    Versions = {v1, v2}
    None = None
SPECIFICATION Spec
SYMMETRY RegistrySymmetry
CHECK_DEADLOCK FALSE
INVARIANTS
    TypeOK
    
    BinariesBehindRows
PROPERTIES
    ActiveIsReplaced
