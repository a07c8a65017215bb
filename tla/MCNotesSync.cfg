SPECIFICATION Spec
CONSTANTS
    Replicas = {r1, r2}
    Notes = {n1}
    None = None
    MaxTime = 2
    MaxWrites = 3
SYMMETRY Symmetry
INVARIANTS TypeOK 
CHECK_DEADLOCK FALSE
