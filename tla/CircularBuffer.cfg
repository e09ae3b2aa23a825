SPECIFICATION Spec
CONSTANTS
    Item = {a, b, c}
    max_size = 3
INVARIANTS
    TypeOK
PROPERTIES
    ImplementsFifo
