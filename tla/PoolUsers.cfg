SPECIFICATION PoolSpec
CONSTANTS
    memory_table_num = 5
    memory_size = 4
    max_block_size = 3
    Byte = {a, b}
    Size = {1, 2, 3, 5}
INVARIANTS
    PoolTypeOK
    BlocksDisjoint
PROPERTIES
    ImplementsStore
