SPECIFICATION Spec
CONSTANTS
    memory_table_num = 6
    memory_size = 4
    max_block_size = 2
    SESSION_TABLE_NUM = 4
    SeqWidth = 2
    RetryTime = {2}
    SendModes = {"SESSION_0", "SESSION_1", "AUTO"}
    Peers = {1}
    PeerSessions = {2}
    LargeAcks = {}
    MaxRequests = 3
    MaxCommands = 0
    MaxWire = 2
INVARIANTS
    TypeOK
    ThreadsFindABlock
    AnsweredOnce
    RetriesBounded
PROPERTIES
    SequenceMoves
CHECK_DEADLOCK FALSE
