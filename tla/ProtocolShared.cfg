SPECIFICATION Spec
CONSTANTS
    memory_table_num = 6
    memory_size = 4
    max_block_size = 2
    SESSION_TABLE_NUM = 3
    SeqWidth = 2
    RetryTime = {2}
    SendModes = {"AUTO"}
    Peers = {1}
    PeerSessions = {2}
    LargeAcks = {}
    MaxRequests = 2
    MaxCommands = 3
    MaxWire = 2
INVARIANTS
    PacketsKept
    BlocksAccounted
    DeliveredOnce
PROPERTIES
    RightAnswerRepeated
CHECK_DEADLOCK FALSE
