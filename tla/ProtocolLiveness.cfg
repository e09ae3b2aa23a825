SPECIFICATION FairSpec
CONSTANTS
    memory_table_num = 4
    memory_size = 2
    max_block_size = 1
    SESSION_TABLE_NUM = 3
    SeqWidth = 2
    RetryTime = {2}
    SendModes = {"SESSION_1", "AUTO"}
    Peers = {1}
    PeerSessions = {0}
    LargeAcks = {}
    MaxRequests = 2
    MaxCommands = 1
    MaxWire = 1
PROPERTIES
    SessionsComeBack
CHECK_DEADLOCK FALSE
