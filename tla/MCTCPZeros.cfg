CONSTANTS
    Client = Client
    Server = Server
    ServerPort = 80
    Iss = 30
    SeqSpace = 32
    HeaderLen = 6
    Requests <- MCRequestsPadded
    ResponseLen = 3
    MaxListens = 2
    MaxConnects = 1
    MaxSends = 2
    MaxDisconnects = 2
    MaxFaults = 0
SPECIFICATION Spec
INVARIANTS NextByteIsInOrder
CHECK_DEADLOCK FALSE
