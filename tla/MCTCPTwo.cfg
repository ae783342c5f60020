CONSTANTS
    Client = Client
    Server = Server
    ServerPort = 80
    Iss = 30
    SeqSpace = 32
    HeaderLen = 6
    Requests <- MCRequests
    ResponseLen = 3
    MaxListens = 2
    MaxConnects = 2
    MaxSends = 1
    MaxDisconnects = 1
    MaxFaults = 1
SPECIFICATION Spec
INVARIANTS OneSocketPerClient OpenOnBothEnds
CHECK_DEADLOCK FALSE
