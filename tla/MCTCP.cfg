CONSTANTS
    Client = Client
    Server = Server
    ServerPort = 80
    Iss = 30
    SeqSpace = 32
    HeaderLen = 6
    Requests <- MCRequests
    ResponseLen = 3
    MaxListens = 2
    MaxConnects = 1
    MaxSends = 2
    MaxDisconnects = 2
    MaxFaults = 2
SPECIFICATION Spec
INVARIANTS
    TypeOK DeliveredIsPrefix
    NoResetWithoutCause SpinsOnLaterRequest
PROPERTIES NeverGoesBack RequestIsAnswered
CHECK_DEADLOCK FALSE
