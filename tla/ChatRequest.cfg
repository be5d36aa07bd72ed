\* Replies of up to four chunks, a client slower than the idle deadline, bodies
\* up to one past the limit, and a channel of one.
SPECIFICATION ChatFairSpec
CONSTANTS
    FirstByte = 2
    Idle = 3
    Chunks = 4
    Window = 2
    Room = 2
    EndToEnd <- MCEndToEnd
    Requests <- MCRequests
    Replies <- MCReplies
    MaxBody = 2
    Bearer <- MCBearer
    ChannelCap = 1
INVARIANTS ChatTypeOK IdleMeansSilence OnlyCheckedForwarded HeadersEndToEnd EndsAreTold
PROPERTIES ImplementsPipe EveryRequestEnds
CHECK_DEADLOCK FALSE
