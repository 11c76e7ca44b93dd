\* Three keep-alive exchanges on one connection, cut into segments at every
\* atom boundary, with the application's callback.
CONSTANTS
    Requests <- KeepAliveRequests
    MaxRequests = 4
    Callback = "app"
    PathHas <- MCPathHas
SPECIFICATION Spec
\* The conversation ends once the client has sent its requests or the
\* server has shut the connection down.
CHECK_DEADLOCK FALSE
INVARIANT TypeOK
INVARIANT NoAbort
INVARIANT RequestsFaithful
INVARIANT ResponsesMatch
PROPERTY EveryRequestAnswered
