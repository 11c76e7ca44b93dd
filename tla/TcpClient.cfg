\* One client with retry, whose connects the server may refuse once and
\* whose connection it may close once; the application either stays
\* connected or disconnects and stops.
CONSTANTS
    Retry = TRUE
    Scripts <- ClientScripts
    MaxConns = 2
    Refusals = 1
    PeerCloses = 1
SPECIFICATION Spec
\* The client rests once its loop has nothing to do.
CHECK_DEADLOCK FALSE
INVARIANT NoAbort
INVARIANT ClientConsistent
PROPERTY EventuallyConnected
