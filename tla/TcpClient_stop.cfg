\* The application connects and, while the connect is still in progress,
\* calls disconnect() and then stop().
CONSTANTS
    Retry = TRUE
    Scripts <- DisconnectScripts
    MaxConns = 1
    Refusals = 0
    PeerCloses = 0
SPECIFICATION Spec
\* The client rests once its loop has nothing to do.
CHECK_DEADLOCK FALSE
PROPERTY StaysDisconnected
