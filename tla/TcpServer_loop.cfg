\* Loop-only: one worker loop, the io thread sends, shuts down and
\* force-closes; the peer sends, closes or resets.
CONSTANTS
    Conns = {c1}
    NumThreads = 1
    UserThreads = {}
    Msgs = {m1, m2}
    m1 = m1
    m2 = m2
    m3 = m3
    u1 = u1
    MsgLen <- MCMsgLen
    Sender <- LoopSender
    LoopOps = {"shutdown", "forceClose"}
    UserOps = {}
    PeerSends = 1
    PeerEnds = {"Closed", "Reset"}
    HasWriteCompleteCb = TRUE
    HasHighWaterCb = TRUE
    HighWaterMark = 2
    UserReleases = FALSE
    FlowControl = "off"
    NoMsg = NoMsg
SPECIFICATION Spec
INVARIANT LoopsRunning
INVARIANT TypeOK
INVARIANT CallbacksInOrder
INVARIANT DestroyedCleanly
INVARIANT PerSenderOrder
INVARIANT ShutdownAfterFlush
PROPERTY ServerStarts
PROPERTY StateMonotone
PROPERTY ShutdownCompletes
PROPERTY ClosedConnectionsReleased
