\* forceClose on a connection whose channel has no events left
\* (reading stopped by flow control, output drained).
CONSTANTS
    Conns = {c1}
    NumThreads = 1
    UserThreads = {}
    Msgs = {m1, m2}
    m1 = m1
    m2 = m2
    m3 = m3
    u1 = u1
    MsgLen <- MCMsgLen
    Sender <- LoopSender
    LoopOps = {"forceClose"}
    UserOps = {}
    PeerSends = 1
    PeerEnds = {"Closed", "Reset"}
    HasWriteCompleteCb = TRUE
    HasHighWaterCb = TRUE
    HighWaterMark = 2
    UserReleases = FALSE
    FlowControl = "checked"
    NoMsg = NoMsg
SPECIFICATION Spec
INVARIANT CallbacksInOrder
