\* A user thread calls forceClose() while the io thread may close.
CONSTANTS
    Conns = {c1}
    NumThreads = 1
    UserThreads = {u1}
    Msgs = {m1, m2}
    m1 = m1
    m2 = m2
    m3 = m3
    u1 = u1
    MsgLen <- MCMsgLen
    Sender <- MixedSender
    LoopOps = {}
    UserOps = {"forceClose"}
    PeerSends = 1
    PeerEnds = {"Closed", "Reset"}
    HasWriteCompleteCb = TRUE
    HasHighWaterCb = TRUE
    HighWaterMark = 2
    UserReleases = FALSE
    FlowControl = "off"
    NoMsg = NoMsg
SPECIFICATION Spec
INVARIANT CallbacksInOrder
