\* A user thread sends m1 and m2 through the pending-functor queue, calls
\* shutdown() while the io thread sends m3, and later drops its pointer;
\* flow control stops reading at the high-water mark and resumes it on
\* write completion; the peer never closes first.
CONSTANTS
    Conns = {c1}
    NumThreads = 1
    UserThreads = {u1}
    Msgs = {m1, m2, m3}
    m1 = m1
    m2 = m2
    m3 = m3
    u1 = u1
    MsgLen <- MCMsgLen3
    Sender <- UserSender
    LoopOps = {}
    UserOps = {"shutdown"}
    PeerSends = 1
    PeerEnds = {}
    HasWriteCompleteCb = TRUE
    HasHighWaterCb = TRUE
    HighWaterMark = 2
    UserReleases = TRUE
    FlowControl = "checked"
    NoMsg = NoMsg
SPECIFICATION Spec
PROPERTY FunctorsRun
PROPERTY ReadingResumes
INVARIANT PerSenderOrder
INVARIANT ShutdownAfterFlush
PROPERTY ShutdownCompletes

