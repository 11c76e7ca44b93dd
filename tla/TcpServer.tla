------------------------------ MODULE TcpServer ------------------------------
(***************************************************************************)
(* The connection core of polaris: TCPServer accepting on the base loop,  *)
(* TCPConnection state machine and send pipeline on its io loop, the      *)
(* connection's Channel registered in that loop's EPollPoller, and the    *)
(* per-loop pending-functor queue that carries every cross-thread call.   *)
(*                                                                         *)
(* Threads: one thread per loop (0 = base loop, 1..NumThreads = workers)  *)
(* and UserThreads, application threads that hold a TCPConnectionPtr and  *)
(* call send/shutdown/forceClose from outside the io loop.  A loop-thread  *)
(* step is one handler run to completion; a user-thread call is split at  *)
(* its unsynchronised read of state_, where the code races.               *)
(*                                                                         *)
(* Data is abstracted to message ids: message m is the byte sequence       *)
(* <<m,1>>, ..., <<m,MsgLen[m]>>, so partial writes stay byte-exact.       *)
(***************************************************************************)
EXTENDS Naturals, Sequences, FiniteSets, SequencesExt

CONSTANTS
    Conns,          \* connections the acceptor will accept (model values)
    NumThreads,     \* EventLoopThreadPool::setThreadNum
    UserThreads,    \* non-loop threads holding a TCPConnectionPtr
    Msgs,           \* messages the application sends, each at most once
    MsgLen,         \* [Msgs -> 1..]: length in bytes
    Sender,         \* [Msgs -> {"loop"} \cup UserThreads]: calling thread
    LoopOps,        \* subset of {"shutdown","forceClose"} called on the io loop
    UserOps,        \* subset of {"shutdown","forceClose"} called from user threads
    PeerSends,      \* how many times a peer may send data
    PeerEnds,       \* subset of {"Closed","Reset"}: how a peer may end the connection
    HasWriteCompleteCb, \* writeCompleteCallback_ set
    HasHighWaterCb,     \* highWaterMarkCallback_ set
    HighWaterMark,      \* highWaterMark_
    UserReleases,   \* whether user threads drop their TCPConnectionPtr
    FlowControl,    \* "off", or the callbacks throttle input (high water ->
                    \* stopRead, write complete -> startRead): "naive" always,
                    \* "checked" only while conn->connected()
    NoMsg           \* model value: the msg field of a task that carries none

ASSUME UserReleases \in BOOLEAN /\ FlowControl \in {"off", "naive", "checked"} /\ LoopOps \cup UserOps \subseteq {"shutdown", "forceClose"}
ASSUME NumThreads \in Nat /\ PeerSends \in Nat /\ HighWaterMark \in Nat \ {0}
ASSUME \A m \in Msgs : MsgLen[m] \in Nat \ {0}

Base    == 0
Loops   == 0..NumThreads
Senders == {"loop"} \cup UserThreads
Ops     == {"shutdown", "forceClose"}

VARIABLES
    state,        \* TCPConnection::state_, "none" before the acceptor creates it
    loopOf,       \* TCPConnection::loop_
    inMap,        \* TCPServer::connections_ holds the connection
    cbLog,        \* connectionCallback_ "up"/"down" and closeCallback_ "close", in order
    events,       \* Channel::events_ as a subset of {"R","W"}
    reading,      \* TCPConnection::reading_
    index,        \* Channel::index_ : kNew / kAdded / kDeleted
    inPoller,     \* EPollPoller::channels_ contains the fd
    addedToLoop,  \* Channel::addedToLoop_
    outBuf,       \* outputBuffer_ readable bytes
    wire,         \* bytes accepted by the kernel, in order
    wrShut,       \* shutdownWrite() has been issued
    room,         \* the socket send buffer has space
    peer,         \* "Open", "Closed" (FIN received) or "Reset"
    inbound,      \* unread bytes from the peer (0 or more chunks)
    errPending,   \* SO_ERROR pending on the socket
    peerSendsLeft,
    nextLoop,     \* EventLoopThreadPool::next_
    loops_,       \* EventLoopThreadPool::loops_: what startLoop returned, in order
    thr,          \* per worker: its EventLoopThread's thread "none", "init"
                  \* (running threadFunc) or "published" (loop_ set, in loop())
    spc,          \* the base thread inside TCPServer::start: [at, i]
    pending,      \* EventLoop::pendingFunctors_ per loop
    wakeup,       \* per loop: its wakeupFd_ eventfd is readable
    batch,        \* functors swapped out by doPendingFunctors, not yet run
    spent,        \* functors of the batch already run, destroyed at its end
    phase,        \* "poll", "dispatch" (handling activeChannels_) or "drain"
    active,       \* <<channel, revent>> pairs of this iteration not yet handled
    upc,          \* user thread: "idle" or the call it is in the middle of
    ucon, umsg,   \* the connection and message of that call
    hold,         \* connections each user thread holds a TCPConnectionPtr to
    unsent,       \* messages not yet passed to send()
    issued,       \* [Conns -> [Senders -> Seq(Msgs)]] sends that passed the state check
    opsLeft,      \* per connection, shutdown/forceClose calls still to be made
    freed,        \* the last TCPConnectionPtr is gone: object destroyed
    asserts       \* per connection, the assert() sites that have failed

connVars == <<state, loopOf, inMap, cbLog, reading, asserts>>
chanVars == <<events, index, inPoller, addedToLoop>>
ioVars   == <<outBuf, wire, wrShut, room>>
peerVars == <<peer, inbound, errPending, peerSendsLeft>>
loopVars == <<pending, wakeup, batch, spent, phase, active>>
userVars == <<upc, ucon, umsg, hold>>
appVars  == <<unsent, issued, opsLeft>>
poolVars == <<nextLoop, loops_, thr, spc>>
vars == <<connVars, chanVars, ioVars, peerVars, poolVars, loopVars,
          userVars, appVars, freed>>

Task(op, c, ref, m) == [op |-> op, conn |-> c, ref |-> ref, msg |-> m]
Bytes(m) == [i \in 1..MsgLen[m] |-> <<m, i>>]
Flat(ms) == FoldLeft(LAMBDA acc, m : acc \o Bytes(m), <<>>, ms)

-----------------------------------------------------------------------------
\* Mutant: queueInLoop wakes the loop only for a call from another thread.
PostNoDrainWakeup(from, l, t) ==
    /\ pending' = [pending EXCEPT ![l] = Append(@, t)]
    /\ wakeup' = [wakeup EXCEPT ![l] = @ \/ from # l]

(* EventLoop::queueInLoop called by thread "from" (a loop or a user        *)
(* thread): append under the mutex, and wakeup() (write the eventfd) when  *)
(* the caller is not the loop's thread or the loop is draining its         *)
(* functors.  A functor the loop queues while it handles events is swapped *)
(* out by this iteration's doPendingFunctors without a wakeup.             *)
Post(from, l, t) ==
    /\ pending' = [pending EXCEPT ![l] = Append(@, t)]
    /\ wakeup' = [wakeup EXCEPT ![l] = @ \/ from # l \/ phase[l] = "drain"]

(* Channel::update -> EPollPoller::updateChannel: kNew/kDeleted is ADDed   *)
(* (even with no events), kAdded is DELeted when no events remain.         *)
SetEvents(c, ev) ==
    /\ events' = [events EXCEPT ![c] = ev]
    /\ index' = [index EXCEPT ![c] =
                   IF @ \in {"kNew", "kDeleted"} \/ ev # {} THEN "kAdded" ELSE "kDeleted"]
    /\ inPoller' = [inPoller EXCEPT ![c] = TRUE]
    /\ addedToLoop' = [addedToLoop EXCEPT ![c] = TRUE]

(* EPollPoller::removeChannel: forget the fd (EPOLL_CTL_DEL when it is    *)
(* kAdded; a kDeleted fd is no longer in the epoll set) and back to kNew. *)
PollerRemove(c) ==
    /\ index' = [index EXCEPT ![c] = "kNew"]
    /\ inPoller' = [inPoller EXCEPT ![c] = FALSE]

(* Channel::remove: assert(isNoneEvent()) on the events the caller left, *)
(* addedToLoop_ = false, then the poller's removeChannel.                 *)
ChannelRemove(c) ==
    /\ asserts' = [asserts EXCEPT ![c] = IF events'[c] = {} THEN @ ELSE @ \cup {"isNoneEvent"}]
    /\ addedToLoop' = [addedToLoop EXCEPT ![c] = FALSE]
    /\ PollerRemove(c)

(* Channel's inline setters and tests (Channel.h); each setter ends in     *)
(* update().                                                               *)
EnableReading(c) ==
    SetEvents(c, events[c] \cup {"R"})

DisableReading(c) ==
    SetEvents(c, events[c] \ {"R"})

EnableWriting(c) ==
    SetEvents(c, events[c] \cup {"W"})

DisableWriting(c) ==
    SetEvents(c, events[c] \ {"W"})

DisableAll(c) ==
    SetEvents(c, {})

IsWriting(c) ==
    "W" \in events[c]

IsReading(c) ==
    "R" \in events[c]

(* sockets::write outcomes: n bytes accepted (n >= 0 after the code maps   *)
(* -1 to 0), whether errno was EPIPE/ECONNRESET, and the room left.        *)
WriteOutcomes(c, len) ==
    IF len = 0 THEN {[n |-> 0, fault |-> FALSE, room |-> room[c]]}
    ELSE IF peer[c] = "Reset" \/ wrShut[c]
    THEN {[n |-> 0, fault |-> TRUE, room |-> room[c]]}
    ELSE IF ~room[c] THEN {[n |-> 0, fault |-> FALSE, room |-> FALSE]}
    ELSE {o \in [n : 1..len, fault : {FALSE}, room : BOOLEAN] :
             o.n < len => ~o.room}

(* TCPServer::removeConnectionInLoop, run on the base loop.                *)
RemoveConnectionInLoop(c) ==
    /\ inMap' = [inMap EXCEPT ![c] = FALSE]
    /\ Post(Base, loopOf[c], Task("destroy", c, "shared", NoMsg))

(* TCPServer::removeConnection: runInLoop onto the base loop from loop l.  *)
RemoveConnection(l, c) ==
    IF l = Base THEN RemoveConnectionInLoop(c)
    ELSE Post(l, Base, Task("remove", c, "shared", NoMsg)) /\ UNCHANGED inMap

\* Mutant: closeCallback_ not called.
HandleCloseNoCloseCallback(l, c) ==
    /\ asserts' = [asserts EXCEPT ![c] =
           IF state[c] \in {"kConnected", "kDisconnecting"} THEN @ ELSE @ \cup {"handleClose"}]
    /\ state' = [state EXCEPT ![c] = "kDisconnected"]
    /\ DisableAll(c)
    /\ cbLog' = [cbLog EXCEPT ![c] = @ \o <<"down", "close">>]
    /\ UNCHANGED <<inMap, pending, wakeup>>
    /\ UNCHANGED <<loopOf, reading, ioVars, peerVars, poolVars, userVars, appVars>>

(* TCPConnection::handleClose on loop l.                                   *)
HandleClose(l, c) ==
    /\ asserts' = [asserts EXCEPT ![c] =
           IF state[c] \in {"kConnected", "kDisconnecting"} THEN @ ELSE @ \cup {"handleClose"}]
    /\ state' = [state EXCEPT ![c] = "kDisconnected"]
    /\ DisableAll(c)
    /\ cbLog' = [cbLog EXCEPT ![c] = @ \o <<"down", "close">>]
    /\ RemoveConnection(l, c)
    /\ UNCHANGED <<loopOf, reading, ioVars, peerVars, poolVars, userVars, appVars>>

\* Mutant: shutdownWrite without the isWriting() test.
ShutdownInLoopWhileWriting(c) ==
    wrShut' = [wrShut EXCEPT ![c] = TRUE]

(* TCPConnection::shutdownInLoop.                                          *)
ShutdownInLoop(c) ==
    wrShut' = [wrShut EXCEPT ![c] = @ \/ ~IsWriting(c)]

\* Mutant: appends the whole message, not the unwritten remainder.
SendInLoopWholeMessage(c, m) ==
    /\ IF state[c] = "kDisconnected"
       THEN UNCHANGED <<chanVars, ioVars, pending, wakeup>>
       ELSE LET direct == ~IsWriting(c) /\ outBuf[c] = <<>>
                old == Len(outBuf[c])
            IN \E o \in IF direct THEN WriteOutcomes(c, MsgLen[m])
                        ELSE {[n |-> 0, fault |-> FALSE, room |-> room[c]]} :
                 LET remaining == MsgLen[m] - o.n IN
                 /\ wire' = [wire EXCEPT ![c] = @ \o SubSeq(Bytes(m), 1, o.n)]
                 /\ room' = [room EXCEPT ![c] = o.room]
                 /\ UNCHANGED wrShut
                 /\ IF ~o.fault /\ remaining > 0
                    THEN /\ outBuf' = [outBuf EXCEPT ![c] =
                                         @ \o Bytes(m)]
                         /\ IF ~IsWriting(c)
                            THEN EnableWriting(c)
                            ELSE UNCHANGED chanVars
                         /\ IF old + remaining >= HighWaterMark /\ old < HighWaterMark
                               /\ HasHighWaterCb
                            THEN Post(loopOf[c], loopOf[c], Task("highWater", c, "shared", NoMsg))
                            ELSE UNCHANGED <<pending, wakeup>>
                    ELSE /\ UNCHANGED <<outBuf, chanVars>>
                         /\ IF remaining = 0 /\ HasWriteCompleteCb
                            THEN Post(loopOf[c], loopOf[c], Task("writeComplete", c, "shared", NoMsg))
                            ELSE UNCHANGED <<pending, wakeup>>

(* TCPConnection::sendInLoop(message, len).                                *)
SendInLoop(c, m) ==
    /\ IF state[c] = "kDisconnected"
       THEN UNCHANGED <<chanVars, ioVars, pending, wakeup>>
       ELSE LET direct == ~IsWriting(c) /\ outBuf[c] = <<>>
                old == Len(outBuf[c])
            IN \E o \in IF direct THEN WriteOutcomes(c, MsgLen[m])
                        ELSE {[n |-> 0, fault |-> FALSE, room |-> room[c]]} :
                 LET remaining == MsgLen[m] - o.n IN
                 /\ wire' = [wire EXCEPT ![c] = @ \o SubSeq(Bytes(m), 1, o.n)]
                 /\ room' = [room EXCEPT ![c] = o.room]
                 /\ UNCHANGED wrShut
                 /\ IF ~o.fault /\ remaining > 0
                    THEN /\ outBuf' = [outBuf EXCEPT ![c] =
                                         @ \o SubSeq(Bytes(m), o.n + 1, MsgLen[m])]
                         /\ IF ~IsWriting(c)
                            THEN EnableWriting(c)
                            ELSE UNCHANGED chanVars
                         /\ IF old + remaining >= HighWaterMark /\ old < HighWaterMark
                               /\ HasHighWaterCb
                            THEN Post(loopOf[c], loopOf[c], Task("highWater", c, "shared", NoMsg))
                            ELSE UNCHANGED <<pending, wakeup>>
                    ELSE /\ UNCHANGED <<outBuf, chanVars>>
                         /\ IF remaining = 0 /\ HasWriteCompleteCb
                            THEN Post(loopOf[c], loopOf[c], Task("writeComplete", c, "shared", NoMsg))
                            ELSE UNCHANGED <<pending, wakeup>>

\* Mutant: the drained buffer does not resume a pending shutdown.
HandleWriteNoShutdown(c) ==
    /\ IF IsWriting(c)
       THEN \E o \in WriteOutcomes(c, Len(outBuf[c])) :
              LET left == SubSeq(outBuf[c], o.n + 1, Len(outBuf[c])) IN
              /\ room' = [room EXCEPT ![c] = o.room]
              /\ IF o.n > 0
                 THEN /\ wire' = [wire EXCEPT ![c] = @ \o SubSeq(outBuf[c], 1, o.n)]
                      /\ outBuf' = [outBuf EXCEPT ![c] = left]
                      /\ IF left = <<>>
                         THEN /\ DisableWriting(c)
                              /\ IF HasWriteCompleteCb
                                 THEN Post(loopOf[c], loopOf[c], Task("writeComplete", c, "shared", NoMsg))
                                 ELSE UNCHANGED <<pending, wakeup>>
                              \* shutdownInLoop() after disableWriting(): not writing
                              /\ UNCHANGED wrShut
                         ELSE UNCHANGED <<chanVars, pending, wakeup, wrShut>>
                 ELSE UNCHANGED <<wire, outBuf, chanVars, pending, wakeup, wrShut>>
       ELSE UNCHANGED <<chanVars, ioVars, pending, wakeup>>
    /\ UNCHANGED <<connVars, peerVars, poolVars, userVars, appVars>>

\* Mutant: handleWrite drains the buffer without queueing writeCompleteCallback_.
HandleWriteNoCompleteCb(c) ==
    /\ IF IsWriting(c)
       THEN \E o \in WriteOutcomes(c, Len(outBuf[c])) :
              LET left == SubSeq(outBuf[c], o.n + 1, Len(outBuf[c])) IN
              /\ room' = [room EXCEPT ![c] = o.room]
              /\ IF o.n > 0
                 THEN /\ wire' = [wire EXCEPT ![c] = @ \o SubSeq(outBuf[c], 1, o.n)]
                      /\ outBuf' = [outBuf EXCEPT ![c] = left]
                      /\ IF left = <<>>
                         THEN /\ DisableWriting(c)
                              /\ UNCHANGED <<pending, wakeup>>
                              \* shutdownInLoop() after disableWriting(): not writing
                              /\ wrShut' = [wrShut EXCEPT ![c] =
                                              @ \/ state[c] = "kDisconnecting"]
                         ELSE UNCHANGED <<chanVars, pending, wakeup, wrShut>>
                 ELSE UNCHANGED <<wire, outBuf, chanVars, pending, wakeup, wrShut>>
       ELSE UNCHANGED <<chanVars, ioVars, pending, wakeup>>
    /\ UNCHANGED <<connVars, peerVars, poolVars, userVars, appVars>>

(* TCPConnection::handleWrite.                                             *)
HandleWrite(c) ==
    /\ IF IsWriting(c)
       THEN \E o \in WriteOutcomes(c, Len(outBuf[c])) :
              LET left == SubSeq(outBuf[c], o.n + 1, Len(outBuf[c])) IN
              /\ room' = [room EXCEPT ![c] = o.room]
              /\ IF o.n > 0
                 THEN /\ wire' = [wire EXCEPT ![c] = @ \o SubSeq(outBuf[c], 1, o.n)]
                      /\ outBuf' = [outBuf EXCEPT ![c] = left]
                      /\ IF left = <<>>
                         THEN /\ DisableWriting(c)
                              /\ IF HasWriteCompleteCb
                                 THEN Post(loopOf[c], loopOf[c], Task("writeComplete", c, "shared", NoMsg))
                                 ELSE UNCHANGED <<pending, wakeup>>
                              \* shutdownInLoop() after disableWriting(): not writing
                              /\ wrShut' = [wrShut EXCEPT ![c] =
                                              @ \/ state[c] = "kDisconnecting"]
                         ELSE UNCHANGED <<chanVars, pending, wakeup, wrShut>>
                 ELSE UNCHANGED <<wire, outBuf, chanVars, pending, wakeup, wrShut>>
       ELSE UNCHANGED <<chanVars, ioVars, pending, wakeup>>
    /\ UNCHANGED <<connVars, peerVars, poolVars, userVars, appVars>>

(* TCPConnection::handleRead: Buffer::readFd then message/close/error.     *)
HandleRead(l, c) ==
    \/ /\ errPending[c] \/ (inbound[c] = 0 /\ peer[c] = "Open")   \* n < 0
       /\ errPending' = [errPending EXCEPT ![c] = FALSE]          \* handleError
       /\ UNCHANGED <<connVars, chanVars, ioVars, inbound, peer, peerSendsLeft,
                      poolVars, pending, wakeup, userVars, appVars>>
    \/ /\ ~errPending[c] /\ inbound[c] > 0                        \* n > 0
       /\ inbound' = [inbound EXCEPT ![c] = 0]   \* defaultMessageCallback: retrieveAll
       /\ UNCHANGED <<connVars, chanVars, ioVars, peer, errPending, peerSendsLeft,
                      poolVars, pending, wakeup, userVars, appVars>>
    \/ /\ ~errPending[c] /\ inbound[c] = 0 /\ peer[c] # "Open"   \* n == 0
       /\ HandleClose(l, c)

(* TCPConnection::handleError: getSocketError reads (and clears) SO_ERROR. *)
HandleError(c) ==
    /\ errPending' = [errPending EXCEPT ![c] = FALSE]
    /\ UNCHANGED <<connVars, chanVars, ioVars, peer, inbound, peerSendsLeft,
                   poolVars, pending, wakeup, userVars, appVars>>

\* Mutant: getNextLoop without the wrap-around of next_.
GetNextLoopNoWrap(nl) ==
    IF loops_ = <<>> THEN [loop |-> Base, next |-> nl]
    ELSE [loop |-> loops_[nl + 1], next |-> nl + 1]

(* EventLoopThreadPool::getNextLoop: round-robin over loops_ (C index     *)
(* next_ is TLA+ index next_ + 1), the base loop when there are none.     *)
GetNextLoop(nl) ==
    IF loops_ = <<>> THEN [loop |-> Base, next |-> nl]
    ELSE [loop |-> loops_[nl + 1],
          next |-> IF nl + 1 >= Len(loops_) THEN 0 ELSE nl + 1]

(* TCPServer::newConnection, called by Acceptor::handleRead on the base    *)
(* loop; runInLoop(connectEstablished) runs inline when the io loop is    *)
(* the base loop and is queued to the worker otherwise.                   *)
NewConnection(c) ==
    LET g  == GetNextLoop(nextLoop)
        io == g.loop IN
    /\ state[c] = "none"
    /\ nextLoop' = g.next
    /\ loopOf' = [loopOf EXCEPT ![c] = io]
    /\ inMap' = [inMap EXCEPT ![c] = TRUE]
    /\ IF io = Base
       THEN /\ state' = [state EXCEPT ![c] = "kConnected"]
            /\ EnableReading(c)
            /\ cbLog' = [cbLog EXCEPT ![c] = <<"up">>]
            /\ UNCHANGED <<pending, wakeup>>
       ELSE /\ state' = [state EXCEPT ![c] = "kConnecting"]
            /\ Post(Base, io, Task("establish", c, "shared", NoMsg))
            /\ UNCHANGED <<chanVars, cbLog>>
    /\ UNCHANGED <<reading, asserts, ioVars, peerVars, userVars, appVars, loops_, thr, spc>>

-----------------------------------------------------------------------------
(* Start-up: the main thread, which is the base loop's thread, calls       *)
(* TCPServer::start before loop(). EventLoopThreadPool::start creates one  *)
(* EventLoopThread per worker and startLoop waits on cond_ until the new   *)
(* thread has built its EventLoop and published it in loop_. NoMsg, a      *)
(* model value distinct from every loop, stands for a null EventLoop*.     *)
Workers == Loops \ {Base}

PoolUnchanged == UNCHANGED <<connVars, chanVars, ioVars, peerVars, nextLoop,
                             loopVars, userVars, appVars>>

(* startLoop: thread_.start() launches threadFunc.                         *)
PoolSpawn ==
    /\ spc.at = "spawn" /\ spc.i <= NumThreads
    /\ thr' = [thr EXCEPT ![spc.i] = "init"]
    /\ spc' = [spc EXCEPT !.at = "check"]
    /\ UNCHANGED loops_ /\ PoolUnchanged

\* Mutant: startLoop returns loop_ without waiting for it to be set.
PoolCheckNoWait ==
    /\ spc.at = "check"
    /\ loops_' = Append(loops_, IF thr[spc.i] = "published" THEN spc.i ELSE NoMsg)
    /\ spc' = [at |-> "spawn", i |-> spc.i + 1]
    /\ UNCHANGED thr /\ PoolUnchanged

(* startLoop under mutex_: while (loop_ == nullptr) cond_.wait(); then the *)
(* pool appends the loop to loops_. The wait releases the mutex; a notify  *)
(* sends the thread back to the test.                                      *)
PoolCheck ==
    /\ spc.at = "check"
    /\ IF thr[spc.i] = "published"
       THEN /\ loops_' = Append(loops_, spc.i)
            /\ spc' = [at |-> "spawn", i |-> spc.i + 1]
       ELSE /\ spc' = [spc EXCEPT !.at = "wait"]
            /\ UNCHANGED loops_
    /\ UNCHANGED thr /\ PoolUnchanged

(* After the last thread: the thread-init callback on the base loop when   *)
(* there are no workers, then runInLoop(Acceptor::listen), inline on the  *)
(* base thread. From here the base thread runs its loop.                   *)
PoolListen ==
    /\ spc.at = "spawn" /\ spc.i > NumThreads
    /\ spc' = [spc EXCEPT !.at = "done"]
    /\ UNCHANGED <<loops_, thr>> /\ PoolUnchanged

\* Mutant: threadFunc sets loop_ but does not notify cond_.
ThreadPublishNoNotify(l) ==
    /\ thr[l] = "init"
    /\ thr' = [thr EXCEPT ![l] = "published"]
    /\ UNCHANGED spc
    /\ UNCHANGED loops_ /\ PoolUnchanged

(* EventLoopThread::threadFunc on worker l: build the EventLoop, run the   *)
(* init callback, then under mutex_ set loop_ and notify; loop() follows. *)
ThreadPublish(l) ==
    /\ thr[l] = "init"
    /\ thr' = [thr EXCEPT ![l] = "published"]
    /\ spc' = IF spc = [at |-> "wait", i |-> l] THEN [spc EXCEPT !.at = "check"]
              ELSE spc
    /\ UNCHANGED loops_ /\ PoolUnchanged

(* Whether loop l's thread is running EventLoop::loop.                     *)
LoopRunning(l) == IF l = Base THEN spc.at = "done" ELSE thr[l] = "published"

-----------------------------------------------------------------------------
(* EventLoop::loop: poll, dispatch every active channel, then             *)
(* doPendingFunctors, which swaps the queue out and runs it.               *)

(* The revents epoll reports for a registered channel (level-triggered).  *)
(* POLLHUP is left out when POLLIN is present: handleEventWithGuard then  *)
(* ignores it.                                                             *)
REvents(c) ==
    LET in  == "R" \in events[c] /\ (inbound[c] > 0 \/ peer[c] # "Open" \/ errPending[c])
        hup == peer[c] = "Reset" \/ (peer[c] = "Closed" /\ wrShut[c])
        out == "W" \in events[c] /\ (room[c] \/ peer[c] = "Reset" \/ wrShut[c])
    IN  {k \in {"IN", "HUP", "ERR", "OUT"} :
            \/ k = "IN" /\ in
            \/ k = "HUP" /\ hup /\ ~in
            \/ k = "ERR" /\ errPending[c]
            \/ k = "OUT" /\ out}

\* The channels epoll reports on loop l; the listening channel reads only
\* after Acceptor::listen has enabled it.
Ready(l) ==
    {<<"acceptor", "ACCEPT">> : x \in IF l = Base /\ spc.at = "done"
                                        /\ \E c \in Conns : state[c] = "none"
                                     THEN {1} ELSE {}}
    \cup {<<c, k>> \in Conns \X {"IN", "HUP", "ERR", "OUT"} :
            /\ state[c] # "none" /\ loopOf[c] = l /\ index[c] = "kAdded"
            /\ k \in REvents(c)}

(* Order of handleEventWithGuard: HUP, ERR, IN, OUT.                       *)
Prec(k) == CASE k = "HUP" -> 1 [] k = "ERR" -> 2 [] k = "IN" -> 3
             [] k = "OUT" -> 4 [] k = "ACCEPT" -> 0

Poll(l) ==
    /\ phase[l] = "poll"
    /\ Ready(l) # {} \/ wakeup[l]
    /\ phase' = [phase EXCEPT ![l] = "dispatch"]
    /\ active' = [active EXCEPT ![l] = Ready(l)]
    /\ wakeup' = [wakeup EXCEPT ![l] = FALSE]   \* EventLoop::handleRead
    /\ UNCHANGED <<connVars, chanVars, ioVars, peerVars, poolVars, pending,
                   batch, spent, userVars, appVars>>

Dispatching(l, e) ==
    /\ phase[l] = "dispatch"
    /\ e \in active[l]
    /\ \A f \in active[l] : f[1] = e[1] => Prec(f[2]) >= Prec(e[2])
    /\ active' = [active EXCEPT ![l] = @ \ {e}]
    /\ UNCHANGED <<batch, spent, phase>>

DispatchAccept(l) ==
    /\ Dispatching(l, <<"acceptor", "ACCEPT">>)
    /\ \E c \in Conns : NewConnection(c)

DispatchHup(l, c)   == Dispatching(l, <<c, "HUP">>) /\ HandleClose(l, c)
DispatchError(l, c) == Dispatching(l, <<c, "ERR">>) /\ HandleError(c)
DispatchRead(l, c)  == Dispatching(l, <<c, "IN">>)  /\ HandleRead(l, c)
DispatchWrite(l, c) == Dispatching(l, <<c, "OUT">>) /\ HandleWrite(c)

(* doPendingFunctors: swap pendingFunctors_ into a local vector.           *)
EndDispatch(l) ==
    /\ phase[l] = "dispatch"
    /\ active[l] = {}
    /\ batch' = [batch EXCEPT ![l] = pending[l]]
    /\ pending' = [pending EXCEPT ![l] = <<>>]
    /\ phase' = [phase EXCEPT ![l] = IF pending[l] = <<>> THEN "poll" ELSE "drain"]
    /\ UNCHANGED <<connVars, chanVars, ioVars, peerVars, poolVars, spent, active, wakeup,
                   userVars, appVars>>

(* Run the next functor of the batch; the vector, and the connection      *)
(* pointers its functors hold, is destroyed when the last one returns.    *)
Running(l, op) ==
    LET t == Head(batch[l]) IN
    /\ phase[l] = "drain"
    /\ t.op = op
    /\ batch' = [batch EXCEPT ![l] = Tail(@)]
    /\ spent' = [spent EXCEPT ![l] = IF Tail(batch[l]) = <<>> THEN <<>> ELSE Append(@, t)]
    /\ phase' = [phase EXCEPT ![l] = IF Tail(batch[l]) = <<>> THEN "poll" ELSE "drain"]
    /\ UNCHANGED active

(* TCPConnection::connectEstablished.                                      *)
RunEstablish(l) ==
    LET c == Head(batch[l]).conn IN
    /\ Running(l, "establish")
    /\ state' = [state EXCEPT ![c] = "kConnected"]
    /\ EnableReading(c)
    /\ cbLog' = [cbLog EXCEPT ![c] = @ \o <<"up">>]
    /\ UNCHANGED <<loopOf, asserts, reading, inMap, ioVars, peerVars, poolVars, pending, wakeup, userVars, appVars>>

\* Mutant: channel_->remove() only inside the kConnected branch.
RunDestroyRemoveInBranch(l) ==
    LET c == Head(batch[l]).conn IN
    /\ Running(l, "destroy")
    /\ IF state[c] = "kConnected"
       THEN /\ state' = [state EXCEPT ![c] = "kDisconnected"]
            /\ cbLog' = [cbLog EXCEPT ![c] = @ \o <<"down">>]
            /\ events' = [events EXCEPT ![c] = {}]
            /\ ChannelRemove(c)
       ELSE UNCHANGED <<state, cbLog, chanVars, asserts>>
    /\ UNCHANGED <<loopOf, reading, inMap, ioVars, peerVars, poolVars, pending, wakeup, userVars, appVars>>

(* TCPConnection::connectDestroyed: disableAll if still connected, then   *)
(* Channel::remove -> EPollPoller::removeChannel.                          *)
RunDestroy(l) ==
    LET c == Head(batch[l]).conn IN
    /\ Running(l, "destroy")
    /\ IF state[c] = "kConnected"
       THEN /\ state' = [state EXCEPT ![c] = "kDisconnected"]
            /\ cbLog' = [cbLog EXCEPT ![c] = @ \o <<"down">>]
            /\ events' = [events EXCEPT ![c] = {}]
       ELSE UNCHANGED <<state, cbLog, events>>
    /\ ChannelRemove(c)
    /\ UNCHANGED <<loopOf, reading, inMap, ioVars, peerVars, poolVars, pending, wakeup, userVars, appVars>>

RunRemove(l) ==
    /\ Running(l, "remove")
    /\ RemoveConnectionInLoop(Head(batch[l]).conn)
    /\ UNCHANGED <<state, loopOf, asserts, reading, cbLog, chanVars, ioVars, peerVars, poolVars,
                   userVars, appVars>>

RunSend(l) ==
    /\ Running(l, "send")
    /\ SendInLoop(Head(batch[l]).conn, Head(batch[l]).msg)
    /\ UNCHANGED <<connVars, peerVars, poolVars, userVars, appVars>>

RunShutdown(l) ==
    /\ Running(l, "shutdown")
    /\ ShutdownInLoop(Head(batch[l]).conn)
    /\ UNCHANGED <<connVars, chanVars, outBuf, wire, room, peerVars, poolVars,
                   pending, wakeup, userVars, appVars>>

\* Mutant: forceCloseInLoop without its state test.
RunForceCloseUnchecked(l) ==
    LET c == Head(batch[l]).conn IN
    /\ Running(l, "forceClose")
    /\ HandleClose(l, c)

(* TCPConnection::forceCloseInLoop.                                        *)
RunForceClose(l) ==
    LET c == Head(batch[l]).conn IN
    /\ Running(l, "forceClose")
    /\ IF state[c] \in {"kConnected", "kDisconnecting"}
       THEN HandleClose(l, c)
       ELSE UNCHANGED <<connVars, chanVars, ioVars, peerVars, poolVars, pending, wakeup,
                        userVars, appVars>>

(* TCPConnection::startReadInLoop / stopReadInLoop.                         *)
StartReadInLoop(c) ==
    IF ~reading[c] \/ ~IsReading(c)
    THEN EnableReading(c) /\ reading' = [reading EXCEPT ![c] = TRUE]
    ELSE UNCHANGED <<chanVars, reading>>

StopReadInLoop(c) ==
    IF reading[c] \/ IsReading(c)
    THEN DisableReading(c) /\ reading' = [reading EXCEPT ![c] = FALSE]
    ELSE UNCHANGED <<chanVars, reading>>

\* Mutant: the write-complete callback resumes reading without testing connected().
RunWriteCompleteUnchecked(l) ==
    /\ Running(l, "writeComplete")
    /\ IF \/ FlowControl = "naive"
          \/ FlowControl = "checked"
       THEN StartReadInLoop(Head(batch[l]).conn)
       ELSE UNCHANGED <<chanVars, reading>>
    /\ UNCHANGED <<state, loopOf, asserts, inMap, cbLog, ioVars, peerVars, poolVars, pending, wakeup,
                   userVars, appVars>>

(* writeCompleteCallback_ / highWaterMarkCallback_, queued with a shared   *)
(* pointer.  With FlowControl the application throttles input from them,  *)
(* calling startRead/stopRead, which run inline on the loop thread.       *)
RunWriteComplete(l) ==
    /\ Running(l, "writeComplete")
    /\ IF \/ FlowControl = "naive"
          \/ FlowControl = "checked" /\ state[Head(batch[l]).conn] = "kConnected"
       THEN StartReadInLoop(Head(batch[l]).conn)
       ELSE UNCHANGED <<chanVars, reading>>
    /\ UNCHANGED <<state, loopOf, asserts, inMap, cbLog, ioVars, peerVars, poolVars, pending, wakeup,
                   userVars, appVars>>

RunHighWater(l) ==
    /\ Running(l, "highWater")
    /\ IF \/ FlowControl = "naive"
          \/ FlowControl = "checked" /\ state[Head(batch[l]).conn] = "kConnected"
       THEN StopReadInLoop(Head(batch[l]).conn)
       ELSE UNCHANGED <<chanVars, reading>>
    /\ UNCHANGED <<state, loopOf, asserts, inMap, cbLog, ioVars, peerVars, poolVars, pending, wakeup,
                   userVars, appVars>>

-----------------------------------------------------------------------------
(* Application code on the io loop thread (inside a callback of this      *)
(* loop): send/shutdown/forceClose take their in-loop-thread branches.    *)
InCallback(c) ==
    /\ state[c] # "none" /\ inMap[c]
    /\ phase[loopOf[c]] = "dispatch"

(* TCPConnection::send(const std::string&) on the loop thread.            *)
LoopSend(c, m) ==
    /\ InCallback(c)
    /\ m \in unsent[c] /\ Sender[m] = "loop"
    /\ unsent' = [unsent EXCEPT ![c] = @ \ {m}]
    /\ IF state[c] = "kConnected"
       THEN /\ issued' = [issued EXCEPT ![c]["loop"] = Append(@, m)]
            /\ SendInLoop(c, m)
       ELSE UNCHANGED <<issued, chanVars, ioVars, pending, wakeup>>
    /\ UNCHANGED <<connVars, peerVars, poolVars, batch, spent, phase, active,
                   userVars, opsLeft>>

(* TCPConnection::shutdown on the loop thread: runInLoop runs inline.     *)
LoopShutdown(c) ==
    /\ InCallback(c)
    /\ "shutdown" \in opsLeft[c] /\ "shutdown" \in LoopOps
    /\ opsLeft' = [opsLeft EXCEPT ![c] = @ \ {"shutdown"}]
    /\ IF state[c] = "kConnected"
       THEN /\ state' = [state EXCEPT ![c] = "kDisconnecting"]
            /\ ShutdownInLoop(c)
       ELSE UNCHANGED <<state, wrShut>>
    /\ UNCHANGED <<loopOf, asserts, reading, inMap, cbLog, chanVars, outBuf, wire, room, peerVars,
                   poolVars, loopVars, userVars, unsent, issued>>

\* Mutant: forceClose sets kDisconnecting whatever the state.
LoopForceCloseUnguarded(c) ==
    /\ InCallback(c)
    /\ "forceClose" \in opsLeft[c] /\ "forceClose" \in LoopOps
    /\ opsLeft' = [opsLeft EXCEPT ![c] = @ \ {"forceClose"}]
    /\ state' = [state EXCEPT ![c] = "kDisconnecting"]
    /\ Post(loopOf[c], loopOf[c], Task("forceClose", c, "shared", NoMsg))
    /\ UNCHANGED <<loopOf, asserts, reading, inMap, cbLog, chanVars, ioVars, peerVars, poolVars,
                   batch, spent, phase, active, userVars, unsent, issued>>

(* TCPConnection::forceClose on the loop thread.                           *)
LoopForceClose(c) ==
    /\ InCallback(c)
    /\ "forceClose" \in opsLeft[c] /\ "forceClose" \in LoopOps
    /\ opsLeft' = [opsLeft EXCEPT ![c] = @ \ {"forceClose"}]
    /\ IF state[c] \in {"kConnected", "kDisconnecting"}
       THEN /\ state' = [state EXCEPT ![c] = "kDisconnecting"]
            /\ Post(loopOf[c], loopOf[c], Task("forceClose", c, "shared", NoMsg))
       ELSE UNCHANGED <<state, pending, wakeup>>
    /\ UNCHANGED <<loopOf, asserts, reading, inMap, cbLog, chanVars, ioVars, peerVars, poolVars,
                   batch, spent, phase, active, userVars, unsent, issued>>

-----------------------------------------------------------------------------
(* User threads.  A user thread obtains a TCPConnectionPtr while the      *)
(* connection is up and may drop it at any time.  Each call is split     *)
(* after its unsynchronised test of state_: the loop thread may run in    *)
(* between.                                                                *)
Acquire(u, c) ==
    /\ upc[u] = "idle" /\ c \notin hold[u]
    /\ cbLog[c] = <<"up">>
    /\ hold' = [hold EXCEPT ![u] = @ \cup {c}]
    /\ UNCHANGED <<connVars, chanVars, ioVars, peerVars, poolVars, loopVars,
                   upc, ucon, umsg, appVars>>

Release(u, c) ==
    /\ UserReleases
    /\ upc[u] = "idle" /\ c \in hold[u]
    /\ hold' = [hold EXCEPT ![u] = @ \ {c}]
    /\ UNCHANGED <<connVars, chanVars, ioVars, peerVars, poolVars, loopVars,
                   upc, ucon, umsg, appVars>>

(* The state_ tests of send, shutdown and forceClose off the loop thread. *)
UserCall(u, c) ==
    /\ upc[u] = "idle" /\ c \in hold[u]
    /\ \/ \E m \in unsent[c] :
            /\ Sender[m] = u
            /\ unsent' = [unsent EXCEPT ![c] = @ \ {m}]
            /\ IF state[c] = "kConnected"
               THEN /\ issued' = [issued EXCEPT ![c][u] = Append(@, m)]
                    /\ upc' = [upc EXCEPT ![u] = "send"]
                    /\ umsg' = [umsg EXCEPT ![u] = m]
               ELSE UNCHANGED <<issued, upc, umsg>>
            /\ UNCHANGED opsLeft
       \/ \E op \in opsLeft[c] \cap UserOps :
            /\ opsLeft' = [opsLeft EXCEPT ![c] = @ \ {op}]
            /\ IF \/ op = "shutdown" /\ state[c] = "kConnected"
                  \/ op = "forceClose" /\ state[c] \in {"kConnected", "kDisconnecting"}
               THEN upc' = [upc EXCEPT ![u] = op]
               ELSE UNCHANGED upc
            /\ UNCHANGED <<unsent, issued, umsg>>
    /\ ucon' = [ucon EXCEPT ![u] = c]
    /\ UNCHANGED <<connVars, chanVars, ioVars, peerVars, poolVars, loopVars,
                   hold>>

(* The rest of the call: runInLoop/queueInLoop from a non-loop thread.    *)
(* send and shutdown bind the raw this pointer, forceClose a shared one.  *)
UserPost(u) ==
    LET c == ucon[u] IN
    /\ upc[u] # "idle"
    /\ upc' = [upc EXCEPT ![u] = "idle"]
    /\ IF upc[u] = "send"
       THEN /\ Post(u, loopOf[c], Task("send", c, "raw", umsg[u]))
            /\ UNCHANGED state
       ELSE /\ state' = [state EXCEPT ![c] = "kDisconnecting"]
            /\ Post(u, loopOf[c], Task(upc[u], c,
                                   IF upc[u] = "forceClose" THEN "shared" ELSE "raw",
                                   NoMsg))
    /\ UNCHANGED <<loopOf, asserts, reading, inMap, cbLog, chanVars, ioVars, peerVars, poolVars,
                   batch, spent, phase, active, ucon, umsg, hold, appVars>>

-----------------------------------------------------------------------------
(* The peer and its kernel.                                                *)
PeerSend(c) ==
    /\ state[c] # "none" /\ peer[c] = "Open" /\ peerSendsLeft[c] > 0
    /\ inbound' = [inbound EXCEPT ![c] = @ + 1]
    /\ peerSendsLeft' = [peerSendsLeft EXCEPT ![c] = @ - 1]
    /\ UNCHANGED <<peer, errPending>>

PeerClose(c) ==
    /\ "Closed" \in PeerEnds /\ state[c] # "none" /\ peer[c] = "Open"
    /\ peer' = [peer EXCEPT ![c] = "Closed"]
    /\ UNCHANGED <<inbound, errPending, peerSendsLeft>>

PeerReset(c) ==
    /\ "Reset" \in PeerEnds /\ state[c] # "none" /\ peer[c] # "Reset"
    /\ peer' = [peer EXCEPT ![c] = "Reset"]
    /\ inbound' = [inbound EXCEPT ![c] = 0]
    /\ errPending' = [errPending EXCEPT ![c] = TRUE]
    /\ UNCHANGED peerSendsLeft

(* The peer reads, freeing room in our send buffer.                        *)
PeerDrain(c) ==
    /\ state[c] # "none" /\ ~room[c] /\ peer[c] # "Reset"
    /\ room' = [room EXCEPT ![c] = TRUE]
    /\ UNCHANGED <<peerVars, outBuf, wire, wrShut>>

PeerStep(c) ==
    /\ \/ PeerSend(c) /\ UNCHANGED ioVars
       \/ PeerClose(c) /\ UNCHANGED ioVars
       \/ PeerReset(c) /\ UNCHANGED ioVars
       \/ PeerDrain(c)
    /\ UNCHANGED <<connVars, chanVars, poolVars, loopVars, userVars, appVars>>

-----------------------------------------------------------------------------
(* The connection's reference count: TCPServer::connections_, a           *)
(* shared_from_this() bound into a queued or not-yet-destroyed functor,   *)
(* or a user thread's TCPConnectionPtr.                                    *)
RefHeld(c) ==
    \/ inMap[c]
    \/ \E u \in UserThreads : c \in hold[u]
    \/ \E l \in Loops : \E t \in Range(pending[l] \o batch[l] \o spent[l]) :
          t.conn = c /\ t.ref = "shared"

Init ==
    /\ state = [c \in Conns |-> "none"]
    /\ loopOf = [c \in Conns |-> Base]
    /\ inMap = [c \in Conns |-> FALSE]
    /\ cbLog = [c \in Conns |-> <<>>]
    /\ events = [c \in Conns |-> {}]
    /\ reading = [c \in Conns |-> FALSE]
    /\ index = [c \in Conns |-> "kNew"]
    /\ inPoller = [c \in Conns |-> FALSE]
    /\ addedToLoop = [c \in Conns |-> FALSE]
    /\ outBuf = [c \in Conns |-> <<>>]
    /\ wire = [c \in Conns |-> <<>>]
    /\ wrShut = [c \in Conns |-> FALSE]
    /\ room = [c \in Conns |-> TRUE]
    /\ peer = [c \in Conns |-> "Open"]
    /\ inbound = [c \in Conns |-> 0]
    /\ errPending = [c \in Conns |-> FALSE]
    /\ peerSendsLeft = [c \in Conns |-> PeerSends]
    /\ nextLoop = 0
    /\ loops_ = <<>>
    /\ thr = [l \in Workers |-> "none"]
    /\ spc = [at |-> "spawn", i |-> 1]
    /\ pending = [l \in Loops |-> <<>>]
    /\ wakeup = [l \in Loops |-> FALSE]
    /\ batch = [l \in Loops |-> <<>>]
    /\ spent = [l \in Loops |-> <<>>]
    /\ phase = [l \in Loops |-> "poll"]
    /\ active = [l \in Loops |-> {}]
    /\ upc = [u \in UserThreads |-> "idle"]
    /\ ucon = [u \in UserThreads |-> NoMsg]
    /\ umsg = [u \in UserThreads |-> NoMsg]
    /\ hold = [u \in UserThreads |-> {}]
    /\ unsent = [c \in Conns |-> Msgs]
    /\ issued = [c \in Conns |-> [s \in Senders |-> <<>>]]
    /\ opsLeft = [c \in Conns |-> LoopOps \cup UserOps]
    /\ freed = [c \in Conns |-> FALSE]
    /\ asserts = [c \in Conns |-> {}]

(* One step of loop l's thread.                                            *)
LoopStep(l) ==
    \/ l = Base /\ (PoolSpawn \/ PoolCheck \/ PoolListen)
    \/ l # Base /\ ThreadPublish(l)
    \/ LoopRunning(l) /\ Poll(l)
    \/ l = Base /\ DispatchAccept(l)
    \/ \E c \in Conns : \/ DispatchHup(l, c)
                        \/ DispatchError(l, c)
                        \/ DispatchRead(l, c)
                        \/ DispatchWrite(l, c)
    \/ EndDispatch(l)
    \/ RunEstablish(l) \/ RunDestroy(l) \/ RunRemove(l) \/ RunSend(l)
    \/ RunShutdown(l) \/ RunForceClose(l) \/ RunWriteComplete(l) \/ RunHighWater(l)

AppStep ==
    \E c \in Conns : \/ \E m \in Msgs : LoopSend(c, m)
                     \/ LoopShutdown(c)
                     \/ LoopForceClose(c)

UserStep(u) ==
    \/ \E c \in Conns : Acquire(u, c) \/ Release(u, c) \/ UserCall(u, c)
    \/ UserPost(u)

(* Every loop is blocked in epoll_wait with nothing ready (its eventfd    *)
(* included) and no user thread is inside a call: nothing runs until the  *)
(* peer or a user acts.                                                    *)
Quiescent ==
    /\ \A l \in Loops : phase[l] = "poll" /\ Ready(l) = {} /\ ~wakeup[l]
    /\ \A u \in UserThreads : upc[u] = "idle"
    /\ UNCHANGED vars

(* The object is destroyed in the step that drops its last reference.     *)
Reclaim ==
    freed' = [c \in Conns |-> freed[c] \/ (state'[c] # "none" /\ ~RefHeld(c)')]

Next ==
    \/ /\ \/ \E l \in Loops : LoopStep(l)
          \/ AppStep
          \/ \E u \in UserThreads : UserStep(u)
          \/ \E c \in Conns : PeerStep(c)
       /\ Reclaim
    \/ Quiescent

(* Every loop thread keeps running its loop, a user thread in the middle  *)
(* of a call finishes it, and a peer that is not reset keeps reading.     *)
Fairness ==
    /\ \A l \in Loops : WF_vars(LoopStep(l) /\ Reclaim)
    /\ \A u \in UserThreads : WF_vars(UserPost(u) /\ Reclaim)
    /\ \A c \in Conns : WF_vars(PeerStep(c) /\ PeerDrain(c) /\ Reclaim)

Spec == Init /\ [][Next]_vars /\ Fairness

-----------------------------------------------------------------------------
\* TCPConnection::StateE, and "none" before the connection is created.
States == {"none", "kConnecting", "kConnected", "kDisconnecting", "kDisconnected"}
TaskOps == {"establish", "destroy", "remove", "send", "shutdown", "forceClose",
            "writeComplete", "highWater"}
Tasks == [op : TaskOps, conn : Conns, ref : {"shared", "raw"}, msg : Msgs \cup {NoMsg}]

TypeOK ==
    /\ state \in [Conns -> States]
    /\ loopOf \in [Conns -> Loops]
    /\ inMap \in [Conns -> BOOLEAN]
    /\ cbLog \in [Conns -> Seq({"up", "down", "close"})]
    /\ events \in [Conns -> SUBSET {"R", "W"}] /\ reading \in [Conns -> BOOLEAN]
    /\ index \in [Conns -> {"kNew", "kAdded", "kDeleted"}]
    /\ inPoller \in [Conns -> BOOLEAN] /\ addedToLoop \in [Conns -> BOOLEAN]
    /\ outBuf \in [Conns -> Seq(Msgs \X Nat)] /\ wire \in [Conns -> Seq(Msgs \X Nat)]
    /\ wrShut \in [Conns -> BOOLEAN] /\ room \in [Conns -> BOOLEAN]
    /\ peer \in [Conns -> {"Open", "Closed", "Reset"}]
    /\ inbound \in [Conns -> 0..PeerSends] /\ errPending \in [Conns -> BOOLEAN]
    /\ nextLoop \in IF NumThreads = 0 THEN {0} ELSE 0..NumThreads - 1
    /\ loops_ \in Seq(Workers)
    /\ thr \in [Workers -> {"none", "init", "published"}]
    /\ spc \in [at : {"spawn", "check", "wait", "done"}, i : 1..NumThreads + 1]
    /\ pending \in [Loops -> Seq(Tasks)] /\ wakeup \in [Loops -> BOOLEAN]
    /\ batch \in [Loops -> Seq(Tasks)]
    /\ spent \in [Loops -> Seq(Tasks)]
    /\ phase \in [Loops -> {"poll", "dispatch", "drain"}]
    /\ upc \in [UserThreads -> {"idle", "send", "shutdown", "forceClose"}]
    /\ hold \in [UserThreads -> SUBSET Conns]
    /\ unsent \in [Conns -> SUBSET Msgs] /\ opsLeft \in [Conns -> SUBSET Ops]
    /\ freed \in [Conns -> BOOLEAN]
    /\ asserts \in [Conns -> SUBSET {"handleClose", "isNoneEvent"}]

(* The start-up handshake hands out only running loops: every entry of   *)
(* loops_ is a worker whose threadFunc has published its EventLoop (so    *)
(* startLoop never returns a null loop_), and every accepted connection  *)
(* is served by a loop that is running loop(), so the establish functor  *)
(* getNextLoop's result is given is eventually run.                       *)
LoopsRunning ==
    /\ \A k \in DOMAIN loops_ : loops_[k] \in Workers /\ LoopRunning(loops_[k])
    /\ \A c \in Conns : state[c] # "none" =>
          loopOf[c] \in Loops /\ LoopRunning(loopOf[c])

(* The start-up handshake completes: every startLoop's wait on cond_ is  *)
(* woken by its thread's threadFunc, the pool holds every worker, and    *)
(* TCPServer::start reaches Acceptor::listen.                            *)
ServerStarts ==
    <>(spc.at = "done")

(* The connection callback sees the connection come up once and go down  *)
(* once, and the close callback (TCPServer::removeConnection) runs once,  *)
(* after it: handleClose, forceCloseInLoop and connectDestroyed must not  *)
(* report a close twice (a second one would also trip the assert(n == 1) *)
(* of removeConnectionInLoop), and handleClose is never entered in a      *)
(* state other than kConnected or kDisconnecting, its assert.              *)
CallbacksInOrder ==
    \A c \in Conns : /\ IsPrefix(cbLog[c], <<"up", "down", "close">>)
                    /\ "handleClose" \notin asserts[c]

(* connectDestroyed leaves the channel with no events when it removes it *)
(* (Channel::remove's assert(isNoneEvent()): handleClose's disableAll, or *)
(* its own when still connected), and when the last TCPConnectionPtr is   *)
(* dropped the destructors' assertions hold: ~TCPConnection's state_ ==   *)
(* kDisconnected, ~Channel's !addedToLoop_, and the poller no longer maps *)
(* the fd to the channel.                                                  *)
DestroyedCleanly ==
    \A c \in Conns :
        /\ "isNoneEvent" \notin asserts[c]
        /\ freed[c] => /\ state[c] = "kDisconnected"
                       /\ ~addedToLoop[c] /\ ~inPoller[c] /\ index[c] = "kNew"

(* Bytes reach the socket exactly once and in the order each thread      *)
(* called send(), across direct writes in sendInLoop, partial writes      *)
(* buffered in outputBuffer_ and the flushes of handleWrite.              *)
PerSenderOrder ==
    \A c \in Conns : \A s \in Senders :
        IsPrefix(SelectSeq(wire[c], LAMBDA b : Sender[b[1]] = s),
                 Flat(issued[c][s]))

(* On a connection that is still open, shutdownWrite is issued only once  *)
(* outputBuffer_ is empty: a shutdown() while data is queued, from any     *)
(* thread, is deferred to handleWrite, and no later send slips data into  *)
(* the buffer behind the FIN.                                              *)
ShutdownAfterFlush ==
    \A c \in Conns : wrShut[c] /\ state[c] # "kDisconnected" => outBuf[c] = <<>>

(* No queued functor refers to a destroyed connection.                     *)
NoUseAfterFree ==
    \A c \in Conns : freed[c] =>
        \A l \in Loops : \A t \in Range(pending[l] \o batch[l]) : t.conn # c

Rank(st) == CASE st = "none" -> 0 [] st = "kConnecting" -> 1 [] st = "kConnected" -> 2
              [] st = "kDisconnecting" -> 3 [] st = "kDisconnected" -> 4

(* state_ only moves forward: Connecting, Connected, Disconnecting,       *)
(* Disconnected; in particular shutdown() and forceClose() never revive a *)
(* connection that handleClose already marked disconnected.              *)
StateMonotone ==
    [][\A c \in Conns : Rank(state'[c]) >= Rank(state[c])]_vars

(* A shutdown eventually takes effect: the output buffer is flushed and   *)
(* the write side shut down, or the connection closes.                    *)
ShutdownCompletes ==
    \A c \in Conns : state[c] = "kDisconnecting" ~>
                        (wrShut[c] \/ state[c] = "kDisconnected")

(* Flow control built on the two callbacks never throttles a live         *)
(* connection for good: once the high-water callback (queued when         *)
(* sendInLoop takes outputBuffer_ across highWaterMark_) has stopped      *)
(* reading, the write-complete callback (queued when handleWrite drains   *)
(* the buffer) resumes it, unless the connection is going down.           *)
ReadingResumes ==
    \A c \in Conns : (state[c] = "kConnected" /\ ~IsReading(c)) ~>
                        (IsReading(c) \/ state[c] # "kConnected")

(* Every functor queued on a loop is eventually run: queueInLoop's wakeup *)
(* rule leaves none in pendingFunctors_ while the loop sleeps in           *)
(* epoll_wait, whether it was queued by another thread, by a handler, or   *)
(* by a functor during doPendingFunctors (a sendInLoop queueing the        *)
(* write-complete or high-water callback).                                 *)
FunctorsRun ==
    \A l \in Loops : pending[l] # <<>> ~> pending[l] = <<>>

(* A connection the peer closed or reset is eventually removed from the  *)
(* server and destroyed.                                                   *)
ClosedConnectionsReleased ==
    \A c \in Conns : peer[c] # "Open" ~> freed[c]
=============================================================================
