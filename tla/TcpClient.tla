------------------------------ MODULE TcpClient ------------------------------
(***************************************************************************)
(* The client side of polaris: TCPClient (TCPClient.cc) and its Connector, *)
(* which opens the socket, connects, and on failure retries after a delay *)
(* through the TimerQueue. One EventLoop runs the connector, the          *)
(* connections and the timers; one application thread calls connect(),    *)
(* disconnect() and stop(), which the spec names as the client's          *)
(* cross-thread entry points.                                              *)
(*                                                                         *)
(* Connector.cc is not in the repository: the Connector is modelled from   *)
(* spec.md 4.7 and the declarations of Connector.h. A connection is       *)
(* reduced to its TCPConnection state and whether its write side is shut  *)
(* down; its data path is the subject of TcpServer.                       *)
(***************************************************************************)
EXTENDS Naturals, Sequences

CONSTANTS
    Retry,          \* TCPClient::retry_ (enableRetry)
    Scripts,        \* the application thread's possible sequences of calls
    MaxConns,       \* bound on TCPClient::nextConnId_: connections made
    Refusals,       \* connect attempts the server may refuse
    PeerCloses      \* times the server may close an established connection

ASSUME Retry \in BOOLEAN /\ MaxConns \in Nat \ {0}
ASSUME Scripts \subseteq Seq({"connect", "disconnect", "stop"})
ASSUME MaxConns >= PeerCloses + 1  \* so that the bound on nextConnId_ never binds

Conns == 1..MaxConns
Null  == 0                \* an empty TCPConnectionPtr

VARIABLES
    connect_,       \* TCPClient::connect_
    connection_,    \* TCPClient::connection_ (Null or a connection id)
    nextConnId_,    \* TCPClient::nextConnId_
    kstate,         \* Connector::state_
    kconnect,       \* Connector::connect_
    kchannel,       \* Connector::channel_ watches an in-progress connect
    timers,         \* retry timers (runAfter(startInLoop)) not yet fired
    conn,           \* TCPConnection::state_ per connection, "none" before it exists
    wrShut,         \* the connection's write side has been shut down
    fin,            \* the server has closed the connection
    pending,        \* the loop's pendingFunctors_
    script,         \* the calls the application thread makes, in order
    upc,            \* index in script of its next call
    refusalsLeft, closesLeft,
    aborted         \* an assert() failed

vars == <<connect_, connection_, nextConnId_, kstate, kconnect, kchannel,
          timers, conn, wrShut, fin, pending, script, upc, refusalsLeft, closesLeft,
          aborted>>
clientVars    == <<connect_, connection_, nextConnId_>>
connectorVars == <<kstate, kconnect, kchannel, timers>>
connVars      == <<conn, wrShut, fin>>
envVars       == <<refusalsLeft, closesLeft>>
appVars       == <<script, upc>>

Task(op, c) == [op |-> op, conn |-> c]

Init ==
    /\ connect_ = TRUE /\ connection_ = Null /\ nextConnId_ = 1
    /\ kstate = "kDisconnected" /\ kconnect = FALSE /\ kchannel = FALSE
    /\ timers = 0
    /\ conn = [c \in Conns |-> "none"]
    /\ wrShut = [c \in Conns |-> FALSE] /\ fin = [c \in Conns |-> FALSE]
    /\ pending = <<>> /\ script \in Scripts /\ upc = 1
    /\ refusalsLeft = Refusals /\ closesLeft = PeerCloses
    /\ aborted = FALSE

-----------------------------------------------------------------------------
(* Connector, on the loop thread. Each operator maps the record           *)
(* [kstate, kconnect, kchannel, timers, ok] of the Connector (ok turns     *)
(* false when an assert fails) to the one the call leaves behind.          *)
K == [kstate |-> kstate, kconnect |-> kconnect, kchannel |-> kchannel,
      timers |-> timers, ok |-> TRUE]

\* Mutant: retry closes the socket but schedules no new attempt.
RetriedNoTimer(k) ==
    [k EXCEPT !.kstate = "kDisconnected", !.kchannel = FALSE]

(* retry: close the socket, back to kDisconnected, and while connect_      *)
(* holds schedule startInLoop after retryDelayMs_ (which then doubles).    *)
Retried(k) ==
    [k EXCEPT !.kstate = "kDisconnected", !.kchannel = FALSE,
              !.timers = IF k.kconnect THEN @ + 1 ELSE @]

(* connect: a non-blocking connect. Success moves to kConnecting with      *)
(* write interest on the socket (connecting); a refusal is retried.        *)
Connect(k, refused) ==
    IF refused THEN Retried(k)
    ELSE [k EXCEPT !.kstate = "kConnecting", !.kchannel = TRUE]

(* startInLoop: assert(state_ == kDisconnected); connect if connect_.      *)
StartInLoop(k, refused) ==
    IF k.kstate # "kDisconnected" THEN [k EXCEPT !.ok = FALSE]
    ELSE IF k.kconnect THEN Connect(k, refused) ELSE k

\* Mutant: restart without resetting state_ to kDisconnected.
RestartKeepsState(k, refused) ==
    StartInLoop([k EXCEPT !.kconnect = TRUE], refused)

(* restart: state_ = kDisconnected, retryDelayMs_ reset, connect_ = true,  *)
(* then startInLoop.                                                       *)
Restart(k, refused) ==
    StartInLoop([k EXCEPT !.kstate = "kDisconnected", !.kconnect = TRUE], refused)

(* Whether a connect attempt may be refused: while refusals are left, and  *)
(* only when startInLoop on k makes an attempt.                            *)
Outcomes == IF refusalsLeft > 0 THEN {FALSE, TRUE} ELSE {FALSE}
OutcomesOf(k) == IF k.kstate = "kDisconnected" /\ k.kconnect THEN Outcomes ELSE {FALSE}

SetK(k) ==
    /\ kstate' = k.kstate /\ kconnect' = k.kconnect
    /\ kchannel' = k.kchannel /\ timers' = k.timers

SpendRefusal(refused) ==
    refusalsLeft' = IF refused THEN refusalsLeft - 1 ELSE refusalsLeft

-----------------------------------------------------------------------------
(* The application thread.                                                 *)
Call(name) ==
    /\ upc <= Len(script) /\ script[upc] = name
    /\ upc' = upc + 1 /\ UNCHANGED script

(* TCPClient::connect: connect_ = true; Connector::start sets its connect_ *)
(* and posts startInLoop to the loop.                                      *)
UserConnect ==
    /\ ~aborted /\ Call("connect")
    /\ connect_' = TRUE /\ kconnect' = TRUE
    /\ pending' = Append(pending, Task("startInLoop", Null))
    /\ UNCHANGED <<connection_, nextConnId_, kstate, kchannel, timers, connVars,
                   envVars, aborted>>

(* TCPClient::disconnect: connect_ = false, then under mutex_ shutdown()   *)
(* the current connection, which in kConnected moves to kDisconnecting   *)
(* and posts shutdownInLoop.                                               *)
UserDisconnect ==
    /\ ~aborted /\ Call("disconnect")
    /\ connect_' = FALSE
    /\ IF connection_ # Null /\ conn[connection_] = "kConnected"
       THEN /\ conn' = [conn EXCEPT ![connection_] = "kDisconnecting"]
            /\ pending' = Append(pending, Task("shutdownInLoop", connection_))
       ELSE UNCHANGED <<conn, pending>>
    /\ UNCHANGED <<connection_, nextConnId_, connectorVars, wrShut, fin, envVars,
                   aborted>>

(* TCPClient::stop: connect_ = false; Connector::stop clears its connect_ *)
(* and posts stopInLoop.                                                   *)
UserStop ==
    /\ ~aborted /\ Call("stop")
    /\ connect_' = FALSE /\ kconnect' = FALSE
    /\ pending' = Append(pending, Task("stopInLoop", Null))
    /\ UNCHANGED <<connection_, nextConnId_, kstate, kchannel, timers, connVars,
                   envVars, aborted>>

-----------------------------------------------------------------------------
(* The loop thread.                                                        *)

(* A queued startInLoop, posted by Connector::start.                       *)
RunStart ==
    /\ ~aborted /\ pending # <<>> /\ Head(pending).op = "startInLoop"
    /\ \E refused \in OutcomesOf(K) :
          LET k == StartInLoop(K, refused) IN
          SetK(k) /\ aborted' = ~k.ok /\ SpendRefusal(refused)
    /\ pending' = Tail(pending)
    /\ UNCHANGED <<clientVars, connVars, closesLeft, appVars>>

(* A retry timer fires and runs startInLoop.                               *)
TimerFires ==
    /\ ~aborted /\ timers > 0
    /\ \E refused \in OutcomesOf(K) :
          LET k == StartInLoop([K EXCEPT !.timers = @ - 1], refused) IN
          SetK(k) /\ aborted' = ~k.ok /\ SpendRefusal(refused)
    /\ UNCHANGED <<clientVars, connVars, closesLeft, pending, appVars>>

(* stopInLoop: an attempt still in kConnecting is abandoned through        *)
(* removeAndResetChannel and retry, which, connect_ being false, only     *)
(* closes the socket.                                                      *)
RunStop ==
    /\ ~aborted /\ pending # <<>> /\ Head(pending).op = "stopInLoop"
    /\ IF kstate = "kConnecting" THEN SetK(Retried(K))
       ELSE UNCHANGED connectorVars
    /\ pending' = Tail(pending)
    /\ UNCHANGED <<clientVars, connVars, envVars, appVars, aborted>>

(* TCPClient::newConnection, the Connector's newConnectionCallback, up to *)
(* its mutex_: build TCPConnection nextConnId_ (in kConnecting).           *)
NewConnection ==
    /\ nextConnId_ <= MaxConns
    /\ nextConnId_' = nextConnId_ + 1
    /\ conn' = [conn EXCEPT ![nextConnId_] = "kConnecting"]
    /\ UNCHANGED connection_

(* The loop is inside newConnection, between building the connection and *)
(* taking mutex_: the application thread may run disconnect() or stop()  *)
(* here.                                                                   *)
Handing == \E c \in Conns : conn[c] = "kConnecting"

(* The rest of newConnection: connection_ = conn under mutex_, then       *)
(* connectEstablished (kConnected, connection callback "up").            *)
NewConnectionPublish ==
    /\ ~aborted
    /\ \E c \in Conns :
          /\ conn[c] = "kConnecting"
          /\ connection_' = c
          /\ conn' = [conn EXCEPT ![c] = "kConnected"]
    /\ UNCHANGED <<connect_, nextConnId_, connectorVars, wrShut, fin, envVars,
                   pending, appVars, aborted>>

(* Connector::handleWrite: the socket became writable. The channel is     *)
(* removed; a pending SO_ERROR (the server refused) or a self-connect is   *)
(* retried; otherwise kConnected, and the socket goes to newConnection    *)
(* while connect_ still holds, else it is closed.                          *)
HandleWrite ==
    /\ ~aborted /\ kchannel /\ kstate = "kConnecting"
    /\ \E refused \in Outcomes :
          /\ SpendRefusal(refused)
          /\ IF refused
             THEN /\ SetK(Retried(K))
                  /\ UNCHANGED <<connection_, nextConnId_, conn>>
             ELSE /\ SetK([K EXCEPT !.kstate = "kConnected", !.kchannel = FALSE])
                  /\ IF kconnect THEN NewConnection
                     ELSE UNCHANGED <<connection_, nextConnId_, conn>>
    /\ UNCHANGED <<connect_, wrShut, fin, closesLeft, pending, appVars, aborted>>

(* shutdownInLoop: nothing is being written, so shutdownWrite at once.     *)
RunShutdown ==
    /\ ~aborted /\ pending # <<>> /\ Head(pending).op = "shutdownInLoop"
    /\ wrShut' = [wrShut EXCEPT ![Head(pending).conn] = TRUE]
    /\ pending' = Tail(pending)
    /\ UNCHANGED <<clientVars, connectorVars, conn, fin, envVars, appVars, aborted>>

\* Mutant: removeConnection does not reset connection_.
RemoveConnectionNoReset(c) ==
    /\ UNCHANGED connection_
    /\ pending' = Append(pending, Task("connectDestroyed", c))
    /\ IF Retry /\ connect_
       THEN \E refused \in Outcomes :
               LET k == Restart(K, refused) IN
               SetK(k) /\ aborted' = (connection_ # c \/ ~k.ok) /\ SpendRefusal(refused)
       ELSE UNCHANGED <<connectorVars, refusalsLeft>> /\ aborted' = (connection_ # c)

(* TCPClient::removeConnection, the connection's close callback: under     *)
(* mutex_ assert(connection_ == conn) and reset it, queue                  *)
(* connectDestroyed, and if retry_ && connect_ restart the connector.     *)
RemoveConnection(c) ==
    /\ connection_' = Null
    /\ pending' = Append(pending, Task("connectDestroyed", c))
    /\ IF Retry /\ connect_
       THEN \E refused \in Outcomes :
               LET k == Restart(K, refused) IN
               SetK(k) /\ aborted' = (connection_ # c \/ ~k.ok) /\ SpendRefusal(refused)
       ELSE UNCHANGED <<connectorVars, refusalsLeft>> /\ aborted' = (connection_ # c)

(* handleRead reads 0 bytes: handleClose sets kDisconnected, runs the      *)
(* connection callback and then the close callback.                        *)
HandleClose(c) ==
    /\ ~aborted /\ fin[c] /\ conn[c] \in {"kConnected", "kDisconnecting"}
    /\ conn' = [conn EXCEPT ![c] = "kDisconnected"]
    /\ RemoveConnection(c)
    /\ UNCHANGED <<connect_, nextConnId_, wrShut, fin, closesLeft, appVars>>

(* connectDestroyed: the channel leaves the poller; the last reference to *)
(* the connection goes with the functor.                                   *)
RunDestroy ==
    /\ ~aborted /\ pending # <<>> /\ Head(pending).op = "connectDestroyed"
    /\ conn' = [conn EXCEPT ![Head(pending).conn] = "destroyed"]
    /\ pending' = Tail(pending)
    /\ UNCHANGED <<clientVars, connectorVars, wrShut, fin, envVars, appVars, aborted>>

-----------------------------------------------------------------------------
(* The server closes an established connection: on its own, at most       *)
(* PeerCloses times, or in answer to our FIN.                              *)
PeerClose(c) ==
    /\ ~aborted /\ ~fin[c] /\ conn[c] \in {"kConnected", "kDisconnecting"}
    /\ closesLeft > 0 \/ wrShut[c]
    /\ fin' = [fin EXCEPT ![c] = TRUE]
    /\ closesLeft' = IF wrShut[c] THEN closesLeft ELSE closesLeft - 1
    /\ UNCHANGED <<clientVars, connectorVars, conn, wrShut, pending, appVars,
                   refusalsLeft, aborted>>

LoopStep ==
    \/ ~Handing /\ RunStart
    \/ ~Handing /\ TimerFires
    \/ ~Handing /\ RunStop
    \/ ~Handing /\ HandleWrite
    \/ ~Handing /\ RunShutdown
    \/ ~Handing /\ RunDestroy
    \/ ~Handing /\ \E c \in Conns : HandleClose(c)
    \/ NewConnectionPublish

UserStep == UserConnect \/ UserDisconnect \/ UserStop

Next == LoopStep \/ UserStep \/ \E c \in Conns : PeerClose(c)

(* The loop thread keeps running its loop (timers included), and the      *)
(* application thread completes its calls. The server answers a FIN; its  *)
(* own closes and refusals are not forced.                                 *)
Fairness ==
    /\ WF_vars(LoopStep)
    /\ WF_vars(UserStep)
    /\ \A c \in Conns : WF_vars(wrShut[c] /\ PeerClose(c))

Spec == Init /\ [][Next]_vars /\ Fairness
-----------------------------------------------------------------------------
Live == {"kConnected", "kDisconnecting"}

(* Whether connection c is established and up.                             *)
Connected == connection_ # Null /\ conn[connection_] = "kConnected"

(* No assert fires: Connector::startInLoop finds state_ == kDisconnected   *)
(* whenever it runs (from start, a retry timer or restart), and           *)
(* removeConnection is called for the connection connection_ holds.       *)
NoAbort == ~aborted

(* The client and its connector agree: at most one connection is live    *)
(* and it is the one connection_ holds, the close callback having reset   *)
(* connection_ before a restart builds the next one; while connection_    *)
(* is set the Connector is in kConnected with no connect in progress and  *)
(* no retry timer armed, so it cannot hand out a second socket.           *)
ClientConsistent ==
    /\ \A c \in Conns : conn[c] \in Live => connection_ = c
    /\ connection_ # Null =>
          /\ conn[connection_] \in Live
          /\ kstate = "kConnected" /\ ~kchannel /\ timers = 0

(* With retry_ set, a client the application wants connected ends up     *)
(* connected for good: refusals are retried through the timer queue and  *)
(* a connection the server closes is replaced through restart, as long as *)
(* the server's refusals and closes are finite.                            *)
EventuallyConnected ==
    <>[]connect_ => <>[]Connected

(* Once the application has made its last call and that left connect_     *)
(* false (disconnect() and stop()), the client ends up with no connection *)
(* and keeps none.                                                         *)
StaysDisconnected ==
    (upc > Len(script) /\ ~connect_) ~> [](connection_ = Null)
=============================================================================
