------------------------------ MODULE Acceptor ------------------------------
(***************************************************************************)
(* polaris's Acceptor on the base loop, and the descriptors of the         *)
(* process it shares with the other threads.                               *)
(*                                                                         *)
(* Acceptor::handleRead makes one accept per readiness of the listening   *)
(* socket (level-triggered).  When accept fails with EMFILE it closes its *)
(* spare descriptor idleFd_, accepts the pending connection into it,      *)
(* closes that, and reopens /dev/null as the spare.  Each of these is a   *)
(* system call of its own, and the io threads open and close descriptors  *)
(* between them: the HTTP application reads the file it serves with an    *)
(* std::ifstream on the io thread that handles the request, and a        *)
(* connection's socket is closed when the connection is destroyed on its  *)
(* io loop.  Descriptors are counted, not numbered: only how many are     *)
(* free decides whether a call that needs one succeeds.                   *)
(***************************************************************************)
EXTENDS Naturals, FiniteSets

CONSTANTS
    FdSlots,   \* descriptors RLIMIT_NOFILE leaves once the server is set up
    Clients,   \* bound: connections clients make to the listening socket
    Readers,   \* io threads that serve files
    Reads      \* bound: files each reader opens

ASSUME FdSlots \in Nat \ {0} /\ Clients \in Nat /\ Reads \in Nat

VARIABLES
    backlog,   \* connections completed by the kernel and not yet accepted
    made,      \* connections clients have made so far
    conns,     \* accepted connections whose socket is open
    idleFd,    \* idleFd_: "devnull", "conn" (holding an accepted socket), "none" (-1)
    apc,       \* where the base loop is in EventLoop::loop / Acceptor::handleRead
    file,      \* per reader: whether its ifstream holds an open descriptor
    readsLeft  \* per reader: files it will still try to open

vars == <<backlog, made, conns, idleFd, apc, file, readsLeft>>

\* Descriptors the process holds beyond those of its set-up.
InUse ==
    conns + (IF idleFd = "none" THEN 0 ELSE 1) + Cardinality({r \in Readers : file[r]})

\* Whether open, socket or accept can return a new descriptor (else EMFILE).
FdFree ==
    InUse < FdSlots

(* sockets::accept (and the plain ::accept of the idle sequence): a new   *)
(* descriptor, or -1 with errno EAGAIN when the queue is empty or EMFILE  *)
(* when no descriptor is free; both are among its expected errors.        *)
AcceptResult ==
    IF backlog = 0 THEN "EAGAIN" ELSE IF FdFree THEN "fd" ELSE "EMFILE"

(* The Acceptor constructor opens /dev/null as idleFd_ and asserts it     *)
(* succeeded; listen() enables reading on the listening channel.          *)
Init ==
    /\ backlog = 0 /\ made = 0 /\ conns = 0
    /\ idleFd = "devnull"
    /\ apc = "poll"
    /\ file = [r \in Readers |-> FALSE]
    /\ readsLeft = [r \in Readers |-> Reads]

\* A client's connect completes the handshake into the listen queue.
ClientConnect ==
    /\ made < Clients
    /\ made' = made + 1
    /\ backlog' = backlog + 1
    /\ UNCHANGED <<conns, idleFd, apc, file, readsLeft>>

\* epoll_wait reports the listening socket readable while its queue is
\* not empty (level-triggered), and the loop calls Acceptor::handleRead.
PollListen ==
    /\ apc = "poll" /\ backlog > 0
    /\ apc' = "accept"
    /\ UNCHANGED <<backlog, made, conns, idleFd, file, readsLeft>>

(* handleRead: acceptSocket_.accept().  On success the new connection     *)
(* callback (TCPServer::newConnection) takes the socket; on EMFILE the    *)
(* idle-descriptor sequence starts.                                       *)
Accept ==
    /\ apc = "accept"
    /\ IF AcceptResult = "fd"
       THEN /\ backlog' = backlog - 1
            /\ conns' = conns + 1
            /\ apc' = "poll"
       ELSE /\ apc' = IF AcceptResult = "EMFILE" THEN "closeIdle" ELSE "poll"
            /\ UNCHANGED <<backlog, conns>>
    /\ UNCHANGED <<made, idleFd, file, readsLeft>>

\* ::close(idleFd_); a close of -1 fails with EBADF and frees nothing.
CloseIdle ==
    /\ apc = "closeIdle"
    /\ idleFd' = IF idleFd = "devnull" THEN "none" ELSE idleFd
    /\ apc' = "acceptIdle"
    /\ UNCHANGED <<backlog, made, conns, file, readsLeft>>

\* idleFd_ = ::accept(listenfd, nullptr, nullptr): -1 when no descriptor
\* is free or the queue is empty.
AcceptIdle ==
    /\ apc = "acceptIdle"
    /\ IF AcceptResult = "fd"
       THEN idleFd' = "conn" /\ backlog' = backlog - 1
       ELSE idleFd' = "none" /\ UNCHANGED backlog
    /\ apc' = "closeAccepted"
    /\ UNCHANGED <<made, conns, file, readsLeft>>

\* ::close(idleFd_): the peer sees its connection closed.
CloseAccepted ==
    /\ apc = "closeAccepted"
    /\ idleFd' = "none"
    /\ apc' = "reopen"
    /\ UNCHANGED <<backlog, made, conns, file, readsLeft>>

\* idleFd_ = ::open("/dev/null", ...): -1 when no descriptor is free; the
\* result is not checked.  handleRead returns to the loop.
Reopen ==
    /\ apc = "reopen"
    /\ idleFd' = IF FdFree THEN "devnull" ELSE "none"
    /\ apc' = "poll"
    /\ UNCHANGED <<backlog, made, conns, file, readsLeft>>

(* An io thread serving a file: the std::ifstream opens it (an open that  *)
(* fails makes the application answer without a body) ...                  *)
ReadOpen(r) ==
    /\ ~file[r] /\ readsLeft[r] > 0
    /\ readsLeft' = [readsLeft EXCEPT ![r] = @ - 1]
    /\ file' = [file EXCEPT ![r] = FdFree]
    /\ UNCHANGED <<backlog, made, conns, idleFd, apc>>

(* ... and closes it when the stream goes out of scope.                    *)
ReadClose(r) ==
    /\ file[r]
    /\ file' = [file EXCEPT ![r] = FALSE]
    /\ UNCHANGED <<backlog, made, conns, idleFd, apc, readsLeft>>

\* A connection is destroyed on its io loop and ~Socket closes its fd.
ConnClose ==
    /\ conns > 0
    /\ conns' = conns - 1
    /\ UNCHANGED <<backlog, made, idleFd, apc, file, readsLeft>>

AcceptorStep ==
    PollListen \/ Accept \/ CloseIdle \/ AcceptIdle \/ CloseAccepted \/ Reopen

Next ==
    \/ AcceptorStep
    \/ ClientConnect
    \/ ConnClose
    \/ \E r \in Readers : ReadOpen(r) \/ ReadClose(r)

(* The base loop keeps running, and a reader finishes reading its file.   *)
(* Clients need not connect and connections may live for ever.            *)
Spec ==
    /\ Init /\ [][Next]_vars
    /\ WF_vars(AcceptorStep)
    /\ \A r \in Readers : WF_vars(ReadClose(r))

-----------------------------------------------------------------------------
(* spec.md, test 11: under EMFILE the acceptor does not spin; every        *)
(* connection waiting in the listen queue is eventually taken off it,     *)
(* accepted, or accepted and closed by the idle-descriptor sequence of    *)
(* Acceptor::handleRead.                                                   *)
NoAcceptSpin ==
    backlog > 0 ~> backlog = 0

=============================================================================
