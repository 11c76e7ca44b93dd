# TLA+ models of polaris (Lute)

This directory holds the TLA+ specifications of the polaris network library
(`src/polaris`) and the TLC configurations that check them. `PROJECT.json`
records four things:
- which definition models which source lines (`map`);
- every run and its expected outcome;
- the mutants that show each property can fail;
- the findings and the hazards of the code.

## 1. The system

polaris is a one-loop-per-thread reactor in the style of muduo.

| Part | Source | State | Operations |
|---|---|---|---|
| EventLoop | `EventLoop.h` (the `.cc` is not in the repository) | `pendingFunctors_` (mutex), `callingPendingFunctors_`, the poller, the timer queue | `loop` (poll, then handle the active channels, then `doPendingFunctors`), `runInLoop`, `queueInLoop`, `updateChannel`, `removeChannel`, `quit` |
| Channel | `Channel.cc/.h` | `events_`, `revents_`, `index_`, `tie_`, `addedToLoop_`, `eventHandling_` | `enable/disableReading/Writing`, `disableAll`, `update`, `remove`, `handleEvent` (precedence: HUP without IN, then ERR, then IN, then OUT) |
| EPollPoller | `EPollPoller.cc` | `channels_` (fd → Channel), the kernel interest set | `updateChannel` (`kNew`/`kDeleted` → ADD, `kAdded` → MOD, or DEL when no events), `removeChannel`, `poll` and `fillActiveChannels` |
| Acceptor | `Acceptor.cc` (modelled in TcpServer and Acceptor) | listening channel, `idleFd_` | `listen`; `handleRead`, which makes one `accept` per readiness and has an EMFILE idle-fd path |
| TCPServer | `TCPServer.cc` | `connections_` (name → `TCPConnectionPtr`), `nextConnId_` | `start`, `newConnection` (on the base loop), `removeConnection` → `removeConnectionInLoop` (on the base loop) → `connectDestroyed` (on the io loop) |
| TCPConnection | `TCPConnection.cc/.h` | `state_` (`kConnecting` → `kConnected` → `kDisconnecting` → `kDisconnected`), `reading_`, input and output `Buffer`s, callbacks, `highWaterMark_` | `send`, `shutdown`, `forceClose`, `startRead`, `stopRead` (callable from any thread); `sendInLoop`, `shutdownInLoop`, `forceCloseInLoop`; `handleRead`, `handleWrite`, `handleClose`, `handleError`; `connectEstablished`, `connectDestroyed` |
| EventLoopThreadPool / EventLoopThread | `EventLoopThreadPool.cc`, `EventLoopThread.cc` | `loops_`, `next_`; `loop_` under a mutex and condition variable | `start`, `getNextLoop` (round robin), `getLoopForHash`, `startLoop` / `threadFunc` handshake |
| Buffer | `Buffer.h/.cc` | `buffer_`, `readerIndex_`, `writerIndex_` (`kCheapPrepend` = 8, `kInitialSize` = 1024) | `append`, `retrieve*`, `prepend`, `makeSpace`, `shrink`, `readFd` |
| TimerQueue / Timer | `TimerQueue.h`, `Timer.h/.cc` (the `TimerQueue.cc` is missing) | timer set ordered by expiration, active and cancelling sets | `addTimer`, `cancel`, `handleRead`, `reset`, `Timer::restart` |
| Connector / TCPClient | `Connector.h`, `TCPClient.cc` (the `Connector.cc` is missing) | `connection_`, `retry_`, `connect_` | `connect`, `disconnect`, `stop`, `newConnection`, `removeConnection` (which restarts the connector when `retry_` is set) |
| HTTP | `app/http` | `HttpContext` parse state (request line, headers, body) | `parseRequest`; `HttpServer::onMessage` (on a parse error: send 400, then shutdown) |
| LuxMySQL | `LuxMySQL/LuxMySQL.cc/.h` | `connection` (`state_`, `conn_`, `cda_`), `sqlstatement` (`state_`, `handle_`, `sqlType_`, bound parameters, `maxBindIn_`, `cda_`) | `connectToDb`, `disconnect`, `commit`, `rollback`, `execute`; statement `connect`, `prepare`, `bindin`, `bindout`, `execute`, `next`, `disconnect` |
| app.cc, CDN | `app/` | request routing, a file sink, the shared `realFile_` | `Application::onRequest` (routing modelled in `HttpServer.tla` as `AppStatus`) |

**How the parts interact.**
- The base loop owns the Acceptor. Each new socket becomes a TCPConnection, which is handed to an io loop chosen by `getNextLoop`.
- `connectEstablished` runs on that loop through `runInLoop`.
- Every later handler of the connection runs on its io loop.
- Application threads call `send`, `shutdown` and `forceClose`. These calls read `state_` without a lock, then post a functor to the io loop's `pendingFunctors_`.
- Closing crosses threads three times:
  1. `handleClose` runs on the io loop.
  2. `removeConnectionInLoop` runs on the base loop.
  3. `connectDestroyed` runs back on the io loop.
- The connection is destroyed when the last `shared_ptr` is gone. That pointer may be held by:
  - the server's map;
  - a queued functor, until `doPendingFunctors` destroys its batch;
  - the application.

**What is hard.**
- Unsynchronised check-then-act on `state_`: `send`, `shutdown` and `forceClose` are marked `FIXME: use compare and swap`.
- Functors that hold the raw `this` pointer.
- Callbacks that are queued rather than called, so they run after later events.
- The `index_` protocol between Channel and EPollPoller.
- Partial writes.
- Level-triggered readiness: EPOLLHUP and EPOLLERR are reported whatever the interest set.

## 2. Modules

### TcpServer.tla (with MCTcpServer.tla)

This module models one server: the base loop `0`, worker loops `1..NumThreads`, the connections `Conns`, user threads `UserThreads` and one peer per connection.

**Data abstraction.**
- A message `m` is the byte sequence `<<m,1>> .. <<m,MsgLen[m]>>`. Partial writes therefore stay byte-exact.
- `outBuf` is the readable part of `outputBuffer_`.
- `wire` is what the kernel accepted.
- `inbound` counts unread chunks from the peer.
- `room` says whether the socket send buffer has space.
- `peer` is `Open`, `Closed` (FIN) or `Reset`.

**Threads.**
- A loop is in one of three phases:
  - `poll`: `Poll` takes the level-triggered snapshot `Ready(l)` into `active`.
  - `dispatch`: one action per (channel, revent), taken in the order of `handleEventWithGuard`.
  - `drain`: `EndDispatch` swaps `pending` into `batch`, then `Run*` runs one functor per step.
- `wakeup[l]` is loop `l`'s `wakeupFd_` eventfd being readable. `Post(from, l, t)` is `queueInLoop` called on thread `from`: it appends `t` to `pending[l]` and writes the eventfd iff `from # l` or `l` is draining (`callingPendingFunctors_`). `Poll` returns only when a channel is ready or the eventfd is set, and clears it (`EventLoop::handleRead`), so a functor queued without a wakeup waits in `epoll_wait`.
- A functor that has run stays in `spent` until the batch ends, because the vector and the pointers its functors hold are destroyed only then.
- Each handler is one atomic step, as it is on its loop thread.
- A user-thread call is split at its unsynchronised read of `state_`:
  - `UserCall` performs the test;
  - `UserPost` then sets the state and queues the functor.
- Application code on the io thread (`LoopSend`, `LoopShutdown`, `LoopForceClose`) may run inside any callback of that loop's dispatch phase, for example a timer or another channel's handler. There it takes the in-loop-thread branch of `send`, `shutdown` and `forceClose`.

**Callbacks.**
- `cbLog` records `connectionCallback_` as `up` and `down`, and `closeCallback_` as `close`, in order.
- With `FlowControl` the application throttles input:
  - the high-water callback calls `stopRead`;
  - the write-complete callback calls `startRead`;
  - `naive` calls them always, `checked` only while `connected()`.

**Lifetime.**
- `RefHeld(c)` is true while any of these holds the connection: the server's map, a shared functor in `pending`, `batch` or `spent`, or a user's `hold`.
- `Reclaim` sets `freed` in the step that drops the last reference. That step is the `~TCPConnection` call.
- `asserts[c]` records the `assert()`s that failed: `handleClose`'s `state_ == kConnected || kDisconnecting` (TCPConnection.cc:385) and `Channel::remove`'s `isNoneEvent()` (Channel.cc:101). The model goes on as a release build would, so the duplicate callbacks that follow stay visible.

**Correspondence of actions to code.**

| Action | Code |
|---|---|
| `SetEvents` | `Channel::update` and `EPollPoller::updateChannel` |
| `EnableReading` / `DisableReading` / `EnableWriting` / `DisableWriting` / `DisableAll`, `IsReading` / `IsWriting` | the inline setters of `Channel.h`, each ending in `update()`, and its two tests |
| `PoolSpawn` / `PoolCheck` / `PoolListen` | `TCPServer::start`: `EventLoopThreadPool::start`, each `startLoop` (`thread_.start()`, then the `while (loop_ == nullptr) cond_.wait()` test under `mutex_`), then `Acceptor::listen` |
| `ThreadPublish` | `EventLoopThread::threadFunc` up to `loop.loop()`: set `loop_` under `mutex_` and notify |
| `NewConnection` / `GetNextLoop` | `TCPServer::newConnection` with `getNextLoop` |
| `RunEstablish` | `connectEstablished` |
| `SendInLoop` | `sendInLoop`, including the direct write, the high-water test and the write-complete queueing |
| `HandleRead` / `HandleWrite` / `HandleClose` / `HandleError` | the four handlers |
| `RunRemove` / `RemoveConnection(InLoop)` | `TCPServer::removeConnection(InLoop)` |
| `RunDestroy` | `connectDestroyed`, followed by `Channel::remove` and `removeChannel` |
| `ChannelRemove` / `PollerRemove` | `Channel::remove` and `EPollPoller::removeChannel` (index back to `kNew`, fd out of epoll) |
| `RunForceClose` | `forceCloseInLoop` |
| `StartReadInLoop` / `StopReadInLoop` | the `startReadInLoop` / `stopReadInLoop` methods |

**Start-up.** `spc` is where the main thread (the base loop's thread) is in `TCPServer::start`: spawning worker `i`, testing its `loop_`, or waiting on `cond_`; `"done"` once the acceptor listens, after which the base loop runs. `thr[l]` is worker `l`'s thread: not started, in `threadFunc` before publishing, or published and in `loop()`. A worker loop polls only once published. The wait releases the mutex, and a notify returns the waiter to the test, so the publish may come before the first test or during the wait; both interleavings are explored.

`PeerSend`, `PeerClose`, `PeerReset` and `PeerDrain` are the environment. They are bounded by `PeerSends` and `PeerEnds`.

`Quiescent` is the idle stutter: every loop is blocked in `epoll_wait` with no channel ready and no wakeup pending, and no user thread is in the middle of a call. It is the only state the server may rest in. Any other state without a successor is reported as a deadlock.

**Fairness.**
- Weak fairness on each loop's step. A loop thread never stops running its loop.
- Weak fairness on a user thread finishing a call it has started.
- Weak fairness on `PeerDrain`. A peer that has not reset eventually reads, freeing room in the send buffer.
- No fairness on peer sends, closes and resets, or on application calls. These may never happen.

### Buffer.tla (with ByteQueue.tla)

`ByteQueue` is what a Buffer promises: a sequence `q` of bytes, with `Push` at the back, `PushFront`, `Drop` and `DropBack` of some bytes, and `Take`, which returns the front bytes in `got`. It knows nothing of indices or capacity.

`Buffer` keeps the vector itself, byte for byte, including the stale bytes outside the readable region:
- `buffer_`, `readerIndex_`, `writerIndex_` are the members; C index `i` is TLA+ index `i+1`.
- `MakeSpace`, `EnsureWritableBytes`, `DoAppend` and `DoRetrieve` are the private helpers, on a record `[buf, r, w, fail]`; `Assert(b, cond, site)` sets `fail` to the site of the first `assert()` that fails.
- One action per public mutator: `append` (and `appendIntK`), `prepend` (and `prependIntK`), `hasWritten`, `unwrite`, `retrieve` (and `retrieveAll`), `retrieveAsString`, `readInt` (`peekIntK` with its sign assert, then `retrieve`), `shrink` and `readFd`.
- `readFd` takes any `n` up to the tail plus `extrabuf` (one iovec when the tail is at least as long as `extrabuf`) and applies the code's two branches (`AfterRead`). A result `n <= 0` leaves the buffer alone and is not a step.
- `NetworkBytes` is `hostToNetworkK` (big-endian bytes); `HostSigned` is the value a little-endian host reads by `memcpy`, which is what `peekIntK` asserts on. `IntBytes` is what `appendIntK`/`prependIntK` write for the values of `IntValues` that fit `intK_t` (`IntK`).
- Callers keep the preconditions the code asserts on its arguments. `aborted` records the site of a failed internal assert (`makeSpace`, `ensureWritableBytes` or `peekInt`), after which nothing runs: a debug build has aborted.

The refinement mapping is `q <- SubSeq(buffer_, readerIndex_+1, writerIndex_)`. `ImplementsByteQueue` checks `ByteQueue!Spec` as a `PROPERTY`: `makeSpace`, `shrink` and a reallocation are stuttering steps of the queue.

Sizes are scaled: `kCheapPrepend = 2`, `kInitialSize = 2`, `extrabuf` of 2, vectors of at most 6 bytes, chunks of at most 2 bytes. The byte values are `0` and `128`, and `appendIntK` is given `128`: two values keep the contents small, and `128` is the smallest value whose low byte makes `peekInt16`'s sign assert fail. This reaches:
- both branches of `makeSpace`;
- `readFd` with one and with two iovecs, and its overflow into `append`;
- `prepend` down to index 0;
- `retrieve` of everything after a prepend;
- `readInt16` after `appendInt16(128)`, which aborts. The run therefore has `CHECK_DEADLOCK FALSE`: an aborted process has no next step.

### HttpServer.tla (with MCHttpServer.tla)

One connection of `HttpServer`. Bytes are atoms: words such as `GET` or `/a`, and `SP`, `QM`, `COLON`, `CRLF`. `std::find` and `findCRLF` find the atom, and a segment cut inside a word or between CR and LF parses like a cut just before it, so segments are cut between atoms.

- The client (`ClientSend`) writes a request record, serialised to atoms, only after every earlier request was answered and none asked to close: it does not pipeline.
- `onMessage` is the whole read handler: a segment of any length moves from `wire` to `buf`, then `parseRequest` runs (`ParseLoop`, `ProcessRequestLine`, `AddHeader`). On failure a 400 is sent and the connection shut down; on `kGotAll`, `onRequest` decides keep-alive (`CloseRequested`), the callback answers (`Respond`), the response is sent, and the context is `Reset`.
- `Send` drops data unless the connection is `kConnected`, as `TCPConnection::send` does.
- `Callback` selects the default callback (404, close) or the application's, `Application::onRequest`. Its routing is `AppStatus`. The pages `/`, `/index.html`, `/register` and `/welcome` get 200. So does any path containing `.jpg`, and a GET of a path containing `/login`. Every other request gets the 404 page, which calls `setCloseConnection(true)`. `std::string::find` on a path word is the operator constant `PathHas`. MCHttpServer gives it as a table over the words the model's requests use (`MCPathHas`). What the body holds (file, form, Redis or MySQL outcome) only chooses among 200 pages, and is left out.
- The properties compare the server's view with `Meant(r)`, the request read off the client's record according to spec.md's grammar, independently of the parser.

Fairness: weak fairness on reading the wire. It is stated on `ReadsWire`, the steps that shorten `wire`. Under `Next` these are exactly the `onMessage` steps, and both are enabled exactly when the wire is non-empty, so TLC does not run the parser to decide enabledness. The run does not check deadlock: the conversation ends when the client is done or the server has shut down.

### TcpClient.tla (with MCTcpClient.tla)

`TCPClient` with its `Connector`, on one loop, and one application thread that runs one of the call sequences in `Scripts`. `Connector.cc` is not in the repository, so the Connector's operators follow spec.md 4.7 and the members of `Connector.h`.

- The Connector is a record `[kstate, kconnect, kchannel, timers, ok]`: `state_`, `connect_`, the channel watching an in-progress connect, the retry timers armed, and whether an assert held. `StartInLoop`, `Connect`, `Retried` and `Restart` map it to the record the call leaves.
- Application actions: `UserConnect` (`connect()` and `Connector::start`), `UserDisconnect` (`connect_ = false`, then `shutdown()` of `connection_` under the mutex), `UserStop` (`connect_ = false` and `Connector::stop`).
- Loop actions: a queued `startInLoop` (`RunStart`), a retry timer firing (`TimerFires`), `stopInLoop` (`RunStop`), the connect completing (`HandleWrite`), `shutdownInLoop`, `handleClose` with its close callback `TCPClient::removeConnection` (restart when `retry_ && connect_`), and `connectDestroyed`.
- `newConnection` is split at its mutex: `NewConnection` builds the TCPConnection, and `NewConnectionPublish` stores it in `connection_` and establishes it. The application thread can run between the two, as in the code.
- The server refuses at most `Refusals` connects and closes at most `PeerCloses` connections on its own; it answers our FIN with its own. `MaxConns` bounds `nextConnId_` and is at least `PeerCloses + 1`, so it never binds.

Fairness: weak fairness on the loop thread (which includes its timers), on the application thread finishing its script, and on the server answering a FIN. Refusals and server closes are not forced. The run does not check deadlock: the client rests when its loop is idle.

### LuxMySQL.tla

One `connection` and the application's `sqlstatement`s (`Stmts`), plus the temporary statement `Tmp` that `connection::execute` builds, over a libmysql whose calls may fail (at most `Faults` failures in a behaviour).

- State: `c` is the connection's `state_`, whether `conn_` is non-null, and `cda_.rc`. `st[s]` is a statement's `state_`, its `handle_` (`"null"`, `"open"`, or `"detached"` once `mysql_close` of the connection invalidated it), `sqlType_`, the prepared statement's parameter and field counts, `maxBindIn_`, whether the bind steps ran, and `cda_.rc`. `exec` is the stage `connection::execute` has reached. SQL text, values and rows are abstracted to counts.
- `StmtInitial` is a set: `sqlType_` and `maxBindIn_` are not initialised by the constructor, so they start at any value the storage held.
- Connection actions: `ConnectToDb`, `Disconnect`, `Commit`, `Rollback`, `ConnExecute` (connect, prepare, execute and disconnect of `Tmp`, one stage per step). Statement actions: `StmtConnect`, `StmtDisconnect`, `Prepare`, `BindIn`, `BindOut`, `Execute`, `StmtNext`.
- A call that hands libmysql a null `MYSQL*` where libmysql dereferences it (`mysql_commit`, `mysql_rollback`, `mysql_stmt_init`) sets `crashed`. `mysql_close(NULL)`, `mysql_errno(NULL)` and `mysql_error(NULL)` are safe and are not crashes.
- A position outside `params_in_` passed to `bindin`/`bindout` sets `outOfBounds`: the bound check reports "array bound" but does not return.

The run does not check deadlock: a synchronous wrapper may simply stop being called.

### Acceptor.tla

`Acceptor::handleRead` on the base loop, one system call per step, and the process's descriptors, which it shares with the other threads. Descriptors are counted, not numbered: `FdFree` says whether an `open`, `socket` or `accept` can get one, and `FdSlots` is how many the process may still open after set-up.

- `apc` is where the base loop is: `PollListen` (epoll reports the listening socket readable while its queue is not empty, level-triggered), `Accept` (`sockets::accept`, modelled by `AcceptResult`: a descriptor, `EAGAIN` or `EMFILE`), then on EMFILE `CloseIdle`, `AcceptIdle`, `CloseAccepted` and `Reopen`, the four calls of lines 73-76.
- `idleFd` is `idleFd_`: `/dev/null`, an accepted socket, or -1. A close of -1 frees nothing.
- `conns` are accepted connections. `ConnClose` is a connection destroyed on its io loop, which closes its socket; it is not fair, since clients may keep their connections.
- `Readers` are io threads of the HTTP application. Every page it serves goes through `getHtml` → `readFile2String`, which opens the file with an `std::ifstream` (`ReadOpen`, which may fail) and closes it on return (`ReadClose`). `Reads` bounds the files each reader opens. The app runs its handlers on io threads when `numThreads >= 1` (`app.cc:419`); with no io threads the reads run on the base loop and cannot fall between the acceptor's calls.

Fairness: weak fairness on the base loop's steps and on a reader closing its file. The run does not check deadlock: a server with an empty listen queue waits.

## 3. Runs

The TcpServer runs use one connection and `NumThreads = 1`. The base loop accepts and the worker loop serves, so every cross-loop step of the close path happens.

The messages are:
- `m1`, two bytes, so a partial write splits it;
- `m2`, one byte;
- `m3`, one byte, in the users run.

`HighWaterMark = 2`, so queueing the rest of `m1` behind a partial write crosses the mark.

| Run | Cfg | Expect | What it shows |
|---|---|---|---|
| loop | `TcpServer_loop.cfg` | pass | With every call made on the io thread, the checked properties hold against partial writes, EAGAIN, peer close, peer reset and data arriving: start-up hands out only published, running worker loops, whichever of `startLoop`'s test and `threadFunc`'s publish comes first (`LoopsRunning`); start-up completes, every `startLoop` wait on `cond_` being woken by its thread's notify, up to `Acceptor::listen` (`ServerStarts`); the callbacks run `up`, `down`, `close` once each, and `handleClose` is never entered in a closed state (`CallbacksInOrder`); the channel has no events when `connectDestroyed` removes it, and destruction meets the destructors' asserts (`DestroyedCleanly`); bytes reach the wire once and in order (`PerSenderOrder`); a FIN is sent only after the flush (`ShutdownAfterFlush`); the state never moves backwards (`StateMonotone`); a shutdown completes (`ShutdownCompletes`); and a connection the peer ended is destroyed (`ClosedConnectionsReleased`). 84k states. |
| users | `TcpServer_users.cfg` | pass | A user thread sends `m1` and then `m2` through the functor queue and calls `shutdown()`, while the io thread sends `m3`; the high-water callback (mark 2) and checked flow control stop and restart reading, and the user may release its pointer at any point. Each thread's bytes stay in call order (`PerSenderOrder`), the FIN waits for the flush (`ShutdownAfterFlush`), a shutdown completes (`ShutdownCompletes`), and flow control never leaves the connection throttled for good: reading stopped by the high-water callback is resumed by the write-complete callback unless the connection goes down (`ReadingResumes`); and every functor queued on a loop is run, including the write-complete and high-water callbacks `sendInLoop` queues while the loop drains, which only the drain-time wakeup of `queueInLoop` gets out of `epoll_wait` (`FunctorsRun`). The peer never ends the connection first: the races it would open are the subject of the violation runs. 174k states. |
| reregister | `TcpServer_reregister.cfg` | violation of `CallbacksInOrder` | The run uses checked flow control and an io-thread `forceClose`. Reading was stopped and the output drained, so the channel is `kDeleted`. `handleClose`'s `disableAll` ADDs it back with no events, EPOLLHUP arrives, and `handleClose` runs twice. |
| uaf | `TcpServer_uaf.cfg` | violation of `NoUseAfterFree` | A user thread's `send` passes its state test, the connection closes and is destroyed, and then the raw-`this` functor is queued. |
| forceclose_race | `TcpServer_forceclose_race.cfg` | violation of `CallbacksInOrder` | A foreign-thread `forceClose()` makes `forceCloseInLoop` close a connection a second time. |
| buffer | `Buffer.cfg` | pass | Every sequence of calls keeps `0 <= readerIndex_ <= writerIndex_ <= size` (`TypeOK`), never fails `makeSpace`'s or `ensureWritableBytes`' assert (`SpaceAssertsHold`), and refines `ByteQueue` (`ImplementsByteQueue`). The run also reaches `peekInt16`'s assert aborting on `00 80`; that is the `Buffer.h:87` hazard, not a property. 267k states. |
| http | `HttpServer.cfg` | pass | Four keep-alive exchanges with the application, cut at every atom boundary. The paths are a login path by GET and by POST, `/`, a `.jpg` and an unknown path. The callback gets exactly the well-formed requests, in order, as the client meant them (`RequestsFaithful`). The client gets a 400 exactly for the bad method and otherwise the status of its route. The connection closes exactly when the request or the 404 page asks for it (`ResponsesMatch`). Every request is answered (`EveryRequestAnswered`). The parser never aborts (`NoAbort`). |
| http_abort | `HttpServer_abort.cfg` | violation of `NoAbort` | `GET /a HTTP/2.0` followed by a header, in two segments: the second parse of the same line fails `setMethod`'s assert. |
| client | `TcpClient.cfg` | pass | A retrying client, with one refusal and one server close possible, trips no assert (`NoAbort`), keeps at most one live connection, the one `connection_` holds, with the connector idle meanwhile (`ClientConsistent`), and ends up connected for good when the application wants it (`EventuallyConnected`). |
| client_stop | `TcpClient_stop.cfg` | violation of `StaysDisconnected` | `disconnect()` during the first connect, then `stop()`: the connection completes in between and is never closed. |
| accept_emfile | `Acceptor_emfile.cfg` | violation of `NoAcceptSpin` | Two free descriptors, three clients that keep their connections, one io thread serving one file. The reader takes the descriptor `close(idleFd_)` freed, the idle sequence loses `idleFd_`, and after the reader is done and the second connection is accepted, the third connection stays queued while the loop spins through `handleRead` for ever. With `Readers = {}` the property holds: the sequence drains the queue. |
| mysql_commit | `LuxMySQL_commit.cfg` | violation of `NoNullHandle` | `connectToDb` succeeds, `commit` fails (the server went away), and a second `commit` hands the null `conn_` to `mysql_commit`. |

**Why these bounds are enough.**
- One connection reaches every handler and every branch of them. The properties are all per connection.
- Two loops are needed for the cross-thread close path, and they are present.
- `m1` of length 2 gives partial writes; two messages per sender give ordering.
- `PeerSends = 1` reaches both `n > 0` and `n == 0` in `handleRead`.
- Between them, the passing runs fire every action of the next-state relation.

**Mutants.** Every property of every passing run has a mutant: a plausible bug in the mapped code that TLC must catch under that run's configuration. They are:
- `getNextLoop` without the wrap of `next_`;
- `startLoop` returning `loop_` without waiting for it;
- `threadFunc` setting `loop_` without `cond_.notify()`;
- `forceCloseInLoop` without its state test;
- `connectDestroyed` calling `remove()` only inside the `kConnected` branch;
- `sendInLoop` appending the whole message instead of the remainder;
- `shutdownInLoop` without the `isWriting()` test;
- `forceClose` without its state guard;
- `handleWrite` not resuming a pending shutdown;
- `handleWrite` draining the buffer without queueing the write-complete callback;
- `queueInLoop` waking the loop only for calls from other threads;
- `handleClose` without `closeCallback_`;
- `makeSpace` sliding the bytes one place short of `kCheapPrepend`;
- `ensureWritableBytes` making space when exactly `len` bytes are free;
- `readFd` advancing `writerIndex_` past the tail instead of appending the `extrabuf` part;
- `addHeader` keeping trailing whitespace in the value;
- the keep-alive rule ignoring HTTP/1.0;
- `reset()` keeping the parse state, or keeping the old request;
- `parseRequest` leaving its loop after each header line;
- `Connector::restart` not resetting `state_` to `kDisconnected`;
- `removeConnection` not resetting `connection_`;
- `retry` not arming the timer.

## 4. Findings

Each violation run reproduces a defect. `PROJECT.json` → `findings` gives the source lines.

1. **EPollPoller.cc:110 / TCPConnection.cc:388.** `disableAll` on a `kDeleted` channel re-registers the fd. This reaches a second `handleClose` once an application has used `stopRead`.
2. **TCPConnection.cc:106.** Cross-thread `send` binds the raw `this`. The connection can be used after it is destroyed.
3. **TCPConnection.cc:243 (and :201).** The unsynchronised test-and-set in `forceClose()` revives a closed connection's state, so it is closed twice. `shutdown()` has the same pattern; adding `shutdown` to `UserOps` makes `StateMonotone` fail the same way.
4. **Acceptor.cc:70-77.** The EMFILE escape is four system calls whose results are not checked. An io thread that opens a file between `close(idleFd_)` and `accept` takes the freed descriptor; `accept` and `open` then fail and `idleFd_` stays -1. From then on an EMFILE frees nothing, and once connections hold every descriptor the level-triggered listener spins with a connection in its queue, which spec.md (test 11) rules out.
5. **HttpRequest.h:39 / HttpContext.cc:63.** A request line with a valid method and a bad version is answered with 400 but left in the buffer. The client's next segment re-parses it, and `setMethod`'s assert aborts the server.
6. **TCPClient.cc:96.** `disconnect()` shuts down only the connection `connection_` holds, and `stop()` only abandons a connect still in progress. Called during a connect, `disconnect()` finds nothing to shut down; if the connect completes before `stop()`'s `stopInLoop` runs, the new connection is never closed.
7. **LuxMySQL.cc:215 (and :189).** When `mysql_commit` (or `mysql_rollback`) fails, the handle is closed and `conn_` cleared, but `state_` stays 1. The next `commit`, `rollback` or `disconnect` passes the null handle to libmysql, and `connectToDb` returns 0 at its `state_` test without reconnecting.

`Buffer.h:87` is kept as a hazard, not a run, because every run slot is taken. `peekInt16/32/64` assert that the network-order bytes, read as a host integer, are non-negative. So `readInt16` aborts a debug build after `appendInt16(128)`, after `appendInt16(-2)` (the repository's own unit test, `test/buffer_unit.cc:185`), and on the bytes `00 80` from a peer. The buffer run reaches the abort in two steps; `SpaceAssertsHold` deliberately leaves that assert out.

The HTTP body framing (`HttpContext.cc:89`: the body is whatever is readable when the blank line is parsed, `Content-Length` is ignored) is listed as a hazard: spec.md prescribes it, and a POST whose body arrives in a later segment fails `RequestsFaithful`.

Along the way, modelling also showed two consequences of calling `startRead` from a queued callback:
- Resuming reading after the connection closed (`FlowControl = "naive"`) re-adds the channel. A second close follows, or `Channel::remove`'s `isNoneEvent` assertion fails: on the reregister instance with `naive`, `DestroyedCleanly` is violated after about 7k states. No run is kept for it.
- With the `checked` variant, a connection that stopped reading and is shutting down never notices that the peer closed. That is why `ClosedConnectionsReleased` is checked only in the loop run.

## 5. Plan

Modules, in the order they will be built:

1. **TcpServer** (done). The core above.
2. **Buffer** (done, section 2).
3. **HttpServer** (done, section 2).
4. **TimerQueue** (spec_modelled, since `TimerQueue.cc` is missing), with `Timer::restart` from the source. It covers cancel during a callback and repeat timers.
5. **Connector / TCPClient** (done, section 2). Left: `~TCPClient` and a second `connect()`.
6. **EventLoopThread / EventLoopThreadPool** (start-up done, in TcpServer). Left: runs with two workers, to exercise `getNextLoop`'s wrap with connections on both.
7. **Acceptor** (done, section 2). Left: the destructor, which runs at server teardown only.
8. **ConnectionLifecycle.** An abstract specification of a connection (`up` → `down` → `close`, bytes as an ordered stream). TcpServer is to be shown to refine it through a refinement mapping, checked as a `PROPERTY`.
9. **TcpServer with two connections and two workers.** Round robin and per-loop isolation.

## 6. Not modelled, and why

- Sockets and InetAddress are system-call wrappers. `write` is abstracted by `WriteOutcomes`.
- Logging, `getTcpInfo`, `setTcpNoDelay` and name formatting hold no state of interest.
- Of the HTTP application (`app.cc`), everything but the routing. Its MySQL and Redis glue and the CDN example are left out too. `app.cc` includes `LuteMySQL.h` and a Redis client that are not in the repository, and the page bodies are file and string work. Its hazards (the shared `realFile_`, the unchecked `strcat`) are listed in PROJECT.json. The `realFile_` race across io threads needs several connections of the application. HttpServer models one.
- LuxMySQL's SQL text, bound values and result rows, and the `LuxUtils` string helpers: the properties are about the handle's life, not the data.
- `HttpResponse::appendToBuffer`: `HttpResponse.cc` is not in the repository. Responses are records of status and close flag.
- Buffer's `int32`/`int64` helpers have the shape of the `int16` ones; their values exceed TLC's integers.
- `Channel::tie_` is not modelled. Handlers are atomic steps, so a connection cannot die inside its own handler.
- `forceCloseWithDelay` needs the timer queue (plan item 4).
- `startRead` and `stopRead` from foreign threads are left out. They bind the raw `this` exactly as `send` does, which the uaf run already shows.
