------------------------------- MODULE Buffer -------------------------------
(***************************************************************************)
(* Lute::Buffer (polaris/Buffer.h, Buffer.cc): a std::vector<char> with a  *)
(* reader and a writer index,                                              *)
(*     0 <= readerIndex_ <= writerIndex_ <= buffer_.size()                 *)
(* and a prepend window of kCheapPrepend bytes before the first reader.    *)
(* The vector is modelled byte for byte (the stale bytes outside the       *)
(* readable region included), so that makeSpace's copy, readFd's two      *)
(* iovecs and prepend are checked on real contents; C index i is TLA+      *)
(* index i+1.  A failing assert() of a build without NDEBUG aborts the     *)
(* process: the model records which one in `aborted`, and stops.          *)
(***************************************************************************)
EXTENDS Naturals, Integers, Sequences

CONSTANTS
    kCheapPrepend,      \* Buffer::kCheapPrepend (8 in the code)
    kInitialSize,       \* Buffer::kInitialSize (1024 in the code)
    ExtraBufSize,       \* sizeof extrabuf in readFd (65536 in the code)
    Data,               \* byte values (0..255) the peer and the callers use
    IntValues,          \* values given to appendIntK / prependIntK
    Widths,             \* K of the readIntK family, in bytes, from {1, 2}
    MaxChunk,           \* bound: longest append / prepend / read(2) result
    MaxSize,            \* bound: longest the vector may grow
    Reserves            \* arguments given to shrink

ASSUME Data \subseteq 0..255 /\ Widths \subseteq {1, 2}

VARIABLES
    buffer_, readerIndex_, writerIndex_,
    got,                \* the bytes the last retrieving call returned
    aborted             \* "none", or the site of the assert() that failed

vars == <<buffer_, readerIndex_, writerIndex_, got, aborted>>

(***************************************************************************)
(* Byte-order conversions.  hostToNetworkK on the (little-endian) hosts    *)
(* the code targets stores x big-endian; peekIntK first memcpys the bytes  *)
(* into an intK_t, i.e. reads them little-endian, asserts that raw value   *)
(* is >= 0, and then converts network to host.                            *)
(***************************************************************************)
Pow256(k) == 256 ^ k

\* The w bytes of intw_t x in network (big-endian) order.
NetworkBytes(x, w) ==
    LET u == (x + Pow256(w)) % Pow256(w)
    IN  [i \in 1..w |-> (u \div Pow256(w - i)) % 256]

\* The values of intk_t, the parameter type of appendIntK / prependIntK.
IntK(k) == (-(Pow256(k) \div 2))..(Pow256(k) \div 2 - 1)

\* What appendIntK(x) / prependIntK(x) write: hostToNetworkK(x).
IntBytes == UNION {{NetworkBytes(x, k) : k \in {w \in Widths : x \in IntK(w)}} : x \in IntValues}

\* The intw_t a little-endian host reads from the bytes bs by memcpy.
HostSigned(bs) ==
    LET w == Len(bs)
        u == LET RECURSIVE Le(_) Le(i) == IF i = 0 THEN 0
                                           ELSE bs[i] * Pow256(i - 1) + Le(i - 1)
             IN  Le(w)
    IN  IF u >= Pow256(w) \div 2 THEN u - Pow256(w) ELSE u

(***************************************************************************)
(* Buffer internals on a record b = [buf, r, w, fail] standing for        *)
(* buffer_, readerIndex_, writerIndex_ and the first failed assert.        *)
(***************************************************************************)
Cur == [buf |-> buffer_, r |-> readerIndex_, w |-> writerIndex_, fail |-> "none"]

\* assert(cond) at site: the first failure is the one that aborts.
Assert(b, cond, site) ==
    IF b.fail = "none" /\ ~cond THEN [b EXCEPT !.fail = site] ELSE b

Readable(b)    == b.w - b.r
Writable(b)    == Len(b.buf) - b.w
Prependable(b) == b.r

\* buffer_.resize(n) for n >= size: new chars are value-initialised to 0.
Resize(v, n) == [i \in 1..n |-> IF i <= Len(v) THEN v[i] ELSE 0]

\* std::copy(s, s + Len(s), begin() + at)
CopyAt(v, at, s) ==
    [i \in 1..Len(v) |-> IF at < i /\ i <= at + Len(s) THEN s[i - at] ELSE v[i]]

\* The readable bytes of b.
Content(b) == SubSeq(b.buf, b.r + 1, b.w)

\* Mutant: makeSpace moves the readable bytes one place short of the
\* prepend boundary.
MakeSpaceShiftOffByOne(b, len) ==
    IF Writable(b) + Prependable(b) < len + kCheapPrepend
    THEN [b EXCEPT !.buf = Resize(b.buf, b.w + len)]
    ELSE Assert([b EXCEPT !.buf = CopyAt(b.buf, kCheapPrepend + 1, Content(b)),
                          !.r = kCheapPrepend,
                          !.w = kCheapPrepend + Readable(b)],
                kCheapPrepend < b.r, "makeSpace")

\* Buffer::makeSpace: reallocate to writerIndex_ + len, or slide the
\* readable bytes back to the prepend boundary (assert kCheapPrepend <
\* readerIndex_).
MakeSpace(b, len) ==
    IF Writable(b) + Prependable(b) < len + kCheapPrepend
    THEN [b EXCEPT !.buf = Resize(b.buf, b.w + len)]
    ELSE Assert([b EXCEPT !.buf = CopyAt(b.buf, kCheapPrepend, Content(b)),
                          !.r = kCheapPrepend,
                          !.w = kCheapPrepend + Readable(b)],
                kCheapPrepend < b.r, "makeSpace")

\* Mutant: ensureWritableBytes makes space even when exactly len bytes
\* are writable already.
EnsureWritableEager(b, len) ==
    LET b1 == IF Writable(b) <= len THEN MakeSpace(b, len) ELSE b
    IN  Assert(b1, Writable(b1) >= len, "ensureWritableBytes")

\* Buffer::ensureWritableBytes, with its trailing assert.
EnsureWritableBytes(b, len) ==
    LET b1 == IF Writable(b) < len THEN MakeSpace(b, len) ELSE b
    IN  Assert(b1, Writable(b1) >= len, "ensureWritableBytes")

\* Buffer::append(data, len): ensureWritableBytes, copy, hasWritten.
DoAppend(b, s) ==
    LET b1 == EnsureWritableBytes(b, Len(s))
    IN  [b1 EXCEPT !.buf = CopyAt(b1.buf, b1.w, s), !.w = b1.w + Len(s)]

\* Buffer::retrieve(len): advance the reader, or reset both indices when
\* everything is consumed (retrieveAll).
DoRetrieve(b, len) ==
    IF len < Readable(b) THEN [b EXCEPT !.r = b.r + len]
    ELSE [b EXCEPT !.r = kCheapPrepend, !.w = kCheapPrepend]

\* Commit a record to the state; a failed assert aborts the process.
Commit(b) ==
    /\ buffer_' = b.buf
    /\ readerIndex_' = b.r
    /\ writerIndex_' = b.w
    /\ aborted' = b.fail

(***************************************************************************)
(* Operations.  Every caller keeps the preconditions the code asserts on  *)
(* its arguments (len <= readableBytes(), len <= prependableBytes()); the *)
(* asserts inside the buffer are checked.  Once one has failed the       *)
(* process is gone and no operation runs.                                 *)
(***************************************************************************)
Chunks == UNION {[1..n -> Data] : n \in 1..MaxChunk}

\* A step that leaves the buffer within the bound on its size.
Within(b) == Len(b.buf) <= MaxSize

Init ==
    /\ buffer_ = [i \in 1..(kCheapPrepend + kInitialSize) |-> 0]
    /\ readerIndex_ = kCheapPrepend
    /\ writerIndex_ = kCheapPrepend
    /\ got = <<>>
    /\ aborted = "none"

\* append(data, len) and appendIntK(x), which appends NetworkBytes(x, K).
append ==
    /\ aborted = "none"
    /\ \E s \in Chunks \cup IntBytes :
        /\ Within(DoAppend(Cur, s))
        /\ Commit(DoAppend(Cur, s))
        /\ UNCHANGED got

\* prepend(data, len) and prependIntK(x): move the reader back and copy.
prepend ==
    /\ aborted = "none"
    /\ \E s \in Chunks \cup IntBytes :
        /\ Len(s) <= Prependable(Cur)
        /\ buffer_' = CopyAt(buffer_, readerIndex_ - Len(s), s)
        /\ readerIndex_' = readerIndex_ - Len(s)
        /\ UNCHANGED <<writerIndex_, got, aborted>>

\* hasWritten(len) after the caller copied len bytes to beginWrite()
\* (assert len <= writableBytes()), and unwrite(len) (assert len <=
\* readableBytes()).
hasWritten ==
    /\ aborted = "none"
    /\ \E s \in Chunks :
        /\ Len(s) <= Writable(Cur)
        /\ buffer_' = CopyAt(buffer_, writerIndex_, s)
        /\ writerIndex_' = writerIndex_ + Len(s)
    /\ UNCHANGED <<readerIndex_, got, aborted>>

unwrite ==
    /\ aborted = "none"
    /\ \E len \in 1..Readable(Cur) : writerIndex_' = writerIndex_ - len
    /\ UNCHANGED <<buffer_, readerIndex_, got, aborted>>

\* retrieve(len) and retrieveAll(): bytes are consumed unseen.
retrieve ==
    /\ aborted = "none"
    /\ \/ \E len \in 0..Readable(Cur) : Commit(DoRetrieve(Cur, len))
       \/ Commit([Cur EXCEPT !.r = kCheapPrepend, !.w = kCheapPrepend])
    /\ UNCHANGED got

\* retrieveAsString(len) and retrieveAllAsString().
retrieveAsString ==
    /\ aborted = "none"
    /\ \E len \in 0..Readable(Cur) :
        /\ got' = SubSeq(Content(Cur), 1, len)
        /\ Commit(DoRetrieve(Cur, len))

\* readIntK(): peekIntK (assert readable >= K; for K > 1 assert the bytes
\* read little-endian are >= 0), then retrieve(K).
readInt ==
    /\ aborted = "none"
    /\ \E k \in Widths :
        /\ k <= Readable(Cur)
        /\ got' = SubSeq(Content(Cur), 1, k)
        /\ Commit(Assert(DoRetrieve(Cur, k),
                         k = 1 \/ HostSigned(SubSeq(Content(Cur), 1, k)) >= 0,
                         "peekInt"))

\* shrink(reserve): shrink_to_fit leaves size() alone, then
\* ensureWritableBytes(readableBytes() + reserve).
shrink(reserve) ==
    /\ aborted = "none"
    /\ Within(EnsureWritableBytes(Cur, Readable(Cur) + reserve))
    /\ Commit(EnsureWritableBytes(Cur, Readable(Cur) + reserve))
    /\ UNCHANGED got

\* Mutant: readFd advances writerIndex_ by n even when part of the data
\* went to extrabuf.
AfterReadNoOverflow(b, s) ==
    [b EXCEPT !.buf = CopyAt(b.buf, b.w, s), !.w = b.w + Len(s)]

\* The buffer after readv(2) returned the n > 0 bytes s: they fill the
\* writable tail first; the rest landed in extrabuf and is appended.
AfterRead(b, s) ==
    IF Len(s) <= Writable(b)
    THEN [b EXCEPT !.buf = CopyAt(b.buf, b.w, s), !.w = b.w + Len(s)]
    ELSE DoAppend([b EXCEPT !.buf = CopyAt(b.buf, b.w, SubSeq(s, 1, Writable(b))),
                            !.w = Len(b.buf)],
                  SubSeq(s, Writable(b) + 1, Len(s)))

\* readFd(fd): one readv into the tail and, while the tail is shorter than
\* extrabuf, into extrabuf.  A result n <= 0 leaves the buffer alone.
readFd ==
    LET limit == IF Writable(Cur) < ExtraBufSize
                 THEN Writable(Cur) + ExtraBufSize ELSE Writable(Cur)
    IN  /\ aborted = "none"
        /\ \E s \in Chunks :
            /\ Len(s) <= limit
            /\ Within(AfterRead(Cur, s))
            /\ Commit(AfterRead(Cur, s))
            /\ UNCHANGED got

Next ==
    \/ append
    \/ prepend
    \/ hasWritten
    \/ unwrite
    \/ retrieve
    \/ retrieveAsString
    \/ readInt
    \/ \E reserve \in Reserves : shrink(reserve)
    \/ readFd

Spec == Init /\ [][Next]_vars

(***************************************************************************)
(* Properties.                                                            *)
(***************************************************************************)
TypeOK ==
    /\ buffer_ \in Seq(0..255)
    /\ 0 <= readerIndex_ /\ readerIndex_ <= writerIndex_
    /\ writerIndex_ <= Len(buffer_)
    /\ got \in Seq(0..255)
    /\ aborted \in {"none", "makeSpace", "ensureWritableBytes", "peekInt"}

\* The space asserts never fire, for any sequence of calls that keeps
\* the callers' preconditions: ensureWritableBytes' postcondition
\* writableBytes() >= len, and makeSpace's kCheapPrepend < readerIndex_
\* when it slides, which holds only because ensureWritableBytes calls it
\* strictly below len writable bytes.  peekIntK's sign check is not among
\* them: it fires for every value whose low byte is 128 or more
\* (readInt16 after appendInt16(128), or appendInt16(-2) as in
\* test/buffer_unit.cc), and the process then stops.
SpaceAssertsHold == aborted \in {"none", "peekInt"}

\* Buffer implements ByteQueue: makeSpace's slide, reallocation, readFd's
\* two iovecs, prepend into the window and retrieve's index reset never
\* lose, duplicate, reorder or invent a readable byte, and every
\* retrieving call returns the front bytes.
BQ == INSTANCE ByteQueue WITH q <- Content(Cur), got <- got, Byte <- 0..255
ImplementsByteQueue == BQ!Spec

=============================================================================
