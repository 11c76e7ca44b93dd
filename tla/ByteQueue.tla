----------------------------- MODULE ByteQueue -----------------------------
(***************************************************************************)
(* What a Lute::Buffer promises its callers (spec.md 4.1): an ordered      *)
(* sequence of bytes to which bytes are appended at the back or prepended  *)
(* at the front, and from which a prefix is discarded or handed out.       *)
(* Nothing here speaks of indices, capacity, the prepend window or         *)
(* reallocation: those belong to the implementation (Buffer.tla), which    *)
(* is checked to refine this module.                                       *)
(***************************************************************************)
EXTENDS Naturals, Sequences

CONSTANT Byte                 \* the values a byte may hold

VARIABLES
    q,                        \* the readable bytes, front first
    got                       \* the bytes the last retrieving read returned

vars == <<q, got>>

Init == q = <<>> /\ got = <<>>

\* Some bytes join the back of the queue (append, readFd): the old queue
\* is a prefix of the new one.
Push ==
    /\ Len(q) <= Len(q')
    /\ SubSeq(q', 1, Len(q)) = q
    /\ UNCHANGED got

\* Some bytes join the front of the queue (prepend): the old queue is a
\* suffix of the new one.
PushFront ==
    /\ Len(q) <= Len(q')
    /\ SubSeq(q', Len(q') - Len(q) + 1, Len(q')) = q
    /\ UNCHANGED got

\* The first n bytes leave the queue unseen (retrieve, retrieveAll).
Drop(n) == n <= Len(q) /\ q' = SubSeq(q, n + 1, Len(q)) /\ UNCHANGED got

\* The first n bytes leave the queue and are returned (retrieveAsString,
\* readIntK).
Take(n) ==
    /\ n <= Len(q)
    /\ got' = SubSeq(q, 1, n)
    /\ q' = SubSeq(q, n + 1, Len(q))

\* The last n bytes are taken back (unwrite).
DropBack(n) == n <= Len(q) /\ q' = SubSeq(q, 1, Len(q) - n) /\ UNCHANGED got

Next ==
    \/ q' \in Seq(Byte) /\ (Push \/ PushFront)
    \/ \E n \in 0..Len(q) : Drop(n) \/ Take(n) \/ DropBack(n)

Spec == Init /\ [][Next]_vars
=============================================================================
