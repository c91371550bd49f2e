---------------------------- MODULE BoundedFifo ----------------------------
(***************************************************************************)
(* What rt_ringbuffer promises to its callers: a queue of at most N bytes. *)
(* "put" drops the bytes that do not fit, the "force" variants drop the    *)
(* oldest ones, "get" delivers in order.  Nothing is said here of mirrors, *)
(* indices or of the pool; RingBuffer implements this specification.       *)
(***************************************************************************)
EXTENDS Naturals, Sequences

CONSTANTS
    N,          \* capacity in bytes (buffer_size)
    Bytes,      \* the byte values a caller can store
    Blocks      \* the blocks a caller can pass to put / put_force

VARIABLES
    q,          \* the bytes stored, oldest first
    ret         \* the bytes the last call transferred; the C return value
                \* of a call is Len(ret)

fifoVars == <<q, ret>>

LesserOf(a, b) == IF a < b THEN a ELSE b

\* The last k elements of s (all of s when it has no more than k).
LastOf(s, k) == IF Len(s) <= k THEN s ELSE SubSeq(s, Len(s) - k + 1, Len(s))

Init == q = <<>> /\ ret = <<>>

\* Store the prefix that fits.
Put(s) ==
    LET fits == SubSeq(s, 1, LesserOf(Len(s), N - Len(q)))
    IN  q' = q \o fits /\ ret' = fits

\* Store all of s (its last N bytes), forgetting the oldest bytes.
PutForce(s) ==
    /\ q' = LastOf(q \o s, N)
    /\ ret' = LastOf(s, N)

\* Deliver and forget the k oldest bytes (all of them when fewer).
Get(k) ==
    LET n == LesserOf(k, Len(q))
    IN  ret' = SubSeq(q, 1, n) /\ q' = SubSeq(q, n + 1, Len(q))

\* Deliver a block of the oldest bytes; empty only if the queue is.
GetSome ==
    \/ q = <<>> /\ q' = q /\ ret' = <<>>
    \/ \E k \in 1..Len(q) : Get(k)

Clear == q' = <<>> /\ ret' = <<>>

Next ==
    \/ \E s \in Blocks : Put(s) \/ PutForce(s)
    \/ \E b \in Bytes : Put(<<b>>) \/ PutForce(<<b>>)
    \/ \E k \in 0..N : Get(k)
    \/ GetSome
    \/ Clear

Spec == Init /\ [][Next]_fifoVars

=============================================================================
