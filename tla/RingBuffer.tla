---------------------------- MODULE RingBuffer ----------------------------
(***************************************************************************)
(* components/drivers/ipc/ringbuffer.c: a byte queue in a pool of          *)
(* buffer_size bytes.  Each end is a mirror bit and an index; equal        *)
(* indices mean empty or full according to the mirror bits.  Calls are     *)
(* atomic here, as they are under the lock of a caller such as pipe.c;     *)
(* RingBufferIsr splits them where an interrupt may come in between.       *)
(***************************************************************************)
EXTENDS Naturals, Sequences

CONSTANTS
    N,          \* buffer_size, the pool's size after RT_ALIGN_DOWN
    Bytes,      \* byte values
    MaxBlock    \* longest block the environment passes to put/get

ASSUME NAssumption == N \in Nat \ {0}
ASSUME MaxBlockAssumption == MaxBlock \in Nat

VARIABLES
    buffer_ptr,     \* the pool, [0..N-1 -> Bytes]
    read_mirror, read_index,
    write_mirror, write_index,
    ret             \* bytes the last call transferred; Len(ret) is the
                    \* value it returned

vars == <<buffer_ptr, read_mirror, read_index, write_mirror, write_index, ret>>
readEnd == <<read_mirror, read_index>>
writeEnd == <<write_mirror, write_index>>

\* What a caller may pass: blocks of up to MaxBlock bytes.
Blocks == UNION { [1..n -> Bytes] : n \in 0..MaxBlock }

-----------------------------------------------------------------------------
(* Helpers of the C file *)

status ==
    IF read_index = write_index
    THEN IF read_mirror = write_mirror THEN "EMPTY" ELSE "FULL"
    ELSE "HALFFULL"

data_len ==
    CASE status = "EMPTY" -> 0
      [] status = "FULL" -> N
      [] status = "HALFFULL" ->
            IF write_index > read_index
            THEN write_index - read_index
            ELSE N - (read_index - write_index)

space_len == N - data_len

Flip(mirror) == 1 - mirror

LesserOf(a, b) == IF a < b THEN a ELSE b

\* The pool after the (one or two) memcpy's of the first k bytes of s to
\* the write end: up to the end of the pool, the rest from its start.
CopyIn(s, k) ==
    [j \in 0..N-1 |->
        IF write_index <= j /\ j < write_index + k
        THEN s[j - write_index + 1]
        ELSE IF j + N < write_index + k
             THEN s[j + N - write_index + 1]
             ELSE buffer_ptr[j]]

\* The k bytes from the read end on, in the order the memcpy's deliver them.
CopyOut(k) ==
    [i \in 1..k |->
        IF read_index + i - 1 < N
        THEN buffer_ptr[read_index + i - 1]
        ELSE buffer_ptr[read_index + i - 1 - N]]

\* Mutant: "buffer_size - write_index >= length" does not wrap at the end.
AdvanceWriteOffByOne(k) ==
    IF N - write_index >= k
    THEN /\ write_index' = write_index + k
         /\ write_mirror' = write_mirror
    ELSE /\ write_index' = k - (N - write_index)
         /\ write_mirror' = Flip(write_mirror)

\* The write end moves on by k bytes; reaching the end of the pool takes it
\* to the other side of the mirror.
AdvanceWrite(k) ==
    IF N - write_index > k
    THEN /\ write_index' = write_index + k
         /\ write_mirror' = write_mirror
    ELSE /\ write_index' = k - (N - write_index)
         /\ write_mirror' = Flip(write_mirror)

\* Mutant: the read end wraps without changing its mirror.
AdvanceReadNoFlip(k) ==
    /\ read_index' = IF N - read_index > k THEN read_index + k
                     ELSE k - (N - read_index)
    /\ read_mirror' = read_mirror

AdvanceRead(k) ==
    IF N - read_index > k
    THEN /\ read_index' = read_index + k
         /\ read_mirror' = read_mirror
    ELSE /\ read_index' = k - (N - read_index)
         /\ read_mirror' = Flip(read_mirror)

-----------------------------------------------------------------------------
(* The operations *)

\* rt_ringbuffer_init: both ends at 0; the pool holds what the allocator left.
Init ==
    /\ buffer_ptr \in [0..N-1 -> Bytes]
    /\ read_mirror = 0 /\ read_index = 0
    /\ write_mirror = 0 /\ write_index = 0
    /\ ret = <<>>

put(s) ==
    LET length == LesserOf(Len(s), space_len)
    IN  IF space_len = 0
        THEN ret' = <<>> /\ UNCHANGED <<buffer_ptr, readEnd, writeEnd>>
        ELSE /\ buffer_ptr' = CopyIn(s, length)
             /\ AdvanceWrite(length)
             /\ ret' = SubSeq(s, 1, length)
             /\ UNCHANGED readEnd

\* Mutant: a forced write that comes past the read end leaves its mirror.
put_forceNoMirror(s) ==
    LET length  == LesserOf(Len(s), N)
        tail    == SubSeq(s, Len(s) - length + 1, Len(s))
    IN  /\ buffer_ptr' = CopyIn(tail, length)
        /\ AdvanceWrite(length)
        /\ ret' = tail
        /\ read_index' = IF length > space_len THEN write_index' ELSE read_index
        /\ UNCHANGED read_mirror

\* When the block overran the unread bytes the read end follows the write
\* end, into its mirror too when the write end came past it.
put_force(s) ==
    LET length  == LesserOf(Len(s), N)
        tail    == SubSeq(s, Len(s) - length + 1, Len(s))
        overrun == length > space_len
    IN  /\ buffer_ptr' = CopyIn(tail, length)
        /\ AdvanceWrite(length)
        /\ ret' = tail
        /\ read_index' = IF overrun THEN write_index' ELSE read_index
        /\ read_mirror' = IF /\ overrun
                             /\ N - write_index <= length
                             /\ write_index' <= read_index
                          THEN Flip(read_mirror) ELSE read_mirror

get(k) ==
    LET length == LesserOf(k, data_len)
    IN  IF data_len = 0
        THEN ret' = <<>> /\ UNCHANGED <<buffer_ptr, readEnd, writeEnd>>
        ELSE /\ ret' = CopyOut(length)
             /\ AdvanceRead(length)
             /\ UNCHANGED <<buffer_ptr, writeEnd>>

\* Hands out the bytes up to the end of the pool, and consumes them.
peek ==
    LET size == LesserOf(data_len, N - read_index)
    IN  IF data_len = 0
        THEN ret' = <<>> /\ UNCHANGED <<buffer_ptr, readEnd, writeEnd>>
        ELSE /\ ret' = CopyOut(size)
             /\ AdvanceRead(size)
             /\ UNCHANGED <<buffer_ptr, writeEnd>>

putchar(ch) ==
    IF space_len = 0
    THEN ret' = <<>> /\ UNCHANGED <<buffer_ptr, readEnd, writeEnd>>
    ELSE /\ buffer_ptr' = [buffer_ptr EXCEPT ![write_index] = ch]
         /\ IF write_index = N - 1
            THEN write_mirror' = Flip(write_mirror) /\ write_index' = 0
            ELSE write_index' = write_index + 1 /\ UNCHANGED write_mirror
         /\ ret' = <<ch>>
         /\ UNCHANGED readEnd

putchar_force(ch) ==
    LET wasFull == status = "FULL"
    IN  /\ buffer_ptr' = [buffer_ptr EXCEPT ![write_index] = ch]
        /\ IF write_index = N - 1
           THEN /\ write_mirror' = Flip(write_mirror)
                /\ write_index' = 0
                /\ read_mirror' = IF wasFull THEN Flip(read_mirror)
                                             ELSE read_mirror
           ELSE /\ write_index' = write_index + 1
                /\ UNCHANGED <<write_mirror, read_mirror>>
        /\ read_index' = IF wasFull THEN write_index' ELSE read_index
        /\ ret' = <<ch>>

getchar ==
    IF data_len = 0
    THEN ret' = <<>> /\ UNCHANGED <<buffer_ptr, readEnd, writeEnd>>
    ELSE /\ ret' = <<buffer_ptr[read_index]>>
         /\ IF read_index = N - 1
            THEN read_mirror' = Flip(read_mirror) /\ read_index' = 0
            ELSE read_index' = read_index + 1 /\ UNCHANGED read_mirror
         /\ UNCHANGED <<buffer_ptr, writeEnd>>

reset ==
    /\ read_mirror' = 0 /\ read_index' = 0
    /\ write_mirror' = 0 /\ write_index' = 0
    /\ ret' = <<>>
    /\ UNCHANGED buffer_ptr

Next ==
    \/ \E s \in Blocks : put(s)
    \/ \E s \in Blocks : put_force(s)
    \/ \E k \in 0..MaxBlock : get(k)
    \/ peek
    \/ \E ch \in Bytes : putchar(ch)
    \/ \E ch \in Bytes : putchar_force(ch)
    \/ getchar
    \/ reset

Spec == Init /\ [][Next]_vars

-----------------------------------------------------------------------------
(* Properties *)

\* The fields keep their ranges: no index reaches buffer_size, so no access
\* leaves the pool, and every call returns bytes.
TypeOK ==
    /\ buffer_ptr \in [0..N-1 -> Bytes]
    /\ read_mirror \in {0, 1} /\ write_mirror \in {0, 1}
    /\ read_index \in 0..N-1 /\ write_index \in 0..N-1
    /\ ret \in Seq(Bytes)

\* The write end is ahead of the read end by at most one lap: in the same
\* mirror it is not behind it, in the other mirror it is not past it.  This
\* is what makes rt_ringbuffer_status and rt_ringbuffer_data_len right.
EndsOrdered ==
    IF read_mirror = write_mirror
    THEN read_index <= write_index
    ELSE write_index <= read_index

\* The unread bytes, oldest first.
Unread == CopyOut(data_len)

\* Every call, whatever the mirrors, does what the bounded FIFO does.
Fifo == INSTANCE BoundedFifo WITH q <- Unread

\* The ring buffer implements the bounded FIFO of its callers: put stores
\* the prefix that fits, put_force forgets exactly the oldest bytes, get
\* delivers in order, in every position of the two ends.
ImplementsFifo == Fifo!Spec

=============================================================================
