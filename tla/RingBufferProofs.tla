-------------------------- MODULE RingBufferProofs --------------------------
(***************************************************************************)
(* The ring buffer for every capacity N and every set of bytes.  First     *)
(* with atomic calls (RingBuffer): the indices stay in the pool, the two   *)
(* ends stay ordered, and every call is a step of the bounded FIFO.  Then  *)
(* with an interrupt inside the thread's calls (RingBufferIsr).            *)
(***************************************************************************)
EXTENDS RingBufferIsr, TLAPS

\* The inductive invariant.  TypeOK alone is not inductive: that the data
\* length is within 0..N rests on the order of the ends.
IInv == TypeOK /\ EndsOrdered

\* data_len is the distance from the read end to the write end, and a
\* number of bytes that fits the pool.
LEMMA DataLenRange ==
    ASSUME IInv
    PROVE  /\ data_len \in 0..N
           /\ read_mirror = write_mirror => data_len = write_index - read_index
           /\ read_mirror # write_mirror => data_len = N - (read_index - write_index)
           /\ space_len \in 0..N
           /\ space_len = N - data_len
  BY NAssumption DEF IInv, TypeOK, EndsOrdered, data_len, status, space_len

\* The copies stay inside the pool and the block.
LEMMA CopyInType ==
    ASSUME IInv, NEW s \in Seq(Bytes), NEW k \in 0..N, k <= Len(s)
    PROVE  CopyIn(s, k) \in [0..N-1 -> Bytes]
  <1> SUFFICES ASSUME NEW j \in 0..N-1
               PROVE  CopyIn(s, k)[j] \in Bytes
    BY DEF CopyIn
  <1>1. CASE write_index <= j /\ j < write_index + k
    <2>1. j - write_index + 1 \in 1..Len(s)
      BY <1>1, NAssumption DEF IInv, TypeOK
    <2> QED BY <1>1, <2>1 DEF CopyIn
  <1>2. CASE ~(write_index <= j /\ j < write_index + k) /\ j + N < write_index + k
    <2>1. j + N - write_index + 1 \in 1..Len(s)
      BY <1>2, NAssumption DEF IInv, TypeOK
    <2> QED BY <1>2, <2>1 DEF CopyIn
  <1>3. CASE ~(write_index <= j /\ j < write_index + k) /\ ~(j + N < write_index + k)
    BY <1>3 DEF CopyIn, IInv, TypeOK
  <1> QED BY <1>1, <1>2, <1>3

LEMMA CopyInCharType ==
    ASSUME IInv, NEW ch \in Bytes
    PROVE  CopyIn(<<ch>>, 1) \in [0..N-1 -> Bytes]
  <1> DEFINE s == <<ch>>
  <1>1. s \in Seq(Bytes) /\ Len(s) = 1 /\ 1 \in 0..N /\ 1 <= Len(s)
    BY NAssumption
  <1> HIDE DEF s
  <1>2. CopyIn(s, 1) \in [0..N-1 -> Bytes]
    BY <1>1, CopyInType
  <1> QED BY <1>2 DEF s

LEMMA CopyOutType ==
    ASSUME IInv, NEW k \in 0..N
    PROVE  CopyOut(k) \in Seq(Bytes) /\ Len(CopyOut(k)) = k
  <1>1. \A i \in 1..k : /\ read_index + i - 1 < N => read_index + i - 1 \in 0..N-1
                        /\ ~(read_index + i - 1 < N) => read_index + i - 1 - N \in 0..N-1
    BY NAssumption DEF IInv, TypeOK
  <1>2. CopyOut(k) \in [1..k -> Bytes]
    BY <1>1 DEF CopyOut, IInv, TypeOK
  <1> QED BY <1>2

\* Moving an end by at most the space (or data) there is keeps the ends in
\* the pool and in order.
LEMMA AdvanceWriteOrdered ==
    ASSUME IInv, NEW k \in 0..N, k <= space_len,
           AdvanceWrite(k), UNCHANGED readEnd
    PROVE  /\ write_mirror' \in {0, 1} /\ write_index' \in 0..N-1
           /\ read_mirror' \in {0, 1} /\ read_index' \in 0..N-1
           /\ EndsOrdered'
  <1>1. CASE read_mirror = write_mirror
    <2>1. k <= N - (write_index - read_index)
      BY <1>1, DataLenRange
    <2> QED
      BY <1>1, <2>1, NAssumption
      DEF AdvanceWrite, Flip, IInv, TypeOK, EndsOrdered, readEnd
  <1>2. CASE read_mirror # write_mirror
    <2>1. k <= read_index - write_index
      BY <1>2, DataLenRange, NAssumption DEF IInv, TypeOK
    <2> QED
      BY <1>2, <2>1, NAssumption
      DEF AdvanceWrite, Flip, IInv, TypeOK, EndsOrdered, readEnd
  <1> QED BY <1>1, <1>2

LEMMA AdvanceReadOrdered ==
    ASSUME IInv, NEW k \in 0..N, k <= data_len,
           AdvanceRead(k), UNCHANGED writeEnd
    PROVE  /\ write_mirror' \in {0, 1} /\ write_index' \in 0..N-1
           /\ read_mirror' \in {0, 1} /\ read_index' \in 0..N-1
           /\ EndsOrdered'
  <1>1. CASE read_mirror = write_mirror
    <2>1. k <= write_index - read_index
      BY <1>1, DataLenRange
    <2> QED
      BY <1>1, <2>1, NAssumption
      DEF AdvanceRead, Flip, IInv, TypeOK, EndsOrdered, writeEnd
  <1>2. CASE read_mirror # write_mirror
    <2>1. k <= N - (read_index - write_index)
      BY <1>2, DataLenRange
    <2> QED
      BY <1>2, <2>1, NAssumption
      DEF AdvanceRead, Flip, IInv, TypeOK, EndsOrdered, writeEnd
  <1> QED BY <1>1, <1>2

\* putchar and getchar are the one-byte cases, written differently.
LEMMA PutcharIsAdvance ==
    ASSUME IInv, NEW ch \in Bytes, space_len # 0, putchar(ch)
    PROVE  /\ AdvanceWrite(1) /\ UNCHANGED readEnd
           /\ buffer_ptr' = CopyIn(<<ch>>, 1)
           /\ ret' = <<ch>>
  <1>1. AdvanceWrite(1)
    BY NAssumption DEF putchar, AdvanceWrite, IInv, TypeOK
  <1>2. \A j \in 0..N-1 : CopyIn(<<ch>>, 1)[j] = [buffer_ptr EXCEPT ![write_index] = ch][j]
    BY NAssumption DEF CopyIn, IInv, TypeOK
  <1>3. CopyIn(<<ch>>, 1) = [buffer_ptr EXCEPT ![write_index] = ch]
    BY <1>2 DEF CopyIn, IInv, TypeOK
  <1> QED BY <1>1, <1>3 DEF putchar

LEMMA GetcharIsAdvance ==
    ASSUME IInv, data_len # 0, getchar
    PROVE  /\ AdvanceRead(1) /\ UNCHANGED <<buffer_ptr, writeEnd>>
           /\ ret' = CopyOut(1)
  <1>1. AdvanceRead(1) /\ UNCHANGED <<buffer_ptr, writeEnd>>
    BY NAssumption DEF getchar, AdvanceRead, IInv, TypeOK
  <1>2. CopyOut(1) = <<buffer_ptr[read_index]>>
    BY NAssumption DEF CopyOut, IInv, TypeOK
  <1> QED BY <1>1, <1>2 DEF getchar

\* A forced write that overruns unread bytes leaves both ends at the same
\* place in different mirrors: the buffer is full.
LEMMA OverrunFills ==
    ASSUME IInv, NEW k \in 0..N, k > space_len,
           AdvanceWrite(k),
           read_index' = write_index',
           read_mirror' = IF N - write_index <= k /\ write_index' <= read_index
                          THEN Flip(read_mirror) ELSE read_mirror
    PROVE  /\ write_mirror' \in {0, 1} /\ write_index' \in 0..N-1
           /\ read_mirror' \in {0, 1} /\ read_mirror' # write_mirror'
           /\ EndsOrdered'
  <1>1. CASE read_mirror = write_mirror
    <2>1. k > N - (write_index - read_index)
      BY <1>1, DataLenRange
    <2> QED
      BY <1>1, <2>1, NAssumption
      DEF AdvanceWrite, Flip, IInv, TypeOK, EndsOrdered
  <1>2. CASE read_mirror # write_mirror
    <2>1. k > read_index - write_index
      BY <1>2, DataLenRange, NAssumption DEF IInv, TypeOK
    <2> QED
      BY <1>2, <2>1, NAssumption
      DEF AdvanceWrite, Flip, IInv, TypeOK, EndsOrdered
  <1> QED BY <1>1, <1>2

\* putchar_force is putchar while there is space; on a full buffer it is a
\* one-byte overrun.
LEMMA PutcharForceIsAdvance ==
    ASSUME IInv, NEW ch \in Bytes, putchar_force(ch)
    PROVE  /\ AdvanceWrite(1)
           /\ buffer_ptr' = CopyIn(<<ch>>, 1)
           /\ space_len >= 1 => UNCHANGED readEnd
           /\ space_len = 0 =>
                /\ read_index' = write_index'
                /\ read_mirror' = IF N - write_index <= 1 /\ write_index' <= read_index
                                  THEN Flip(read_mirror) ELSE read_mirror
           /\ ret' = <<ch>>
  <1>1. AdvanceWrite(1)
    BY NAssumption DEF putchar_force, AdvanceWrite, IInv, TypeOK
  <1>2. \A j \in 0..N-1 : CopyIn(<<ch>>, 1)[j] = [buffer_ptr EXCEPT ![write_index] = ch][j]
    BY NAssumption DEF CopyIn, IInv, TypeOK
  <1>3. CopyIn(<<ch>>, 1) = [buffer_ptr EXCEPT ![write_index] = ch]
    BY <1>2 DEF CopyIn, IInv, TypeOK
  <1>4. (space_len = 0) = (status = "FULL")
    BY NAssumption DEF IInv, TypeOK, EndsOrdered, data_len, status, space_len
  <1>5. space_len >= 1 => UNCHANGED readEnd
    BY <1>4 DEF putchar_force, readEnd
  <1>6. ASSUME space_len = 0
        PROVE  /\ read_index' = write_index'
               /\ read_mirror' = IF N - write_index <= 1 /\ write_index' <= read_index
                                 THEN Flip(read_mirror) ELSE read_mirror
    BY <1>4, <1>6, NAssumption DEF putchar_force, IInv, TypeOK, status
  <1> QED BY <1>1, <1>3, <1>5, <1>6 DEF putchar_force

\* Each operation preserves the invariant.
LEMMA BlockIsSeq ==
    ASSUME NEW s \in Blocks
    PROVE  s \in Seq(Bytes) /\ Len(s) \in 0..MaxBlock
  BY MaxBlockAssumption DEF Blocks

LEMMA PutStep ==
    ASSUME IInv, NEW s \in Blocks, put(s)
    PROVE  IInv'
  <1>1. CASE space_len = 0
    BY <1>1 DEF put, IInv, TypeOK, EndsOrdered, readEnd, writeEnd
  <1>2. CASE space_len # 0
    <2> DEFINE length == LesserOf(Len(s), space_len)
    <2>1. length \in 0..N /\ length <= Len(s) /\ length <= space_len
      BY BlockIsSeq, DataLenRange, MaxBlockAssumption, NAssumption DEF LesserOf
    <2>2. buffer_ptr' = CopyIn(s, length) /\ AdvanceWrite(length) /\ UNCHANGED readEnd
          /\ ret' = SubSeq(s, 1, length)
      BY <1>2 DEF put
    <2>3. ret' \in Seq(Bytes)
      BY <2>1, <2>2, BlockIsSeq
    <2>4. buffer_ptr' \in [0..N-1 -> Bytes]
      BY <2>1, <2>2, BlockIsSeq, CopyInType
    <2> HIDE DEF length
    <2> QED
      BY <2>1, <2>2, <2>3, <2>4, AdvanceWriteOrdered DEF IInv, TypeOK
  <1> QED BY <1>1, <1>2

LEMMA PutForceStep ==
    ASSUME IInv, NEW s \in Blocks, put_force(s)
    PROVE  IInv'
  <1> DEFINE length == LesserOf(Len(s), N)
             tail == SubSeq(s, Len(s) - length + 1, Len(s))
  <1>1. length \in 0..N /\ length <= Len(s)
    BY BlockIsSeq, MaxBlockAssumption, NAssumption DEF LesserOf
  <1>2. tail \in Seq(Bytes) /\ Len(tail) = length
    BY <1>1, BlockIsSeq, MaxBlockAssumption
  <1>3. /\ buffer_ptr' = CopyIn(tail, length) /\ AdvanceWrite(length) /\ ret' = tail
        /\ length > space_len =>
             /\ read_index' = write_index'
             /\ read_mirror' = IF N - write_index <= length /\ write_index' <= read_index
                               THEN Flip(read_mirror) ELSE read_mirror
        /\ ~(length > space_len) => UNCHANGED readEnd
    BY DEF put_force, readEnd
  <1> HIDE DEF length, tail
  <1>4. buffer_ptr' \in [0..N-1 -> Bytes]
    BY <1>1, <1>2, <1>3, CopyInType
  <1>5. CASE length > space_len
    BY <1>1, <1>2, <1>3, <1>4, <1>5, OverrunFills DEF IInv, TypeOK
  <1>6. CASE ~(length > space_len)
    <2>1. length <= space_len
      BY <1>1, <1>6, DataLenRange, NAssumption
    <2> QED
      BY <1>1, <1>2, <1>3, <1>4, <1>6, <2>1, AdvanceWriteOrdered DEF IInv, TypeOK
  <1> QED BY <1>5, <1>6

LEMMA GetStep ==
    ASSUME IInv, NEW k \in Nat, get(k)
    PROVE  IInv'
  <1>1. CASE data_len = 0
    BY <1>1 DEF get, IInv, TypeOK, EndsOrdered, readEnd, writeEnd
  <1>2. CASE data_len # 0
    <2> DEFINE length == LesserOf(k, data_len)
    <2>1. length \in 0..N /\ length <= data_len
      BY DataLenRange, NAssumption DEF LesserOf
    <2>2. ret' = CopyOut(length) /\ AdvanceRead(length) /\ UNCHANGED <<buffer_ptr, writeEnd>>
      BY <1>2 DEF get
    <2> HIDE DEF length
    <2> QED
      BY <2>1, <2>2, CopyOutType, AdvanceReadOrdered DEF IInv, TypeOK
  <1> QED BY <1>1, <1>2

LEMMA PeekStep ==
    ASSUME IInv, peek
    PROVE  IInv'
  <1>1. CASE data_len = 0
    BY <1>1 DEF peek, IInv, TypeOK, EndsOrdered, readEnd, writeEnd
  <1>2. CASE data_len # 0
    <2> DEFINE size == LesserOf(data_len, N - read_index)
    <2>1. size \in 0..N /\ size <= data_len
      BY DataLenRange, NAssumption DEF LesserOf, IInv, TypeOK
    <2>2. ret' = CopyOut(size) /\ AdvanceRead(size) /\ UNCHANGED <<buffer_ptr, writeEnd>>
      BY <1>2 DEF peek
    <2> HIDE DEF size
    <2> QED
      BY <2>1, <2>2, CopyOutType, AdvanceReadOrdered DEF IInv, TypeOK
  <1> QED BY <1>1, <1>2

LEMMA PutcharStep ==
    ASSUME IInv, NEW ch \in Bytes, putchar(ch)
    PROVE  IInv'
  <1>1. CASE space_len = 0
    BY <1>1 DEF putchar, IInv, TypeOK, EndsOrdered, readEnd, writeEnd
  <1>2. CASE space_len # 0
    <2>1. 1 \in 0..N /\ 1 <= space_len
      BY <1>2, DataLenRange, NAssumption
    <2>2. <<ch>> \in Seq(Bytes) /\ Len(<<ch>>) = 1
      OBVIOUS
    <2>3. AdvanceWrite(1) /\ UNCHANGED readEnd /\ ret' = <<ch>>
          /\ buffer_ptr' = CopyIn(<<ch>>, 1)
      BY <1>2, PutcharIsAdvance
    <2>4. buffer_ptr' \in [0..N-1 -> Bytes]
      BY <2>3, CopyInCharType
    <2> QED
      BY <2>1, <2>2, <2>3, <2>4, AdvanceWriteOrdered DEF IInv, TypeOK
  <1> QED BY <1>1, <1>2

LEMMA PutcharForceStep ==
    ASSUME IInv, NEW ch \in Bytes, putchar_force(ch)
    PROVE  IInv'
  <1>1. <<ch>> \in Seq(Bytes) /\ Len(<<ch>>) = 1 /\ 1 \in 0..N
    BY NAssumption
  <1>2. AdvanceWrite(1) /\ ret' = <<ch>> /\ buffer_ptr' = CopyIn(<<ch>>, 1)
    BY PutcharForceIsAdvance
  <1>3. buffer_ptr' \in [0..N-1 -> Bytes]
    BY <1>2, CopyInCharType
  <1>4. CASE space_len = 0
    BY <1>1, <1>2, <1>3, <1>4, PutcharForceIsAdvance, OverrunFills DEF IInv, TypeOK
  <1>5. CASE space_len # 0
    <2>1. 1 <= space_len
      BY <1>5, DataLenRange, NAssumption
    <2> QED
      BY <1>1, <1>2, <1>3, <2>1, PutcharForceIsAdvance, AdvanceWriteOrdered
      DEF IInv, TypeOK
  <1> QED BY <1>4, <1>5

LEMMA GetcharStep ==
    ASSUME IInv, getchar
    PROVE  IInv'
  <1>1. CASE data_len = 0
    BY <1>1 DEF getchar, IInv, TypeOK, EndsOrdered, readEnd, writeEnd
  <1>2. CASE data_len # 0
    <2>1. 1 \in 0..N /\ 1 <= data_len
      BY <1>2, DataLenRange, NAssumption
    <2> QED
      BY <1>2, <2>1, GetcharIsAdvance, CopyOutType, AdvanceReadOrdered DEF IInv, TypeOK
  <1> QED BY <1>1, <1>2

\* The invariant is inductive.
LEMMA IInvInit == Init => IInv
  BY NAssumption DEF Init, IInv, TypeOK, EndsOrdered

LEMMA IInvNext == IInv /\ [Next]_vars => IInv'
  <1> SUFFICES ASSUME IInv, [Next]_vars PROVE IInv'
    OBVIOUS
  <1>1. ASSUME NEW s \in Blocks, put(s) PROVE IInv'
    BY <1>1, PutStep
  <1>2. ASSUME NEW s \in Blocks, put_force(s) PROVE IInv'
    BY <1>2, PutForceStep
  <1>3. ASSUME NEW k \in 0..MaxBlock, get(k) PROVE IInv'
    BY <1>3, GetStep, MaxBlockAssumption
  <1>4. CASE peek
    BY <1>4, PeekStep
  <1>5. ASSUME NEW ch \in Bytes, putchar(ch) PROVE IInv'
    BY <1>5, PutcharStep
  <1>6. ASSUME NEW ch \in Bytes, putchar_force(ch) PROVE IInv'
    BY <1>6, PutcharForceStep
  <1>7. CASE getchar
    BY <1>7, GetcharStep
  <1>8. CASE reset
    BY <1>8, NAssumption DEF reset, IInv, TypeOK, EndsOrdered
  <1>9. CASE UNCHANGED vars
    BY <1>9 DEF vars, IInv, TypeOK, EndsOrdered
  <1> QED BY <1>1, <1>2, <1>3, <1>4, <1>5, <1>6, <1>7, <1>8, <1>9 DEF Next

\* For every capacity, no sequence of calls of ringbuffer.c takes an index
\* out of the pool.
THEOREM TypeCorrect == Spec => []TypeOK
  <1>1. IInv => TypeOK
    BY DEF IInv
  <1> QED BY <1>1, IInvInit, IInvNext, PTL DEF Spec

\* For every capacity, the write end never laps the read end, which is what
\* rt_ringbuffer_status and rt_ringbuffer_data_len rely on.
THEOREM EndsStayOrdered == Spec => []EndsOrdered
  <1>1. IInv => EndsOrdered
    BY DEF IInv
  <1> QED BY <1>1, IInvInit, IInvNext, PTL DEF Spec

-----------------------------------------------------------------------------
(* The bounded FIFO *)

\* A place of the pool, for a count that may go one lap on.
Pos(x) == IF x < N THEN x ELSE x - N

\* n bytes of the pool from the read index on.
Content(buf, ri, n) == [i \in 1..n |-> buf[Pos(ri + i - 1)]]

\* The number of bytes between two ends in order.
Distance(rm, ri, wm, wi) == IF rm = wm THEN wi - ri ELSE N - (ri - wi)

LEMMA ContentType ==
    ASSUME NEW buf \in [0..N-1 -> Bytes], NEW ri \in 0..N-1, NEW n \in 0..N
    PROVE  /\ Content(buf, ri, n) \in Seq(Bytes) /\ Len(Content(buf, ri, n)) = n
           /\ \A i \in 1..n : /\ Pos(ri + i - 1) \in 0..N-1
                              /\ Content(buf, ri, n)[i] = buf[Pos(ri + i - 1)]
<1>1. \A i \in 1..n : Pos(ri + i - 1) \in 0..N-1
    BY NAssumption DEF Pos
<1>2. Content(buf, ri, n) \in [1..n -> Bytes]
    BY <1>1 DEF Content
<1>3. Content(buf, ri, n) \in Seq(Bytes) /\ Len(Content(buf, ri, n)) = n
    BY <1>2, NAssumption
<1> QED
    BY <1>1, <1>3 DEF Content

LEMMA CopyIsContent ==
    ASSUME NEW buf, NEW ri \in 0..N-1, NEW n \in 0..N
    PROVE  [i \in 1..n |-> IF ri + i - 1 < N THEN buf[ri + i - 1] ELSE buf[ri + i - 1 - N]]
             = Content(buf, ri, n)
<1>1. \A i \in 1..n : (IF ri + i - 1 < N THEN buf[ri + i - 1] ELSE buf[ri + i - 1 - N])
                          = buf[Pos(ri + i - 1)]
    <2> TAKE i \in 1..n
    <2>1. CASE ri + i - 1 < N
        <3>1. Pos(ri + i - 1) = ri + i - 1
            BY <2>1, Zenon DEF Pos
        <3> QED
            BY <2>1, <3>1
    <2>2. CASE ~(ri + i - 1 < N)
        <3>1. Pos(ri + i - 1) = ri + i - 1 - N
            BY <2>2, NAssumption DEF Pos
        <3> QED
            BY <2>2, <3>1
    <2> QED
        BY <2>1, <2>2
<1> QED
    BY <1>1, Zenon DEF Content

\* What is unread, before and after a step.
LEMMA UnreadBefore ==
    ASSUME IInv
    PROVE  /\ data_len = Distance(read_mirror, read_index, write_mirror, write_index)
           /\ data_len \in 0..N
           /\ Unread = Content(buffer_ptr, read_index, data_len)
<1>1. /\ data_len = Distance(read_mirror, read_index, write_mirror, write_index)
      /\ data_len \in 0..N
    BY NAssumption DEF IInv, TypeOK, EndsOrdered, data_len, status, Distance
<1>2. Unread = Content(buffer_ptr, read_index, data_len)
    BY <1>1, CopyIsContent DEF Unread, CopyOut, IInv, TypeOK
<1> QED
    BY <1>1, <1>2

LEMMA UnreadAfter ==
    ASSUME IInv'
    PROVE  /\ data_len' = Distance(read_mirror', read_index', write_mirror', write_index')
           /\ data_len' \in 0..N
           /\ Unread' = Content(buffer_ptr', read_index', data_len')
<1>1. /\ data_len' = Distance(read_mirror', read_index', write_mirror', write_index')
      /\ data_len' \in 0..N
    BY NAssumption DEF IInv, TypeOK, EndsOrdered, data_len, status, Distance
<1>2. Unread' = Content(buffer_ptr', read_index', data_len')
    BY <1>1, CopyIsContent DEF Unread, CopyOut, IInv, TypeOK
<1> QED
    BY <1>1, <1>2

LEMMA UnreadIsContent ==
    ASSUME IInv, IInv'
    PROVE  /\ data_len = Distance(read_mirror, read_index, write_mirror, write_index)
           /\ data_len' = Distance(read_mirror', read_index', write_mirror', write_index')
           /\ data_len \in 0..N /\ data_len' \in 0..N
           /\ Unread = Content(buffer_ptr, read_index, data_len)
           /\ Unread' = Content(buffer_ptr', read_index', data_len')
BY UnreadBefore, UnreadAfter

LEMMA Concat ==
    ASSUME NEW s \in Seq(Bytes), NEW t \in Seq(Bytes)
    PROVE  /\ s \o t \in Seq(Bytes) /\ Len(s \o t) = Len(s) + Len(t)
           /\ \A i \in 1..Len(s) : (s \o t)[i] = s[i]
           /\ \A i \in 1..Len(t) : (s \o t)[Len(s) + i] = t[i]
OBVIOUS

\* Two sequences are equal when their elements are.
LEMMA SameSeq ==
    ASSUME NEW s \in Seq(Bytes), NEW t \in Seq(Bytes), Len(s) = Len(t),
           \A i \in 1..Len(s) : s[i] = t[i]
    PROVE  s = t
OBVIOUS

\* A write into free space appends.
LEMMA WriteAppends ==
    ASSUME IInv, IInv', NEW s \in Seq(Bytes), NEW k \in 0..N, k <= Len(s), k <= space_len,
           buffer_ptr' = CopyIn(s, k), AdvanceWrite(k), UNCHANGED readEnd
    PROVE  Unread' = Unread \o SubSeq(s, 1, k)
<1> DEFINE n == data_len
           ri == read_index
           wi == write_index
           x == SubSeq(s, 1, k)
<1>1. /\ n \in 0..N /\ k <= N - n /\ ri \in 0..N-1 /\ wi \in 0..N-1 /\ N \in Nat /\ N > 0
      /\ wi = ri + n \/ wi = ri + n - N
      /\ buffer_ptr \in [0..N-1 -> Bytes] /\ buffer_ptr' \in [0..N-1 -> Bytes]
    <2>1. /\ ri \in 0..N-1 /\ wi \in 0..N-1 /\ N \in Nat /\ N > 0
          /\ buffer_ptr \in [0..N-1 -> Bytes] /\ buffer_ptr' \in [0..N-1 -> Bytes]
        BY NAssumption DEF IInv, TypeOK
    <2>2. n \in 0..N /\ k <= N - n /\ (n = wi - ri \/ n = N - (ri - wi))
        BY DataLenRange
    <2> HIDE DEF n
    <2> QED
        BY <2>1, <2>2
<1>2. data_len' = n + k /\ n + k \in 0..N /\ read_index' = ri
    <2>1. read_mirror' = read_mirror /\ read_index' = ri
        BY DEF readEnd
    <2>2. data_len' = Distance(read_mirror, ri, write_mirror', write_index')
        BY <2>1, UnreadIsContent
    <2>3. n = Distance(read_mirror, ri, write_mirror, wi)
        BY UnreadIsContent
    <2> HIDE DEF n
    <2>4. CASE N - wi > k
        <3>1. write_index' = wi + k /\ write_mirror' = write_mirror
            BY <2>4 DEF AdvanceWrite
        <3>2. data_len' = n + k
            BY <1>1, <2>2, <2>3, <3>1 DEF Distance
        <3> QED
            BY <1>1, <2>1, <3>2
    <2>5. CASE ~(N - wi > k)
        <3>1. write_index' = k - (N - wi) /\ write_mirror' = 1 - write_mirror
            BY <2>5 DEF AdvanceWrite, Flip
        <3>2. read_mirror \in {0, 1} /\ write_mirror \in {0, 1}
            BY DEF IInv, TypeOK
        <3>3. read_mirror = write_mirror
            BY <1>1, <2>3, <2>5, <3>2 DEF Distance, IInv, EndsOrdered
        <3>4. data_len' = n + k
            BY <1>1, <2>2, <2>3, <3>1, <3>2, <3>3 DEF Distance
        <3> QED
            BY <1>1, <2>1, <3>4
    <2> QED
        BY <2>4, <2>5
<1>3. x \in Seq(Bytes) /\ Len(x) = k /\ \A i \in 1..k : x[i] = s[i]
    OBVIOUS
<1>4. /\ Unread = Content(buffer_ptr, ri, n) /\ Unread' = Content(buffer_ptr', ri, n + k)
    BY <1>2, UnreadIsContent
<1> HIDE DEF n, x
<1>5. /\ Unread \in Seq(Bytes) /\ Len(Unread) = n
      /\ \A i \in 1..n : Pos(ri + i - 1) \in 0..N-1 /\ Unread[i] = buffer_ptr[Pos(ri + i - 1)]
    BY <1>1, <1>4, ContentType
<1>6. /\ Unread' \in Seq(Bytes) /\ Len(Unread') = n + k
      /\ \A i \in 1..n + k : /\ Pos(ri + i - 1) \in 0..N-1
                             /\ Unread'[i] = CopyIn(s, k)[Pos(ri + i - 1)]
    BY <1>1, <1>2, <1>4, ContentType
<1>7. (Unread \o x) \in Seq(Bytes) /\ Len(Unread \o x) = n + k
    BY <1>3, <1>5, Concat
<1>8. ASSUME NEW i \in 1..n + k
      PROVE  Unread'[i] = (Unread \o x)[i]
    <2>1. Pos(ri + i - 1) \in 0..N-1 /\ Unread'[i] = CopyIn(s, k)[Pos(ri + i - 1)]
        BY <1>6
    <2>2. CASE i <= n
        <3>1. (Unread \o x)[i] = Unread[i]
            BY <1>1, <1>3, <1>5, <2>2, Concat
        <3>2. /\ ~(wi <= Pos(ri + i - 1) /\ Pos(ri + i - 1) < wi + k)
              /\ ~(Pos(ri + i - 1) + N < wi + k)
            BY <1>1, <2>2 DEF Pos
        <3>3. CopyIn(s, k)[Pos(ri + i - 1)] = buffer_ptr[Pos(ri + i - 1)]
            BY <2>1, <3>2 DEF CopyIn
        <3> QED
            BY <1>1, <1>5, <2>1, <2>2, <3>1, <3>3
    <2>3. CASE i > n
        <3>1. (Unread \o x)[i] = x[i - n] /\ i - n \in 1..k
            <4>1. i - n \in 1..k /\ i = n + (i - n)
                BY <1>1, <2>3
            <4>2. \A h \in 1..k : (Unread \o x)[n + h] = x[h]
                BY <1>3, <1>5, Concat
            <4> QED
                BY <4>1, <4>2
        <3>2. \/ /\ wi <= Pos(ri + i - 1) /\ Pos(ri + i - 1) < wi + k
                 /\ Pos(ri + i - 1) - wi + 1 = i - n
              \/ /\ ~(wi <= Pos(ri + i - 1) /\ Pos(ri + i - 1) < wi + k)
                 /\ Pos(ri + i - 1) + N < wi + k
                 /\ Pos(ri + i - 1) + N - wi + 1 = i - n
            BY <1>1, <2>3 DEF Pos
        <3>3. CopyIn(s, k)[Pos(ri + i - 1)] = s[i - n]
            BY <2>1, <3>2 DEF CopyIn
        <3> QED
            BY <1>3, <2>1, <3>1, <3>3
    <2>4. i <= n \/ i > n
        BY <1>1
    <2> QED
        BY <2>2, <2>3, <2>4
<1>9. \A i \in 1..Len(Unread') : Unread'[i] = (Unread \o x)[i]
    BY <1>6, <1>8
<1> QED
    BY <1>6, <1>7, <1>9, SameSeq DEF x

\* A read takes bytes from the front.
LEMMA ReadRemoves ==
    ASSUME IInv, IInv', NEW k \in 0..N, k <= data_len,
           AdvanceRead(k), UNCHANGED <<buffer_ptr, writeEnd>>
    PROVE  /\ CopyOut(k) = SubSeq(Unread, 1, k)
           /\ Unread' = SubSeq(Unread, k + 1, Len(Unread))
           /\ Len(Unread) = data_len
<1> DEFINE n == data_len
           ri == read_index
           rest == SubSeq(Unread, k + 1, n)
<1>1. /\ n \in 0..N /\ k <= n /\ ri \in 0..N-1 /\ write_index \in 0..N-1 /\ N \in Nat /\ N > 0
      /\ buffer_ptr \in [0..N-1 -> Bytes] /\ buffer_ptr' = buffer_ptr
    BY UnreadIsContent, NAssumption DEF IInv, TypeOK
<1>2. data_len' = n - k /\ n - k \in 0..N /\ read_index' = Pos(ri + k) /\ read_index' \in 0..N-1
    <2>1. write_mirror' = write_mirror /\ write_index' = write_index
        BY DEF writeEnd
    <2>2. data_len' = Distance(read_mirror', read_index', write_mirror, write_index)
        BY <2>1, UnreadIsContent
    <2>3. n = Distance(read_mirror, ri, write_mirror, write_index)
        BY UnreadIsContent
    <2>4. data_len' = n - k
        <3> HIDE DEF n
        <3>1. read_mirror \in {0, 1} /\ write_mirror \in {0, 1}
            BY DEF IInv, TypeOK
        <3>2. CASE N - ri > k
            BY <1>1, <2>2, <2>3, <3>2 DEF AdvanceRead, Distance
        <3>3. CASE ~(N - ri > k)
            <4>1. read_index' = k - (N - ri) /\ read_mirror' = 1 - read_mirror
                BY <3>3 DEF AdvanceRead, Flip
            <4>2. read_mirror # write_mirror
                BY <1>1, <2>3, <3>1, <3>3 DEF Distance
            <4> QED
                BY <1>1, <2>2, <2>3, <3>1, <4>1, <4>2 DEF Distance
        <3> QED
            BY <3>2, <3>3
    <2>5. read_index' = Pos(ri + k)
        BY <1>1 DEF AdvanceRead, Pos
    <2> QED
        BY <1>1, <2>4, <2>5 DEF IInv, TypeOK
<1>3. /\ Unread = Content(buffer_ptr, ri, n) /\ Unread' = Content(buffer_ptr, Pos(ri + k), n - k)
      /\ CopyOut(k) = Content(buffer_ptr, ri, k)
    <2>1. CopyOut(k) = Content(buffer_ptr, ri, k)
        BY <1>1, CopyIsContent DEF CopyOut
    <2> QED
        BY <1>1, <1>2, <2>1, UnreadIsContent
<1>4. Pos(ri + k) \in 0..N-1
    BY <1>2
<1> HIDE DEF n
<1>5. /\ Unread \in Seq(Bytes) /\ Len(Unread) = n
      /\ \A i \in 1..n : Unread[i] = buffer_ptr[Pos(ri + i - 1)]
    BY <1>1, <1>3, ContentType
<1>6. /\ Unread' \in Seq(Bytes) /\ Len(Unread') = n - k
      /\ \A i \in 1..n - k : Unread'[i] = buffer_ptr[Pos(Pos(ri + k) + i - 1)]
    BY <1>1, <1>2, <1>3, <1>4, ContentType
<1>7. /\ CopyOut(k) \in Seq(Bytes) /\ Len(CopyOut(k)) = k
      /\ \A i \in 1..k : CopyOut(k)[i] = buffer_ptr[Pos(ri + i - 1)]
    <2>1. PICK c : c = CopyOut(k)
        OBVIOUS
    <2>2. c = Content(buffer_ptr, ri, k)
        BY <1>3, <2>1
    <2>3. c \in Seq(Bytes) /\ Len(c) = k /\ \A i \in 1..k : c[i] = buffer_ptr[Pos(ri + i - 1)]
        BY <1>1, <2>2, ContentType
    <2> QED
        BY <2>1, <2>3
<1>8. CopyOut(k) = SubSeq(Unread, 1, k)
    <2>1. /\ SubSeq(Unread, 1, k) \in Seq(Bytes) /\ Len(SubSeq(Unread, 1, k)) = k
          /\ \A i \in 1..k : SubSeq(Unread, 1, k)[i] = Unread[i]
        BY <1>1, <1>5
    <2>2. \A i \in 1..Len(CopyOut(k)) : CopyOut(k)[i] = SubSeq(Unread, 1, k)[i]
        BY <1>1, <1>5, <1>7, <2>1
    <2> QED
        BY <1>7, <2>1, <2>2, SameSeq
<1>9. Unread' = SubSeq(Unread, k + 1, n)
    <2>1. /\ rest \in Seq(Bytes) /\ Len(rest) = n - k
          /\ \A i \in 1..n - k : rest[i] = Unread[k + i]
        BY <1>1, <1>5
    <2> HIDE DEF rest
    <2>2. ASSUME NEW i \in 1..n - k
          PROVE  Unread'[i] = rest[i]
        <3>1. Pos(Pos(ri + k) + i - 1) = Pos(ri + (k + i) - 1) /\ k + i \in 1..n
            BY <1>1 DEF Pos
        <3> QED
            BY <1>5, <1>6, <2>1, <3>1
    <2>3. \A i \in 1..Len(Unread') : Unread'[i] = rest[i]
        BY <1>6, <2>2
    <2>4. Unread' = rest
        BY <1>6, <2>1, <2>3, SameSeq
    <2> QED
        BY <2>4 DEF rest
<1> QED
    BY <1>5, <1>8, <1>9 DEF n

\* A forced write that overruns keeps the last N bytes.
LEMMA OverrunKeepsLast ==
    ASSUME IInv, IInv', NEW s \in Seq(Bytes), NEW k \in 0..N, k = Len(s), k > space_len,
           buffer_ptr' = CopyIn(s, k), AdvanceWrite(k),
           read_index' = write_index', read_mirror' # write_mirror'
    PROVE  /\ Unread' = SubSeq(Unread \o s, Len(Unread \o s) - N + 1, Len(Unread \o s))
           /\ Len(Unread \o s) > N
<1> DEFINE n == data_len
           ri == read_index
           wi == write_index
           m == n + k - N
           all == Unread \o s
           last == SubSeq(all, m + 1, m + N)
<1>1. /\ n \in 0..N /\ k > N - n /\ ri \in 0..N-1 /\ wi \in 0..N-1 /\ N \in Nat /\ N > 0
      /\ wi = ri + n \/ wi = ri + n - N
      /\ buffer_ptr \in [0..N-1 -> Bytes] /\ buffer_ptr' \in [0..N-1 -> Bytes]
    <2>1. /\ ri \in 0..N-1 /\ wi \in 0..N-1 /\ N \in Nat /\ N > 0
          /\ buffer_ptr \in [0..N-1 -> Bytes] /\ buffer_ptr' \in [0..N-1 -> Bytes]
        BY NAssumption DEF IInv, TypeOK
    <2>2. n \in 0..N /\ k > N - n /\ (n = wi - ri \/ n = N - (ri - wi))
        BY DataLenRange
    <2> HIDE DEF n
    <2> QED
        BY <2>1, <2>2
<1>2. read_index' = Pos(wi + k) /\ read_index' \in 0..N-1
    BY <1>1 DEF AdvanceWrite, Pos, IInv, TypeOK
<1>3. data_len' = N
    <2>1. data_len' = Distance(read_mirror', read_index', write_mirror', read_index')
        BY UnreadIsContent
    <2> QED
        BY <1>1, <1>2, <2>1 DEF Distance
<1>4. Unread = Content(buffer_ptr, ri, n) /\ Unread' = Content(buffer_ptr', Pos(wi + k), N)
    BY <1>2, <1>3, UnreadIsContent
<1> HIDE DEF n
<1>5. /\ Unread \in Seq(Bytes) /\ Len(Unread) = n
      /\ \A i \in 1..n : Pos(ri + i - 1) \in 0..N-1 /\ Unread[i] = buffer_ptr[Pos(ri + i - 1)]
    BY <1>1, <1>4, ContentType
<1>6. /\ Unread' \in Seq(Bytes) /\ Len(Unread') = N
      /\ \A i \in 1..N : /\ Pos(Pos(wi + k) + i - 1) \in 0..N-1
                         /\ Unread'[i] = CopyIn(s, k)[Pos(Pos(wi + k) + i - 1)]
    <2>1. Pos(wi + k) \in 0..N-1 /\ N \in 0..N
        BY <1>1, <1>2
    <2> DEFINE at == Pos(wi + k)
               new == buffer_ptr'
    <2>2. new \in [0..N-1 -> Bytes] /\ at \in 0..N-1
        BY <1>1, <2>1
    <2>3. Unread' = Content(new, at, N) /\ new = CopyIn(s, k)
        BY <1>4
    <2> HIDE DEF at, new
    <2>4. /\ Content(new, at, N) \in Seq(Bytes) /\ Len(Content(new, at, N)) = N
          /\ \A i \in 1..N : /\ Pos(at + i - 1) \in 0..N-1
                             /\ Content(new, at, N)[i] = new[Pos(at + i - 1)]
        BY <2>1, <2>2, ContentType
    <2>5. /\ Unread' \in Seq(Bytes) /\ Len(Unread') = N
          /\ \A i \in 1..N : /\ Pos(at + i - 1) \in 0..N-1
                             /\ Unread'[i] = CopyIn(s, k)[Pos(at + i - 1)]
        BY <2>3, <2>4, Zenon
    <2> QED
        BY <2>5, Zenon DEF at
<1>7. /\ all \in Seq(Bytes) /\ Len(all) = n + k
      /\ \A i \in 1..n : all[i] = Unread[i]
      /\ \A i \in 1..k : all[n + i] = s[i]
    BY <1>5, Concat
<1> HIDE DEF all
<1>8. /\ last \in Seq(Bytes) /\ Len(last) = N
      /\ \A i \in 1..N : last[i] = all[m + i]
    <2>1. m \in Nat /\ m + N = n + k
        BY <1>1
    <2>2. all \in Seq(Bytes) /\ Len(all) = m + N /\ N \in Nat
        BY <1>1, <1>7, <2>1
    <2> HIDE DEF m
    <2> QED
        BY <2>1, <2>2
<1> HIDE DEF last
<1>9. ASSUME NEW i \in 1..N
      PROVE  Unread'[i] = last[i]
    <2> DEFINE j == Pos(Pos(wi + k) + i - 1)
    <2>1. j \in 0..N-1 /\ Unread'[i] = CopyIn(s, k)[j] /\ last[i] = all[m + i]
        BY <1>6, <1>8
    <2>2. CASE i <= N - k
        <3>1. m + i \in 1..n
            BY <1>1, <2>2
        <3>2. all[m + i] = buffer_ptr[Pos(ri + (m + i) - 1)]
            BY <1>5, <1>7, <3>1
        <3>3. j = Pos(ri + (m + i) - 1)
            BY <1>1, <2>2, SMTT(30) DEF Pos
        <3>4. ~(wi <= j /\ j < wi + k) /\ ~(j + N < wi + k)
            BY <1>1, <2>2 DEF Pos
        <3> HIDE DEF j
        <3>5. CopyIn(s, k)[j] = buffer_ptr[j]
            BY <2>1, <3>4 DEF CopyIn
        <3> QED
            BY <2>1, <3>2, <3>3, <3>5
    <2>3. CASE i > N - k
        <3>1. i - (N - k) \in 1..k /\ m + i = n + (i - (N - k))
            BY <1>1, <2>3
        <3>2. all[m + i] = s[i - (N - k)]
            BY <1>7, <3>1
        <3>3. \/ /\ wi <= j /\ j < wi + k
                 /\ j - wi + 1 = i - (N - k)
              \/ /\ ~(wi <= j /\ j < wi + k)
                 /\ j + N < wi + k
                 /\ j + N - wi + 1 = i - (N - k)
            BY <1>1, <2>3 DEF Pos
        <3> HIDE DEF j
        <3>4. CopyIn(s, k)[j] = s[i - (N - k)]
            BY <2>1, <3>3 DEF CopyIn
        <3> QED
            BY <2>1, <3>2, <3>4
    <2>4. i <= N - k \/ i > N - k
        BY <1>1
    <2> QED
        BY <2>2, <2>3, <2>4
<1>10. \A i \in 1..Len(Unread') : Unread'[i] = last[i]
    BY <1>6, <1>9
<1>11. Unread' = last
    BY <1>6, <1>8, <1>10, SameSeq
<1>12. m + 1 = Len(all) - N + 1 /\ m + N = Len(all) /\ Len(all) > N
    BY <1>1, <1>7
<1> QED
    BY <1>11, <1>12 DEF last, all

LEMMA UnreadType ==
    ASSUME IInv, IInv'
    PROVE  /\ Len(Unread) = data_len /\ Unread \in Seq(Bytes)
           /\ data_len \in 0..N /\ space_len = N - data_len
BY UnreadIsContent, ContentType, DataLenRange DEF IInv, TypeOK

\* The calls, as steps of the FIFO.
LEMMA PutIsPut ==
    ASSUME IInv, IInv', NEW s \in Blocks, put(s)
    PROVE  Fifo!Put(s)
<1>1. s \in Seq(Bytes) /\ Len(s) \in Nat
    BY BlockIsSeq, MaxBlockAssumption
<1>2. Len(Unread) = data_len /\ Unread \in Seq(Bytes) /\ data_len \in 0..N /\ space_len = N - data_len
    BY UnreadType
<1> DEFINE length == LesserOf(Len(s), space_len)
<1>3. length \in 0..N /\ length <= Len(s) /\ length <= space_len
      /\ length = Fifo!LesserOf(Len(s), N - Len(Unread))
    BY <1>1, <1>2, NAssumption DEF LesserOf, Fifo!LesserOf
<1>4. CASE space_len = 0
    <2>1. UNCHANGED <<buffer_ptr, readEnd, writeEnd>> /\ ret' = <<>>
        BY <1>4 DEF put
    <2>2. Unread' = Unread
        BY <2>1 DEF Unread, CopyOut, data_len, status, readEnd, writeEnd
    <2>3. length = 0
        BY <1>3, <1>4
    <2>4. SubSeq(s, 1, 0) = <<>> /\ Unread \o <<>> = Unread
        BY <1>1, <1>2
    <2> QED
        BY <1>3, <2>1, <2>2, <2>3, <2>4 DEF Fifo!Put
<1>5. CASE space_len # 0
    <2>1. /\ buffer_ptr' = CopyIn(s, length) /\ AdvanceWrite(length) /\ UNCHANGED readEnd
          /\ ret' = SubSeq(s, 1, length)
        BY <1>5 DEF put
    <2> HIDE DEF length
    <2>2. Unread' = Unread \o SubSeq(s, 1, length)
        BY <1>1, <1>3, <2>1, WriteAppends
    <2> QED
        BY <1>3, <2>1, <2>2 DEF Fifo!Put
<1> QED
    BY <1>4, <1>5

LEMMA SubSeqElements ==
    ASSUME NEW s \in Seq(Bytes), NEW b \in Nat, NEW e \in Nat, 1 <= b, b <= e + 1, e <= Len(s)
    PROVE  /\ SubSeq(s, b, e) \in Seq(Bytes) /\ Len(SubSeq(s, b, e)) = e - b + 1
           /\ \A i \in 1..e - b + 1 : SubSeq(s, b, e)[i] = s[b + i - 1]
OBVIOUS

LEMMA SubSeqEnds ==
    ASSUME NEW s \in Seq(Bytes)
    PROVE  SubSeq(s, 1, Len(s)) = s /\ SubSeq(s, 1, 0) = <<>>
OBVIOUS

\* A suffix of a suffix.
LEMMA LastOfLast ==
    ASSUME NEW a \in Seq(Bytes), NEW s \in Seq(Bytes)
    PROVE  /\ Fifo!LastOf(s, N) \in Seq(Bytes)
           /\ Fifo!LastOf(a \o Fifo!LastOf(s, N), N) = Fifo!LastOf(a \o s, N)
<1>0. N \in Nat /\ N > 0
    BY NAssumption
<1>1. CASE Len(s) <= N
    BY <1>1 DEF Fifo!LastOf
<1>2. CASE ~(Len(s) <= N)
    <2> DEFINE L == Len(s)
               t == SubSeq(s, L - N + 1, L)
               as == a \o s
               at == a \o t
    <2>1. L \in Nat /\ Len(a) \in Nat /\ L > N
        BY <1>0, <1>2
    <2>2. t \in Seq(Bytes) /\ Len(t) = N /\ \A i \in 1..N : t[i] = s[L - N + i]
        BY <1>0, <2>1
    <2>3. Fifo!LastOf(s, N) = t
        BY <1>2 DEF Fifo!LastOf
    <2> HIDE DEF t
    <2>4. /\ as \in Seq(Bytes) /\ Len(as) = Len(a) + L
          /\ \A i \in 1..L : as[Len(a) + i] = s[i]
        BY Concat
    <2>5. /\ at \in Seq(Bytes) /\ Len(at) = Len(a) + N
          /\ \A i \in 1..N : at[Len(a) + i] = t[i]
        BY <2>2, Concat
    <2>6. PICK b \in Nat : b = Len(a) + (L - N) + 1
        BY <1>0, <2>1
    <2>7. Fifo!LastOf(as, N) = t
        <3> HIDE DEF as
        <3> DEFINE u == SubSeq(as, b, Len(as))
        <3>0. Fifo!LastOf(as, N) = u
            <4>1. Len(as) - N + 1 = b /\ ~(Len(as) <= N)
                BY <1>0, <2>1, <2>4, <2>6
            <4> QED
                BY <4>1 DEF Fifo!LastOf
        <3>1. u \in Seq(Bytes) /\ Len(u) = N /\ \A i \in 1..N : u[i] = as[Len(a) + (L - N + i)]
            <4>1. /\ Len(as) \in Nat /\ Len(as) <= Len(as) /\ 1 <= b /\ b <= Len(as) + 1
                  /\ Len(as) - b + 1 = N
                BY <1>0, <2>1, <2>4, <2>6
            <4>2. /\ u \in Seq(Bytes) /\ Len(u) = Len(as) - b + 1
                  /\ \A i \in 1..Len(as) - b + 1 : u[i] = as[b + i - 1]
                BY <2>4, <4>1, SubSeqElements
            <4>3. u \in Seq(Bytes) /\ Len(u) = N /\ \A i \in 1..N : u[i] = as[b + i - 1]
                BY <4>1, <4>2
            <4>4. \A i \in 1..N : b + i - 1 = Len(a) + (L - N + i)
                BY <1>0, <2>1, <2>6
            <4> HIDE DEF u
            <4> QED
                BY <4>3, <4>4
        <3>2. \A i \in 1..N : u[i] = t[i]
            <4> HIDE DEF u
            <4> TAKE i \in 1..N
            <4>1. L - N + i \in 1..L
                BY <1>0, <2>1
            <4> QED
                BY <2>2, <2>4, <3>1, <4>1
        <3> HIDE DEF u
        <3>3. u = t
            BY <2>2, <3>1, <3>2, SameSeq
        <3> QED
            BY <3>0, <3>3
    <2>8. Fifo!LastOf(at, N) = t
        <3>1. CASE Len(a) = 0
            <4>1. at = t
                BY <2>2, <3>1
            <4> QED
                BY <2>2, <4>1 DEF Fifo!LastOf
        <3>2. CASE Len(a) # 0
            <4> HIDE DEF at
            <4> DEFINE u == SubSeq(at, Len(a) + 1, Len(a) + N)
            <4>1. Fifo!LastOf(at, N) = u
                <5>1. Len(at) - N + 1 = Len(a) + 1 /\ ~(Len(at) <= N)
                    BY <1>0, <2>1, <2>5, <3>2
                <5> QED
                    BY <2>5, <5>1 DEF Fifo!LastOf
            <4>2. u \in Seq(Bytes) /\ Len(u) = N /\ \A i \in 1..N : u[i] = at[Len(a) + i]
                BY <1>0, <2>1, <2>5
            <4> HIDE DEF u
            <4>3. \A i \in 1..Len(u) : u[i] = t[i]
                BY <2>5, <4>2
            <4> QED
                BY <2>2, <4>1, <4>2, <4>3, SameSeq
        <3> QED
            BY <3>1, <3>2
    <2> QED
        BY <2>2, <2>3, <2>7, <2>8
<1> QED
    BY <1>1, <1>2, <1>0

\* A write of at most N bytes, with or without an overrun.
LEMMA ForceKeepsLast ==
    ASSUME IInv, IInv', NEW s \in Seq(Bytes), NEW k \in 0..N, k = Len(s),
           buffer_ptr' = CopyIn(s, k), AdvanceWrite(k),
           k <= space_len => UNCHANGED readEnd,
           k > space_len => read_index' = write_index' /\ read_mirror' # write_mirror'
    PROVE  Unread' = Fifo!LastOf(Unread \o s, N)
<1>1. /\ Len(Unread) = data_len /\ Unread \in Seq(Bytes) /\ data_len \in 0..N /\ space_len = N - data_len
      /\ space_len \in Nat
    BY UnreadType, NAssumption
<1>2. CASE k <= space_len
    <2>1. Unread' = Unread \o SubSeq(s, 1, k)
        BY <1>2, WriteAppends
    <2>2. SubSeq(s, 1, k) = s
        OBVIOUS
    <2>3. Len(Unread \o s) <= N
        BY <1>1, <1>2, Concat, NAssumption
    <2> QED
        BY <2>1, <2>2, <2>3 DEF Fifo!LastOf
<1>3. CASE k > space_len
    <2>1. /\ Unread' = SubSeq(Unread \o s, Len(Unread \o s) - N + 1, Len(Unread \o s))
          /\ Len(Unread \o s) > N
        BY <1>3, OverrunKeepsLast
    <2>2. ~(Len(Unread \o s) <= N)
        BY <1>1, <2>1, Concat, NAssumption
    <2> QED
        BY <2>1, <2>2 DEF Fifo!LastOf
<1>4. k <= space_len \/ k > space_len
    BY <1>1, NAssumption
<1> QED
    BY <1>2, <1>3, <1>4

LEMMA PutForceIsPutForce ==
    ASSUME IInv, IInv', NEW s \in Blocks, put_force(s)
    PROVE  Fifo!PutForce(s)
<1> DEFINE length == LesserOf(Len(s), N)
           tail == SubSeq(s, Len(s) - length + 1, Len(s))
<1>0. s \in Seq(Bytes) /\ Len(s) \in Nat
    BY BlockIsSeq, MaxBlockAssumption
<1>1. length \in 0..N /\ length <= Len(s)
    BY <1>0, NAssumption DEF LesserOf
<1>2. tail \in Seq(Bytes) /\ Len(tail) = length
    BY <1>0, <1>1
<1>3. tail = Fifo!LastOf(s, N)
    <2>1. CASE Len(s) <= N
        <3>1. length = Len(s)
            BY <1>0, <2>1, NAssumption DEF LesserOf
        <3>2. SubSeq(s, 1, Len(s)) = s /\ Len(s) - Len(s) + 1 = 1
            BY <1>0
        <3> QED
            BY <2>1, <3>1, <3>2 DEF Fifo!LastOf
    <2>2. CASE ~(Len(s) <= N)
        <3>1. length = N
            BY <1>0, <2>2, NAssumption DEF LesserOf
        <3> QED
            BY <2>2, <3>1 DEF Fifo!LastOf
    <2> QED
        BY <2>1, <2>2
<1>4. /\ buffer_ptr' = CopyIn(tail, length) /\ AdvanceWrite(length) /\ ret' = tail
      /\ length > space_len =>
           /\ read_index' = write_index'
           /\ read_mirror' = IF N - write_index <= length /\ write_index' <= read_index
                             THEN Flip(read_mirror) ELSE read_mirror
      /\ ~(length > space_len) => UNCHANGED readEnd
    BY DEF put_force, readEnd
<1> HIDE DEF length, tail
<1>5. length > space_len => read_mirror' # write_mirror'
    BY <1>1, <1>4, OverrunFills
<1>6. length <= space_len => ~(length > space_len)
    BY <1>1, DataLenRange, NAssumption
<1>7. Unread' = Fifo!LastOf(Unread \o tail, N)
    BY <1>1, <1>2, <1>4, <1>5, <1>6, ForceKeepsLast
<1>8. Unread \in Seq(Bytes)
    BY UnreadIsContent, ContentType DEF IInv, TypeOK
<1> QED
    BY <1>0, <1>3, <1>4, <1>7, <1>8, LastOfLast DEF Fifo!PutForce

LEMMA ReadIsGet ==
    ASSUME IInv, IInv', NEW k \in 0..N, k <= data_len, ret' = CopyOut(k),
           AdvanceRead(k), UNCHANGED <<buffer_ptr, writeEnd>>
    PROVE  Fifo!Get(k) /\ k <= Len(Unread) /\ Len(Unread) \in Nat
<1>1. /\ CopyOut(k) = SubSeq(Unread, 1, k)
      /\ Unread' = SubSeq(Unread, k + 1, Len(Unread))
      /\ Len(Unread) = data_len
    BY ReadRemoves
<1>2. Fifo!LesserOf(k, Len(Unread)) = k /\ Len(Unread) \in Nat
    BY <1>1, DataLenRange, NAssumption DEF Fifo!LesserOf
<1> QED
    BY <1>1, <1>2 DEF Fifo!Get

LEMMA NoneIsGet ==
    ASSUME IInv, IInv', data_len = 0, ret' = <<>>, UNCHANGED <<buffer_ptr, readEnd, writeEnd>>
    PROVE  Fifo!Get(0) /\ Unread = <<>> /\ Unread' = Unread
<1>1. Len(Unread) = 0 /\ Unread \in Seq(Bytes)
    BY UnreadIsContent, ContentType DEF IInv, TypeOK
<1>2. Unread = <<>>
    BY <1>1
<1>3. Unread' = Unread
    BY DEF Unread, CopyOut, data_len, status, readEnd, writeEnd
<1>4. Fifo!LesserOf(0, Len(Unread)) = 0
    BY <1>1 DEF Fifo!LesserOf
<1>5. SubSeq(Unread, 1, 0) = <<>> /\ SubSeq(Unread, 0 + 1, Len(Unread)) = <<>>
    BY <1>1, <1>2
<1> QED
    BY <1>2, <1>3, <1>4, <1>5 DEF Fifo!Get

\* One byte, as a block of one.
LEMMA PutcharIsPut ==
    ASSUME IInv, IInv', NEW ch \in Bytes, putchar(ch)
    PROVE  Fifo!Put(<<ch>>)
<1>1. PICK s : s = <<ch>>
    OBVIOUS
<1>2. s \in Seq(Bytes) /\ Len(s) = 1 /\ 1 <= Len(s) /\ SubSeq(s, 1, 1) = s /\ SubSeq(s, 1, 0) = <<>>
    <2>1. s \in Seq(Bytes) /\ Len(s) = 1
        BY <1>1
    <2>2. SubSeq(s, 1, Len(s)) = s /\ SubSeq(s, 1, 0) = <<>>
        BY <2>1, SubSeqEnds
    <2> QED
        BY <2>1, <2>2
<1>3. /\ Len(Unread) = data_len /\ Unread \in Seq(Bytes) /\ data_len \in 0..N
      /\ space_len = N - data_len
    BY UnreadType
<1>4. CASE space_len = 0
    <2>1. UNCHANGED <<buffer_ptr, readEnd, writeEnd>> /\ ret' = <<>>
        BY <1>4 DEF putchar
    <2>2. Unread' = Unread
        BY <2>1 DEF Unread, CopyOut, data_len, status, readEnd, writeEnd
    <2>3. Fifo!LesserOf(Len(s), N - Len(Unread)) = 0
        BY <1>2, <1>3, <1>4 DEF Fifo!LesserOf
    <2>4. Unread \o <<>> = Unread
        BY <1>3
    <2>5. Fifo!Put(s)
        BY <1>2, <2>1, <2>2, <2>3, <2>4 DEF Fifo!Put
    <2> QED
        BY <1>1, <2>5
<1>5. CASE space_len # 0
    <2>1. /\ AdvanceWrite(1) /\ UNCHANGED readEnd
          /\ buffer_ptr' = CopyIn(s, 1) /\ ret' = s
        BY <1>1, <1>5, PutcharIsAdvance
    <2>2. 1 \in 0..N /\ 1 <= space_len
        BY <1>3, <1>5, NAssumption
    <2>3. Unread' = Unread \o SubSeq(s, 1, 1)
        BY <1>2, <2>1, <2>2, WriteAppends
    <2>4. Fifo!LesserOf(Len(s), N - Len(Unread)) = 1
        BY <1>2, <1>3, <2>2, NAssumption DEF Fifo!LesserOf
    <2>5. Fifo!Put(s)
        BY <1>2, <2>1, <2>3, <2>4 DEF Fifo!Put
    <2> QED
        BY <1>1, <2>5
<1> QED
    BY <1>4, <1>5

LEMMA PutcharForceIsPutForce ==
    ASSUME IInv, IInv', NEW ch \in Bytes, putchar_force(ch)
    PROVE  Fifo!PutForce(<<ch>>)
<1>1. PICK s : s = <<ch>>
    OBVIOUS
<1>2. s \in Seq(Bytes) /\ Len(s) = 1 /\ 1 \in 0..N
    BY <1>1, NAssumption
<1>3. /\ AdvanceWrite(1) /\ buffer_ptr' = CopyIn(s, 1) /\ ret' = s
      /\ space_len >= 1 => UNCHANGED readEnd
      /\ space_len = 0 =>
           /\ read_index' = write_index'
           /\ read_mirror' = IF N - write_index <= 1 /\ write_index' <= read_index
                             THEN Flip(read_mirror) ELSE read_mirror
    BY <1>1, PutcharForceIsAdvance
<1>4. space_len \in 0..N
    BY DataLenRange
<1>5. 1 <= space_len => UNCHANGED readEnd
    BY <1>3, <1>4
<1>6. 1 > space_len => read_index' = write_index' /\ read_mirror' # write_mirror'
    <2> SUFFICES ASSUME 1 > space_len
                 PROVE  read_index' = write_index' /\ read_mirror' # write_mirror'
        OBVIOUS
    <2>1. space_len = 0
        BY <1>4
    <2> QED
        BY <1>2, <1>3, <2>1, OverrunFills
<1>7. Unread' = Fifo!LastOf(Unread \o s, N)
    BY <1>2, <1>3, <1>5, <1>6, ForceKeepsLast
<1>8. Fifo!LastOf(s, N) = s
    BY <1>2, NAssumption DEF Fifo!LastOf
<1>9. Fifo!PutForce(s)
    BY <1>3, <1>7, <1>8 DEF Fifo!PutForce
<1> QED
    BY <1>1, <1>9

\* Every step of the ring buffer is a step of the FIFO or leaves it alone.
LEMMA StepIsFifo ==
    ASSUME IInv, [Next]_vars
    PROVE  [Fifo!Next]_(Fifo!fifoVars)
<1>0. IInv'
    BY IInvNext
<1>1. ASSUME NEW s \in Blocks, put(s) \/ put_force(s)
      PROVE  Fifo!Next
    BY <1>0, <1>1, PutIsPut, PutForceIsPutForce DEF Fifo!Next
<1>2. ASSUME NEW ch \in Bytes, putchar(ch) \/ putchar_force(ch)
      PROVE  Fifo!Next
    BY <1>0, <1>2, PutcharIsPut, PutcharForceIsPutForce DEF Fifo!Next
<1>3. ASSUME data_len = 0, ret' = <<>>, UNCHANGED <<buffer_ptr, readEnd, writeEnd>>
      PROVE  Fifo!Next
    <2>1. Fifo!Get(0) /\ 0 \in 0..N
        BY <1>0, <1>3, NoneIsGet, NAssumption
    <2> QED
        BY <2>1 DEF Fifo!Next
<1>4. ASSUME NEW k \in 0..N, k <= data_len, ret' = CopyOut(k),
             AdvanceRead(k), UNCHANGED <<buffer_ptr, writeEnd>>
      PROVE  Fifo!Next
    <2>1. Fifo!Get(k)
        BY <1>0, <1>4, ReadIsGet
    <2> QED
        BY <2>1 DEF Fifo!Next
<1>5. data_len \in 0..N
    BY DataLenRange
<1>6. ASSUME NEW k \in 0..MaxBlock, get(k)
      PROVE  Fifo!Next
    <2>1. CASE data_len = 0
        BY <1>3, <1>6, <2>1 DEF get
    <2>2. CASE data_len # 0
        <3>1. LesserOf(k, data_len) \in 0..N /\ LesserOf(k, data_len) <= data_len
            BY <1>5, MaxBlockAssumption, NAssumption DEF LesserOf
        <3>2. /\ ret' = CopyOut(LesserOf(k, data_len)) /\ AdvanceRead(LesserOf(k, data_len))
              /\ UNCHANGED <<buffer_ptr, writeEnd>>
            BY <1>6, <2>2 DEF get
        <3> QED
            BY <1>4, <3>1, <3>2
    <2> QED
        BY <2>1, <2>2
<1>7. CASE peek
    <2>1. CASE data_len = 0
        BY <1>3, <1>7, <2>1 DEF peek
    <2>2. CASE data_len # 0
        <3> DEFINE size == LesserOf(data_len, N - read_index)
        <3>1. size \in 0..N /\ size <= data_len
            BY <1>5, NAssumption DEF LesserOf, IInv, TypeOK
        <3>2. ret' = CopyOut(size) /\ AdvanceRead(size) /\ UNCHANGED <<buffer_ptr, writeEnd>>
            BY <1>7, <2>2 DEF peek
        <3> HIDE DEF size
        <3> QED
            BY <1>4, <3>1, <3>2
    <2> QED
        BY <2>1, <2>2
<1>8. CASE getchar
    <2>1. CASE data_len = 0
        BY <1>3, <1>8, <2>1 DEF getchar
    <2>2. CASE data_len # 0
        <3>1. 1 \in 0..N /\ 1 <= data_len
            BY <1>5, <2>2, NAssumption
        <3> QED
            BY <1>4, <1>8, <2>2, <3>1, GetcharIsAdvance
    <2> QED
        BY <2>1, <2>2
<1>9. CASE reset
    <2>1. data_len' = 0 /\ ret' = <<>>
        BY <1>9 DEF reset, data_len, status
    <2>2. Unread' = Content(buffer_ptr', read_index', data_len')
        BY <1>0, UnreadIsContent
    <2>3. Unread' = <<>>
        BY <1>0, <2>1, <2>2, ContentType, NAssumption DEF IInv, TypeOK
    <2> QED
        BY <2>1, <2>3 DEF Fifo!Next, Fifo!Clear
<1>10. CASE UNCHANGED vars
    BY <1>10 DEF vars, Fifo!fifoVars, Unread, CopyOut, data_len, status
<1> QED
    BY <1>1, <1>2, <1>6, <1>7, <1>8, <1>9, <1>10 DEF Next

\* For every capacity: whatever the calls of ringbuffer.c and their order, and
\* wherever the two ends are, the buffer is the bounded FIFO its callers take
\* it for.
THEOREM RingBufferIsFifo == Spec => ImplementsFifo
<1>1. Init => Fifo!Init
    <2> SUFFICES ASSUME Init PROVE Fifo!Init
        OBVIOUS
    <2>1. IInv
        BY IInvInit
    <2>2. data_len = 0
        BY DEF Init, data_len, status
    <2>3. Unread = Content(buffer_ptr, read_index, 0)
        BY <2>1, <2>2, CopyIsContent, NAssumption DEF Unread, CopyOut, IInv, TypeOK
    <2>4. Unread = <<>>
        BY <2>1, <2>3, ContentType, NAssumption DEF IInv, TypeOK
    <2> QED
        BY <2>4 DEF Init, Fifo!Init
<1>2. IInv /\ [Next]_vars => [Fifo!Next]_(Fifo!fifoVars)
    BY StepIsFifo
<1> QED
    BY <1>1, <1>2, IInvInit, IInvNext, PTL DEF Spec, ImplementsFifo, Fifo!Spec

-----------------------------------------------------------------------------
(* With an interrupt inside the thread's calls *)

\* putchar keeps the fields in range even when the two ends are out of
\* order, as they may be in the middle of a thread's call.
LEMMA PutcharKeepsType ==
    ASSUME TypeOK, NEW ch \in Bytes, putchar(ch)
    PROVE  TypeOK'
  <1>1. CASE space_len = 0
    BY <1>1 DEF putchar, TypeOK, readEnd, writeEnd
  <1>2. CASE space_len # 0
    <2>1. buffer_ptr' \in [0..N-1 -> Bytes]
      BY <1>2 DEF putchar, TypeOK
    <2>2. write_index' \in 0..N-1 /\ write_mirror' \in {0, 1}
      BY <1>2, NAssumption DEF putchar, TypeOK, Flip
    <2>3. ret' = <<ch>> /\ UNCHANGED readEnd
      BY <1>2 DEF putchar
    <2>4. ret' \in Seq(Bytes)
      BY <2>3
    <2> QED BY <2>1, <2>2, <2>3, <2>4 DEF TypeOK, readEnd
  <1> QED BY <1>1, <1>2

LEMMA IsrInitType ==
    ASSUME IsrInit
    PROVE  IsrTypeOK
  <1>1. TypeOK
    BY NAssumption DEF IsrInit, Init, TypeOK
  <1>2. word \in [mirror : {0, 1}, index : 0..N-1]
    BY NAssumption DEF IsrInit, NoWord
  <1>3. mixed \in BOOLEAN
    BY DEF IsrInit
  <1>4. pc = "idle" /\ got \in Seq(Bytes) /\ owed \in Seq(Bytes) /\ arrived \in Nat
    BY DEF IsrInit
  <1> QED BY <1>1, <1>2, <1>3, <1>4 DEF IsrTypeOK

LEMMA RxKeepsType ==
    ASSUME IsrTypeOK, NEW ch \in Bytes, RxByte(ch)
    PROVE  IsrTypeOK'
  <1>1. TypeOK'
    BY PutcharKeepsType DEF IsrTypeOK, RxByte
  <1>2. owed' \in Seq(Bytes)
    <2>1. ret' \in Seq(Bytes) /\ owed \in Seq(Bytes)
      BY <1>1 DEF TypeOK, IsrTypeOK
    <2> QED BY <2>1 DEF RxByte
  <1>3. arrived' \in Nat
    BY DEF RxByte, IsrTypeOK
  <1>4. mixed' \in BOOLEAN
    BY DEF RxByte
  <1> QED BY <1>1, <1>2, <1>3, <1>4 DEF RxByte, IsrTypeOK

\* The steps of getchar; read_index is in the pool when the byte is loaded.
LEMMA GetKeepsType ==
    ASSUME IsrTypeOK,
           GetStart \/ GetMirror \/ GetLoad \/ GetAdvance \/ GetFlip \/ GetWrap
    PROVE  IsrTypeOK'
  <1> USE DEF IsrTypeOK, ThreadStep, readEnd, writeEnd, Getting, Resetting
  <1>1. CASE GetStart
    BY <1>1 DEF GetStart, TypeOK
  <1>2. CASE GetMirror
    BY <1>2 DEF GetMirror, TypeOK
  <1>3. CASE GetLoad
    <2>1. buffer_ptr[read_index] \in Bytes
      BY DEF TypeOK
    <2>2. got' \in Seq(Bytes) /\ owed' \in Seq(Bytes)
      BY <1>3, <2>1 DEF GetLoad
    <2>3. TypeOK'
      BY <1>3 DEF GetLoad, TypeOK
    <2> QED BY <1>3, <2>2, <2>3 DEF GetLoad
  <1>4. CASE GetAdvance
    BY <1>4, NAssumption DEF GetAdvance, TypeOK
  <1>5. CASE GetFlip
    BY <1>5 DEF GetFlip, Flip, TypeOK
  <1>6. CASE GetWrap
    BY <1>6, NAssumption DEF GetWrap, TypeOK
  <1> QED BY <1>1, <1>2, <1>3, <1>4, <1>5, <1>6

LEMMA ResetKeepsType ==
    ASSUME IsrTypeOK,
           \/ ResetReadMirror \/ ResetReadIndex
           \/ ResetLoad("load_wm", "reset_wm") \/ ResetWriteMirror
           \/ ResetLoad("load_wi", "reset_wi") \/ ResetWriteIndex
    PROVE  IsrTypeOK'
  <1> USE NAssumption
      DEF IsrTypeOK, TypeOK, ThreadStep, readEnd, writeEnd, Getting, Resetting
  <1>1. CASE ResetReadMirror
    BY <1>1 DEF ResetReadMirror
  <1>2. CASE ResetReadIndex
    BY <1>2 DEF ResetReadIndex
  <1>3. CASE ResetWriteMirror
    BY <1>3 DEF ResetWriteMirror, NoWord
  <1>4. CASE ResetWriteIndex
    <2>1. mixed' \in BOOLEAN
      BY <1>4 DEF ResetWriteIndex
    <2> QED BY <1>4, <2>1 DEF ResetWriteIndex, NoWord
  <1>5. CASE ResetLoad("load_wm", "reset_wm") \/ ResetLoad("load_wi", "reset_wi")
    BY <1>5 DEF ResetLoad
  <1> QED BY <1>1, <1>2, <1>3, <1>4, <1>5

\* For every capacity and any number of bytes received inside a call of
\* rt_ringbuffer_getchar or rt_ringbuffer_reset, no access leaves the pool.
THEOREM IsrTypeCorrect == IsrSpec => []IsrTypeOK
  <1>1. IsrInit => IsrTypeOK
    BY IsrInitType
  <1>2. IsrTypeOK /\ [IsrNext]_isrVars => IsrTypeOK'
    <2> SUFFICES ASSUME IsrTypeOK, [IsrNext]_isrVars PROVE IsrTypeOK'
      OBVIOUS
    <2>1. ASSUME NEW ch \in Bytes, RxByte(ch) PROVE IsrTypeOK'
      BY <2>1, RxKeepsType
    <2>2. CASE UNCHANGED isrVars
      BY <2>2 DEF isrVars, vars, IsrTypeOK, TypeOK
    <2> QED BY <2>1, <2>2, GetKeepsType, ResetKeepsType DEF IsrNext
  <1> QED BY <1>1, <1>2, PTL DEF IsrSpec

\* What a byte more at the end, or one less at the front, does to a stretch
\* of the pool.
LEMMA ContentSnoc ==
    ASSUME NEW buf \in [0..N-1 -> Bytes], NEW ri \in 0..N-1, NEW n \in 0..N-1, NEW ch \in Bytes
    PROVE  Content([buf EXCEPT ![Pos(ri + n)] = ch], ri, n + 1) = Content(buf, ri, n) \o <<ch>>
<1> DEFINE at == Pos(ri + n)
           new == [buf EXCEPT ![at] = ch]
           s == Content(buf, ri, n)
           t == Content(new, ri, n + 1)
<1>1. at \in 0..N-1 /\ new \in [0..N-1 -> Bytes] /\ n + 1 \in 0..N /\ n \in 0..N /\ n \in Nat
    BY NAssumption DEF Pos
<1>2. PICK x : x = <<ch>>
    OBVIOUS
<1>3. x \in Seq(Bytes) /\ Len(x) = 1 /\ x[1] = ch
    BY <1>2
<1> HIDE DEF at, new
<1>4. /\ s \in Seq(Bytes) /\ Len(s) = n
      /\ \A i \in 1..n : Pos(ri + i - 1) \in 0..N-1 /\ s[i] = buf[Pos(ri + i - 1)]
    BY <1>1, ContentType, Zenon
<1>5. /\ t \in Seq(Bytes) /\ Len(t) = n + 1
      /\ \A i \in 1..(n + 1) : Pos(ri + i - 1) \in 0..N-1 /\ t[i] = new[Pos(ri + i - 1)]
    BY <1>1, ContentType, Zenon
<1>6. /\ s \o x \in Seq(Bytes) /\ Len(s \o x) = n + 1
      /\ \A i \in 1..n : (s \o x)[i] = s[i]
      /\ (s \o x)[n + 1] = ch
    <2> HIDE DEF s
    <2>1. s \in Seq(Bytes) /\ Len(s) = n
        BY <1>4
    <2>2. /\ s \o x \in Seq(Bytes) /\ Len(s \o x) = Len(s) + Len(x)
          /\ \A i \in 1..Len(s) : (s \o x)[i] = s[i]
          /\ \A i \in 1..Len(x) : (s \o x)[Len(s) + i] = x[i]
        BY <1>3, <2>1, Concat
    <2>3. 1 \in 1..Len(x)
        BY <1>3
    <2>4. (s \o x)[Len(s) + 1] = x[1]
        BY <2>2, <2>3
    <2> QED
        BY <1>3, <2>1, <2>2, <2>4
<1>7. ASSUME NEW i \in 1..n PROVE t[i] = (s \o x)[i]
    <2>1. i \in 1..(n + 1)
        BY <1>1
    <2>2. Pos(ri + i - 1) # at
        BY <1>1, NAssumption DEF Pos, at
    <2>3. new[Pos(ri + i - 1)] = buf[Pos(ri + i - 1)]
        BY <1>1, <1>4, <2>2 DEF new
    <2> QED
        BY <1>4, <1>5, <1>6, <2>1, <2>3
<1>8. t[n + 1] = (s \o x)[n + 1]
    <2>1. n + 1 \in 1..(n + 1) /\ ri + (n + 1) - 1 = ri + n
        BY <1>1, NAssumption
    <2>2. t[n + 1] = new[at]
        BY <1>5, <2>1 DEF at
    <2>3. new[at] = ch
        BY <1>1 DEF new
    <2> QED
        BY <1>6, <2>2, <2>3
<1>9. \A i \in 1..Len(t) : t[i] = (s \o x)[i]
    <2> HIDE DEF t, s
    <2>1. \A i \in 1..(n + 1) : i \in 1..n \/ i = n + 1
        BY <1>1
    <2> QED
        BY <1>5, <1>7, <1>8, <2>1
<1>10. t = s \o x
    <2> HIDE DEF t, s
    <2> QED
        BY <1>5, <1>6, <1>9, SameSeq
<1> QED
    BY <1>2, <1>10 DEF new, at

LEMMA ContentTail ==
    ASSUME NEW buf \in [0..N-1 -> Bytes], NEW ri \in 0..N-1, NEW n \in 1..N
    PROVE  /\ Content(buf, ri, n) # <<>>
           /\ Head(Content(buf, ri, n)) = buf[ri]
           /\ Tail(Content(buf, ri, n)) = Content(buf, Pos(ri + 1), n - 1)
<1> DEFINE s == Content(buf, ri, n)
           t == Content(buf, Pos(ri + 1), n - 1)
<1>1. Pos(ri + 1) \in 0..N-1 /\ n \in 0..N /\ n - 1 \in 0..N /\ n - 1 \in Nat /\ 1 \in 1..n
    BY NAssumption DEF Pos
<1>2. /\ s \in Seq(Bytes) /\ Len(s) = n
      /\ \A i \in 1..n : s[i] = buf[Pos(ri + i - 1)]
    BY <1>1, ContentType
<1>3. /\ t \in Seq(Bytes) /\ Len(t) = n - 1
      /\ \A i \in 1..n - 1 : t[i] = buf[Pos(Pos(ri + 1) + i - 1)]
    BY <1>1, ContentType
<1>4. s # <<>> /\ Head(s) = s[1]
    <2> HIDE DEF s
    <2> QED
        BY <1>1, <1>2
<1>5. s[1] = buf[ri]
    <2>1. ri + 1 - 1 = ri /\ Pos(ri) = ri
        BY NAssumption DEF Pos
    <2> QED
        BY <1>1, <1>2, <2>1
<1>6. /\ Tail(s) \in Seq(Bytes) /\ Len(Tail(s)) = n - 1
      /\ \A i \in 1..n - 1 : Tail(s)[i] = s[i + 1]
    <2> HIDE DEF s
    <2> QED
        BY <1>1, <1>2, <1>4
<1>7. ASSUME NEW i \in 1..n - 1 PROVE Tail(s)[i] = t[i]
    <2>1. i + 1 \in 1..n /\ ri + (i + 1) - 1 = ri + i
        BY <1>1
    <2>2. Pos(ri + i) = Pos(Pos(ri + 1) + i - 1)
        BY <1>1, NAssumption DEF Pos
    <2>3. s[i + 1] = buf[Pos(ri + i)]
        BY <1>2, <2>1
    <2> QED
        BY <1>3, <1>6, <2>2, <2>3
<1>8. Tail(s) = t
    <2> HIDE DEF s, t
    <2> QED
        BY <1>3, <1>6, <1>7, SameSeq
<1> QED
    BY <1>4, <1>5, <1>8

-----------------------------------------------------------------------------
\* What holds of the bytes at every access of the thread, when at most one
\* byte arrives during a getchar and none has disturbed a reset.
Between ==
    pc \in {"idle", "mirror", "load"} => EndsOrdered /\ Unread = owed

Loading == pc = "load" => owed # <<>>

Loaded ==
    pc = "advance" => EndsOrdered /\ Unread # <<>> /\ Tail(Unread) = owed

\* The mirror is flipped and the index is not cleared yet: the ends are out
\* of order, and what is owed lies at the start of the pool.  The byte that
\* may fill the pool here is the last one the call meets.
Wrapping ==
    pc = "wrap" =>
        /\ read_index = N - 1
        /\ read_mirror # write_mirror => write_index = 0 /\ arrived >= GetBurst
        /\ owed = Content(buffer_ptr, 0, Distance(read_mirror, 0, write_mirror, write_index))

\* A reset that no byte has disturbed yet, whatever an earlier one left.
Clearing ==
    pc \in Resetting /\ arrived = 0 =>
        /\ owed = <<>> /\ read_mirror = 0
        /\ pc # "reset_ri" => read_index = 0
        /\ pc \in {"load_wi", "reset_wi"} => write_mirror = 0
        /\ pc = "reset_wi" => word.mirror = 0

Bytewise == Between /\ Loading /\ Loaded /\ Wrapping

LostInv == IsrTypeOK /\ (~mixed => Bytewise) /\ Clearing

LEMMA UnreadFits ==
    ASSUME IInv
    PROVE  /\ Unread \in Seq(Bytes) /\ Len(Unread) = data_len /\ data_len \in 0..N
           /\ Unread = <<>> <=> data_len = 0
<1>1. Unread \in Seq(Bytes) /\ Len(Unread) = data_len /\ data_len \in 0..N
    BY UnreadBefore, ContentType DEF IInv, TypeOK
<1> QED
    BY <1>1, NAssumption

\* A byte that arrives while the ends are in order.
LEMMA RxAppends ==
    ASSUME IInv, NEW ch \in Bytes, putchar(ch)
    PROVE  IInv' /\ Unread' = Unread \o ret' /\ ret' \in Seq(Bytes)
<1>1. IInv'
    BY PutcharStep
<1>2. Fifo!Put(<<ch>>)
    BY <1>1, PutcharIsPut
<1> QED
    BY <1>1, <1>2 DEF Fifo!Put, IInv, TypeOK

\* ... and one that arrives between the two stores of the wrap.
LEMMA RxWhileWrapping ==
    ASSUME TypeOK, NEW ch \in Bytes, putchar(ch),
           read_index = N - 1, read_mirror = write_mirror
    PROVE  /\ ret' = <<ch>> /\ UNCHANGED readEnd
           /\ read_mirror' # write_mirror' => write_index' = 0
           /\ Content(buffer_ptr', 0, Distance(read_mirror', 0, write_mirror', write_index'))
                = Content(buffer_ptr, 0, Distance(read_mirror, 0, write_mirror, write_index)) \o <<ch>>
<1>1. space_len # 0
    BY NAssumption DEF TypeOK, space_len, data_len, status
<1>2. /\ buffer_ptr' = [buffer_ptr EXCEPT ![write_index] = ch]
      /\ IF write_index = N - 1
         THEN write_mirror' = Flip(write_mirror) /\ write_index' = 0
         ELSE write_index' = write_index + 1 /\ write_mirror' = write_mirror
      /\ ret' = <<ch>> /\ read_mirror' = read_mirror /\ read_index' = read_index
    BY <1>1 DEF putchar, readEnd
<1>3. /\ write_index \in 0..N-1 /\ 0 \in 0..N-1 /\ Pos(0 + write_index) = write_index
      /\ Distance(read_mirror, 0, write_mirror, write_index) = write_index
      /\ Distance(read_mirror', 0, write_mirror', write_index') = write_index + 1
      /\ read_mirror' # write_mirror' => write_index' = 0
    BY <1>2, NAssumption DEF TypeOK, Pos, Distance, Flip
<1>4. buffer_ptr \in [0..N-1 -> Bytes]
    BY DEF TypeOK
<1>5. Content([buffer_ptr EXCEPT ![Pos(0 + write_index)] = ch], 0, write_index + 1)
        = Content(buffer_ptr, 0, write_index) \o <<ch>>
    BY <1>3, <1>4, ContentSnoc
<1> QED
    BY <1>2, <1>3, <1>5 DEF readEnd

LEMMA RxKeepsBytes ==
    ASSUME GetBurst <= 1, LostInv, NEW ch \in Bytes, RxByte(ch), ~mixed, pc \notin Resetting
    PROVE  LostInv'
<1>1. /\ IsrTypeOK /\ IsrTypeOK' /\ TypeOK /\ putchar(ch) /\ pc' = pc
      /\ owed \in Seq(Bytes) /\ arrived \in Nat /\ pc \in {"idle"} \cup Getting \cup Resetting
    BY RxKeepsType DEF LostInv, IsrTypeOK, RxByte
<1>2. pc \notin Resetting /\ Bytewise
    BY DEF LostInv
<1>3. CASE pc \in {"idle", "mirror", "load"}
    <2>1. IInv /\ Unread = owed
        BY <1>1, <1>2, <1>3 DEF Bytewise, Between, IInv
    <2>2. IInv' /\ Unread' = Unread \o ret' /\ ret' \in Seq(Bytes)
        BY <1>1, <2>1, RxAppends
    <2>3. ~(Len(owed) > N)
        BY <2>1, UnreadFits, NAssumption
    <2>4. owed' = owed \o ret'
        BY <1>2, <2>3 DEF RxByte
    <2>5. owed # <<>> => owed \o ret' # <<>>
        BY <1>1, <2>2
    <2>6. Between' /\ Loading'
        BY <1>1, <1>2, <2>1, <2>2, <2>4, <2>5 DEF Bytewise, Loading, Between, IInv
    <2> QED
        BY <1>1, <1>3, <2>6 DEF LostInv, Bytewise, Loaded, Wrapping, Clearing, Resetting
<1>4. CASE pc = "advance"
    <2>1. IInv /\ Unread # <<>> /\ Tail(Unread) = owed
        BY <1>1, <1>2, <1>4 DEF Bytewise, Loaded, IInv
    <2>2. IInv' /\ Unread' = Unread \o ret' /\ ret' \in Seq(Bytes)
        BY <1>1, <2>1, RxAppends
    <2>3. Unread \in Seq(Bytes) /\ Len(Unread) <= N /\ Len(Unread) \in Nat
        BY <2>1, UnreadFits, NAssumption
    <2>4. ~(Len(owed) > N)
        BY <2>1, <2>3, NAssumption
    <2>5. owed' = owed \o ret'
        BY <1>2, <2>4 DEF RxByte
    <2>6. Unread \o ret' # <<>> /\ Tail(Unread \o ret') = Tail(Unread) \o ret'
        BY <2>1, <2>2, <2>3
    <2>7. Loaded'
        BY <2>1, <2>2, <2>5, <2>6 DEF Loaded, IInv
    <2> QED
        BY <1>1, <1>4, <2>7 DEF LostInv, Bytewise, Between, Loading, Wrapping, Clearing, Resetting
<1>5. CASE pc = "wrap"
    <2>1. arrived < GetBurst /\ arrived' = arrived + 1
        BY <1>5 DEF RxByte, Getting
    <2>2. /\ read_index = N - 1 /\ read_mirror = write_mirror
          /\ owed = Content(buffer_ptr, 0, Distance(read_mirror, 0, write_mirror, write_index))
        BY <1>1, <1>2, <1>5, <2>1, BurstAssumption DEF Bytewise, Wrapping
    <2>3. /\ ret' = <<ch>> /\ UNCHANGED readEnd
          /\ read_mirror' # write_mirror' => write_index' = 0
          /\ Content(buffer_ptr', 0, Distance(read_mirror', 0, write_mirror', write_index'))
               = owed \o <<ch>>
        BY <1>1, <2>2, RxWhileWrapping
    <2>4. ~(Len(owed) > N)
        <3>1. /\ Distance(read_mirror, 0, write_mirror, write_index) \in 0..N
              /\ 0 \in 0..N-1 /\ buffer_ptr \in [0..N-1 -> Bytes]
            BY <1>1, <2>2, NAssumption DEF TypeOK, Distance
        <3>2. Len(owed) = Distance(read_mirror, 0, write_mirror, write_index)
            BY <2>2, <3>1, ContentType
        <3> QED
            BY <3>1, <3>2, NAssumption
    <2>5. owed' = owed \o ret'
        BY <1>2, <2>4 DEF RxByte
    <2>6. arrived' >= GetBurst
        BY <1>1, <2>1, BurstAssumption
    <2>7. Wrapping'
        BY <2>2, <2>3, <2>5, <2>6 DEF Wrapping, readEnd
    <2> QED
        BY <1>1, <1>5, <2>7 DEF LostInv, Bytewise, Between, Loading, Loaded, Clearing, Resetting
<1> QED
    BY <1>1, <1>2, <1>3, <1>4, <1>5 DEF Getting

\* A byte that comes into a reset, or after one that was disturbed.
LEMMA RxMixes ==
    ASSUME LostInv, NEW ch \in Bytes, RxByte(ch), mixed \/ pc \in Resetting
    PROVE  LostInv'
<1>1. IsrTypeOK' /\ mixed' = TRUE /\ pc' = pc /\ arrived \in Nat
    BY RxKeepsType DEF LostInv, RxByte, IsrTypeOK
<1>2. pc \in Resetting => arrived' = arrived + 1
    BY DEF RxByte, Resetting
<1>3. Clearing'
    BY <1>1, <1>2 DEF Clearing
<1> QED
    BY <1>1, <1>3 DEF LostInv

\* The oldest unread byte is the one at the read index.
LEMMA HeadIsOldest ==
    ASSUME IInv, Unread # <<>>
    PROVE  /\ buffer_ptr[read_index] = Head(Unread)
           /\ data_len \in 1..N
           /\ Tail(Unread) = Content(buffer_ptr, Pos(read_index + 1), data_len - 1)
<1>1. /\ buffer_ptr \in [0..N-1 -> Bytes] /\ read_index \in 0..N-1
      /\ Unread = Content(buffer_ptr, read_index, data_len)
    BY UnreadBefore DEF IInv, TypeOK
<1>2. data_len \in 1..N
    BY UnreadFits, NAssumption
<1> QED
    BY <1>1, <1>2, ContentTail

\* A step of the thread that leaves the ends and the pool alone.
LEMMA SameBytes ==
    ASSUME UNCHANGED <<buffer_ptr, readEnd, writeEnd>>
    PROVE  /\ Unread' = Unread /\ (EndsOrdered' <=> EndsOrdered)
           /\ (read_mirror' = read_mirror /\ read_index' = read_index
               /\ write_mirror' = write_mirror /\ write_index' = write_index)
BY DEF Unread, CopyOut, data_len, status, EndsOrdered, readEnd, writeEnd

\* rt_ringbuffer_status saw data: the load that follows finds the oldest
\* byte that is owed.
LEMMA ChecksKeepBytes ==
    ASSUME LostInv, ~mixed, GetStart \/ GetMirror
    PROVE  LostInv'
<1>1. /\ IsrTypeOK /\ IsrTypeOK' /\ pc \in {"idle", "mirror"}
      /\ pc' \in {"idle", "mirror", "load"} /\ owed' = owed
      /\ UNCHANGED <<buffer_ptr, readEnd, writeEnd>>
    BY GetKeepsType DEF LostInv, GetStart, GetMirror, ThreadStep
<1>2. IInv /\ Unread = owed
    BY <1>1 DEF LostInv, Bytewise, Between, IInv, IsrTypeOK
<1>3. Unread' = owed' /\ EndsOrdered'
    BY <1>1, <1>2, SameBytes DEF IInv
<1>4. ASSUME pc' = "load" PROVE owed' # <<>>
    <2>1. read_index # write_index \/ read_mirror # write_mirror
        BY <1>4 DEF GetStart, GetMirror, ThreadStep
    <2>2. data_len # 0
        BY <1>2, <2>1, NAssumption DEF data_len, status, IInv, TypeOK, EndsOrdered
    <2> QED
        BY <1>1, <1>2, <2>2, UnreadFits
<1> QED
    BY <1>1, <1>3, <1>4 DEF LostInv, Bytewise, Between, Loading, Loaded, Wrapping, Clearing, Resetting

LEMMA LoadKeepsBytes ==
    ASSUME LostInv, ~mixed, GetLoad
    PROVE  LostInv'
<1>1. /\ IsrTypeOK /\ IsrTypeOK' /\ pc = "load" /\ pc' = "advance"
      /\ owed' = IF owed = <<>> THEN owed ELSE Tail(owed)
      /\ UNCHANGED <<buffer_ptr, readEnd, writeEnd>>
    BY GetKeepsType DEF LostInv, GetLoad, ThreadStep
<1>2. IInv /\ Unread = owed /\ owed # <<>>
    BY <1>1 DEF LostInv, Bytewise, Between, Loading, IInv, IsrTypeOK
<1>3. Unread' = owed /\ EndsOrdered' /\ owed' = Tail(owed)
    BY <1>1, <1>2, SameBytes DEF IInv
<1>4. Loaded'
    BY <1>2, <1>3 DEF Loaded
<1> QED
    BY <1>1, <1>4 DEF LostInv, Bytewise, Between, Loading, Wrapping, Clearing, Resetting

\* The index moves on inside the pool.
LEMMA AdvanceKeepsBytes ==
    ASSUME LostInv, ~mixed, GetAdvance
    PROVE  LostInv'
<1>1. /\ IsrTypeOK /\ IsrTypeOK' /\ pc = "advance" /\ pc' = "idle" /\ owed' = owed
      /\ read_index # N - 1 /\ read_index' = read_index + 1 /\ read_mirror' = read_mirror
      /\ UNCHANGED <<buffer_ptr, writeEnd>>
    BY GetKeepsType DEF LostInv, GetAdvance, ThreadStep
<1>2. IInv /\ Unread # <<>> /\ Tail(Unread) = owed
    BY <1>1 DEF LostInv, Bytewise, Loaded, IInv, IsrTypeOK
<1>3. /\ data_len \in 1..N
      /\ owed = Content(buffer_ptr, Pos(read_index + 1), data_len - 1)
      /\ data_len = Distance(read_mirror, read_index, write_mirror, write_index)
    BY <1>2, HeadIsOldest, UnreadBefore
<1>4. read_index \in 0..N-1 /\ Pos(read_index + 1) = read_index + 1
    BY <1>1, NAssumption DEF IsrTypeOK, TypeOK, Pos
<1>5. write_mirror' = write_mirror /\ write_index' = write_index
    BY <1>1 DEF writeEnd
<1>6. EndsOrdered'
    BY <1>1, <1>2, <1>3, <1>4, <1>5, NAssumption DEF EndsOrdered, IInv, TypeOK, Distance
<1>7. IInv'
    BY <1>1, <1>6 DEF IInv, IsrTypeOK
<1>8. /\ data_len' = Distance(read_mirror', read_index', write_mirror', write_index')
      /\ Unread' = Content(buffer_ptr', read_index', data_len')
    BY <1>7, UnreadAfter
<1>9. data_len' = data_len - 1
    <2>1. /\ Distance(read_mirror, read_index + 1, write_mirror, write_index)
               = Distance(read_mirror, read_index, write_mirror, write_index) - 1
        BY <1>1, <1>4, NAssumption DEF Distance, IsrTypeOK, TypeOK
    <2> QED
        BY <1>1, <1>3, <1>5, <1>8, <2>1
<1>10. Unread' = owed'
    BY <1>1, <1>3, <1>4, <1>8, <1>9
<1> QED
    BY <1>1, <1>6, <1>10 DEF LostInv, Bytewise, Between, Loading, Loaded, Wrapping, Clearing, Resetting

\* At the end of the pool the write end is in the other mirror, so after
\* the flip the two mirrors agree.
LEMMA FlipKeepsBytes ==
    ASSUME LostInv, ~mixed, GetFlip
    PROVE  LostInv'
<1>1. /\ IsrTypeOK /\ IsrTypeOK' /\ pc = "advance" /\ pc' = "wrap" /\ owed' = owed
      /\ read_index = N - 1 /\ read_index' = read_index /\ read_mirror' = Flip(read_mirror)
      /\ UNCHANGED <<buffer_ptr, writeEnd>>
    BY GetKeepsType DEF LostInv, GetFlip, ThreadStep
<1>2. IInv /\ Unread # <<>> /\ Tail(Unread) = owed
    BY <1>1 DEF LostInv, Bytewise, Loaded, IInv, IsrTypeOK
<1>3. /\ data_len \in 1..N
      /\ owed = Content(buffer_ptr, Pos(read_index + 1), data_len - 1)
      /\ data_len = Distance(read_mirror, read_index, write_mirror, write_index)
    BY <1>2, HeadIsOldest, UnreadBefore
<1>4. /\ read_index \in 0..N-1 /\ write_index \in 0..N-1
      /\ read_mirror \in {0, 1} /\ write_mirror \in {0, 1}
    BY <1>2 DEF IInv, TypeOK
<1>5. Pos(read_index + 1) = 0
    BY <1>1, <1>4, NAssumption DEF Pos
<1>6. read_mirror # write_mirror
    BY <1>1, <1>3, <1>4, NAssumption DEF Distance
<1>7. read_mirror' = write_mirror
    BY <1>1, <1>4, <1>6 DEF Flip
<1>8. data_len - 1 = Distance(read_mirror', 0, write_mirror, write_index)
    BY <1>1, <1>3, <1>4, <1>6, <1>7, NAssumption DEF Distance
<1>9. Wrapping'
    BY <1>1, <1>3, <1>5, <1>7, <1>8 DEF Wrapping, writeEnd
<1> QED
    BY <1>1, <1>9 DEF LostInv, Bytewise, Between, Loading, Loaded, Clearing, Resetting

LEMMA WrapKeepsBytes ==
    ASSUME LostInv, ~mixed, GetWrap
    PROVE  LostInv'
<1>1. /\ IsrTypeOK /\ IsrTypeOK' /\ pc = "wrap" /\ pc' = "idle" /\ owed' = owed
      /\ read_index' = 0 /\ read_mirror' = read_mirror
      /\ buffer_ptr' = buffer_ptr /\ write_mirror' = write_mirror /\ write_index' = write_index
    BY GetKeepsType DEF LostInv, GetWrap, ThreadStep, writeEnd
<1>2. /\ read_mirror # write_mirror => write_index = 0
      /\ owed = Content(buffer_ptr, 0, Distance(read_mirror, 0, write_mirror, write_index))
    BY <1>1 DEF LostInv, Bytewise, Wrapping
<1>3. IInv'
    BY <1>1, <1>2, NAssumption DEF IInv, IsrTypeOK, TypeOK, EndsOrdered
<1>4. /\ data_len' = Distance(read_mirror', read_index', write_mirror', write_index')
      /\ Unread' = Content(buffer_ptr', read_index', data_len')
    BY <1>3, UnreadAfter
<1>5. Unread' = owed' /\ EndsOrdered'
    BY <1>1, <1>2, <1>3, <1>4 DEF IInv
<1> QED
    BY <1>1, <1>5 DEF LostInv, Bytewise, Between, Loading, Loaded, Wrapping, Clearing, Resetting

\* A step of getchar after a reset that was disturbed.
LEMMA GetWhenMixed ==
    ASSUME LostInv, mixed,
           GetStart \/ GetMirror \/ GetLoad \/ GetAdvance \/ GetFlip \/ GetWrap
    PROVE  LostInv'
<1>1. IsrTypeOK'
    BY GetKeepsType DEF LostInv
<1>2. mixed' = mixed /\ pc' \notin Resetting
    BY DEF GetStart, GetMirror, GetLoad, GetAdvance, GetFlip, GetWrap, ThreadStep, Resetting
<1> QED
    BY <1>1, <1>2 DEF LostInv, Clearing

\* The four stores of a reset, the last two with the load before them.
LEMMA ResetKeepsBytes ==
    ASSUME LostInv,
           \/ ResetReadMirror \/ ResetReadIndex
           \/ ResetLoad("load_wm", "reset_wm") \/ ResetWriteMirror
           \/ ResetLoad("load_wi", "reset_wi") \/ ResetWriteIndex
    PROVE  LostInv'
<1>1. IsrTypeOK /\ IsrTypeOK'
    BY ResetKeepsType DEF LostInv
<1>2. ASSUME pc' \in Resetting
      PROVE  Bytewise'
    BY <1>2 DEF Bytewise, Between, Loading, Loaded, Wrapping, Resetting
<1>3. CASE ResetReadMirror \/ ResetReadIndex \/ ResetWriteMirror
    <2>1. pc' \in Resetting
        BY <1>3 DEF ResetReadMirror, ResetReadIndex, ResetWriteMirror, ThreadStep, Resetting
    <2>2. Clearing'
        BY <1>1, <1>3
        DEF ResetReadMirror, ResetReadIndex, ResetWriteMirror, ThreadStep, readEnd, writeEnd,
            LostInv, Clearing, Resetting
    <2> QED
        BY <1>1, <1>2, <2>1, <2>2 DEF LostInv
<1>4. CASE ResetLoad("load_wm", "reset_wm") \/ ResetLoad("load_wi", "reset_wi")
    <2>1. pc' \in Resetting
        BY <1>4 DEF ResetLoad, ThreadStep, Resetting
    <2>2. Clearing'
        BY <1>1, <1>4
        DEF ResetLoad, ThreadStep, readEnd, writeEnd, LostInv, Clearing, Resetting
    <2> QED
        BY <1>1, <1>2, <2>1, <2>2 DEF LostInv
<1>5. CASE ResetWriteIndex
    <2>1. pc' = "idle" /\ mixed' = (arrived # 0)
        BY <1>5 DEF ResetWriteIndex, ThreadStep
    <2>2. ASSUME ~mixed' PROVE Bytewise'
        <3>1. /\ owed' = <<>>
              /\ read_mirror' = 0 /\ read_index' = 0 /\ write_mirror' = 0 /\ write_index' = 0
            BY <1>5, <2>1, <2>2 DEF ResetWriteIndex, ThreadStep, readEnd, LostInv, Clearing, Resetting
        <3>2. IInv' /\ EndsOrdered'
            BY <1>1, <3>1 DEF IInv, IsrTypeOK, EndsOrdered
        <3>3. data_len' = 0 /\ Unread' = Content(buffer_ptr', read_index', data_len')
            BY <3>1, <3>2, UnreadAfter DEF Distance
        <3>4. Unread' = <<>>
            BY <3>3 DEF Content
        <3> QED
            BY <2>1, <3>1, <3>2, <3>4 DEF Bytewise, Between, Loading, Loaded, Wrapping
    <2>3. Clearing'
        BY <2>1 DEF Clearing, Resetting
    <2> QED
        BY <1>1, <2>2, <2>3 DEF LostInv
<1> QED
    BY <1>3, <1>4, <1>5

\* For every capacity: as long as at most one byte arrives during a call of
\* rt_ringbuffer_getchar, no byte that putchar accepted is lost, doubled or
\* overtaken, wherever in the call the interrupt comes; any number of bytes
\* may come into a rt_ringbuffer_reset, and the first reset without one
\* restores the property.  (A second byte between the two stores of
\* getchar's wrap can overwrite an unread one: the ends are out of order
\* there, and putchar takes the full pool for one with room.)
THEOREM NothingIsLost ==
    ASSUME GetBurst <= 1
    PROVE  IsrSpec => []NothingLost
  <1>1. IsrInit => LostInv
    <2> SUFFICES ASSUME IsrInit PROVE LostInv
      OBVIOUS
    <2>1. IsrTypeOK /\ IInv
      BY IInvInit, IsrInitType DEF IsrInit
    <2>2. data_len = 0
      BY DEF IsrInit, Init, data_len, status
    <2>3. Unread = <<>> /\ EndsOrdered
      BY <2>1, <2>2, UnreadFits DEF IInv
    <2> QED
      BY <2>1, <2>3
      DEF IsrInit, LostInv, Bytewise, Between, Loading, Loaded, Wrapping, Clearing, Resetting
  <1>2. LostInv /\ [IsrNext]_isrVars => LostInv'
    <2> SUFFICES ASSUME LostInv, [IsrNext]_isrVars PROVE LostInv'
      OBVIOUS
    <2>1. ASSUME NEW ch \in Bytes, RxByte(ch) PROVE LostInv'
      BY <2>1, RxKeepsBytes, RxMixes
    <2>2. CASE UNCHANGED isrVars
      <3>1. UNCHANGED <<buffer_ptr, readEnd, writeEnd>>
        BY <2>2 DEF isrVars, vars, readEnd, writeEnd
      <3>2. IsrTypeOK'
        BY <2>2 DEF isrVars, vars, LostInv, IsrTypeOK, TypeOK
      <3>3. (~mixed => Bytewise) => (~mixed' => Bytewise')
        BY <2>2, <3>1, SameBytes
        DEF isrVars, vars, Bytewise, Between, Loading, Loaded, Wrapping
      <3>4. Clearing'
        BY <2>2 DEF isrVars, vars, LostInv, Clearing
      <3> QED
        BY <3>2, <3>3, <3>4 DEF LostInv
    <2>3. ASSUME GetStart \/ GetMirror \/ GetLoad \/ GetAdvance \/ GetFlip \/ GetWrap
          PROVE  LostInv'
      <3>1. CASE mixed
        BY <2>3, <3>1, GetWhenMixed
      <3>2. CASE ~mixed
        BY <2>3, <3>2, ChecksKeepBytes, LoadKeepsBytes, AdvanceKeepsBytes, FlipKeepsBytes,
           WrapKeepsBytes
      <3> QED BY <3>1, <3>2
    <2> QED
      BY <2>1, <2>2, <2>3, ResetKeepsBytes DEF IsrNext
  <1>3. LostInv => NothingLost
    <2> SUFFICES ASSUME LostInv, ~mixed PROVE NothingLost
      BY DEF NothingLost
    <2>1. ASSUME pc = "load" PROVE owed # <<>> /\ buffer_ptr[read_index] = Head(owed)
      <3>1. IInv /\ Unread = owed /\ owed # <<>>
        BY <2>1 DEF LostInv, Bytewise, Between, Loading, IInv, IsrTypeOK
      <3> QED BY <3>1, HeadIsOldest
    <2> QED BY <2>1 DEF LostInv, Bytewise, Between, NothingLost
  <1> QED BY <1>1, <1>2, <1>3, PTL DEF IsrSpec

=============================================================================
