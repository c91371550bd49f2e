--------------------------- MODULE RingBufferIsr ---------------------------
(***************************************************************************)
(* The ring buffer as OXGame.c uses cmd_rb: the UART interrupt calls       *)
(* rt_ringbuffer_putchar, a thread calls rt_ringbuffer_getchar and         *)
(* rt_ringbuffer_reset, and neither side masks interrupts.  On one core    *)
(* the interrupt runs to completion between two accesses of the thread, so *)
(* the producer's call is one step and the thread's calls are one step per *)
(* access of a shared field.  write_mirror and write_index are bit-fields  *)
(* of one word, so a store to either loads the word, changes its part and  *)
(* stores all of it back.  Only the thread writes the other word, of       *)
(* read_mirror and read_index, and there the store alone matters.  A       *)
(* compiler that merges two stores to one word only takes interrupts away  *)
(* from between them.                                                      *)
(***************************************************************************)
EXTENDS RingBuffer

CONSTANTS
    GetBurst,       \* bytes that can arrive while a getchar is under way
    ResetBurst      \* ... and while a reset is

ASSUME BurstAssumption == GetBurst \in Nat /\ ResetBurst \in Nat

VARIABLES
    pc,         \* where the thread is: "idle" or inside getchar / reset
    got,        \* the byte getchar has loaded (local *ch)
    owed,       \* history: bytes putchar accepted and getchar has not loaded
                \* (not extended once it is longer than the pool)
    arrived,    \* bytes delivered during the call under way
    word,       \* write_mirror and write_index as reset has loaded them
    mixed       \* history: a byte arrived during a reset, and no reset has
                \* run undisturbed since

isrVars == <<vars, pc, got, owed, arrived, word, mixed>>

Getting == {"mirror", "load", "advance", "wrap"}
Resetting == {"reset_ri", "load_wm", "reset_wm", "load_wi", "reset_wi"}

NoWord == [mirror |-> 0, index |-> 0]

IsrInit ==
    /\ Init
    /\ pc = "idle" /\ got = <<>> /\ owed = <<>> /\ arrived = 0
    /\ word = NoWord /\ mixed = FALSE

-----------------------------------------------------------------------------
\* uart_rx_ind for one byte: rt_ringbuffer_putchar(cmd_rb, ch).  What arrives
\* during a reset may be cleared with the rest, or leave the two ends apart.
RxByte(ch) ==
    /\ pc \in Getting => arrived < GetBurst
    /\ pc \in Resetting => arrived < ResetBurst
    /\ putchar(ch)
    /\ owed' = IF pc \in Resetting \/ Len(owed) > N THEN owed ELSE owed \o ret'
    /\ arrived' = IF pc = "idle" THEN 0 ELSE arrived + 1
    /\ mixed' = (mixed \/ pc \in Resetting)
    /\ UNCHANGED <<pc, got, word>>

\* A step of the thread; the pool and the interrupt's result stay.
ThreadStep(here, there) ==
    /\ pc = here /\ pc' = there
    /\ arrived' = IF there = "idle" THEN 0 ELSE arrived
    /\ UNCHANGED <<buffer_ptr, ret>>

\* rt_ringbuffer_status compares the indices first; different indices mean
\* data whatever the write end does next.
GetStart ==
    /\ ThreadStep("idle", IF read_index = write_index THEN "mirror" ELSE "load")
    /\ got' = <<>>
    /\ UNCHANGED <<readEnd, writeEnd, owed, word, mixed>>

\* ... then, in a second load, the mirrors.
GetMirror ==
    /\ ThreadStep("mirror",
                  IF read_mirror = write_mirror THEN "idle" ELSE "load")
    /\ UNCHANGED <<readEnd, writeEnd, got, owed, word, mixed>>

\* *ch = rb->buffer_ptr[rb->read_index]
GetLoad ==
    /\ ThreadStep("load", "advance")
    /\ got' = <<buffer_ptr[read_index]>>
    /\ owed' = IF owed = <<>> THEN owed ELSE Tail(owed)
    /\ UNCHANGED <<readEnd, writeEnd, word, mixed>>

\* Mutant: the index is not wrapped.
GetAdvanceNoWrap ==
    /\ ThreadStep("advance", "idle")
    /\ read_index' = read_index + 1
    /\ UNCHANGED <<read_mirror, writeEnd, got, owed, word, mixed>>

GetAdvance ==
    /\ read_index # N - 1
    /\ ThreadStep("advance", "idle")
    /\ read_index' = read_index + 1
    /\ UNCHANGED <<read_mirror, writeEnd, got, owed, word, mixed>>

\* Mutant: the index wraps and the mirror does not flip.
GetFlipNoFlip ==
    /\ read_index = N - 1
    /\ ThreadStep("advance", "wrap")
    /\ UNCHANGED <<readEnd, writeEnd, got, owed, word, mixed>>

\* End of the pool: flip the mirror, then clear the index.
GetFlip ==
    /\ read_index = N - 1
    /\ ThreadStep("advance", "wrap")
    /\ read_mirror' = Flip(read_mirror)
    /\ UNCHANGED <<read_index, writeEnd, got, owed, word, mixed>>

GetWrap ==
    /\ ThreadStep("wrap", "idle")
    /\ read_index' = 0
    /\ UNCHANGED <<read_mirror, writeEnd, got, owed, word, mixed>>

\* rt_ringbuffer_reset: four stores in this order, the last two of them into
\* the word that the interrupt writes too.
ResetReadMirror ==
    /\ ThreadStep("idle", "reset_ri")
    /\ read_mirror' = 0
    /\ owed' = <<>>
    /\ UNCHANGED <<read_index, writeEnd, got, word, mixed>>

ResetReadIndex ==
    /\ ThreadStep("reset_ri", "load_wm")
    /\ read_index' = 0
    /\ UNCHANGED <<read_mirror, writeEnd, got, owed, word, mixed>>

\* The load of a store to a bit-field.
ResetLoad(here, there) ==
    /\ ThreadStep(here, there)
    /\ word' = [mirror |-> write_mirror, index |-> write_index]
    /\ UNCHANGED <<readEnd, writeEnd, got, owed, mixed>>

\* rb->write_mirror = 0: the index is stored back as it was loaded.
ResetWriteMirror ==
    /\ ThreadStep("reset_wm", "load_wi")
    /\ write_mirror' = 0 /\ write_index' = word.index
    /\ word' = NoWord
    /\ UNCHANGED <<readEnd, got, owed, mixed>>

\* rb->write_index = 0: the mirror is stored back as it was loaded.
ResetWriteIndex ==
    /\ ThreadStep("reset_wi", "idle")
    /\ write_index' = 0 /\ write_mirror' = word.mirror
    /\ word' = NoWord
    /\ mixed' = (arrived # 0)
    /\ UNCHANGED <<readEnd, got, owed>>

IsrNext ==
    \/ \E ch \in Bytes : RxByte(ch)
    \/ GetStart \/ GetMirror \/ GetLoad \/ GetAdvance \/ GetFlip \/ GetWrap
    \/ ResetReadMirror \/ ResetReadIndex
    \/ ResetLoad("load_wm", "reset_wm") \/ ResetWriteMirror
    \/ ResetLoad("load_wi", "reset_wi") \/ ResetWriteIndex

IsrSpec == IsrInit /\ [][IsrNext]_isrVars

-----------------------------------------------------------------------------
(* Properties *)

\* No interrupt, however it cuts into getchar or reset, takes an index out of
\* the pool: not even one that comes between the loads and the stores of a
\* reset, which puts back what it loaded.
IsrTypeOK ==
    /\ TypeOK
    /\ pc \in {"idle"} \cup Getting \cup Resetting
    /\ got \in Seq(Bytes) /\ owed \in Seq(Bytes)
    /\ arrived \in Nat
    /\ word \in [mirror : {0, 1}, index : 0..N-1]
    /\ mixed \in BOOLEAN

\* Unless a byte came in the middle of a reset: between calls the unread
\* bytes are exactly the bytes putchar accepted and getchar has not returned,
\* in order, so no byte is lost, duplicated or overwritten by an interrupt in
\* the middle of a getchar.  getchar goes on to load a byte only while one is
\* owed, and it is the oldest: the check that saw data is still right when
\* the byte is read.  A reset that no byte disturbs repairs what an earlier
\* one left.
NothingLost ==
    ~mixed =>
        /\ pc = "idle" => Unread = owed
        /\ pc = "load" => owed # <<>> /\ buffer_ptr[read_index] = Head(owed)

=============================================================================
