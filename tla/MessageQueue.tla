---------------------------- MODULE MessageQueue ----------------------------
(***************************************************************************)
(* The kernel's message queue (src/ipc.c, without message priorities).     *)
(* The blocks of the pool are linked in a free list and in the queue.  A   *)
(* sender takes a free block, copies its message into it with interrupts   *)
(* enabled, and only then links it; a receiver unlinks a block, copies the *)
(* message out with interrupts enabled, and only then frees it.  Between   *)
(* the two halves of a call any other thread, or an interrupt, may call.   *)
(* As with the mailbox, a thread that is woken looks again.                *)
(***************************************************************************)
EXTENDS ThreadWait

CONSTANTS
    Size,           \* mq->max_msgs
    Messages,
    Isr             \* the interrupt that calls

Callers == Threads \cup {Isr}
Blocks == 1..Size       \* the struct rt_mq_message of the pool

ASSUME MessageQueueAssumption ==
    /\ Size \in Nat \ {0} /\ Lists = {"send", "recv"} /\ Isr \notin Threads \cup {None}
    /\ None \notin Messages \cup Blocks \cup ({"send", "urgent", "recv"} \X Messages)

VARIABLES
    msg_queue_head, msg_queue_tail, msg_queue_free,
    next,           \* msg->next of each block
    data,           \* the message in each block
    entry,          \* mq->entry
    alive,          \* not detached
    half,           \* the call a caller is half-way through, or "none"
    msg,            \* its block
    mail,           \* the message of its send, while it waits too
    timeout,        \* what is left of the timeout: "none", "ticks" or "forever"
    got,            \* the last message a receive has copied
    wasted          \* history: a wake-up since the last reset was in vain

linkVars == <<msg_queue_head, msg_queue_tail, msg_queue_free, next, entry>>
halfVars == <<half, msg, mail>>
vars == <<waitVars, linkVars, data, alive, halfVars, timeout, got, wasted>>

\* The list a call waits in has the name of the call.
Ops == {"send", "recv"}

\* Has to wait: no free block, or no message.
Stuck(op) == IF op = "send" THEN msg_queue_free = None ELSE entry = 0

\* rt_schedule makes no other thread run before an interrupt is over.
Idle(t) == InThread(t) /\ half[Isr] = "none" /\ half[t] = "none"
IsrMayRun == InInterrupt /\ half[Isr] = "none"

-----------------------------------------------------------------------------
(* The first half of a call, with the block it gets hold of *)

\* Mutant: the block is taken off the free list only when it is linked.
AllocLate(c, op, m) ==
    /\ msg_queue_free # None
    /\ half' = [half EXCEPT ![c] = op]
    /\ msg' = [msg EXCEPT ![c] = msg_queue_free]
    /\ mail' = [mail EXCEPT ![c] = m]
    /\ UNCHANGED <<linkVars, data>>

Alloc(c, op, m) ==
    /\ msg_queue_free # None
    /\ msg_queue_free' = next[msg_queue_free]
    /\ half' = [half EXCEPT ![c] = op]
    /\ msg' = [msg EXCEPT ![c] = msg_queue_free]
    /\ mail' = [mail EXCEPT ![c] = m]
    /\ UNCHANGED <<msg_queue_head, msg_queue_tail, next, entry, data>>

Unlink(c) ==
    /\ entry > 0
    /\ msg_queue_head' = next[msg_queue_head]
    /\ msg_queue_tail' = IF msg_queue_tail = msg_queue_head THEN None ELSE msg_queue_tail
    /\ entry' = entry - 1
    /\ half' = [half EXCEPT ![c] = "recv"]
    /\ msg' = [msg EXCEPT ![c] = msg_queue_head]
    /\ mail' = [mail EXCEPT ![c] = None]
    /\ UNCHANGED <<msg_queue_free, next, data>>

-----------------------------------------------------------------------------
(* The second half, from the copying on *)

\* The first thread that waits for op is woken.
Wake(op) == ResumeFirst(op, "EOK") /\ wasted' = (wasted \/ InVain(op))

\* _rt_mq_send_wait.  entry is below RT_MQ_ENTRY_MAX: there are no more blocks.
LinkLast(c) ==
    /\ half[c] = "send"
    /\ data' = [data EXCEPT ![msg[c]] = mail[c]]
    /\ next' = [b \in Blocks |-> IF b = msg[c] THEN None
                                 ELSE IF b = msg_queue_tail THEN msg[c] ELSE next[b]]
    /\ msg_queue_tail' = msg[c]
    /\ msg_queue_head' = IF msg_queue_head = None THEN msg[c] ELSE msg_queue_head
    /\ entry' = entry + 1
    /\ Wake("recv")
    /\ UNCHANGED <<msg_queue_free, got>>

\* Mutant: an urgent message is linked like any other.
LinkFirstAsLast(c) ==
    /\ half[c] = "urgent"
    /\ data' = [data EXCEPT ![msg[c]] = mail[c]]
    /\ next' = [b \in Blocks |-> IF b = msg[c] THEN None
                                 ELSE IF b = msg_queue_tail THEN msg[c] ELSE next[b]]
    /\ msg_queue_head' = IF msg_queue_head = None THEN msg[c] ELSE msg_queue_head
    /\ msg_queue_tail' = msg[c]
    /\ entry' = entry + 1
    /\ Wake("recv")
    /\ UNCHANGED <<msg_queue_free, got>>

\* rt_mq_urgent
LinkFirst(c) ==
    /\ half[c] = "urgent"
    /\ data' = [data EXCEPT ![msg[c]] = mail[c]]
    /\ next' = [next EXCEPT ![msg[c]] = msg_queue_head]
    /\ msg_queue_head' = msg[c]
    /\ msg_queue_tail' = IF msg_queue_tail = None THEN msg[c] ELSE msg_queue_tail
    /\ entry' = entry + 1
    /\ Wake("recv")
    /\ UNCHANGED <<msg_queue_free, got>>

\* Mutant: a sender is woken only when no block was free.
FreeWakesFirst(c) ==
    /\ half[c] = "recv"
    /\ got' = data[msg[c]]
    /\ next' = [next EXCEPT ![msg[c]] = msg_queue_free]
    /\ msg_queue_free' = msg[c]
    /\ IF msg_queue_free = None THEN Wake("send")
                                ELSE UNCHANGED <<susp, stat, error, timer, ttmr, firing, wasted>>
    /\ UNCHANGED <<msg_queue_head, msg_queue_tail, entry, data>>

\* _rt_mq_recv
Free(c) ==
    /\ half[c] = "recv"
    /\ got' = data[msg[c]]
    /\ next' = [next EXCEPT ![msg[c]] = msg_queue_free]
    /\ msg_queue_free' = msg[c]
    /\ Wake("send")
    /\ UNCHANGED <<msg_queue_head, msg_queue_tail, entry, data>>

SecondHalf(c) ==
    /\ LinkLast(c) \/ LinkFirst(c) \/ Free(c)
    /\ half' = [half EXCEPT ![c] = "none"]
    /\ msg' = [msg EXCEPT ![c] = None] /\ mail' = [mail EXCEPT ![c] = None]
    /\ UNCHANGED <<call, timeout, alive, nested>>

-----------------------------------------------------------------------------
(* Threads and interrupts *)

FirstHalf(c) ==
    \/ \E m \in Messages, op \in {"send", "urgent"} : Alloc(c, op, m)
    \/ Unlink(c)

Begin(t) ==
    /\ Idle(t) /\ alive /\ FirstHalf(t)
    /\ UNCHANGED <<waitVars, alive, timeout, got, wasted>>

Finish(t) ==
    /\ firing = None /\ half[Isr] = "none" /\ stat[t] = "ready"
    /\ SecondHalf(t)

IsrBegin ==
    /\ IsrMayRun /\ alive /\ FirstHalf(Isr) /\ CountNested
    /\ UNCHANGED <<susp, stat, error, timer, ttmr, firing, call, alive, timeout, got, wasted>>

IsrFinish == SecondHalf(Isr)

\* A call with timeout 0 returns -RT_EFULL or -RT_ETIMEOUT and changes
\* nothing, any other one waits.
Wait(t, op, m, limit) ==
    /\ Idle(t) /\ alive /\ Stuck(op)
    /\ SuspendToList(t, op, "EINTR", limit = "ticks", op)
    /\ mail' = [mail EXCEPT ![t] = m]
    /\ timeout' = [timeout EXCEPT ![t] = limit]
    /\ UNCHANGED <<linkVars, data, half, msg, alive, got, wasted>>

-----------------------------------------------------------------------------
(* Back from rt_schedule *)

Back(t) == firing = None /\ half[Isr] = "none" /\ stat[t] = "ready" /\ call[t] \in Ops

Return(t) ==
    /\ call' = [call EXCEPT ![t] = "none"]
    /\ timeout' = [timeout EXCEPT ![t] = "none"]

\* Timed out, or the queue was reset or detached.
WaitFailed(t) ==
    /\ Back(t) /\ error[t] # "EOK"
    /\ Return(t)
    /\ mail' = [mail EXCEPT ![t] = None]
    /\ UNCHANGED <<susp, stat, error, timer, ttmr, firing, nested, linkVars, data, half, msg,
                   alive, got, wasted>>

WaitDone(t) ==
    /\ Back(t) /\ error[t] = "EOK"
    /\ IF call[t] = "send" THEN Alloc(t, "send", mail[t]) ELSE Unlink(t)
    /\ Return(t)
    /\ UNCHANGED <<susp, stat, error, timer, ttmr, firing, nested, alive, got, wasted>>

\* What can be left of a timeout after the thread slept and waited to run.
Left(limit) == IF limit = "ticks" THEN {"ticks", "none"} ELSE {limit}

\* Another thread or an interrupt was faster.
WaitAgain(t) ==
    /\ Back(t) /\ error[t] = "EOK" /\ Stuck(call[t])
    /\ \E limit \in Left(timeout[t]) \ {"none"} :
        /\ SuspendToList(t, call[t], "EINTR", limit = "ticks", call[t])
        /\ timeout' = [timeout EXCEPT ![t] = limit]
    /\ UNCHANGED <<linkVars, data, halfVars, alive, got, wasted>>

GiveUp(t) ==
    /\ Back(t) /\ error[t] = "EOK" /\ Stuck(call[t])
    /\ "none" \in Left(timeout[t])
    /\ error' = [error EXCEPT ![t] = IF call[t] = "send" THEN "EINTR" ELSE "ETIMEOUT"]
    /\ Return(t)
    /\ mail' = [mail EXCEPT ![t] = None]
    /\ UNCHANGED <<susp, stat, timer, ttmr, firing, nested, linkVars, data, half, msg, alive, got, wasted>>

-----------------------------------------------------------------------------
(* rt_mq_control, rt_mq_detach *)

\* The blocks from b on, along the links in nx.
Walk(nx, b) ==
    LET c[i \in Blocks] ==
            IF i = 1 THEN b ELSE IF c[i - 1] = None THEN None ELSE nx[c[i - 1]]
    IN  [i \in {j \in Blocks : c[j] # None} |-> c[i]]

\* RT_IPC_CMD_RESET.  The queued blocks are freed one by one; blocks that
\* calls are half-way through are in neither list.
Reset(t) ==
    LET q == Walk(next, msg_queue_head)
        Before(i) == IF i = 1 THEN msg_queue_free ELSE q[i - 1]
    IN  /\ Idle(t) /\ alive
        /\ ResumeAll("ERROR")
        /\ msg_queue_head' = None
        /\ msg_queue_tail' = IF msg_queue_tail \in ToSet(q) THEN None ELSE msg_queue_tail
        /\ msg_queue_free' = Before(Len(q) + 1)
        /\ next' = [b \in Blocks |->
                       IF b \in ToSet(q) THEN Before(CHOOSE i \in DOMAIN q : q[i] = b) ELSE next[b]]
        /\ entry' = 0 /\ wasted' = FALSE
        /\ UNCHANGED <<data, halfVars, call, nested, timeout, alive, got>>

\* rt_mq_detach.  Calls that have begun, and threads woken before, go on.
Detach(t) ==
    /\ Idle(t) /\ alive
    /\ ResumeAll("ERROR")
    /\ alive' = FALSE
    /\ UNCHANGED <<linkVars, data, halfVars, call, nested, timeout, got, wasted>>

-----------------------------------------------------------------------------
\* rt_mq_init; the blocks' contents are not initialised.
Init ==
    /\ WaitInit
    /\ msg_queue_head = None /\ msg_queue_tail = None
    /\ msg_queue_free = Size
    /\ next = [b \in Blocks |-> IF b = 1 THEN None ELSE b - 1]
    /\ data = [b \in Blocks |-> None]
    /\ entry = 0 /\ alive = TRUE
    /\ half = [c \in Callers |-> "none"]
    /\ msg = [c \in Callers |-> None] /\ mail = [c \in Callers |-> None]
    /\ timeout = [t \in Threads |-> "none"]
    /\ got = None /\ wasted = FALSE

Tick ==
    /\ half[Isr] = "none"
    /\ (\E t \in Threads : TimerExpires(t)) \/ ThreadTimeout
    /\ UNCHANGED <<linkVars, data, halfVars, timeout, alive, got, wasted>>

Next ==
    \/ \E t \in Threads :
        \/ Begin(t) \/ Finish(t)
        \/ \E limit \in {"ticks", "forever"} :
            (\E m \in Messages : Wait(t, "send", m, limit)) \/ Wait(t, "recv", None, limit)
        \/ WaitFailed(t) \/ WaitDone(t) \/ WaitAgain(t) \/ GiveUp(t)
        \/ Reset(t) \/ Detach(t)
    \/ IsrBegin \/ IsrFinish
    \/ Tick

Spec == Init /\ [][Next]_vars

-----------------------------------------------------------------------------
(* Properties *)

\* The callers that are half-way through a call, each with a block.
Holders == {c \in Callers : half[c] # "none"}

\* Every block is in exactly one place: in the free list, in the queue, or in
\* the hands of one call between its halves; the queue has entry blocks and
\* ends at its tail.  No interleaving of half calls and resets leaks a block,
\* links it twice or ties the two lists together.
BlocksAccounted ==
    LET q == Walk(next, msg_queue_head)
        f == Walk(next, msg_queue_free)
        held == {msg[c] : c \in Holders}
    IN  /\ ToSet(q) \cup ToSet(f) \cup held = Blocks
        /\ Len(q) + Len(f) + Cardinality(Holders) = Size
        /\ entry = Len(q)
        /\ msg_queue_tail = IF q = <<>> THEN None ELSE Last(q)

\* The messages, in the order in which they will be received.
queue == LET q == Walk(next, msg_queue_head) IN [i \in DOMAIN q |-> data[q[i]]]

\* The calls that are half-way through, each with its message.
doing ==
    [c \in Callers |->
        IF half[c] = "none" THEN None
        ELSE <<half[c], IF half[c] = "recv" THEN data[msg[c]] ELSE mail[c]>>]

MF == INSTANCE MessageFifo

\* Whatever comes between the halves of calls, messages are received once
\* each, in order, urgent ones first, and as they were sent: nobody writes to
\* a block another call is copying, and only a reset drops any.
ImplementsMessageFifo ==
    MF!Spec /\ [][MF!Reset => \E t \in Threads : Reset(t)]_<<queue, doing, got>>

\* The threads woken for a message or for a block that have not run yet.
WokenFor(op) == {t \in Threads : call[t] = op /\ stat[t] = "ready" /\ error[t] = "EOK"}

\* No thread sleeps beside a message, or beside a free block, unless a thread
\* already woken will take it.  (The one way to lose a wake-up is an interrupt
\* that spends it on a thread whose timeout is being handled.)
NoLostWakeup ==
    ~wasted =>
        /\ susp["recv"] # <<>> => entry <= Cardinality(WokenFor("recv"))
        /\ susp["send"] # <<>> => Len(Walk(next, msg_queue_free)) <= Cardinality(WokenFor("send"))

=============================================================================
