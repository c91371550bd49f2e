------------------------------ MODULE Mailbox ------------------------------
(***************************************************************************)
(* The kernel's mailbox (src/ipc.c).  Threads wait on it in two lists,     *)
(* receivers for a mail and senders for room.  Nothing is handed over: a   *)
(* thread that is woken looks again, and may find that another one was     *)
(* faster and wait again, for the rest of its timeout.                     *)
(***************************************************************************)
EXTENDS ThreadWait

CONSTANTS
    Size,           \* mb->size
    Mails

ASSUME MailboxAssumption ==
    Size \in Nat \ {0} /\ None \notin Mails /\ Lists = {"send", "recv"}

VARIABLES
    pool, entry, in_offset, out_offset,
    alive,          \* not detached
    mail,           \* the value of the send a thread waits in
    timeout,        \* what is left of the timeout: "none", "ticks" or "forever"
    got,            \* the last *value a receive filled in
    wasted          \* history: a wake-up since the last reset was in vain

mbVars == <<pool, entry, in_offset, out_offset>>
callVars == <<call, mail, timeout>>
vars == <<waitVars, mbVars, alive, mail, timeout, got, wasted>>

\* The list a call waits in has the name of the call.
Ops == {"send", "recv"}

\* Has to wait: no room, or no mail.
Stuck(op) == IF op = "send" THEN entry = Size ELSE entry = 0

\* Mutant: the offset wraps one slot late.
AfterLate(offset) == IF offset + 1 > Size THEN 0 ELSE offset + 1

After(offset) == IF offset + 1 >= Size THEN 0 ELSE offset + 1

-----------------------------------------------------------------------------
(* What a call does to the mailbox once it need not wait *)

\* The first thread that waits for op is woken.
Wake(op) == ResumeFirst(op, "EOK") /\ wasted' = (wasted \/ InVain(op))

\* Mutant: a receiver is woken only when the mailbox was empty.
PutLastWakesFirst(m) ==
    /\ entry < Size
    /\ pool' = [pool EXCEPT ![in_offset] = m]
    /\ in_offset' = After(in_offset) /\ entry' = entry + 1
    /\ IF entry = 0 THEN Wake("recv")
                    ELSE UNCHANGED <<susp, stat, error, timer, ttmr, firing, wasted>>
    /\ UNCHANGED <<out_offset, alive, got>>

\* The end of _rt_mb_send_wait.  Its test against RT_MB_ENTRY_MAX never
\* fails: entry is below size, which has as many bits.
PutLast(m) ==
    /\ entry < Size
    /\ pool' = [pool EXCEPT ![in_offset] = m]
    /\ in_offset' = After(in_offset) /\ entry' = entry + 1
    /\ Wake("recv")
    /\ UNCHANGED <<out_offset, alive, got>>

\* Mutant: an urgent mail is put behind the others.
PutFirstBehind(m) == PutLast(m)

\* rt_mb_urgent
PutFirst(m) ==
    /\ entry < Size
    /\ out_offset' = IF out_offset > 0 THEN out_offset - 1 ELSE Size - 1
    /\ pool' = [pool EXCEPT ![out_offset'] = m]
    /\ entry' = entry + 1
    /\ Wake("recv")
    /\ UNCHANGED <<in_offset, alive, got>>

\* The end of _rt_mb_recv.
TakeFirst ==
    /\ entry > 0
    /\ got' = pool[out_offset]
    /\ out_offset' = After(out_offset) /\ entry' = entry - 1
    /\ Wake("send")
    /\ UNCHANGED <<pool, in_offset, alive>>

-----------------------------------------------------------------------------
(* Calls that need not wait, and the first half of those that do *)

Access == (\E m \in Mails : PutLast(m) \/ PutFirst(m)) \/ TakeFirst

AccessByThread(t) == InThread(t) /\ alive /\ Access /\ UNCHANGED <<callVars, nested>>
AccessByInterrupt == InInterrupt /\ alive /\ Access /\ UNCHANGED callVars /\ CountNested

\* A call with timeout 0 returns -RT_EFULL or -RT_ETIMEOUT and changes
\* nothing, any other one waits.
Wait(t, op, m, limit) ==
    /\ InThread(t) /\ alive /\ Stuck(op)
    /\ SuspendToList(t, op, "EINTR", limit = "ticks", op)
    /\ mail' = [mail EXCEPT ![t] = m]
    /\ timeout' = [timeout EXCEPT ![t] = limit]
    /\ UNCHANGED <<mbVars, alive, got, wasted>>

-----------------------------------------------------------------------------
(* Back from rt_schedule *)

Back(t) == firing = None /\ stat[t] = "ready" /\ call[t] \in Ops

Return(t) ==
    /\ call' = [call EXCEPT ![t] = "none"]
    /\ mail' = [mail EXCEPT ![t] = None]
    /\ timeout' = [timeout EXCEPT ![t] = "none"]
    /\ UNCHANGED nested

\* Timed out, or the mailbox was reset or detached.
WaitFailed(t) ==
    /\ Back(t) /\ error[t] # "EOK"
    /\ Return(t)
    /\ UNCHANGED <<susp, stat, error, timer, ttmr, firing, mbVars, alive, got, wasted>>

\* What can be left of a timeout after the thread slept and waited to run.
Left(limit) == IF limit = "ticks" THEN {"ticks", "none"} ELSE {limit}

WaitDone(t) ==
    /\ Back(t) /\ error[t] = "EOK"
    /\ IF call[t] = "send" THEN PutLast(mail[t]) ELSE TakeFirst
    /\ Return(t)

\* Another thread or an interrupt was faster.
WaitAgain(t) ==
    /\ Back(t) /\ error[t] = "EOK" /\ Stuck(call[t])
    /\ \E limit \in Left(timeout[t]) \ {"none"} :
        /\ SuspendToList(t, call[t], "EINTR", limit = "ticks", call[t])
        /\ timeout' = [timeout EXCEPT ![t] = limit]
    /\ UNCHANGED <<mbVars, alive, mail, got, wasted>>

GiveUp(t) ==
    /\ Back(t) /\ error[t] = "EOK" /\ Stuck(call[t])
    /\ "none" \in Left(timeout[t])
    /\ error' = [error EXCEPT ![t] = IF call[t] = "send" THEN "EINTR" ELSE "ETIMEOUT"]
    /\ Return(t)
    /\ UNCHANGED <<susp, stat, timer, ttmr, firing, mbVars, alive, got, wasted>>

-----------------------------------------------------------------------------
(* rt_mb_control, rt_mb_detach *)

\* Mutant: in_offset is not reset.
ResetKeepsIn(t) ==
    /\ InThread(t) /\ alive
    /\ ResumeAll("ERROR")
    /\ entry' = 0 /\ out_offset' = 0 /\ wasted' = FALSE
    /\ UNCHANGED <<callVars, nested, in_offset, pool, alive, got>>

\* RT_IPC_CMD_RESET
Reset(t) ==
    /\ InThread(t) /\ alive
    /\ ResumeAll("ERROR")
    /\ entry' = 0 /\ in_offset' = 0 /\ out_offset' = 0 /\ wasted' = FALSE
    /\ UNCHANGED <<callVars, nested, pool, alive, got>>

\* rt_mb_detach.  No call starts afterwards, but threads woken before go on
\* with theirs: the storage is still there.
Detach(t) ==
    /\ InThread(t) /\ alive
    /\ ResumeAll("ERROR")
    /\ alive' = FALSE
    /\ UNCHANGED <<callVars, nested, mbVars, got, wasted>>

-----------------------------------------------------------------------------
\* rt_mb_init; the pool is not cleared.
Init ==
    /\ WaitInit
    /\ pool \in [0..Size - 1 -> Mails]
    /\ entry = 0 /\ in_offset = 0 /\ out_offset = 0
    /\ alive = TRUE
    /\ mail = [t \in Threads |-> None]
    /\ timeout = [t \in Threads |-> "none"]
    /\ got = None /\ wasted = FALSE

Tick ==
    /\ (\E t \in Threads : TimerExpires(t)) \/ ThreadTimeout
    /\ UNCHANGED <<mbVars, alive, mail, timeout, got, wasted>>

Next ==
    \/ \E t \in Threads :
        \/ AccessByThread(t)
        \/ \E limit \in {"ticks", "forever"} :
            (\E m \in Mails : Wait(t, "send", m, limit)) \/ Wait(t, "recv", None, limit)
        \/ WaitFailed(t) \/ WaitDone(t) \/ WaitAgain(t) \/ GiveUp(t)
        \/ Reset(t) \/ Detach(t)
    \/ AccessByInterrupt
    \/ Tick

Spec == Init /\ [][Next]_vars

-----------------------------------------------------------------------------
(* Properties *)

TypeOK ==
    /\ WaitTypeOK
    /\ call \in [Threads -> Ops \cup {"none"}]
    /\ pool \in [0..Size - 1 -> Mails]
    /\ entry \in 0..Size /\ in_offset \in 0..Size - 1 /\ out_offset \in 0..Size - 1
    /\ alive \in BOOLEAN
    /\ mail \in [Threads -> Mails \cup {None}]
    /\ timeout \in [Threads -> {"none", "ticks", "forever"}]
    /\ got \in Mails \cup {None} /\ wasted \in BOOLEAN

\* The three counters, each changed on its own by send, urgent, receive and
\* reset, agree: entry mails lie between the offsets, round the end of the
\* pool.
OffsetsAgree ==
    out_offset + entry = in_offset \/ out_offset + entry = in_offset + Size

\* The mails, in the order in which they will be received.
queue ==
    [i \in 1..entry |->
        pool[IF out_offset + i <= Size THEN out_offset + i - 1 ELSE out_offset + i - 1 - Size]]

MF == INSTANCE MailFifo

\* What each operation is to the queue.
AsNamed ==
    /\ \A m \in Mails : (PutLast(m) => MF!Send(m)) /\ (PutFirst(m) => MF!Urgent(m))
    /\ TakeFirst => MF!Recv
    /\ \A t \in Threads : WaitDone(t) => IF call[t] = "send" THEN MF!Send(mail[t]) ELSE MF!Recv
    /\ MF!Reset => TakeFirst \/ \E t \in Threads : Reset(t)

\* Whatever waits, times out and retries, the mailbox is a bounded queue:
\* rt_mb_urgent puts a mail in front, a send, also one that had to wait,
\* behind the last one, a receive takes the first one, and only a reset drops
\* any.
ImplementsMailFifo == MF!Spec /\ [][AsNamed]_<<queue, got>>

\* The threads woken for a mail or for room that have not run yet.
WokenFor(op) == {t \in Threads : call[t] = op /\ stat[t] = "ready" /\ error[t] = "EOK"}

\* No thread sleeps beside a mail, or beside room, unless a thread already
\* woken will take it: a woken thread that gives up or finds others faster
\* must not swallow the wake-up of the one behind it.  (The one way to lose a
\* wake-up is an interrupt that spends it on a thread whose timeout is being
\* handled.)
NoLostWakeup ==
    ~wasted =>
        /\ susp["recv"] # <<>> => entry <= Cardinality(WokenFor("recv"))
        /\ susp["send"] # <<>> => Size - entry <= Cardinality(WokenFor("send"))

\* "When the mailbox is successfully detached, it will resume all suspended
\* threads in the mailbox list" (ipc.c, rt_mb_detach): nobody is left waiting.
NobodyWaitsOnDetached == ~alive => susp["recv"] = <<>> /\ susp["send"] = <<>>

=============================================================================
