--------------------------- MODULE MailboxProofs ---------------------------
(***************************************************************************)
(* The mailbox is a bounded queue, for every size and any number of        *)
(* threads that wait, time out and retry.                                  *)
(***************************************************************************)
EXTENDS Mailbox, ThreadWaitProofs, FiniteSetTheorems

BufferOK ==
    /\ pool \in [0..Size - 1 -> Mails]
    /\ entry \in 0..Size /\ in_offset \in 0..Size - 1 /\ out_offset \in 0..Size - 1

\* A thread that waits to send has a mail to send.
CallOK ==
    /\ call \in [Threads -> Ops \cup {"none"}]
    /\ mail \in [Threads -> Mails \cup {None}]
    /\ \A t \in Threads : call[t] = "send" => mail[t] \in Mails

IInv == BufferOK /\ OffsetsAgree /\ CallOK

\* What a step does to the mails, whoever takes it.
BufferStep ==
    \/ \E m \in Mails : PutLast(m) \/ PutFirst(m)
    \/ TakeFirst
    \/ \E t \in Threads : Reset(t)
    \/ UNCHANGED <<mbVars, got>>

-----------------------------------------------------------------------------
\* Only the end of a send, an urgent send, the end of a receive and a reset
\* touch the mails.
LEMMA StepsOfNext ==
    ASSUME IInv, [Next]_vars
    PROVE  BufferStep
<1>1. CASE UNCHANGED vars
    BY <1>1 DEF vars, BufferStep
<1>2. CASE \E t \in Threads : AccessByThread(t)
    BY <1>2 DEF AccessByThread, Access, BufferStep
<1>3. CASE AccessByInterrupt
    BY <1>3 DEF AccessByInterrupt, Access, BufferStep
<1>4. CASE \E t \in Threads : \E limit \in {"ticks", "forever"} :
               (\E m \in Mails : Wait(t, "send", m, limit)) \/ Wait(t, "recv", None, limit)
    BY <1>4 DEF Wait, BufferStep
<1>5. CASE \E t \in Threads : WaitDone(t)
    <2>1. PICK t \in Threads : WaitDone(t)
        BY <1>5
    <2>2. CASE call[t] = "send"
        BY <2>1, <2>2 DEF WaitDone, BufferStep, IInv, CallOK
    <2>3. CASE call[t] # "send"
        BY <2>1, <2>3 DEF WaitDone, BufferStep
    <2> QED
        BY <2>2, <2>3
<1>6. CASE \E t \in Threads : WaitFailed(t) \/ WaitAgain(t) \/ GiveUp(t)
    BY <1>6 DEF WaitFailed, WaitAgain, GiveUp, BufferStep
<1>7. CASE \E t \in Threads : Reset(t)
    BY <1>7 DEF BufferStep
<1>8. CASE \E t \in Threads : Detach(t)
    BY <1>8 DEF Detach, BufferStep
<1>9. CASE Tick
    BY <1>9 DEF Tick, BufferStep
<1> QED
    BY <1>1, <1>2, <1>3, <1>4, <1>5, <1>6, <1>7, <1>8, <1>9 DEF Next

LEMMA BufferStaysRight ==
    ASSUME BufferOK, OffsetsAgree, BufferStep
    PROVE  BufferOK' /\ OffsetsAgree'
<1> USE MailboxAssumption DEF BufferOK, OffsetsAgree
<1>1. CASE \E m \in Mails : PutLast(m)
    BY <1>1 DEF PutLast, After
<1>2. CASE \E m \in Mails : PutFirst(m)
    BY <1>2 DEF PutFirst
<1>3. CASE TakeFirst
    BY <1>3 DEF TakeFirst, After
<1>4. CASE \E t \in Threads : Reset(t)
    BY <1>4 DEF Reset
<1>5. CASE UNCHANGED <<mbVars, got>>
    BY <1>5 DEF mbVars
<1> QED
    BY <1>1, <1>2, <1>3, <1>4, <1>5 DEF BufferStep

LEMMA CallsStayRight ==
    ASSUME CallOK, [Next]_vars
    PROVE  CallOK'
<1> USE DEF CallOK, Ops
<1>1. CASE UNCHANGED <<call, mail>>
    BY <1>1
<1>2. CASE \E t \in Threads : Return(t)
    BY <1>2 DEF Return
<1>3. ASSUME NEW t \in Threads, NEW op \in Ops, NEW m \in Mails \cup {None}, NEW limit,
             op = "send" => m \in Mails, Wait(t, op, m, limit)
      PROVE  CallOK'
    BY <1>3 DEF Wait, SuspendToList
<1>4. ASSUME NEW t \in Threads, WaitAgain(t)
      PROVE  CallOK'
    BY <1>4 DEF WaitAgain, SuspendToList
<1>5. CASE \E t \in Threads : \/ AccessByThread(t) \/ Reset(t) \/ Detach(t)
    BY <1>1, <1>5 DEF AccessByThread, Reset, Detach, callVars
<1>6. CASE AccessByInterrupt \/ Tick \/ UNCHANGED vars
    BY <1>1, <1>6 DEF AccessByInterrupt, callVars, Tick, TimerExpires, ThreadTimeout, vars, waitVars
<1>7. CASE \E t \in Threads : WaitFailed(t) \/ WaitDone(t) \/ GiveUp(t)
    BY <1>2, <1>7 DEF WaitFailed, WaitDone, GiveUp
<1> QED
    BY <1>3, <1>4, <1>5, <1>6, <1>7 DEF Next

\* The inductive invariant.
LEMMA Invariance == Spec => []IInv
<1>1. Init => IInv
    BY MailboxAssumption DEF Init, WaitInit, IInv, BufferOK, OffsetsAgree, CallOK
<1>2. IInv /\ [Next]_vars => IInv'
    BY StepsOfNext, BufferStaysRight, CallsStayRight DEF IInv
<1> QED
    BY <1>1, <1>2, PTL DEF Spec

\* The counters of a mailbox (entry, in_offset, out_offset), which send,
\* urgent, receive and reset change one at a time, agree for every size and
\* however many threads wait, time out and retry.
THEOREM OffsetsStayInStep == Spec => []OffsetsAgree
<1>1. IInv => OffsetsAgree
    BY DEF IInv
<1> QED
    BY <1>1, Invariance, PTL

-----------------------------------------------------------------------------
(* The refinement *)

\* Reading e mails off a pool p from offset o stays inside the pool.
LEMMA ReadOff ==
    ASSUME NEW p \in [0..Size - 1 -> Mails], NEW e \in 0..Size, NEW o \in 0..Size - 1
    PROVE  [i \in 1..e |-> p[IF o + i <= Size THEN o + i - 1 ELSE o + i - 1 - Size]]
               \in [1..e -> Mails]
<1> SUFFICES ASSUME NEW i \in 1..e
             PROVE  p[IF o + i <= Size THEN o + i - 1 ELSE o + i - 1 - Size] \in Mails
    OBVIOUS
<1> QED
    BY MailboxAssumption

\* The queue is a sequence of entry mails, before and after a step.
LEMMA QueueType ==
    ASSUME BufferOK
    PROVE  queue \in Seq(Mails) /\ Len(queue) = entry
<1>1. queue \in [1..entry -> Mails]
    BY ReadOff DEF BufferOK, queue
<1> QED
    BY <1>1 DEF BufferOK

LEMMA QueueTypeAfter ==
    ASSUME BufferOK'
    PROVE  queue' \in Seq(Mails) /\ Len(queue') = entry'
<1>1. /\ pool' \in [0..Size - 1 -> Mails]
      /\ entry' \in 0..Size /\ out_offset' \in 0..Size - 1
    BY DEF BufferOK
<1>2. queue' \in [1..entry' -> Mails]
    BY <1>1, ReadOff DEF queue
<1> QED
    BY <1>1, <1>2

\* The end of _rt_mb_send_wait appends to the queue.
LEMMA PutLastSends ==
    ASSUME BufferOK, OffsetsAgree, NEW m \in Mails, PutLast(m)
    PROVE  MF!Send(m)
<1> USE MailboxAssumption DEF BufferOK, OffsetsAgree
<1>1. BufferOK'
    BY BufferStaysRight DEF BufferStep
<1>2. queue \in Seq(Mails) /\ Len(queue) = entry /\ entry < Size
    BY QueueType DEF PutLast
<1>3. queue' \in Seq(Mails) /\ Len(queue') = entry + 1
    BY <1>1, QueueTypeAfter DEF PutLast
<1>4. ASSUME NEW i \in 1..entry
      PROVE  queue'[i] = queue[i]
    BY <1>4 DEF PutLast, queue
<1>5. queue'[entry + 1] = m
    BY DEF PutLast, queue
<1>6. queue' = Append(queue, m)
    BY <1>2, <1>3, <1>4, <1>5
<1> QED
    BY <1>2, <1>6 DEF MF!Send, PutLast

\* rt_mb_urgent puts the mail in front.
LEMMA PutFirstIsUrgent ==
    ASSUME BufferOK, OffsetsAgree, NEW m \in Mails, PutFirst(m)
    PROVE  MF!Urgent(m)
<1> USE MailboxAssumption DEF BufferOK, OffsetsAgree
<1>1. BufferOK'
    BY BufferStaysRight DEF BufferStep
<1>2. queue \in Seq(Mails) /\ Len(queue) = entry /\ entry < Size
    BY QueueType DEF PutFirst
<1>3. queue' \in Seq(Mails) /\ Len(queue') = entry + 1
    BY <1>1, QueueTypeAfter DEF PutFirst
<1>4. ASSUME NEW i \in 1..entry
      PROVE  queue'[i + 1] = queue[i]
    BY <1>4 DEF PutFirst, queue
<1>5. queue'[1] = m
    BY DEF PutFirst, queue
<1>6. queue' = <<m>> \o queue
    BY <1>2, <1>3, <1>4, <1>5
<1> QED
    BY <1>2, <1>6 DEF MF!Urgent, PutFirst

\* The end of _rt_mb_recv delivers the first mail.
LEMMA TakeFirstReceives ==
    ASSUME BufferOK, OffsetsAgree, TakeFirst
    PROVE  MF!Recv
<1> USE MailboxAssumption DEF BufferOK, OffsetsAgree
<1>1. BufferOK'
    BY BufferStaysRight DEF BufferStep
<1>2. queue \in Seq(Mails) /\ Len(queue) = entry /\ entry > 0
    BY QueueType DEF TakeFirst
<1>3. queue' \in Seq(Mails) /\ Len(queue') = entry - 1
    BY <1>1, QueueTypeAfter DEF TakeFirst
<1>4. ASSUME NEW i \in 1..entry - 1
      PROVE  queue'[i] = queue[i + 1]
    BY <1>4 DEF TakeFirst, After, queue
<1>5. queue[1] = pool[out_offset]
    BY <1>2 DEF queue
<1>6. queue' = Tail(queue) /\ queue # <<>>
    BY <1>2, <1>3, <1>4
<1> QED
    BY <1>5, <1>6 DEF MF!Recv, TakeFirst

\* A step of the mailbox is one of the queue's, or leaves the queue alone.
LEMMA StepRefines ==
    ASSUME BufferOK, OffsetsAgree, BufferStep
    PROVE  [MF!Next]_<<queue, got>>
<1>1. CASE \E m \in Mails : PutLast(m)
    BY <1>1, PutLastSends DEF MF!Next
<1>2. CASE \E m \in Mails : PutFirst(m)
    BY <1>2, PutFirstIsUrgent DEF MF!Next
<1>3. CASE TakeFirst
    BY <1>3, TakeFirstReceives DEF MF!Next
<1>4. CASE \E t \in Threads : Reset(t)
    <2>1. entry' = 0 /\ got' = got
        BY <1>4 DEF Reset
    <2>2. queue' \in Seq(Mails) /\ Len(queue') = 0
        BY <2>1, BufferStaysRight, QueueTypeAfter
    <2>3. queue' = <<>>
        BY <2>2
    <2> QED
        BY <2>1, <2>3 DEF MF!Reset, MF!Next
<1>5. CASE UNCHANGED <<mbVars, got>>
    BY <1>5 DEF mbVars, queue
<1> QED
    BY <1>1, <1>2, <1>3, <1>4, <1>5 DEF BufferStep

\* Every operation is the step of the queue it stands for: nothing but a
\* receive of the last mail and a reset empties the queue.
LEMMA StepsAreAsNamed ==
    ASSUME IInv, BufferStep, ~UNCHANGED <<queue, got>>
    PROVE  AsNamed
<1>1. ASSUME NEW m \in Mails
      PROVE  (PutLast(m) => MF!Send(m)) /\ (PutFirst(m) => MF!Urgent(m))
    BY PutLastSends, PutFirstIsUrgent DEF IInv
<1>2. TakeFirst => MF!Recv
    BY TakeFirstReceives DEF IInv
<1>3. ASSUME NEW t \in Threads, WaitDone(t)
      PROVE  IF call[t] = "send" THEN MF!Send(mail[t]) ELSE MF!Recv
    <2>1. CASE call[t] = "send"
        <3>1. mail[t] \in Mails /\ PutLast(mail[t])
            BY <1>3, <2>1 DEF WaitDone, IInv, CallOK
        <3> QED
            BY <1>1, <2>1, <3>1
    <2>2. CASE call[t] # "send"
        BY <1>2, <1>3, <2>2 DEF WaitDone
    <2> QED
        BY <2>1, <2>2
<1>4. ASSUME MF!Reset
      PROVE  TakeFirst \/ \E t \in Threads : Reset(t)
    <2>1. queue \in Seq(Mails)
        BY QueueType DEF IInv
    <2>2. ASSUME NEW m \in Mails, PutLast(m) \/ PutFirst(m)
          PROVE  FALSE
        <3>1. MF!Send(m) \/ MF!Urgent(m)
            BY <1>1, <2>2
        <3>2. queue' = Append(queue, m) \/ queue' = <<m>> \o queue
            BY <3>1 DEF MF!Send, MF!Urgent
        <3>3. queue' # <<>>
            BY <2>1, <3>2
        <3> QED
            BY <1>4, <3>3 DEF MF!Reset
    <2>3. CASE UNCHANGED <<mbVars, got>>
        BY <2>3 DEF mbVars, queue
    <2> QED
        BY <2>2, <2>3 DEF BufferStep
<1> QED
    BY <1>1, <1>2, <1>3, <1>4 DEF AsNamed

\* The mailbox implements the bounded queue with urgent mails, for every size:
\* whatever waits, times out, retries, resets or detaches, no mail is lost,
\* repeated or delivered out of order; only rt_mb_urgent puts one in front and
\* only RT_IPC_CMD_RESET drops any.
THEOREM MailboxIsQueue == Spec => ImplementsMailFifo
<1>1. Init => MF!Init
    <2>1. ASSUME Init
          PROVE  queue \in Seq(Mails) /\ Len(queue) = 0
        BY <2>1, QueueType, MailboxAssumption DEF Init, BufferOK
    <2>2. ASSUME Init
          PROVE  queue = <<>>
        BY <2>1, <2>2
    <2> QED
        BY <2>2 DEF Init, MF!Init
<1>2. IInv /\ [Next]_vars => [MF!Next]_<<queue, got>>
    BY StepsOfNext, StepRefines DEF IInv
<1>3. IInv /\ [Next]_vars => [AsNamed]_<<queue, got>>
    BY StepsOfNext, StepsAreAsNamed
<1> QED
    BY <1>1, <1>2, <1>3, Invariance, PTL DEF Spec, ImplementsMailFifo, MF!Spec

-----------------------------------------------------------------------------
(* Waiting: the types, for any number of interrupts during a timeout *)

\* A thread waits in the list of the call it is in.
WaitsInCall == \A l \in Ops : \A u \in Threads : On(susp[l], u) => call[u] = l

MbTypeOK ==
    /\ alive \in BOOLEAN
    /\ timeout \in [Threads -> {"none", "ticks", "forever"}]
    /\ got \in Mails \cup {None} /\ wasted \in BOOLEAN

WInv == IInv /\ WaitInv /\ MbTypeOK /\ WaitsInCall

LEMMA TwoLists == Lists = Ops /\ "send" \in Lists /\ "recv" \in Lists
BY MailboxAssumption DEF Ops

\* Threads that go on waiting stay in their calls.
LEMMA ListedStayInCall ==
    ASSUME WInv, \A l \in Ops : \A u \in Threads : On(susp'[l], u) => On(susp[l], u),
           \A u \in Threads : stat[u] = "suspended" => call'[u] = call[u]
    PROVE  WaitsInCall'
<1> SUFFICES ASSUME NEW l \in Ops, NEW u \in Threads, On(susp'[l], u)
             PROVE  call'[u] = l
    BY DEF WaitsInCall
<1>1. On(susp[l], u)
    OBVIOUS
<1>2. stat[u] = "suspended"
    BY <1>1, TwoLists DEF WInv, WaitInv, ListedSuspended, On
<1> QED
    BY <1>1, <1>2 DEF WInv, WaitsInCall

\* Waking the first thread of a list keeps the waiting in order.
LEMMA WakeKeeps ==
    ASSUME WInv, NEW op \in Ops, ResumeFirst(op, "EOK"), nested' \in 0..NestMax,
           \A u \in Threads : stat[u] = "suspended" => call'[u] = call[u]
    PROVE  WaitInv' /\ WaitsInCall'
<1>1. "EOK" \in Errors /\ op \in Lists
    BY TwoLists DEF Errors
<1>2. WaitInv'
    BY <1>1, ResumeFirstWakes DEF WInv
<1>3. PICK w : WakesUp(w, "EOK")
    BY <1>1, ResumeFirstWakes DEF WInv
<1>4. \A l \in Ops : \A u \in Threads : On(susp'[l], u) => On(susp[l], u)
    BY <1>3, TwoLists DEF WakesUp
<1> QED
    BY <1>2, <1>4, ListedStayInCall

\* So does what a call does to the mailbox.
LEMMA AccessKeeps ==
    ASSUME WInv, (\E m \in Mails : PutLast(m) \/ PutFirst(m)) \/ TakeFirst, nested' \in 0..NestMax,
           \A u \in Threads : stat[u] = "suspended" => call'[u] = call[u]
    PROVE  /\ WaitInv' /\ WaitsInCall' /\ alive' = alive /\ got' \in Mails \cup {None}
           /\ wasted' \in BOOLEAN
<1>1. ResumeFirst("recv", "EOK") \/ ResumeFirst("send", "EOK")
    BY DEF PutLast, PutFirst, TakeFirst, Wake
<1>2. WaitInv' /\ WaitsInCall'
    BY <1>1, WakeKeeps DEF Ops
<1>3. wasted' \in BOOLEAN
    BY Zenon DEF PutLast, PutFirst, TakeFirst, Wake
<1>4. CASE TakeFirst
    BY <1>2, <1>3, <1>4 DEF TakeFirst, WInv, IInv, BufferOK, MbTypeOK
<1>5. CASE \E m \in Mails : PutLast(m) \/ PutFirst(m)
    BY <1>2, <1>3, <1>5 DEF PutLast, PutFirst, WInv, MbTypeOK
<1> QED
    BY <1>4, <1>5

\* A call by a thread or an interrupt that need not wait.
AccessStep ==
    InInterrupt /\ Access /\ UNCHANGED callVars /\ CountNested

LEMMA AccessSteps ==
    ASSUME WInv
    PROVE  /\ AccessByInterrupt => AccessStep
           /\ \A t \in Threads : AccessByThread(t) => AccessStep
BY DEF AccessByInterrupt, AccessByThread, AccessStep, InThread, InInterrupt, CountNested

LEMMA AccessStepKeeps ==
    ASSUME WInv, AccessStep
    PROVE  WaitInv' /\ MbTypeOK' /\ WaitsInCall'
<1>1. nested' \in 0..NestMax
    BY WaitAssumption DEF AccessStep, InInterrupt, CountNested, WInv, WaitInv, WaitTypeOK
<1>2. UNCHANGED <<call, mail, timeout>>
    BY DEF AccessStep, callVars
<1>3. /\ WaitInv' /\ WaitsInCall' /\ alive' = alive /\ got' \in Mails \cup {None}
      /\ wasted' \in BOOLEAN
    BY <1>1, <1>2, AccessKeeps DEF AccessStep, Access
<1> QED
    BY <1>2, <1>3 DEF WInv, MbTypeOK

\* Starting to wait, or waiting again.
LEMMA SuspendKeepsCalls ==
    ASSUME WInv, NEW t \in Threads, NEW op \in Ops, NEW w \in BOOLEAN, stat[t] = "ready",
           firing = None, SuspendToList(t, op, "EINTR", w, op)
    PROVE  WaitInv' /\ WaitsInCall'
<1>1. "EINTR" \in Errors /\ op \in Lists
    BY TwoLists DEF Errors
<1>2. /\ WaitInv'
      /\ \A k \in Lists : \A x : On(susp'[k], x) <=> On(susp[k], x) \/ (k = op /\ x = t)
    BY <1>1, SuspendKeeps DEF WInv
<1>3. call' = [call EXCEPT ![t] = op] /\ call \in [Threads -> Ops \cup {"none"}]
    BY DEF SuspendToList, WInv, IInv, CallOK
<1>4. ASSUME NEW k \in Ops
      PROVE  ~On(susp[k], t)
    BY TwoLists, ReadyNotListed DEF WInv
<1>5. ASSUME NEW k \in Ops, NEW u \in Threads, On(susp'[k], u)
      PROVE  call'[u] = k
    <2>1. CASE u = t
        BY <1>2, <1>3, <1>4, <1>5, <2>1, TwoLists
    <2>2. CASE u # t
        BY <1>2, <1>3, <1>5, <2>2, TwoLists DEF WInv, WaitsInCall
    <2> QED
        BY <2>1, <2>2
<1> QED
    BY <1>2, <1>5 DEF WaitsInCall

LEMMA WaitSteps ==
    ASSUME WInv, NEW t \in Threads
    PROVE  /\ \A op \in Ops, m \in Mails \cup {None}, limit \in {"ticks", "forever"} :
                  Wait(t, op, m, limit) => WaitInv' /\ MbTypeOK' /\ WaitsInCall'
           /\ WaitAgain(t) => WaitInv' /\ MbTypeOK' /\ WaitsInCall'
<1>1. ASSUME NEW op \in Ops, NEW m \in Mails \cup {None}, NEW limit \in {"ticks", "forever"},
             Wait(t, op, m, limit)
      PROVE  WaitInv' /\ MbTypeOK' /\ WaitsInCall'
    <2>1. (limit = "ticks") \in BOOLEAN /\ stat[t] = "ready" /\ firing = None
          /\ SuspendToList(t, op, "EINTR", limit = "ticks", op)
        BY <1>1 DEF Wait, InThread
    <2>2. WaitInv' /\ WaitsInCall'
        BY <2>1, SuspendKeepsCalls
    <2>3. MbTypeOK'
        BY <1>1 DEF Wait, WInv, MbTypeOK
    <2> QED
        BY <2>2, <2>3
<1>2. ASSUME WaitAgain(t)
      PROVE  WaitInv' /\ MbTypeOK' /\ WaitsInCall'
    <2>1. PICK limit \in Left(timeout[t]) \ {"none"} :
              /\ SuspendToList(t, call[t], "EINTR", limit = "ticks", call[t])
              /\ timeout' = [timeout EXCEPT ![t] = limit]
        BY <1>2 DEF WaitAgain
    <2>2. (limit = "ticks") \in BOOLEAN /\ stat[t] = "ready" /\ firing = None /\ call[t] \in Ops
        BY <1>2 DEF WaitAgain, Back
    <2>3. WaitInv' /\ WaitsInCall'
        BY <2>1, <2>2, SuspendKeepsCalls
    <2>4. limit \in {"none", "ticks", "forever"}
        BY <2>1 DEF Left, WInv, MbTypeOK
    <2>5. MbTypeOK'
        BY <1>2, <2>1, <2>4 DEF WaitAgain, WInv, MbTypeOK
    <2> QED
        BY <2>3, <2>5
<1> QED
    BY <1>1, <1>2

\* The thread t returns from its call.
LEMMA ReturnSteps ==
    ASSUME WInv, NEW t \in Threads
    PROVE  WaitFailed(t) \/ WaitDone(t) \/ GiveUp(t) => WaitInv' /\ MbTypeOK' /\ WaitsInCall'
<1>1. ASSUME Return(t), stat[t] = "ready"
      PROVE  /\ \A u \in Threads : stat[u] = "suspended" => call'[u] = call[u]
             /\ timeout' \in [Threads -> {"none", "ticks", "forever"}]
             /\ nested' = nested /\ nested' \in 0..NestMax
    BY <1>1 DEF Return, WInv, IInv, CallOK, MbTypeOK, WaitInv, WaitTypeOK
<1>2. ASSUME WaitDone(t)
      PROVE  WaitInv' /\ MbTypeOK' /\ WaitsInCall'
    <2>1. Return(t) /\ stat[t] = "ready"
        BY <1>2 DEF WaitDone, Back
    <2>2. (\E m \in Mails : PutLast(m) \/ PutFirst(m)) \/ TakeFirst
        <3>1. CASE call[t] = "send"
            BY <1>2, <3>1 DEF WaitDone, WInv, IInv, CallOK
        <3>2. CASE call[t] # "send"
            BY <1>2, <3>2 DEF WaitDone
        <3> QED
            BY <3>1, <3>2
    <2>3. /\ WaitInv' /\ WaitsInCall' /\ alive' = alive /\ got' \in Mails \cup {None}
          /\ wasted' \in BOOLEAN
        BY <1>1, <2>1, <2>2, AccessKeeps
    <2> QED
        BY <1>1, <2>1, <2>3 DEF WInv, MbTypeOK
<1>3. ASSUME WaitFailed(t) \/ GiveUp(t)
      PROVE  WaitInv' /\ MbTypeOK' /\ WaitsInCall'
    <2>1. /\ Return(t) /\ stat[t] = "ready"
          /\ UNCHANGED <<susp, stat, timer, ttmr, firing, alive, got, wasted>>
        BY <1>3 DEF WaitFailed, GiveUp, Back
    <2>2. error' \in [Threads -> Errors]
        BY <1>3 DEF WaitFailed, GiveUp, WInv, WaitInv, WaitTypeOK, Errors
    <2>3. WaitInv'
        BY <1>1, <2>1, <2>2, StillWaiting DEF WInv
    <2>4. WaitsInCall'
        BY <1>1, <2>1, ListedStayInCall
    <2> QED
        BY <1>1, <2>1, <2>3, <2>4 DEF WInv, MbTypeOK
<1> QED
    BY <1>2, <1>3

\* rt_mb_control and rt_mb_detach wake everyone.
LEMMA WakeAllKeeps ==
    ASSUME WInv, NEW t \in Threads, Reset(t) \/ Detach(t)
    PROVE  WaitInv' /\ MbTypeOK' /\ WaitsInCall' /\ \A l \in Lists : susp'[l] = <<>>
<1>1. /\ ResumeAll("ERROR") /\ firing = None /\ UNCHANGED <<call, mail, timeout, got, nested>>
      /\ "ERROR" \in Errors /\ alive' \in BOOLEAN /\ wasted' \in BOOLEAN
    BY DEF Reset, Detach, InThread, callVars, Errors, WInv, MbTypeOK
<1>2. nested' \in 0..NestMax
    BY <1>1 DEF WInv, WaitInv, WaitTypeOK
<1>3. /\ WaitInv' /\ \A l \in Lists : susp'[l] = <<>>
      /\ WakesUp({u \in Threads : stat[u] = "suspended"}, "ERROR")
    BY <1>1, <1>2, ResumeAllWakes DEF WInv
<1>4. \A l \in Ops : \A u \in Threads : On(susp'[l], u) => On(susp[l], u)
    BY <1>3, TwoLists DEF WakesUp
<1>5. WaitsInCall'
    BY <1>1, <1>4, ListedStayInCall
<1> QED
    BY <1>1, <1>3, <1>5 DEF WInv, MbTypeOK

LEMMA TickKeeps ==
    ASSUME WInv, Tick
    PROVE  WaitInv' /\ MbTypeOK' /\ WaitsInCall'
<1>1. MbTypeOK' /\ call' = call
    BY DEF Tick, WInv, MbTypeOK, TimerExpires, ThreadTimeout
<1>2. CASE \E t \in Threads : TimerExpires(t)
    <2>1. WaitInv' /\ susp' = susp
        BY <1>2, TimerExpiresKeeps DEF WInv, TimerExpires
    <2> QED
        BY <1>1, <2>1, ListedStayInCall
<1>3. CASE ThreadTimeout
    <2>1. WaitInv' /\ \A l \in Lists : \A x : On(susp'[l], x) <=> On(susp[l], x) /\ x # firing
        BY <1>3, ThreadTimeoutKeeps DEF WInv
    <2> QED
        BY <1>1, <2>1, TwoLists, ListedStayInCall
<1> QED
    BY <1>2, <1>3 DEF Tick

LEMMA WInvInit == Init => WInv
<1> SUFFICES ASSUME Init PROVE WInv
    OBVIOUS
<1>1. IInv
    BY MailboxAssumption DEF Init, WaitInit, IInv, BufferOK, OffsetsAgree, CallOK
<1>2. WaitInv
    BY WaitInvInit DEF Init
<1>3. MbTypeOK
    BY DEF Init, MbTypeOK
<1>4. WaitsInCall
    BY TwoLists DEF Init, WaitInit, WaitsInCall, On
<1> QED
    BY <1>1, <1>2, <1>3, <1>4 DEF WInv

LEMMA WInvNext == WInv /\ [Next]_vars => WInv'
<1> SUFFICES ASSUME WInv, [Next]_vars PROVE WInv'
    OBVIOUS
<1>1. IInv'
    BY StepsOfNext, BufferStaysRight, CallsStayRight DEF IInv, WInv
<1>2. CASE UNCHANGED vars
    <2>1. UNCHANGED <<susp, stat, error, timer, ttmr, firing, nested, call, alive, timeout, got, wasted>>
        BY <1>2 DEF vars, waitVars
    <2>2. WaitInv'
        BY <2>1, StillWaiting DEF WInv, WaitInv, WaitTypeOK
    <2>3. WaitsInCall'
        BY <2>1, ListedStayInCall
    <2> QED
        BY <1>1, <2>1, <2>2, <2>3 DEF WInv, MbTypeOK
<1>3. CASE AccessByInterrupt \/ \E t \in Threads : AccessByThread(t)
    BY <1>1, <1>3, AccessSteps, AccessStepKeeps DEF WInv
<1>4. CASE \E t \in Threads : \E limit \in {"ticks", "forever"} :
               (\E m \in Mails : Wait(t, "send", m, limit)) \/ Wait(t, "recv", None, limit)
    <2>1. PICK t \in Threads : \E op \in Ops, m \in Mails \cup {None},
                   limit \in {"ticks", "forever"} : Wait(t, op, m, limit)
        BY <1>4 DEF Ops
    <2> QED
        BY <1>1, <2>1, WaitSteps DEF WInv
<1>5. CASE \E t \in Threads : WaitAgain(t)
    BY <1>1, <1>5, WaitSteps DEF WInv
<1>6. CASE \E t \in Threads : WaitFailed(t) \/ WaitDone(t) \/ GiveUp(t)
    BY <1>1, <1>6, ReturnSteps DEF WInv
<1>7. CASE \E t \in Threads : Reset(t) \/ Detach(t)
    BY <1>1, <1>7, WakeAllKeeps DEF WInv
<1>8. CASE Tick
    BY <1>1, <1>8, TickKeeps DEF WInv
<1> QED
    BY <1>2, <1>3, <1>4, <1>5, <1>6, <1>7, <1>8 DEF Next

LEMMA WInvariance == Spec => []WInv
BY WInvInit, WInvNext, PTL DEF Spec

\* The types of the mailbox's fields and of the threads' wait state: the count
\* stays within the size and the offsets inside the pool, whatever interrupts
\* come during a timeout.
THEOREM TypeCorrect == Spec => []TypeOK
<1>1. WInv => TypeOK
    BY DEF WInv, WaitInv, IInv, BufferOK, CallOK, MbTypeOK, TypeOK
<1> QED
    BY <1>1, WInvariance, PTL

-----------------------------------------------------------------------------
(* No wake-up is lost, unless one was spent on a thread in its timeout *)

\* The threads already woken are enough for what there is.
EnoughWoken ==
    /\ susp["recv"] # <<>> => entry <= Cardinality(WokenFor("recv"))
    /\ susp["send"] # <<>> => Size - entry <= Cardinality(WokenFor("send"))

\* The threads woken for op after a step, if none has returned from its call.
WokenNow(op) == {t \in Threads : call[t] = op /\ stat'[t] = "ready" /\ error'[t] = "EOK"}

LEMMA WokenFinite ==
    ASSUME NEW op
    PROVE  /\ IsFiniteSet(WokenFor(op)) /\ Cardinality(WokenFor(op)) \in Nat
           /\ IsFiniteSet(WokenFor(op)') /\ Cardinality(WokenFor(op)') \in Nat
           /\ IsFiniteSet(WokenNow(op)) /\ Cardinality(WokenNow(op)) \in Nat
<1>1. ASSUME NEW X, X \subseteq Threads
      PROVE  IsFiniteSet(X) /\ Cardinality(X) \in Nat
    BY <1>1, WaitAssumption, FS_Subset, FS_CardinalityType
<1>2. WokenFor(op) \subseteq Threads /\ WokenFor(op)' \subseteq Threads
    BY DEF WokenFor
<1>3. WokenNow(op) \subseteq Threads
    BY DEF WokenNow
<1> QED
    BY <1>1, <1>2, <1>3

\* The first thread of the list op is woken if there is one, and joins those
\* that were woken before; those woken for the other call stay the same.
LEMMA WakeAdds ==
    ASSUME WInv, NEW op \in Ops, ~InVain(op), ResumeFirst(op, "EOK"), nested' \in 0..NestMax
    PROVE  /\ \A l \in Ops : susp'[l] # <<>> => susp[l] # <<>>
           /\ \A l \in Ops : l # op => WokenNow(l) = WokenFor(l)
           /\ susp[op] # <<>> =>
                  Cardinality(WokenNow(op)) = Cardinality(WokenFor(op)) + 1
<1>1. "EOK" \in Errors /\ op \in Lists
    BY TwoLists DEF Errors
<1>2. WaitInv'
    BY <1>1, ResumeFirstWakes DEF WInv
<1>3. PICK w : /\ WakesUp(w, "EOK")
               /\ susp[op] = <<>> => w = {}
               /\ susp[op] # <<>> => w = {susp[op][1]}
    BY <1>1, ResumeFirstWakes DEF WInv
<1>4. ASSUME NEW l \in Ops, susp[l] = <<>>
      PROVE  susp'[l] = <<>>
    <2>1. susp[l] \in Seq(Threads) /\ susp'[l] \in Seq(Threads)
        BY <1>2, TwoLists DEF WInv, WaitInv, WaitTypeOK
    <2>2. \A x : ~On(susp'[l], x)
        BY <1>3, <1>4, <2>1, TwoLists, NothingOnEmpty DEF WakesUp
    <2> QED
        BY <2>1, <2>2, NothingOnEmpty
<1>5. ASSUME NEW u \in w
      PROVE  u \in Threads /\ call[u] = op /\ stat[u] = "suspended"
    <2>1. susp[op] # <<>> /\ u = susp[op][1] /\ susp[op] \in Seq(Threads)
        BY <1>1, <1>3, <1>5 DEF WInv, WaitInv, WaitTypeOK
    <2>2. 1 \in 1..Len(susp[op]) /\ u \in Threads
        BY <2>1
    <2>3. On(susp[op], u)
        BY <2>1, <2>2 DEF On
    <2> QED
        BY <1>1, <2>1, <2>2, <2>3 DEF WInv, WaitsInCall, WaitInv, ListedSuspended
<1>6. ASSUME NEW l \in Ops
      PROVE  WokenNow(l) = IF l = op THEN WokenFor(l) \cup w ELSE WokenFor(l)
    <2>1. stat' = [t \in Threads |-> IF t \in w THEN "ready" ELSE stat[t]]
          /\ error' = [t \in Threads |-> IF t \in w THEN "EOK" ELSE error[t]]
        BY <1>3 DEF WakesUp
    <2> QED
        BY <1>5, <2>1 DEF WokenNow, WokenFor
<1>7. ASSUME susp[op] # <<>>
      PROVE  Cardinality(WokenNow(op)) = Cardinality(WokenFor(op)) + 1
    <2> DEFINE u == susp[op][1]
    <2>1. w = {u}
        BY <1>3, <1>7
    <2>2. u \notin WokenFor(op)
        BY <1>5, <2>1 DEF WokenFor
    <2> HIDE DEF u
    <2>3. WokenNow(op) = WokenFor(op) \cup {u}
        BY <1>6, <2>1
    <2> QED
        BY <2>2, <2>3, WokenFinite, FS_AddElement
<1> QED
    BY <1>4, <1>6, <1>7

\* What every call that puts or takes a mail does for the waiting: with its
\* wake-up, the threads already woken are enough for what there is.
LEMMA AccessWakes ==
    ASSUME WInv, EnoughWoken, ~wasted', nested' \in 0..NestMax,
           (\E m \in Mails : PutLast(m) \/ PutFirst(m)) \/ TakeFirst
    PROVE  /\ susp'["recv"] # <<>> => entry' <= Cardinality(WokenNow("recv"))
           /\ susp'["send"] # <<>> => Size - entry' <= Cardinality(WokenNow("send"))
<1>1. /\ entry \in Int /\ Size \in Int /\ "send" \in Ops /\ "recv" \in Ops
      /\ \A op : Cardinality(WokenFor(op)) \in Nat /\ Cardinality(WokenNow(op)) \in Nat
    BY MailboxAssumption, WokenFinite DEF WInv, IInv, BufferOK, Ops
<1>2. CASE \E m \in Mails : PutLast(m) \/ PutFirst(m)
    <2>1. ResumeFirst("recv", "EOK") /\ ~InVain("recv") /\ entry' = entry + 1
        BY <1>2 DEF PutLast, PutFirst, Wake
    <2>2. /\ susp'["recv"] # <<>> => susp["recv"] # <<>>
          /\ susp'["send"] # <<>> => susp["send"] # <<>>
          /\ WokenNow("send") = WokenFor("send")
          /\ susp["recv"] # <<>> =>
                 Cardinality(WokenNow("recv")) = Cardinality(WokenFor("recv")) + 1
        BY <1>1, <2>1, WakeAdds
    <2> QED
        BY <1>1, <2>1, <2>2 DEF EnoughWoken
<1>3. CASE TakeFirst
    <2>1. ResumeFirst("send", "EOK") /\ ~InVain("send") /\ entry' = entry - 1
        BY <1>3 DEF TakeFirst, Wake
    <2>2. /\ susp'["recv"] # <<>> => susp["recv"] # <<>>
          /\ susp'["send"] # <<>> => susp["send"] # <<>>
          /\ WokenNow("recv") = WokenFor("recv")
          /\ susp["send"] # <<>> =>
                 Cardinality(WokenNow("send")) = Cardinality(WokenFor("send")) + 1
        BY <1>1, <2>1, WakeAdds
    <2> QED
        BY <1>1, <2>1, <2>2 DEF EnoughWoken
<1> QED
    BY <1>2, <1>3

\* A thread that was woken for a mail or for room and takes it.
LEMMA WaitDoneWakes ==
    ASSUME WInv, EnoughWoken, NEW t \in Threads, WaitDone(t)
    PROVE  EnoughWoken'
<1>0. PICK me \in Ops : me = call[t]
    BY DEF WaitDone, Back
<1>1. /\ firing = None /\ stat[t] = "ready" /\ error[t] = "EOK" /\ call[t] \in Ops
      /\ call' = [call EXCEPT ![t] = "none"] /\ nested' = nested
    BY DEF WaitDone, Back, Return
<1>2. /\ call \in [Threads -> Ops \cup {"none"}] /\ nested' \in 0..NestMax
      /\ entry \in Int /\ Size \in Int
    BY <1>1, MailboxAssumption DEF WInv, IInv, CallOK, BufferOK, WaitInv, WaitTypeOK
<1>3. /\ call[t] = "send" => ResumeFirst("recv", "EOK") /\ entry' = entry + 1
      /\ call[t] = "recv" => ResumeFirst("send", "EOK") /\ entry' = entry - 1
    BY DEF WaitDone, PutLast, TakeFirst, Wake
<1>4. PICK op \in Ops : ResumeFirst(op, "EOK") /\ op # me
    BY <1>0, <1>1, <1>3 DEF Ops
<1>5. PICK w : WakesUp(w, "EOK")
    BY <1>2, <1>4, TwoLists, ResumeFirstWakes DEF WInv, Errors
<1>6. stat'[t] = "ready" /\ error'[t] = "EOK"
    BY <1>1, <1>5 DEF WakesUp
<1>7. ASSUME NEW l \in Ops
      PROVE  WokenFor(l)' = IF l = me THEN WokenNow(l) \ {t} ELSE WokenNow(l)
    BY <1>0, <1>1, <1>2 DEF WokenFor, WokenNow, Ops
<1>8. Cardinality(WokenFor(me)') = Cardinality(WokenNow(me)) - 1
    <2>1. t \in WokenNow(me)
        BY <1>0, <1>6 DEF WokenNow
    <2> QED
        BY <1>1, <1>7, <2>1, WokenFinite, FS_RemoveElement
<1>9. /\ \A l \in Ops : susp'[l] # <<>> => susp[l] # <<>>
      /\ WokenNow(me) = WokenFor(me)
      /\ susp[op] # <<>> => Cardinality(WokenNow(op)) = Cardinality(WokenFor(op)) + 1
    BY <1>1, <1>2, <1>4, TwoLists, NothingInVain, WakeAdds DEF WInv
<1>10. \A l : /\ Cardinality(WokenFor(l)) \in Nat /\ Cardinality(WokenFor(l)') \in Nat
              /\ Cardinality(WokenNow(l)) \in Nat
    BY WokenFinite
<1>11. CASE me = "send"
    <2>1. op = "recv" /\ "recv" \in Ops /\ "send" \in Ops
        BY <1>4, <1>11 DEF Ops
    <2>2. WokenFor("recv")' = WokenNow("recv")
        BY <1>7, <1>11, <2>1
    <2> QED
        BY <1>0, <1>2, <1>3, <1>8, <1>9, <1>10, <1>11, <2>1, <2>2 DEF EnoughWoken
<1>12. CASE me = "recv"
    <2>1. op = "send" /\ "recv" \in Ops /\ "send" \in Ops
        BY <1>4, <1>12 DEF Ops
    <2>2. WokenFor("send")' = WokenNow("send")
        BY <1>7, <1>12, <2>1
    <2> QED
        BY <1>0, <1>2, <1>3, <1>8, <1>9, <1>10, <1>12, <2>1, <2>2 DEF EnoughWoken
<1> QED
    BY <1>1, <1>11, <1>12 DEF Ops

\* The thread t, about to wait or giving up, finds the mailbox empty or full.
LEMMA StuckIsFine ==
    ASSUME WInv, EnoughWoken, NEW t \in Threads, NEW op \in Ops, Stuck(op), entry' = entry,
           \A l \in Ops : l # op => /\ susp'[l] = susp[l]
                                    /\ WokenFor(l)' = WokenFor(l)
    PROVE  EnoughWoken'
<1>1. \A l : Cardinality(WokenFor(l)') \in Nat
    BY WokenFinite
<1>2. entry \in Int /\ Size \in Int /\ "send" \in Ops /\ "recv" \in Ops
    BY MailboxAssumption DEF WInv, IInv, BufferOK, Ops
<1>3. CASE op = "send"
    BY <1>1, <1>2, <1>3 DEF Stuck, EnoughWoken
<1>4. CASE op = "recv"
    BY <1>1, <1>2, <1>4 DEF Stuck, EnoughWoken
<1> QED
    BY <1>3, <1>4 DEF Ops

LEMMA SameWoken ==
    ASSUME EnoughWoken, entry' = entry,
           \A l \in Ops : /\ susp'[l] # <<>> => susp[l] # <<>>
                          /\ WokenFor(l)' = WokenFor(l)
    PROVE  EnoughWoken'
BY DEF EnoughWoken, Ops

LEMMA WaitingWakes ==
    ASSUME WInv, EnoughWoken, NEW t \in Threads, NEW op \in Ops, Stuck(op), stat[t] = "ready",
           call[t] \in {"none", op}, NEW w, SuspendToList(t, op, "EINTR", w, op), entry' = entry
    PROVE  EnoughWoken'
<1>1. ASSUME NEW l \in Ops, l # op
      PROVE  susp'[l] = susp[l] /\ WokenFor(l)' = WokenFor(l)
    <2>1. /\ susp' = [susp EXCEPT ![op] = Enqueue(susp[op], t)]
          /\ stat' = [stat EXCEPT ![t] = "suspended"]
          /\ error' = [error EXCEPT ![t] = "EINTR"]
          /\ call' = [call EXCEPT ![t] = op]
        BY DEF SuspendToList
    <2>2. call[t] # l
        BY <1>1 DEF Ops
    <2> QED
        BY <1>1, <2>1, <2>2, TwoLists DEF WokenFor, WInv, WaitInv, WaitTypeOK, IInv, CallOK
<1> QED
    BY <1>1, StuckIsFine

\* Only a reset forgets that a wake-up was in vain.
LEMMA WastedStays ==
    ASSUME [Next]_vars, ~wasted'
    PROVE  ~wasted \/ \E t \in Threads : Reset(t)
<1>1. CASE UNCHANGED wasted
    BY <1>1
<1>2. CASE (\E m \in Mails : PutLast(m) \/ PutFirst(m)) \/ TakeFirst
    BY <1>2, Zenon DEF PutLast, PutFirst, TakeFirst, Wake
<1>3. ASSUME NEW t \in Threads, WaitDone(t)
      PROVE  ~wasted
    BY <1>3, Zenon DEF WaitDone, PutLast, TakeFirst, Wake
<1>4. CASE AccessByInterrupt \/ \E t \in Threads : AccessByThread(t)
    BY <1>2, <1>4 DEF AccessByInterrupt, AccessByThread, Access
<1>5. CASE \E t \in Threads : \E op, m, limit : Wait(t, op, m, limit)
    BY <1>1, <1>5 DEF Wait
<1>6. CASE \E t \in Threads : WaitFailed(t) \/ WaitAgain(t) \/ GiveUp(t) \/ Detach(t)
    BY <1>1, <1>6 DEF WaitFailed, WaitAgain, GiveUp, Detach
<1>7. CASE Tick \/ UNCHANGED vars
    BY <1>1, <1>7 DEF Tick, vars
<1> QED
    BY <1>3, <1>4, <1>5, <1>6, <1>7 DEF Next

LEMMA NoLostNext ==
    ASSUME WInv, WInv', EnoughWoken, ~wasted', [Next]_vars
    PROVE  EnoughWoken'
<1>1. /\ call \in [Threads -> Ops \cup {"none"}] /\ error \in [Threads -> Errors]
      /\ stat \in [Threads -> {"ready", "suspended"}] /\ firing \in Threads \cup {None}
    BY DEF WInv, IInv, CallOK, WaitInv, WaitTypeOK
<1>2. CASE UNCHANGED vars
    BY <1>2, SameWoken DEF vars, waitVars, mbVars, WokenFor
<1>3. CASE AccessByInterrupt \/ \E t \in Threads : AccessByThread(t)
    <2>1. AccessStep
        BY <1>3, AccessSteps
    <2>2. nested' \in 0..NestMax /\ call' = call
        BY <2>1, WaitAssumption
           DEF AccessStep, InInterrupt, CountNested, callVars, WInv, WaitInv, WaitTypeOK
    <2>3. /\ susp'["recv"] # <<>> => entry' <= Cardinality(WokenNow("recv"))
          /\ susp'["send"] # <<>> => Size - entry' <= Cardinality(WokenNow("send"))
        BY <2>1, <2>2, AccessWakes DEF AccessStep, Access
    <2>4. ASSUME NEW l \in Ops
          PROVE  WokenFor(l)' = WokenNow(l)
        BY <2>2 DEF WokenFor, WokenNow
    <2>5. WokenFor("send")' = WokenNow("send") /\ WokenFor("recv")' = WokenNow("recv")
        BY <2>4 DEF Ops
    <2> QED
        BY <2>3, <2>5 DEF EnoughWoken
<1>4. ASSUME NEW t \in Threads, NEW op \in Ops, NEW m, NEW limit, Wait(t, op, m, limit)
      PROVE  EnoughWoken'
    BY <1>4, WaitingWakes DEF Wait, InThread, mbVars
<1>5. ASSUME NEW t \in Threads, WaitAgain(t)
      PROVE  EnoughWoken'
    <2>1. PICK limit : SuspendToList(t, call[t], "EINTR", limit = "ticks", call[t])
        BY <1>5 DEF WaitAgain
    <2>2. call[t] \in Ops /\ Stuck(call[t]) /\ stat[t] = "ready" /\ entry' = entry
        BY <1>5 DEF WaitAgain, Back, mbVars
    <2>3. PICK op \in Ops : op = call[t]
        BY <2>2
    <2> QED
        BY <2>1, <2>2, <2>3, WaitingWakes
<1>6. ASSUME NEW t \in Threads, GiveUp(t)
      PROVE  EnoughWoken'
    <2>1. PICK op \in Ops : op = call[t]
        BY <1>6 DEF GiveUp, Back
    <2>2. /\ Stuck(op) /\ entry' = entry /\ susp' = susp /\ stat' = stat
          /\ \A u \in Threads : u # t => error'[u] = error[u] /\ call'[u] = call[u]
          /\ call'[t] = "none"
        BY <1>1, <1>6, <2>1 DEF GiveUp, Return, mbVars
    <2>3. ASSUME NEW l \in Ops, l # op
          PROVE  WokenFor(l)' = WokenFor(l)
        BY <2>1, <2>2, <2>3 DEF WokenFor, Ops
    <2> QED
        BY <2>2, <2>3, StuckIsFine
<1>7. ASSUME NEW t \in Threads, WaitFailed(t)
      PROVE  EnoughWoken'
    <2>1. ASSUME NEW l \in Ops
          PROVE  WokenFor(l)' = WokenFor(l)
        BY <1>1, <1>7 DEF WaitFailed, Return, WokenFor, Ops
    <2> QED
        BY <1>7, <2>1, SameWoken DEF WaitFailed, mbVars
<1>8. ASSUME NEW t \in Threads, Reset(t) \/ Detach(t)
      PROVE  EnoughWoken'
    BY <1>8, WakeAllKeeps, TwoLists DEF EnoughWoken
<1>9. ASSUME NEW t \in Threads, TimerExpires(t), entry' = entry
      PROVE  EnoughWoken'
    BY <1>9, SameWoken DEF TimerExpires, WokenFor
<1>10. ASSUME ThreadTimeout, entry' = entry
       PROVE  EnoughWoken'
    <2>1. ASSUME NEW l \in Ops, susp[l] = <<>>
          PROVE  susp'[l] = <<>>
        <3>1. susp[l] \in Seq(Threads) /\ susp'[l] \in Seq(Threads) /\ l \in Lists
            BY TwoLists DEF WInv, WaitInv, WaitTypeOK
        <3>2. \A x : ~On(susp'[l], x)
            BY <1>10, <2>1, <3>1, NothingOnEmpty, ThreadTimeoutKeeps DEF WInv
        <3> QED
            BY <3>1, <3>2, NothingOnEmpty
    <2>2. ASSUME NEW l \in Ops
          PROVE  WokenFor(l)' = WokenFor(l)
        BY <1>1, <1>10 DEF ThreadTimeout, WokenFor
    <2> QED
        BY <1>10, <2>1, <2>2, SameWoken
<1>11. CASE Tick
    BY <1>9, <1>10, <1>11 DEF Tick, mbVars
<1> QED
    BY <1>2, <1>3, <1>4, <1>5, <1>6, <1>7, <1>8, <1>11, WaitDoneWakes DEF Next, Ops

\* No thread sleeps beside a mail, or beside room, that no woken thread will
\* take: for any number of threads, any size and any order of sends, receives,
\* timeouts, retries and resets, and any number of interrupts that come between
\* the end of a timer and its _thread_timeout, until one of them spends its
\* wake-up on that very thread.  (It cannot be made ready any more, and the
\* result of rt_susp_list_dequeue is not looked at.)
THEOREM WakeupsAreKept == Spec => []NoLostWakeup
<1>1. Init => NoLostWakeup
    BY TwoLists DEF Init, WaitInit, NoLostWakeup
<1>2. ASSUME WInv, WInv', NoLostWakeup, [Next]_vars
      PROVE  NoLostWakeup'
    <2> SUFFICES ASSUME ~wasted' PROVE EnoughWoken'
        BY DEF NoLostWakeup, EnoughWoken
    <2>1. CASE ~wasted
        <3>1. EnoughWoken
            BY <1>2, <2>1 DEF NoLostWakeup, EnoughWoken
        <3> QED
            BY <1>2, <3>1, NoLostNext
    <2>2. CASE \E t \in Threads : Reset(t)
        BY <1>2, <2>2, WakeAllKeeps, TwoLists DEF EnoughWoken
    <2> QED
        BY <1>2, <2>1, <2>2, WastedStays
<1> QED
    BY <1>1, <1>2, WInvariance, PTL DEF Spec

=============================================================================
