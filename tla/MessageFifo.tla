----------------------------- MODULE MessageFifo -----------------------------
(***************************************************************************)
(* What a message queue promises: messages are received in the order sent, *)
(* urgent ones first.  A call has a beginning and an end: a message being  *)
(* sent is queued at the end of the call, a message received leaves the    *)
(* queue at the beginning and in between belongs to the receiver alone.    *)
(***************************************************************************)
EXTENDS Naturals, Sequences

CONSTANTS Callers, Messages, Size, None

VARIABLES
    queue,      \* the messages, next one first
    doing,      \* the call each caller has begun, with its message, or None
    got         \* the message received last

Init == queue = <<>> /\ doing = [c \in Callers |-> None] /\ got = None

BeginSend(c, op, m) ==
    /\ doing[c] = None
    /\ doing' = [doing EXCEPT ![c] = <<op, m>>]
    /\ UNCHANGED <<queue, got>>

BeginRecv(c) ==
    /\ doing[c] = None /\ queue # <<>>
    /\ queue' = Tail(queue)
    /\ doing' = [doing EXCEPT ![c] = <<"recv", Head(queue)>>]
    /\ UNCHANGED got

End(c) ==
    /\ doing[c] # None
    /\ LET m == doing[c][2]
       IN  CASE doing[c][1] = "send" ->
                  Len(queue) < Size /\ queue' = Append(queue, m) /\ UNCHANGED got
             [] doing[c][1] = "urgent" ->
                  Len(queue) < Size /\ queue' = <<m>> \o queue /\ UNCHANGED got
             [] doing[c][1] = "recv" -> got' = m /\ UNCHANGED queue
    /\ doing' = [doing EXCEPT ![c] = None]

Reset == queue' = <<>> /\ UNCHANGED <<doing, got>>

Next ==
    \/ \E c \in Callers :
        \/ \E op \in {"send", "urgent"}, m \in Messages : BeginSend(c, op, m)
        \/ BeginRecv(c) \/ End(c)
    \/ Reset

Spec == Init /\ [][Next]_<<queue, doing, got>>

=============================================================================
