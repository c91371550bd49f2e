------------------------------ MODULE MailFifo ------------------------------
(***************************************************************************)
(* What a mailbox promises: at most Size mails, delivered in the order     *)
(* sent, urgent ones first.  Mailbox implements this specification.        *)
(***************************************************************************)
EXTENDS Naturals, Sequences

CONSTANTS Size, Mails, None

VARIABLES
    queue,      \* the mails, next one first
    got         \* the mail delivered last

Init == queue = <<>> /\ got = None

Send(m) == Len(queue) < Size /\ queue' = Append(queue, m) /\ UNCHANGED got
Urgent(m) == Len(queue) < Size /\ queue' = <<m>> \o queue /\ UNCHANGED got
Recv == queue # <<>> /\ got' = queue[1] /\ queue' = Tail(queue)
Reset == queue' = <<>> /\ UNCHANGED got

Next == (\E m \in Mails : Send(m) \/ Urgent(m)) \/ Recv \/ Reset

Spec == Init /\ [][Next]_<<queue, got>>

=============================================================================
