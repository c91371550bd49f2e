------------------------------ MODULE IpcObject ------------------------------
(***************************************************************************)
(* struct rt_ipc_object, the head of the kernel objects with one list of   *)
(* waiting threads: the semaphore and the event.                           *)
(***************************************************************************)
EXTENDS ThreadWait

ASSUME IpcObjectAssumption == Lists = {"suspend_thread"}

VARIABLE alive      \* initialised and not detached

\* The list in struct rt_ipc_object.
Waiters == susp["suspend_thread"]

=============================================================================
