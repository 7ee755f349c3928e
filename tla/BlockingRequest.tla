-------------------------- MODULE BlockingRequest --------------------------
(***************************************************************************)
(* What a blocking request promises to the thread that makes it, without   *)
(* any scheduler: a thread sends a request, a device answers it at most    *)
(* once, and the thread's call returns only after the answer.  This is the *)
(* contract of task_Request_send/task_Request_response (task/request.c),   *)
(* and what every driver (NVMe, xHCI) builds on.                           *)
(***************************************************************************)
CONSTANT Client            \* the threads that make requests

VARIABLE phase             \* phase[t]: where t's request is

Phase == {"none", "sent", "answered"}

TypeOK == phase \in [Client -> Phase]

Init == phase = [t \in Client |-> "none"]

\* The request is handed to the device (ring entry and doorbell written).
Send(t)   == phase[t] = "none"     /\ phase' = [phase EXCEPT ![t] = "sent"]

\* The device's completion interrupt answers it.
Answer(t) == phase[t] = "sent"     /\ phase' = [phase EXCEPT ![t] = "answered"]

\* The call that made the request returns to its caller.
Return(t) == phase[t] = "answered" /\ phase' = [phase EXCEPT ![t] = "none"]

Next == \E t \in Client : Send(t) \/ Answer(t) \/ Return(t)

Safety == Init /\ [][Next]_phase

\* An answered request is returned to its caller; nothing promises that a
\* device answers.
Spec == Safety /\ \A t \in Client : WF_phase(Return(t))
=============================================================================
