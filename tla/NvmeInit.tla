------------------------------ MODULE NvmeInit ------------------------------
(***************************************************************************)
(* The bring-up of an NVMe controller (hardware/nvme/init.c): the queues   *)
(* are allocated before the number of vectors is known, the controller is  *)
(* enabled, and the I/O queues are then registered by admin commands.      *)
(***************************************************************************)
EXTENDS PciMsi

CONSTANTS
    MaxIntr,        \* hw_nvme_Host_mxIntrNum
    Env             \* CPUs, the controller's vectors and capability

VARIABLES
    env,
    at,
    run,            \* the controller: "bios" (as it was found), "off", "on"
    host            \* intrNum; the queue pairs; the descriptors that have a
                    \* vector; the device's vectors and its queue pairs

initVars == <<env, at, run, host>>

Init ==
    /\ env \in Env
    /\ at = "regs" /\ run = "bios"
    /\ host = [intrNum |-> 0, ques |-> {}, vecs |-> 0, devVecs |-> 0, made |-> {}]

Step(from, to) == at = from /\ at' = to

GetRegs == \E to \in {"reset", "failed"} : Step("regs", to) /\ UNCHANGED <<env, run, host>>

Reset ==
    \E to \in {"count", "failed"} :
        /\ Step("reset", to)
        /\ run' \in (IF to = "failed" THEN {run, "off"} ELSE {"off"})
        /\ UNCHANGED <<env, host>>

\* The page size is checked on the way.
Count ==
    \/ Step("count", "failed") /\ UNCHANGED <<env, run, host>>
    \/ /\ Step("count", "ques")
       /\ host' = [host EXCEPT !.intrNum = Min({Max({2, env.cpus}), MaxIntr})]
       /\ UNCHANGED <<env, run>>

\* hw_nvme_initQue; the first pair is the admin queues.
Lacking == (0 .. host.intrNum - 1) \ host.ques
AllocQue ==
    /\ Lacking # {} /\ Step("ques", "ques")
    /\ host' = [host EXCEPT !.ques = @ \union {Min(Lacking)}]
    /\ UNCHANGED <<env, run>>
NoQue == Lacking # {} /\ Step("ques", "failed") /\ UNCHANGED <<env, run, host>>
QueuesReady == Lacking = {} /\ Step("ques", "vectors") /\ UNCHANGED <<env, run, host>>

\* hw_nvme_initIntr counts again, and then no more than the vectors.
Ask == Min({env.vecNum, Max({2, Min({MaxIntr, env.cpus})})})
Vectors ==
    /\ env.tp # "none" /\ MayAlloc(env.vecNum, Ask) /\ Step("vectors", "enable")
    /\ host' = [host EXCEPT !.intrNum = Ask, !.vecs = Ask, !.devVecs = Programmed(env.tp, Ask)]
    /\ UNCHANGED <<env, run>>
NoVectors == Step("vectors", "failed") /\ UNCHANGED <<env, run, host>>

\* The controller may answer too late and be enabled all the same.
Enable ==
    \E to \in {"register", "failed"} :
        /\ Step("enable", to)
        /\ run' \in (IF to = "failed" THEN {run, "on"} ELSE {"on"})
        /\ host' = [host EXCEPT !.made = {0}]
        /\ UNCHANGED env

\* hw_nvme_registerQue, a pair at a time; the controller refuses a vector
\* it does not use.
Unmade == (1 .. host.intrNum - 1) \ host.made
Register ==
    /\ Unmade # {} /\ Step("register", "register")
    /\ Min(Unmade) < host.devVecs
    /\ host' = [host EXCEPT !.made = @ \union {Min(Unmade)}]
    /\ UNCHANGED <<env, run>>
Refused == Unmade # {} /\ Step("register", "failed") /\ UNCHANGED <<env, run, host>>

\* hw_nvme_initNsp does not look at its answers.
Namespaces == Unmade = {} /\ Step("register", "done") /\ UNCHANGED <<env, run, host>>

Next ==
    \/ GetRegs \/ Reset \/ Count \/ AllocQue \/ NoQue \/ QueuesReady \/ Vectors \/ NoVectors
    \/ Enable \/ Register \/ Refused \/ Namespaces

-----------------------------------------------------------------------------
TypeOK ==
    /\ env \in Env /\ run \in {"bios", "off", "on"}
    /\ host.intrNum \in 0 .. MaxIntr /\ host.vecs \in 0 .. MaxIntr
    /\ host.vecs <= env.vecNum

\* hw_nvme_findIOSubQue starts at queue 1 and looks at 2 .. intrNum - 1.
Used == {1} \union 2 .. host.intrNum - 1

(***************************************************************************)
(* While the controller runs, also after a later failure, each queue pair  *)
(* it has was allocated and its vector has a descriptor; and when it is    *)
(* set up with the two vectors the source asks for, every queue that a     *)
(* read or write may choose is one it has (_initHost, hw_nvme_registerQue, *)
(* _findIOSubQue).                                                         *)
(***************************************************************************)
Armed ==
    /\ run = "on" => \A q \in host.made : q \in host.ques /\ q < host.vecs /\ q < host.devVecs
    /\ at = "done" /\ env.vecNum >= 2 => Used \subseteq host.made
=============================================================================
