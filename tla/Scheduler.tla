----------------------------- MODULE Scheduler -----------------------------
(***************************************************************************)
(* The JRMOS thread scheduler: task/schedule.c, task/request.c,            *)
(* task/signal.c, task/mgr.c (creation, exit, reaping) and the interrupt   *)
(* exit path of hal/x86_64/interrupt/entry.S that drives them.             *)
(*                                                                         *)
(* Every CPU runs one thread at a time.  A thread's step is possible only  *)
(* while its CPU takes no interrupt (irq[c] = NoIrq).  An interrupt        *)
(* handler runs with interrupts off on its CPU, in several steps, while    *)
(* the other CPUs go on; it ends in hal_intr_retFromIntr, the only place   *)
(* where signals are scanned and threads are switched.                     *)
(*                                                                         *)
(* A thread is its pid.  The first NCpu pids are the idle threads; each    *)
(* thread lives on CPU pid % NCpu for ever (hal_task_sche_dispatch).       *)
(***************************************************************************)
EXTENDS Integers, Sequences, FiniteSets, SequencesExt

CONSTANTS
    NCpu,       \* cpu_num
    NThd,       \* pids are 0 .. NThd-1 (bound on task_thdCnt)
    Device,     \* the threads that run hw_usb_xhci_devMgrTsk
    Unplug,     \* bound: those of them whose device is disconnected some day
    IrqCpu,     \* the CPUs the vectors of devices are routed to
    VWindow,    \* bound: vRuntimes of a CPU are told apart up to this many ticks
    ReqMax      \* bound: length of a CPU's request queue

CPU    == 0 .. NCpu - 1
Thread == 0 .. NThd - 1
IsIdle(t) == t < NCpu                       \* the idle threads
Client == NCpu .. NThd - 1                  \* all others

ASSUME CpuAssumption    == NCpu \in Nat \ {0} /\ IrqCpu \subseteq CPU
ASSUME ThreadAssumption == NThd \in Nat /\ NThd > NCpu /\ Device \subseteq Client /\ Unplug \subseteq Device
ASSUME BoundAssumption  == VWindow \in Nat \ {0} /\ ReqMax \in Nat \ {0}

None == -1                                  \* NULL
CpuOf(t) == t % NCpu                        \* thd->cpuId

-----------------------------------------------------------------------------
VARIABLES
    cur,             \* cur[c]: task_cur of CPU c
    state,           \* state[t]: thd->state
    vRuntime,        \* vRuntime[t]: thd->vRuntime, in ticks, within the window
    thds,            \* thds[c]: nodes of the run tree task_sche_thds, in order
    left,            \* left[c]: the tree's cached leftmost node
    rdyPreemptThds,  \* rdyPreemptThds[c]: list of threads to run next
    sleepThds,       \* sleepThds[c]: set of sleeping threads
    freeThds,        \* freeThds[c]: list of threads to reap
    reqs,            \* reqs[c]: requests sent by other CPUs
    hand,            \* hand[c]: the operation being done under task_sche_pause
    msk,             \* msk[c]: task_sche_msk
    irq,             \* irq[c]: the interrupt handler CPU c is in, or NoIrq
    ipi,             \* ipi[c]: the schedule IPI is pending at CPU c
    pc,              \* pc[t]: where thread t is
    reqWait,         \* reqWait[t]: thd->reqWait
    req,             \* req[t][k]: stage of t's request made in context k
    signal,          \* signal[t]: task_Signal_Int of t
    handler,         \* handler[t]: t has set its handler for it
    working,         \* working[t]: thd->workingSignal # 0
    thdCnt           \* task_thdCnt: pids below it exist

queues == <<thds, left, rdyPreemptThds, sleepThds>>
vars == <<cur, state, vRuntime, thds, left, rdyPreemptThds, sleepThds, freeThds,
          reqs, hand, msk, irq, ipi, pc, reqWait, req, signal, handler, working,
          thdCnt>>

\* task_state_* of includes/task/constant.h; bit 0: must be scheduled away
Running      == 0
NeedSchedule == 1
Idle         == 2
Ready        == 3
Sleep        == 4
NeedFree     == 5
Free         == 6
NeedPreempt  == 7
States == {Running, NeedSchedule, Idle, Ready, Sleep, NeedFree, Free, NeedPreempt}
MustSchedule(s) == s % 2 = 1

PcSet == {"boot", "loop", "op", "resume", "reap", "hlt",         \* idle threads
          "run", "runIpi", "insert", "inserted", "wait", "test", "testIpi",
          "exiting", "exit", "exitIpi", "giveUp"}
Ops     == {"launch", "wake", "preempt"}    \* WaitReq.targetState
WaitReq == [thd : Thread, op : Ops]
NoHand  == [thd |-> None, op |-> "none"]
NoIrq   == [at |-> "none", thd |-> None]
Ret     == [at |-> "ret", thd |-> None]     \* at hal_intr_retFromIntr
Irqs    == [at : {"test"} \union Ops, thd : Thread] \union {Ret, NoIrq}
Ctx     == {"main", "handler"}              \* where a request was made
Stage   == {"none", "sent", "answered"}

TypeOK ==
    /\ cur \in [CPU -> Thread]
    /\ state \in [Thread -> States]
    /\ vRuntime \in [Thread -> 0 .. VWindow]
    /\ thds \in [CPU -> Seq(Thread)]
    /\ left \in [CPU -> Thread \union {None}]
    /\ rdyPreemptThds \in [CPU -> Seq(Thread)]
    /\ sleepThds \in [CPU -> SUBSET Thread]
    /\ freeThds \in [CPU -> Seq(Thread)]
    /\ reqs \in [CPU -> Seq(WaitReq)]
    /\ hand \in [CPU -> WaitReq \union {NoHand}]
    /\ msk \in [CPU -> Int]
    /\ irq \in [CPU -> Irqs]
    /\ ipi \in [CPU -> BOOLEAN]
    /\ pc \in [Thread -> PcSet]
    /\ reqWait \in [Thread -> Int]
    /\ req \in [Thread -> [Ctx -> Stage]]
    /\ signal \in [Thread -> {"none", "pending", "handled", "handledPaused"}]
    /\ handler \in [Thread -> BOOLEAN]
    /\ working \in [Thread -> BOOLEAN]
    /\ thdCnt \in NCpu .. NThd

(***************************************************************************)
(* hal_init_init of the BSP and hal_init_initAP of the others have run:    *)
(* every CPU is in its idle thread, the scheduler is enabled, interrupts   *)
(* are on, and the BSP is about to launch the init thread (or, when the    *)
(* first client is a device manager, init has exited long ago).            *)
(***************************************************************************)
Init ==
    /\ cur = [c \in CPU |-> c]
    /\ state = [t \in Thread |-> IF IsIdle(t) THEN Running ELSE Idle]
    /\ vRuntime = [t \in Thread |-> 0]
    /\ thds = [c \in CPU |-> <<>>]
    /\ left = [c \in CPU |-> None]
    /\ rdyPreemptThds = [c \in CPU |-> <<>>]
    /\ sleepThds = [c \in CPU |-> {}]
    /\ freeThds = [c \in CPU |-> <<>>]
    /\ reqs = [c \in CPU |-> <<>>]
    /\ hand = [c \in CPU |-> NoHand]
    /\ msk = [c \in CPU |-> 0]
    /\ irq = [c \in CPU |-> NoIrq]
    /\ ipi = [c \in CPU |-> FALSE]
    /\ pc = [t \in Thread |-> IF t = 0 /\ NCpu \notin Device THEN "boot"
                              ELSE IF IsIdle(t) THEN "loop" ELSE "run"]
    /\ reqWait = [t \in Thread |-> 0]
    /\ req = [t \in Thread |-> [k \in Ctx |-> "none"]]
    /\ signal = [t \in Thread |-> "none"]
    /\ handler = [t \in Thread |-> FALSE]
    /\ working = [t \in Thread |-> FALSE]
    /\ thdCnt = NCpu

-----------------------------------------------------------------------------
(***************************************************************************)
(* Virtual time.  Only differences between threads of one CPU matter, so   *)
(* the values slide: when the current thread is at the top of the window,  *)
(* its tick moves the others down, and one that is VWindow or more ticks   *)
(* behind stays at 0.                                                      *)
(***************************************************************************)
\* vRuntime after the current thread of c was charged one tick
Charged(c) ==
    LET t == cur[c] IN
    IF vRuntime[t] < VWindow THEN [vRuntime EXCEPT ![t] = @ + 1]
    ELSE [u \in Thread |-> IF CpuOf(u) = c /\ u # t /\ vRuntime[u] > 0
                           THEN vRuntime[u] - 1 ELSE vRuntime[u]]

\* Mutant: the state is incremented where bit 0 should be set.
SetNeedScheduleByAdding(s) == s + 1

\* task_state_NeedSchedule is bit 0
SetNeedSchedule(s) == IF MustSchedule(s) THEN s ELSE s + 1

UpdCurThdState(c) ==
    /\ vRuntime' = Charged(c)
    /\ state' = [state EXCEPT ![cur[c]] = SetNeedSchedule(@)]

\* _sche_syncVRutnime, executed by the current thread of c
SyncVRuntime(c, t) == vRuntime' = [vRuntime EXCEPT ![t] = vRuntime[cur[c]]]

\* task_sche_thds_compare
Less(vr, a, b) == vr[a] < vr[b] \/ (vr[a] = vr[b] /\ a < b)

(***************************************************************************)
(* The run tree.  RBTree_ins descends by Less, so it links t between two   *)
(* in-order neighbours that it compares with t; in a sorted tree there is  *)
(* one such place, in a tree whose keys changed in place the choice is the *)
(* tree's shape.  The cached leftmost node is set before the descent, by   *)
(* one comparison with its old value.                                      *)
(***************************************************************************)
Gaps(seq, vr, t) ==
    {i \in 1 .. Len(seq) + 1 : /\ i > 1 => ~Less(vr, t, seq[i-1])
                               /\ i <= Len(seq) => Less(vr, t, seq[i])}

\* Mutant: the cached leftmost node is set for an empty tree only.
TreeInsKeepLeft(tree, vr, t) ==
    {[order |-> InsertAt(tree.order, i, t),
      left  |-> IF tree.left = None THEN t ELSE tree.left] : i \in Gaps(tree.order, vr, t)}

TreeIns(tree, vr, t) ==
    {[order |-> InsertAt(tree.order, i, t),
      left  |-> IF tree.order = <<>> \/ tree.left = None \/ Less(vr, t, tree.left)
                THEN t ELSE tree.left] : i \in Gaps(tree.order, vr, t)}

\* Mutant: the next thread is taken without leaving the tree.
TreeDelNot(tree, t) == tree

\* RBTree_del: the cached leftmost node moves to the in-order successor
TreeDel(tree, t) ==
    LET i == CHOOSE j \in DOMAIN tree.order : tree.order[j] = t IN
    IF ~Contains(tree.order, t) THEN tree          \* never: OnePlace
    ELSE [order |-> RemoveAt(tree.order, i),
          left  |-> IF tree.left # t THEN tree.left
                    ELSE IF i < Len(tree.order) THEN tree.order[i + 1] ELSE None]

TreeOf(c) == [order |-> thds[c], left |-> left[c]]
SetTree(c, tree) == /\ thds' = [thds EXCEPT ![c] = tree.order]
                    /\ left' = [left EXCEPT ![c] = tree.left]

-----------------------------------------------------------------------------
(***************************************************************************)
(* The three operations on a thread of the current CPU, done under         *)
(* task_sche_pause.  They change state, vRuntime and queues.               *)
(***************************************************************************)
LaunchThd(c, t) ==
    /\ SyncVRuntime(c, t)
    /\ \E tree \in TreeIns(TreeOf(c), vRuntime', t) : SetTree(c, tree)
    /\ UNCHANGED <<state, rdyPreemptThds, sleepThds>>

WakeThd(c, t) ==
    /\ SyncVRuntime(c, t)
    /\ UNCHANGED rdyPreemptThds
    /\ \/ /\ state[t] = Sleep
          /\ state' = [state EXCEPT ![t] = Idle]
          /\ sleepThds' = [sleepThds EXCEPT ![c] = @ \ {t}]
          /\ \E tree \in TreeIns(TreeOf(c), vRuntime', t) : SetTree(c, tree)
       \/ /\ state[t] # Sleep
          /\ UNCHANGED <<state, sleepThds, thds, left>>

\* Mutant: no case for a sleeping thread.
PreemptThdIdleOnly(c, t) ==
    /\ SyncVRuntime(c, t)
    /\ UNCHANGED sleepThds
    /\ IF state[t] = Idle
       THEN /\ SetTree(c, TreeDel(TreeOf(c), t))
            /\ state' = [state EXCEPT ![t] = NeedPreempt]
            /\ rdyPreemptThds' = [rdyPreemptThds EXCEPT ![c] = Append(@, t)]
       ELSE UNCHANGED <<thds, left, state, rdyPreemptThds>>

PreemptThd(c, t) ==
    /\ SyncVRuntime(c, t)
    /\ \/ /\ state[t] = Idle
          /\ SetTree(c, TreeDel(TreeOf(c), t))
          /\ UNCHANGED sleepThds
       \/ /\ state[t] = Sleep
          /\ sleepThds' = [sleepThds EXCEPT ![c] = @ \ {t}]
          /\ UNCHANGED <<thds, left>>
       \/ /\ state[t] \notin {Idle, Sleep}
          /\ UNCHANGED <<thds, left, sleepThds>>
    /\ IF state[t] \in {Idle, Sleep}
       THEN /\ state' = [state EXCEPT ![t] = NeedPreempt]
            /\ rdyPreemptThds' = [rdyPreemptThds EXCEPT ![c] = Append(@, t)]
       ELSE UNCHANGED <<state, rdyPreemptThds>>

\* Mutant: the case of a launch is missing.
DoNoLaunch(c, r) == \/ r.op = "launch"  /\ UNCHANGED <<state, vRuntime, queues>>
                    \/ r.op = "wake"    /\ WakeThd(c, r.thd)
                    \/ r.op = "preempt" /\ PreemptThd(c, r.thd)

Do(c, r) == \/ r.op = "launch"  /\ LaunchThd(c, r.thd)
            \/ r.op = "wake"    /\ WakeThd(c, r.thd)
            \/ r.op = "preempt" /\ PreemptThd(c, r.thd)

\* Bound ReqMax: d's request queue can take one more, counting the requests
\* that interrupt handlers under way may still send there.
Room(d) == Len(reqs[d]) + Cardinality({c \in CPU : irq[c].thd # None /\ CpuOf(irq[c].thd) = d})
             < ReqMax

\* A request for a thread of another CPU is queued there (no IPI is sent).
SendReq(t, op) == reqs' = [reqs EXCEPT ![CpuOf(t)] = Append(@, [thd |-> t, op |-> op])]

(***************************************************************************)
(* Steps of the current thread.  Here(c, t): t executes on c and no        *)
(* interrupt handler does.                                                 *)
(***************************************************************************)
Here(c, t) == cur[c] = t /\ irq[c] = NoIrq
Goto(t, l) == pc' = [pc EXCEPT ![t] = l]

\* task_newThd then task_sche_launch, by a thread: the BSP's idle thread launches
\* the init thread, threads that are not device managers launch others.
Launch(c, t) ==
    LET u == thdCnt IN
    /\ Here(c, t)
    /\ pc[t] = "boot" \/ (pc[t] = "run" /\ t \notin Device)
    /\ u < NThd /\ u \notin Device
    /\ thdCnt' = thdCnt + 1
    /\ SyncVRuntime(c, u)
    /\ IF CpuOf(u) = c
       THEN /\ msk' = [msk EXCEPT ![c] = @ + 1]
            /\ hand' = [hand EXCEPT ![c] = [thd |-> u, op |-> "launch"]]
            /\ Goto(t, "op")
            /\ UNCHANGED reqs
       ELSE /\ Room(CpuOf(u))
            /\ SendReq(u, "launch")
            /\ UNCHANGED <<msk, hand, pc>>
    /\ UNCHANGED <<cur, state, queues, freeThds, irq, ipi, reqWait, req, signal,
                   handler, working>>

\* The operation under task_sche_pause: task_sche_launch's, or one taken by
\* task_sche_handleReq.
Operate(c, t) ==
    /\ Here(c, t) /\ pc[t] = "op"
    /\ Do(c, hand[c])
    /\ hand' = [hand EXCEPT ![c] = NoHand]
    /\ Goto(t, "resume")
    /\ UNCHANGED <<cur, freeThds, reqs, msk, irq, ipi, reqWait, req, signal,
                   handler, working, thdCnt>>

\* task_sche_resume after an operation, or SpinLock_unlockMask of a ring
Resume(c, t) ==
    /\ Here(c, t)
    /\ msk' = [msk EXCEPT ![c] = @ - 1]
    /\ \/ pc[t] = "resume" /\ Goto(t, IF IsIdle(t) THEN "loop" ELSE "run")
       \/ pc[t] = "inserted" /\ Goto(t, "wait")
    /\ UNCHANGED <<cur, state, vRuntime, queues, freeThds, reqs, hand, irq, ipi,
                   reqWait, req, signal, handler, working, thdCnt>>

\* hw_*_request: task_Request_init and SpinLock_lockMask of the device's ring,
\* which is task_sche_pause and then the lock.  Interrupts stay on.
Submit(c, t) ==
    /\ Here(c, t) /\ pc[t] = "run" /\ ~IsIdle(t)
    /\ req[t][IF working[t] THEN "handler" ELSE "main"] = "none"
    /\ msk' = [msk EXCEPT ![c] = @ + 1]
    /\ Goto(t, "insert")
    /\ UNCHANGED <<cur, state, vRuntime, queues, freeThds, reqs, hand, irq, ipi,
                   reqWait, req, signal, handler, working, thdCnt>>

\* The lock is taken, perhaps after some spinning.  The request is in the ring
\* and the device's from here on, or the ring is full and it tries again.
Insert(c, t) ==
    LET k == IF working[t] THEN "handler" ELSE "main" IN
    /\ Here(c, t) /\ pc[t] = "insert"
    /\ \/ req' = [req EXCEPT ![t][k] = "sent"] /\ Goto(t, "inserted")
       \/ UNCHANGED req /\ Goto(t, "resume")
    /\ UNCHANGED <<cur, state, vRuntime, queues, freeThds, reqs, hand, msk, irq, ipi,
                   reqWait, signal, handler, working, thdCnt>>

\* task_sche_waitReq: count the request
WaitReqInc(c, t) ==
    /\ Here(c, t) /\ pc[t] = "wait"
    /\ reqWait' = [reqWait EXCEPT ![t] = @ + 1]
    /\ Goto(t, "test")
    /\ UNCHANGED <<cur, state, vRuntime, queues, freeThds, reqs, hand, msk, irq, ipi,
                   req, signal, handler, working, thdCnt>>

\* task_sche_waitReq: reqWait > 0, so task_sche_yield ...
WaitReqYield(c, t) ==
    /\ Here(c, t) /\ pc[t] = "test" /\ reqWait[t] > 0
    /\ UpdCurThdState(c)
    /\ Goto(t, "testIpi")
    /\ UNCHANGED <<cur, queues, freeThds, reqs, hand, msk, irq, ipi, reqWait, req,
                   signal, handler, working, thdCnt>>

\* Mutant: "if" for "while" around the yield.
WaitReqReturnOnce(c, t) ==
    /\ Here(c, t) /\ pc[t] = "test"
    /\ req' = [req EXCEPT ![t]["main"] = IF @ = "answered" THEN "none" ELSE @]
    /\ Goto(t, "run")
    /\ UNCHANGED <<cur, state, vRuntime, queues, freeThds, reqs, hand, msk, irq, ipi,
                   reqWait, signal, handler, working, thdCnt>>

\* ... or the request is answered and the caller goes on with its result.
WaitReqReturn(c, t) ==
    LET k == IF working[t] THEN "handler" ELSE "main" IN
    /\ Here(c, t) /\ pc[t] = "test" /\ reqWait[t] <= 0
    /\ req' = [req EXCEPT ![t][k] = IF @ = "answered" THEN "none" ELSE @]
    /\ Goto(t, "run")
    /\ UNCHANGED <<cur, state, vRuntime, queues, freeThds, reqs, hand, msk, irq, ipi,
                   reqWait, signal, handler, working, thdCnt>>

\* task_sche_yield called by a thread that waits for a ring entry or a flag
Yield(c, t) ==
    /\ Here(c, t) /\ pc[t] = "run" /\ ~IsIdle(t)
    /\ UpdCurThdState(c)
    /\ Goto(t, "runIpi")
    /\ UNCHANGED <<cur, queues, freeThds, reqs, hand, msk, irq, ipi, reqWait, req,
                   signal, handler, working, thdCnt>>

\* hal_task_sche_yield: the second half of task_sche_yield
SendIpi(c, t) ==
    /\ Here(c, t)
    /\ ipi' = [ipi EXCEPT ![c] = TRUE]
    /\ \/ pc[t] = "testIpi" /\ Goto(t, "test")
       \/ pc[t] = "exitIpi" /\ Goto(t, "exit")
       \/ pc[t] = "runIpi"  /\ Goto(t, "run")
    /\ UNCHANGED <<cur, state, vRuntime, queues, freeThds, reqs, hand, msk, irq,
                   reqWait, req, signal, handler, working, thdCnt>>

\* task_exit: task_sche_pause and the state, ...  A device manager calls it in
\* hw_usb_xhci_uninstallDev: after a failed devInit, or as the signal handler.
Exit(c, t) ==
    /\ Here(c, t) /\ pc[t] = "run" /\ ~IsIdle(t)
    /\ t \in Device => working[t] \/ ~handler[t]
    /\ msk' = [msk EXCEPT ![c] = @ + 1]
    /\ state' = [state EXCEPT ![t] = NeedFree]
    /\ Goto(t, "exiting")
    /\ UNCHANGED <<cur, vRuntime, queues, freeThds, reqs, hand, irq, ipi, reqWait,
                   req, signal, handler, working, thdCnt>>

\* ... task_sche_resume, ...
ExitResume(c, t) ==
    /\ Here(c, t) /\ pc[t] = "exiting"
    /\ msk' = [msk EXCEPT ![c] = @ - 1]
    /\ Goto(t, "exit")
    /\ UNCHANGED <<cur, state, vRuntime, queues, freeThds, reqs, hand, irq, ipi,
                   reqWait, req, signal, handler, working, thdCnt>>

\* ... and task_sche_yield for ever.
ExitYield(c, t) ==
    /\ Here(c, t) /\ pc[t] = "exit"
    /\ UpdCurThdState(c)
    /\ Goto(t, "exitIpi")
    /\ UNCHANGED <<cur, queues, freeThds, reqs, hand, msk, irq, ipi, reqWait, req,
                   signal, handler, working, thdCnt>>

\* A device manager installs its handler (devInit and its requests are over).
SetHandler(c, t) ==
    /\ Here(c, t) /\ pc[t] = "run" /\ t \in Device /\ ~handler[t]
    /\ handler' = [handler EXCEPT ![t] = TRUE]
    /\ UNCHANGED <<cur, state, vRuntime, queues, freeThds, reqs, hand, msk, irq, ipi,
                   pc, reqWait, req, signal, working, thdCnt>>

\* The handler, hw_usb_xhci_uninstallDev, starts with task_Request_giveUp;
\* it goes on to make requests of its own and to exit (Submit, Exit).
GiveUp(c, t) ==
    /\ Here(c, t) /\ pc[t] = "giveUp"
    /\ reqWait' = [reqWait EXCEPT ![t] = 0]
    /\ Goto(t, "run")
    /\ UNCHANGED <<cur, state, vRuntime, queues, freeThds, reqs, hand, msk, irq, ipi,
                   req, signal, handler, working, thdCnt>>

-----------------------------------------------------------------------------
(***************************************************************************)
(* The idle thread: task_sche_handleReq, then hlt until an interrupt.      *)
(***************************************************************************)
\* The list is not empty: task_sche_pause and SafeList_delHead.
TakeReq(c) ==
    /\ Here(c, c) /\ pc[c] = "loop" /\ reqs[c] # <<>>
    /\ msk' = [msk EXCEPT ![c] = @ + 1]
    /\ hand' = [hand EXCEPT ![c] = Head(reqs[c])]
    /\ reqs' = [reqs EXCEPT ![c] = Tail(@)]
    /\ Goto(c, "op")
    /\ UNCHANGED <<cur, state, vRuntime, queues, freeThds, irq, ipi, reqWait, req,
                   signal, handler, working, thdCnt>>

\* The list is empty: task_sche_pause and on to the threads to reap.
StartReap(c) ==
    /\ Here(c, c) /\ pc[c] = "loop" /\ reqs[c] = <<>>
    /\ msk' = [msk EXCEPT ![c] = @ + 1]
    /\ Goto(c, "reap")
    /\ UNCHANGED <<cur, state, vRuntime, queues, freeThds, reqs, hand, irq, ipi,
                   reqWait, req, signal, handler, working, thdCnt>>

\* List_delHead and task_freeThd; the memory is not used again in this model.
Reap(c) ==
    /\ Here(c, c) /\ pc[c] = "reap" /\ freeThds[c] # <<>>
    /\ freeThds' = [freeThds EXCEPT ![c] = Tail(@)]
    /\ UNCHANGED <<cur, state, vRuntime, queues, reqs, hand, msk, irq, ipi, pc,
                   reqWait, req, signal, handler, working, thdCnt>>

\* task_sche_resume and hlt
EndReap(c) ==
    /\ Here(c, c) /\ pc[c] = "reap" /\ freeThds[c] = <<>>
    /\ msk' = [msk EXCEPT ![c] = @ - 1]
    /\ Goto(c, "hlt")
    /\ UNCHANGED <<cur, state, vRuntime, queues, freeThds, reqs, hand, irq, ipi,
                   reqWait, req, signal, handler, working, thdCnt>>

-----------------------------------------------------------------------------
(***************************************************************************)
(* Interrupts.  Taken(c, h): CPU c, interrupts on, enters a handler that   *)
(* goes on at h; an idle thread in hlt is past it when it runs again.      *)
(***************************************************************************)
Taken(c, h) ==
    /\ irq[c] = NoIrq
    /\ irq' = [irq EXCEPT ![c] = h]
    /\ pc' = [pc EXCEPT ![cur[c]] = IF @ = "hlt" THEN "loop" ELSE @]

\* The HPET interrupt, at the BSP: task_sche_updAllCurThdsState
TimerIntr ==
    /\ Taken(0, Ret)
    /\ UpdCurThdState(0)
    /\ ipi' = [c \in CPU |-> c # 0 \/ ipi[c]]
    /\ UNCHANGED <<cur, queues, freeThds, reqs, hand, msk, reqWait, req, signal,
                   handler, working, thdCnt>>

\* The schedule IPI: hal_cpu_intrOfSchedule
ScheIntr(c) ==
    /\ ipi[c]
    /\ Taken(c, Ret)
    /\ ipi' = [ipi EXCEPT ![c] = FALSE]
    /\ UpdCurThdState(c)
    /\ UNCHANGED <<cur, queues, freeThds, reqs, hand, msk, reqWait, req, signal,
                   handler, working, thdCnt>>

\* A device's completion interrupt: task_Request_response, stage and reqWait
RespIntr(c, t, k) ==
    /\ Taken(c, [at |-> "test", thd |-> t])
    /\ req[t][k] = "sent" /\ Room(CpuOf(t))
    /\ req' = [req EXCEPT ![t][k] = "answered"]
    /\ reqWait' = [reqWait EXCEPT ![t] = @ - 1]
    /\ UNCHANGED <<cur, state, vRuntime, queues, freeThds, reqs, hand, msk, ipi,
                   signal, handler, working, thdCnt>>

\* task_sche_finishReq: the second read of reqWait
FinishReqTest(c) ==
    /\ irq[c].at = "test"
    /\ irq' = [irq EXCEPT ![c] = IF reqWait[@.thd] = 0
                                 THEN [at |-> "preempt", thd |-> @.thd] ELSE Ret]
    /\ UNCHANGED <<cur, state, vRuntime, queues, freeThds, reqs, hand, msk, ipi, pc,
                   reqWait, req, signal, handler, working, thdCnt>>

\* task_sche_preempt, _wake or _launch called by an interrupt handler
IntrOp(c) ==
    LET t == irq[c].thd  op == irq[c].at IN
    /\ op \in Ops
    /\ irq' = [irq EXCEPT ![c] = Ret]
    /\ \/ /\ CpuOf(t) = c
          /\ Do(c, [thd |-> t, op |-> op])
          /\ UNCHANGED reqs
       \/ /\ CpuOf(t) # c
          /\ SendReq(t, op)
          /\ UNCHANGED <<state, vRuntime, queues>>
    /\ UNCHANGED <<cur, freeThds, hand, msk, ipi, pc, reqWait, req, signal, handler,
                   working, thdCnt>>

\* A device is plugged in: hw_usb_xhci_portConnect, hw_usb_xhci_newDev and
\* task_newThd; the handler goes on with task_sche_launch.
ConnectIntr(c) ==
    LET u == thdCnt IN
    /\ u \in Device /\ Room(CpuOf(u))
    /\ Taken(c, [at |-> "launch", thd |-> u])
    /\ thdCnt' = thdCnt + 1
    /\ SyncVRuntime(c, u)
    /\ UNCHANGED <<cur, state, queues, freeThds, reqs, hand, msk, ipi, reqWait, req,
                   signal, handler, working>>

\* Mutant: the signal's bit is set and the thread is not woken.
DisconnectIntrNoWake(c, t) ==
    /\ Taken(c, Ret)
    /\ t < thdCnt /\ signal[t] = "none"
    /\ signal' = [signal EXCEPT ![t] = "pending"]
    /\ UNCHANGED <<cur, state, vRuntime, queues, freeThds, reqs, hand, msk, ipi,
                   reqWait, req, handler, working, thdCnt>>

\* The device is unplugged: hw_usb_xhci_portDisconnect, task_signal_send
DisconnectIntr(c, t) ==
    /\ Taken(c, [at |-> "wake", thd |-> t])
    /\ t < thdCnt /\ signal[t] = "none" /\ Room(CpuOf(t))
    /\ signal' = [signal EXCEPT ![t] = "pending"]
    /\ UNCHANGED <<cur, state, vRuntime, queues, freeThds, reqs, hand, msk, ipi,
                   reqWait, req, handler, working, thdCnt>>

(***************************************************************************)
(* hal_intr_retFromIntr.  A pending signal with a handler starts it, with  *)
(* interrupts on (hw_usb_xhci_uninstallDev never returns from it), also    *)
(* when the scheduler is paused: a section that the thread was in is never *)
(* finished.  Otherwise the thread is switched away if the scheduler is    *)
(* not paused and bit 0 of its state is set.                               *)
(***************************************************************************)
Signalled(t) == signal[t] = "pending" /\ handler[t]

\* between task_sche_pause and task_sche_resume
Paused(t) == pc[t] \in {"op", "resume", "reap", "exiting", "insert", "inserted"}

RunHandler(c) ==
    LET t == cur[c] IN
    /\ irq[c] = Ret /\ Signalled(t)
    /\ irq' = [irq EXCEPT ![c] = NoIrq]
    /\ signal' = [signal EXCEPT ![t] = IF Paused(t) THEN "handledPaused" ELSE "handled"]
    /\ working' = [working EXCEPT ![t] = TRUE]
    /\ Goto(t, "giveUp")
    /\ UNCHANGED <<cur, state, vRuntime, queues, freeThds, reqs, hand, msk, ipi,
                   reqWait, req, handler, thdCnt>>

\* Mutant: task_sche_msk is not looked at.
WantsScheduleUnmasked(c) == MustSchedule(state[cur[c]])

WantsSchedule(c) == msk[c] = 0 /\ MustSchedule(state[cur[c]])

Restore(c) ==
    /\ irq[c] = Ret /\ ~Signalled(cur[c]) /\ ~WantsSchedule(c)
    /\ irq' = [irq EXCEPT ![c] = NoIrq]
    /\ UNCHANGED <<cur, state, vRuntime, queues, freeThds, reqs, hand, msk, ipi, pc,
                   reqWait, req, signal, handler, working, thdCnt>>

\* _hangCurThd, then hal_task_sche_switch to n; tree is the run tree without n.
SwitchTo(c, n, tree) ==
    LET t == cur[c] IN
    /\ cur' = [cur EXCEPT ![c] = n]
    /\ \/ /\ reqWait[t] > 0 /\ ~working[t]
          /\ state' = [state EXCEPT ![n] = Running, ![t] = Sleep]
          /\ sleepThds' = [sleepThds EXCEPT ![c] = @ \union {t}]
          /\ SetTree(c, tree)
          /\ UNCHANGED freeThds
       \/ /\ ~(reqWait[t] > 0 /\ ~working[t]) /\ state[t] = NeedFree
          /\ state' = [state EXCEPT ![n] = Running, ![t] = Free]
          /\ freeThds' = [freeThds EXCEPT ![c] = Append(@, t)]
          /\ SetTree(c, tree)
          /\ UNCHANGED sleepThds
       \/ /\ ~(reqWait[t] > 0 /\ ~working[t]) /\ state[t] # NeedFree
          /\ state' = [state EXCEPT ![n] = Running, ![t] = Idle]
          /\ \E new \in TreeIns(tree, vRuntime, t) : SetTree(c, new)
          /\ UNCHANGED <<sleepThds, freeThds>>

\* task_sche_trySche
TrySche(c) ==
    LET t == cur[c]  first == left[c] IN
    /\ irq[c] = Ret /\ ~Signalled(t) /\ WantsSchedule(c)
    /\ irq' = [irq EXCEPT ![c] = NoIrq]
    /\ \/ /\ rdyPreemptThds[c] # <<>>
          /\ rdyPreemptThds' = [rdyPreemptThds EXCEPT ![c] = Tail(@)]
          /\ SwitchTo(c, Head(rdyPreemptThds[c]), TreeOf(c))
       \/ /\ rdyPreemptThds[c] = <<>> /\ first # None /\ vRuntime[first] <= vRuntime[t]
          /\ SwitchTo(c, first, TreeDel(TreeOf(c), first))
          /\ UNCHANGED rdyPreemptThds
       \/ /\ rdyPreemptThds[c] = <<>>
          /\ first # None => vRuntime[first] > vRuntime[t]
          /\ state' = [state EXCEPT ![t] = Running]
          /\ UNCHANGED <<cur, queues, freeThds>>
    /\ UNCHANGED <<vRuntime, reqs, hand, msk, ipi, pc, reqWait, req, signal,
                   handler, working, thdCnt>>

-----------------------------------------------------------------------------
ThreadStep(c, t) ==
    \/ Launch(c, t) \/ Operate(c, t) \/ Resume(c, t)
    \/ Submit(c, t) \/ Insert(c, t) \/ WaitReqInc(c, t) \/ WaitReqYield(c, t) \/ WaitReqReturn(c, t)
    \/ Yield(c, t) \/ SendIpi(c, t)
    \/ Exit(c, t) \/ ExitResume(c, t) \/ ExitYield(c, t)
    \/ SetHandler(c, t) \/ GiveUp(c, t)

IdleStep(c) == TakeReq(c) \/ StartReap(c) \/ Reap(c) \/ EndReap(c)

IrqStep(c) == FinishReqTest(c) \/ IntrOp(c) \/ RunHandler(c) \/ Restore(c) \/ TrySche(c)

Next ==
    \/ \E c \in CPU, t \in Thread : ThreadStep(c, t)
    \/ \E c \in CPU : IdleStep(c) \/ IrqStep(c) \/ ScheIntr(c)
    \/ TimerIntr
    \/ \E c \in IrqCpu, t \in Client, k \in Ctx : RespIntr(c, t, k)
    \/ \E c \in IrqCpu : ConnectIntr(c) \/ \E t \in Unplug : DisconnectIntr(c, t)

Safety == Init /\ [][Next]_vars

(***************************************************************************)
(* Fairness.  A handler that has started runs to its end.  A pending       *)
(* interrupt is kept by the local APIC and taken when interrupts are on,   *)
(* so the timer and a schedule IPI are taken although they are disabled    *)
(* now and then; interrupts leave time for instructions, so a thread that  *)
(* is again and again the current one makes its next step.  A thread is    *)
(* free not to launch, submit, yield or exit; a device need not answer.    *)
(***************************************************************************)
MustStep(c, t) ==
    \/ pc[t] = "boot" /\ Launch(c, t)
    \/ Operate(c, t) \/ Resume(c, t) \/ Insert(c, t) \/ WaitReqInc(c, t)
    \/ WaitReqYield(c, t) \/ WaitReqReturn(c, t) \/ SendIpi(c, t)
    \/ ExitResume(c, t) \/ ExitYield(c, t) \/ GiveUp(c, t)

Fairness ==
    /\ SF_vars(TimerIntr)
    /\ \A c \in CPU : WF_vars(IrqStep(c)) /\ SF_vars(ScheIntr(c)) /\ SF_vars(IdleStep(c))
    /\ \A t \in Thread : SF_vars(MustStep(CpuOf(t), t))

Spec == Safety /\ Fairness

-----------------------------------------------------------------------------
Exists(t) == t < thdCnt
InTree(t)    == \E i \in DOMAIN thds[CpuOf(t)] : thds[CpuOf(t)][i] = t
InPreempt(t) == \E i \in DOMAIN rdyPreemptThds[CpuOf(t)] : rdyPreemptThds[CpuOf(t)][i] = t

\* t was created and its launch has not reached its CPU's run tree
Launching(t) == \/ \E c \in CPU : irq[c] = [at |-> "launch", thd |-> t]
                \/ hand[CpuOf(t)] = [thd |-> t, op |-> "launch"]
                \/ Contains(reqs[CpuOf(t)], [thd |-> t, op |-> "launch"])

\* A preempt of t was decided and has not been applied to its queues.
PreemptPending(t) ==
    \/ \E c \in CPU : irq[c] \in {[at |-> "test", thd |-> t], [at |-> "preempt", thd |-> t]}
    \/ hand[CpuOf(t)] = [thd |-> t, op |-> "preempt"]
    \/ Contains(reqs[CpuOf(t)], [thd |-> t, op |-> "preempt"])

NoRepeat(seq) == \A i, j \in DOMAIN seq : seq[i] = seq[j] => i = j

\* A thread is where its state says and nowhere else: no thread is lost by
\* all queues or linked in two (one list node and one tree node per thread).
OnePlace ==
    /\ \A t \in Thread : Exists(t) =>
        /\ (cur[CpuOf(t)] = t) <=> state[t] \in {Running, NeedSchedule, NeedFree}
        /\ (InTree(t) \/ Launching(t)) <=> state[t] = Idle
        /\ ~(InTree(t) /\ Launching(t))
        /\ InPreempt(t) <=> state[t] = NeedPreempt
        /\ (t \in sleepThds[CpuOf(t)]) <=> state[t] = Sleep
        /\ Contains(freeThds[CpuOf(t)], t) => state[t] = Free
    /\ \A c \in CPU : NoRepeat(thds[c]) /\ NoRepeat(rdyPreemptThds[c])

\* The order of the run tree is the order of vRuntime and its cached leftmost
\* node is its first one, so that trySche picks a thread that ran least.
TreeSorted ==
    \A c \in CPU :
        /\ \A i \in 1 .. Len(thds[c]) - 1 : vRuntime[thds[c][i]] <= vRuntime[thds[c][i+1]]
        /\ left[c] = IF thds[c] = <<>> THEN None ELSE thds[c][1]

\* A thread sleeps only while a response is due or its wake-up is under way:
\* the decrement, test and preempt of task_sche_finishReq never miss a thread
\* that hangs between them.
NoLostWakeup ==
    \A t \in Client : state[t] = Sleep /\ reqWait[t] <= 0 => PreemptPending(t)

\* task_sche_msk is a CPU's and counts for its current thread: the section the
\* thread is in, and one that its signal handler was entered in and that has no
\* end.  No thread is switched away from either, so after such a signal the CPU
\* runs this thread and no other; every other pause is undone by the thread
\* that made it, before another runs.
Cut(t) == signal[t] = "handledPaused"
PauseCounts ==
    /\ \A c \in CPU : msk[c] = (IF Paused(cur[c]) THEN 1 ELSE 0) + (IF Cut(cur[c]) THEN 1 ELSE 0)
    /\ \A t \in Thread : Paused(t) \/ Cut(t) => cur[CpuOf(t)] = t

\* A thread with a signal it can handle sleeps only while the wake-up that
\* task_signal_send makes after setting the bit is under way.
WakePending(t) ==
    \/ \E c \in CPU : irq[c] = [at |-> "wake", thd |-> t]
    \/ hand[CpuOf(t)] = [thd |-> t, op |-> "wake"]
    \/ Contains(reqs[CpuOf(t)], [thd |-> t, op |-> "wake"])
NoLostSignal == \A t \in Device : state[t] = Sleep /\ Signalled(t) => WakePending(t)

\* A request is what BlockingRequest promises, to every thread that gets no
\* signal: the call of task_Request_send returns to its caller only after the
\* device's response, whichever CPU took that interrupt and however often the
\* thread was switched in before it.
Plain == Client \ Unplug
InCall(t) == pc[t] \in {"inserted", "wait", "test", "testIpi"}  \* in hw_*_request, sent
Phase == [t \in Plain |-> IF InCall(t) THEN req[t]["main"] ELSE "none"]
Blocking == INSTANCE BlockingRequest WITH Client <- Plain, phase <- Phase
BlockingSafety == Blocking!Safety

\* Once its request is answered the call does return, whatever CPU took the
\* interrupt: the preempt reaches the sleeping thread and the thread runs.
BlockingSpec == Blocking!Spec

\* A launched thread gets to run, also when an interrupt handler of another CPU
\* launches it: the request list, which has no IPI, and the idle thread of its
\* CPU bring it to the run tree.  (Not where a signal cuts a section, see Cut.)
LaunchedRuns == \A t \in Client : Launching(t) ~> cur[CpuOf(t)] = t
-----------------------------------------------------------------------------
(***************************************************************************)
(* What comments of the code say and the code does not do.                 *)
(***************************************************************************)
\* includes/task/api.h: task_exit will "exit this thread": a thread that has
\* called it stays on the way out until it is freed.
ExitSticks == [][\A t \in Client : state[t] = NeedFree => state'[t] \in {NeedFree, Free}]_vars

\* schedule.c on task_sche_trySche: it goes on with the current thread only
\* "if there is no other proc": a run tree with threads has a leftmost one.
OtherProcSeen == \A c \in CPU : left[c] = None => thds[c] = <<>>

\* xhci/api.c on hw_usb_xhci_request: it will "wait for the reply", so its
\* caller goes on (and frees the request) only after the response.
WaitsForReply ==
    [][\A t \in Client, k \in Ctx :
          pc[t] = "test" /\ pc'[t] = "run" /\ working[t] = (k = "handler")
             => req[t][k] = "answered"]_vars
=============================================================================
