--------------------------- MODULE SchedulerProof ---------------------------
(***************************************************************************)
(* Proofs about Scheduler, for any number of CPUs, threads and devices.    *)
(***************************************************************************)
EXTENDS Scheduler, SequenceTheorems, TLAPS

-----------------------------------------------------------------------------
(* The run tree and the queues. *)

\* A thread's CPU is one of the CPUs.
LEMMA CpuOfType == \A t \in Thread : CpuOf(t) \in CPU
BY CpuAssumption DEF CpuOf, CPU, Thread

Trees == [order : Seq(Thread), left : Thread \union {None}]

\* Inserting into a run tree gives a run tree.
LEMMA TreeInsType ==
    ASSUME NEW tree \in Trees, NEW vr, NEW t \in Thread, NEW new \in TreeIns(tree, vr, t)
    PROVE  new \in Trees
<1> DEFINE s == tree.order
<1>1. s \in Seq(Thread) /\ tree.left \in Thread \union {None}  BY DEF Trees
<1>2. PICK i \in 1 .. Len(s) + 1 :
          new = [order |-> InsertAt(s, i, t),
                 left  |-> IF s = <<>> \/ tree.left = None \/ Less(vr, t, tree.left)
                           THEN t ELSE tree.left]
  BY DEF TreeIns, Gaps
<1>3. SubSeq(s, 1, i-1) \in Seq(Thread)
  <2>1. \A j \in 1 .. i-1 : s[j] \in Thread  BY <1>1, ElementOfSeq
  <2> QED BY <1>1, <2>1, SubSeqProperties
<1>4. SubSeq(s, i, Len(s)) \in Seq(Thread)
  <2>1. \A j \in i .. Len(s) : s[j] \in Thread  BY <1>1, ElementOfSeq
  <2> QED BY <1>1, <2>1, SubSeqProperties
<1>5. InsertAt(s, i, t) \in Seq(Thread)
  BY <1>3, <1>4, ConcatProperties DEF InsertAt
<1> QED BY <1>1, <1>2, <1>5 DEF Trees

\* Deleting from a run tree gives a run tree.
LEMMA TreeDelType ==
    ASSUME NEW tree \in Trees, NEW t \in Thread
    PROVE  TreeDel(tree, t) \in Trees
<1> DEFINE s == tree.order
           i == CHOOSE j \in DOMAIN s : s[j] = t
<1>1. s \in Seq(Thread) /\ tree.left \in Thread \union {None}  BY DEF Trees
<1>2. CASE ~Contains(s, t)  BY <1>2 DEF TreeDel
<1>3. CASE Contains(s, t)
  <2>1. i \in 1 .. Len(s)  BY <1>1, <1>3 DEF Contains
  <2> HIDE DEF i
  <2>2. SubSeq(s, 1, i-1) \in Seq(Thread)
    <3>1. \A j \in 1 .. i-1 : s[j] \in Thread  BY <1>1, <2>1, ElementOfSeq
    <3> QED BY <1>1, <2>1, <3>1, SubSeqProperties
  <2>3. SubSeq(s, i+1, Len(s)) \in Seq(Thread)
    <3>1. \A j \in i+1 .. Len(s) : s[j] \in Thread  BY <1>1, <2>1, ElementOfSeq
    <3> QED BY <1>1, <2>1, <3>1, SubSeqProperties
  <2>4. RemoveAt(s, i) \in Seq(Thread)
    BY <2>2, <2>3, ConcatProperties DEF RemoveAt
  <2>5. i < Len(s) => s[i + 1] \in Thread  BY <1>1, <2>1, ElementOfSeq
  <2>6. [order |-> RemoveAt(s, i),
         left  |-> IF tree.left # t THEN tree.left
                   ELSE IF i < Len(s) THEN s[i + 1] ELSE None] \in Trees
    BY <1>1, <2>4, <2>5 DEF Trees
  <2> QED BY <1>3, <2>6 DEF TreeDel, i
<1> QED BY <1>2, <1>3

-----------------------------------------------------------------------------
(* Type correctness. *)

\* The part of TypeOK that the operations on threads change.
SchedTypeOK ==
    /\ state \in [Thread -> States]
    /\ vRuntime \in [Thread -> 0 .. VWindow]
    /\ thds \in [CPU -> Seq(Thread)]
    /\ left \in [CPU -> Thread \union {None}]
    /\ rdyPreemptThds \in [CPU -> Seq(Thread)]
    /\ sleepThds \in [CPU -> SUBSET Thread]

\* Storing a run tree keeps the types of both its parts.
LEMMA SetTreeType ==
    ASSUME TypeOK, NEW c \in CPU, NEW tree \in Trees, SetTree(c, tree)
    PROVE  thds' \in [CPU -> Seq(Thread)] /\ left' \in [CPU -> Thread \union {None}]
BY DEF TypeOK, Trees, SetTree

\* The run tree of a CPU is a run tree.
LEMMA TreeOfType ==
    ASSUME TypeOK, NEW c \in CPU
    PROVE  TreeOf(c) \in Trees
BY DEF TypeOK, Trees, TreeOf

\* A tick leaves vRuntime in its window and the state a state.
LEMMA UpdType ==
    ASSUME TypeOK, NEW c \in CPU, UpdCurThdState(c)
    PROVE  vRuntime' \in [Thread -> 0 .. VWindow] /\ state' \in [Thread -> States]
<1>1. Charged(c) \in [Thread -> 0 .. VWindow]
  BY BoundAssumption DEF TypeOK, Charged
<1>2. \A s \in States : SetNeedSchedule(s) \in States
  BY DEF States, SetNeedSchedule, MustSchedule, Running, NeedSchedule, Idle, Ready, Sleep,
         NeedFree, Free, NeedPreempt
<1> QED BY <1>1, <1>2 DEF UpdCurThdState, TypeOK

\* The operations under task_sche_pause keep the types of what they change.
LEMMA DoType ==
    ASSUME TypeOK, NEW c \in CPU, NEW r \in WaitReq, Do(c, r)
    PROVE  SchedTypeOK'
<1> DEFINE t == r.thd
<1>1. t \in Thread  BY DEF WaitReq
<1>2. SyncVRuntime(c, t) => vRuntime' \in [Thread -> 0 .. VWindow]
  BY <1>1 DEF TypeOK, SyncVRuntime
<1>3. ASSUME NEW tree \in TreeIns(TreeOf(c), vRuntime', t), SetTree(c, tree)
      PROVE  thds' \in [CPU -> Seq(Thread)] /\ left' \in [CPU -> Thread \union {None}]
  BY <1>1, <1>3, TreeOfType, TreeInsType, SetTreeType
<1>0. SchedTypeOK  BY DEF TypeOK, SchedTypeOK
<1>4. CASE LaunchThd(c, t)
  BY <1>0, <1>2, <1>3, <1>4 DEF LaunchThd, SchedTypeOK
<1>5. CASE WakeThd(c, t)
  <2>1. thds' \in [CPU -> Seq(Thread)] /\ left' \in [CPU -> Thread \union {None}]
    BY <1>0, <1>3, <1>5 DEF WakeThd, SchedTypeOK
  <2>2. state' \in [Thread -> States]
    BY <1>0, <1>1, <1>5 DEF WakeThd, SchedTypeOK, States
  <2>3. sleepThds' \in [CPU -> SUBSET Thread]
    <3>1. sleepThds \in [CPU -> SUBSET Thread]  BY <1>0 DEF SchedTypeOK
    <3>2. sleepThds' = sleepThds \/ sleepThds' = [sleepThds EXCEPT ![c] = @ \ {t}]
      BY <1>5 DEF WakeThd
    <3> QED BY <3>1, <3>2
  <2> QED BY <1>0, <1>2, <1>5, <2>1, <2>2, <2>3 DEF WakeThd, SchedTypeOK
<1>6. CASE PreemptThd(c, t)
  <2>1. SetTree(c, TreeDel(TreeOf(c), t))
          => thds' \in [CPU -> Seq(Thread)] /\ left' \in [CPU -> Thread \union {None}]
    BY <1>1, TreeOfType, TreeDelType, SetTreeType
  <2>2. thds' \in [CPU -> Seq(Thread)] /\ left' \in [CPU -> Thread \union {None}]
    BY <1>0, <1>6, <2>1 DEF PreemptThd, SchedTypeOK
  <2>3. sleepThds' \in [CPU -> SUBSET Thread]
    BY <1>0, <1>6 DEF PreemptThd, SchedTypeOK
  <2>4. Append(rdyPreemptThds[c], t) \in Seq(Thread)
    BY <1>0, <1>1 DEF SchedTypeOK
  <2>5. rdyPreemptThds' \in [CPU -> Seq(Thread)]
    BY <1>0, <1>6, <2>4 DEF PreemptThd, SchedTypeOK
  <2>6. state' \in [Thread -> States]
    BY <1>0, <1>1, <1>6 DEF PreemptThd, SchedTypeOK, States
  <2> QED BY <1>2, <1>6, <2>2, <2>3, <2>5, <2>6 DEF PreemptThd, SchedTypeOK
<1> QED BY <1>4, <1>5, <1>6 DEF Do

\* So does a switch to a thread n with n taken from the tree or not.
LEMMA SwitchType ==
    ASSUME TypeOK, NEW c \in CPU, NEW n \in Thread, NEW tree \in Trees,
           SwitchTo(c, n, tree)
    PROVE  /\ cur' \in [CPU -> Thread]
           /\ state' \in [Thread -> States]
           /\ thds' \in [CPU -> Seq(Thread)]
           /\ left' \in [CPU -> Thread \union {None}]
           /\ sleepThds' \in [CPU -> SUBSET Thread]
           /\ freeThds' \in [CPU -> Seq(Thread)]
<1> DEFINE t == cur[c]
<1>1. t \in Thread  BY DEF TypeOK
<1>2. ASSUME NEW new \in TreeIns(tree, vRuntime, t), SetTree(c, new)
      PROVE  thds' \in [CPU -> Seq(Thread)] /\ left' \in [CPU -> Thread \union {None}]
  BY <1>1, <1>2, TreeInsType, SetTreeType
<1>3. SetTree(c, tree)
        => thds' \in [CPU -> Seq(Thread)] /\ left' \in [CPU -> Thread \union {None}]
  BY SetTreeType
<1>4. thds' \in [CPU -> Seq(Thread)] /\ left' \in [CPU -> Thread \union {None}]
  BY <1>2, <1>3 DEF SwitchTo
<1>5. state' \in [Thread -> States]
  <2>1. PICK new \in {Sleep, Free, Idle} : state' = [state EXCEPT ![n] = Running, ![t] = new]
    BY DEF SwitchTo
  <2>2. state \in [Thread -> States] /\ Running \in States /\ new \in States  BY DEF TypeOK, States
  <2> QED BY <1>1, <2>1, <2>2
<1>6. cur' \in [CPU -> Thread]
  BY DEF SwitchTo, TypeOK
<1>7. sleepThds' \in [CPU -> SUBSET Thread]
  <2>1. sleepThds \in [CPU -> SUBSET Thread]  BY DEF TypeOK
  <2> QED BY <1>1, <2>1 DEF SwitchTo
<1>8. freeThds' \in [CPU -> Seq(Thread)]
  <2>1. freeThds \in [CPU -> Seq(Thread)]  BY DEF TypeOK
  <2>2. Append(freeThds[c], t) \in Seq(Thread)  BY <1>1, <2>1
  <2> QED BY <2>1, <2>2 DEF SwitchTo
<1> QED BY <1>4, <1>5, <1>6, <1>7, <1>8

\* A request queue that gets one more is a request queue.
LEMMA SendReqType ==
    ASSUME TypeOK, NEW t \in Thread, NEW op \in Ops, SendReq(t, op)
    PROVE  reqs' \in [CPU -> Seq(WaitReq)]
<1>1. [thd |-> t, op |-> op] \in WaitReq  BY DEF WaitReq
<1> QED BY <1>1, CpuOfType DEF TypeOK, SendReq

\* Every variable has its type, whatever the interleaving of threads and
\* interrupt handlers of all CPUs.
LEMMA TypeInit == Init => TypeOK
<1> SUFFICES ASSUME Init PROVE TypeOK
  OBVIOUS
<1>1. CPU \subseteq Thread
  BY CpuAssumption, ThreadAssumption DEF CPU, Thread
<1>2. /\ cur \in [CPU -> Thread]
      /\ state \in [Thread -> States]
      /\ vRuntime \in [Thread -> 0 .. VWindow]
  BY <1>1, BoundAssumption DEF Init, States
<1>3. /\ thds \in [CPU -> Seq(Thread)]
      /\ left \in [CPU -> Thread \union {None}]
      /\ rdyPreemptThds \in [CPU -> Seq(Thread)]
      /\ sleepThds \in [CPU -> SUBSET Thread]
      /\ freeThds \in [CPU -> Seq(Thread)]
      /\ reqs \in [CPU -> Seq(WaitReq)]
  BY DEF Init
<1>4. /\ hand \in [CPU -> WaitReq \union {NoHand}]
      /\ msk \in [CPU -> Int]
      /\ irq \in [CPU -> Irqs]
      /\ ipi \in [CPU -> BOOLEAN]
  BY DEF Init, Irqs
<1>5. /\ pc \in [Thread -> PcSet]
      /\ reqWait \in [Thread -> Int]
      /\ req \in [Thread -> [Ctx -> Stage]]
  BY DEF Init, PcSet, Stage
<1>6. /\ signal \in [Thread -> {"none", "pending", "handled", "handledPaused"}]
      /\ handler \in [Thread -> BOOLEAN]
      /\ working \in [Thread -> BOOLEAN]
      /\ thdCnt \in NCpu .. NThd
  BY CpuAssumption, ThreadAssumption DEF Init
<1> QED BY <1>2, <1>3, <1>4, <1>5, <1>6 DEF TypeOK

\* A jump of one thread keeps the type of pc.
LEMMA GotoType ==
    ASSUME TypeOK, NEW t \in Thread, NEW l \in PcSet, Goto(t, l)
    PROVE  pc' \in [Thread -> PcSet]
BY DEF TypeOK, Goto

\* task_sche_pause and task_sche_resume keep the type of task_sche_msk.
LEMMA MskType ==
    ASSUME TypeOK, NEW c \in CPU,
           msk' = [msk EXCEPT ![c] = @ + 1] \/ msk' = [msk EXCEPT ![c] = @ - 1]
    PROVE  msk' \in [CPU -> Int]
BY DEF TypeOK

\* Every step of a thread, an idle thread or an interrupt handler keeps the
\* types: the one operation under way at a CPU is the one its idle thread took
\* from the request queue or the current thread's launch.
LEMMA TypeStep == TypeOK /\ [Next]_vars => TypeOK'
<1> SUFFICES ASSUME TypeOK, [Next]_vars PROVE TypeOK'
  OBVIOUS
<1> USE DEF queues
<1>1. ASSUME NEW c \in CPU, NEW t \in Thread, Launch(c, t)
      PROVE  TypeOK'
  <2> DEFINE u == thdCnt
  <2>1. u \in Thread /\ thdCnt' \in NCpu .. NThd
    BY <1>1, CpuAssumption, ThreadAssumption DEF Launch, TypeOK, Thread
  <2>2. vRuntime' \in [Thread -> 0 .. VWindow]
    BY <1>1, <2>1 DEF Launch, SyncVRuntime, TypeOK
  <2>3. reqs' \in [CPU -> Seq(WaitReq)]
    BY <1>1, <2>1, SendReqType DEF Launch, TypeOK, Ops
  <2>4. hand' \in [CPU -> WaitReq \union {NoHand}]
    <3>1. [thd |-> u, op |-> "launch"] \in WaitReq  BY <2>1 DEF WaitReq, Ops
    <3>2. hand \in [CPU -> WaitReq \union {NoHand}]  BY DEF TypeOK
    <3> QED BY <1>1, <3>1, <3>2 DEF Launch
  <2>5. pc' \in [Thread -> PcSet]
    <3>1. "op" \in PcSet  BY DEF PcSet
    <3>2. pc' = pc \/ Goto(t, "op")  BY <1>1 DEF Launch
    <3> QED BY <3>1, <3>2, GotoType DEF TypeOK
  <2>6. msk' \in [CPU -> Int]
    <3>1. msk' = msk \/ msk' = [msk EXCEPT ![c] = @ + 1]  BY <1>1 DEF Launch
    <3> QED BY <3>1, MskType DEF TypeOK
  <2> QED BY <1>1, <2>1, <2>2, <2>3, <2>4, <2>5, <2>6 DEF Launch, TypeOK
<1>2. ASSUME NEW c \in CPU, NEW t \in Thread, Operate(c, t)
      PROVE  TypeOK'
  <2>1. hand[c] \in WaitReq
    BY <1>2 DEF Operate, Do, NoHand, TypeOK, Here
  <2>2. SchedTypeOK'
    BY <1>2, <2>1, DoType DEF Operate
  <2>3. hand' \in [CPU -> WaitReq \union {NoHand}] /\ pc' \in [Thread -> PcSet]
    <3>1. pc' \in [Thread -> PcSet]  BY <1>2, GotoType DEF Operate, PcSet, TypeOK
    <3>2. hand' \in [CPU -> WaitReq \union {NoHand}]  BY <1>2 DEF Operate, TypeOK
    <3> QED BY <3>1, <3>2
  <2> QED BY <1>2, <2>2, <2>3 DEF Operate, SchedTypeOK, TypeOK
<1>3. ASSUME NEW c \in CPU, NEW t \in Thread,
             \/ Resume(c, t) \/ Submit(c, t) \/ Insert(c, t)
             \/ WaitReqInc(c, t) \/ WaitReqReturn(c, t)
      PROVE  TypeOK'
  <2>1. CASE Resume(c, t)
    <3>1. PICK l \in {"wait", "loop", "run"} : Goto(t, l)  BY <2>1 DEF Resume
    <3>2. l \in PcSet  BY DEF PcSet
    <3>3. pc' \in [Thread -> PcSet]  BY <3>1, <3>2, GotoType
    <3>4. msk' \in [CPU -> Int]  BY <2>1, MskType DEF Resume
    <3> QED BY <2>1, <3>3, <3>4 DEF Resume, TypeOK
  <2>2. CASE Submit(c, t)
    <3>1. pc' \in [Thread -> PcSet]  BY <2>2, GotoType DEF Submit, PcSet
    <3>2. msk' \in [CPU -> Int]  BY <2>2, MskType DEF Submit
    <3> QED BY <2>2, <3>1, <3>2 DEF Submit, TypeOK
  <2>5. CASE Insert(c, t)
    <3>1. PICK l \in {"inserted", "resume"} : Goto(t, l)  BY <2>5 DEF Insert
    <3>2. l \in PcSet  BY DEF PcSet
    <3>3. pc' \in [Thread -> PcSet]  BY <3>1, <3>2, GotoType
    <3>4. req' \in [Thread -> [Ctx -> Stage]]
      <4>1. PICK k \in Ctx : req' = [req EXCEPT ![t][k] = "sent"] \/ req' = req
        BY <2>5 DEF Insert, Ctx
      <4>2. req \in [Thread -> [Ctx -> Stage]] /\ "sent" \in Stage
        BY DEF TypeOK, Stage
      <4> QED BY <4>1, <4>2
    <3> QED BY <2>5, <3>3, <3>4 DEF Insert, TypeOK
  <2>3. CASE WaitReqInc(c, t)
    <3>1. pc' \in [Thread -> PcSet]  BY <2>3, GotoType DEF WaitReqInc, PcSet
    <3>2. reqWait' \in [Thread -> Int]  BY <2>3 DEF WaitReqInc, TypeOK
    <3> QED BY <2>3, <3>1, <3>2 DEF WaitReqInc, TypeOK
  <2>4. CASE WaitReqReturn(c, t)
    <3>1. pc' \in [Thread -> PcSet]  BY <2>4, GotoType DEF WaitReqReturn, PcSet
    <3>2. req' \in [Thread -> [Ctx -> Stage]]  BY <2>4 DEF WaitReqReturn, TypeOK, Ctx, Stage
    <3> QED BY <2>4, <3>1, <3>2 DEF WaitReqReturn, TypeOK
  <2> QED BY <1>3, <2>1, <2>2, <2>3, <2>4, <2>5
<1>4. ASSUME NEW c \in CPU, NEW t \in Thread,
             WaitReqYield(c, t) \/ Yield(c, t) \/ ExitYield(c, t)
      PROVE  TypeOK'
  <2>1. vRuntime' \in [Thread -> 0 .. VWindow] /\ state' \in [Thread -> States]
    BY <1>4, UpdType DEF WaitReqYield, Yield, ExitYield
  <2>2. pc' \in [Thread -> PcSet]
    <3>1. PICK l \in {"testIpi", "runIpi", "exitIpi"} : Goto(t, l)
      BY <1>4 DEF WaitReqYield, Yield, ExitYield
    <3>2. l \in PcSet  BY DEF PcSet
    <3> QED BY <3>1, <3>2, GotoType
  <2> QED BY <1>4, <2>1, <2>2 DEF WaitReqYield, Yield, ExitYield, TypeOK
<1>5. ASSUME NEW c \in CPU, NEW t \in Thread,
             SendIpi(c, t) \/ Exit(c, t) \/ ExitResume(c, t) \/ SetHandler(c, t) \/ GiveUp(c, t)
      PROVE  TypeOK'
  <2>1. CASE SendIpi(c, t)
    <3>1. pc' \in [Thread -> PcSet]
      BY <2>1, GotoType DEF SendIpi, PcSet
    <3> QED BY <2>1, <3>1 DEF SendIpi, TypeOK
  <2>2. CASE Exit(c, t)
    <3>1. pc' \in [Thread -> PcSet]  BY <2>2, GotoType DEF Exit, PcSet
    <3>2. msk' \in [CPU -> Int] /\ state' \in [Thread -> States]
      BY <2>2 DEF Exit, TypeOK, States
    <3> QED BY <2>2, <3>1, <3>2 DEF Exit, TypeOK
  <2>3. CASE ExitResume(c, t)
    <3>1. pc' \in [Thread -> PcSet] /\ msk' \in [CPU -> Int]
      BY <2>3, GotoType, MskType DEF ExitResume, PcSet
    <3> QED BY <2>3, <3>1 DEF ExitResume, TypeOK
  <2>4. CASE SetHandler(c, t)
    BY <2>4 DEF SetHandler, TypeOK
  <2>5. CASE GiveUp(c, t)
    <3>1. pc' \in [Thread -> PcSet]
      BY <2>5, GotoType DEF GiveUp, PcSet
    <3>2. reqWait' \in [Thread -> Int]
      BY <2>5 DEF GiveUp, TypeOK
    <3> QED BY <2>5, <3>1, <3>2 DEF GiveUp, TypeOK
  <2> QED BY <1>5, <2>1, <2>2, <2>3, <2>4, <2>5
<1>6. ASSUME NEW c \in CPU, IdleStep(c)
      PROVE  TypeOK'
  <2>1. c \in Thread
    BY CpuAssumption, ThreadAssumption DEF CPU, Thread
  <2>2. CASE TakeReq(c)
    <3>1. reqs[c] \in Seq(WaitReq) /\ reqs[c] # <<>>
      BY <2>2 DEF TakeReq, TypeOK
    <3>2. Head(reqs[c]) \in WaitReq /\ Tail(reqs[c]) \in Seq(WaitReq)
      BY <3>1, HeadTailProperties
    <3>3. pc' \in [Thread -> PcSet] /\ msk' \in [CPU -> Int]
      BY <2>1, <2>2, GotoType, MskType DEF TakeReq, PcSet
    <3>4. hand' \in [CPU -> WaitReq \union {NoHand}] /\ reqs' \in [CPU -> Seq(WaitReq)]
      BY <2>2, <3>2 DEF TakeReq, TypeOK
    <3> QED BY <2>2, <3>3, <3>4 DEF TakeReq, TypeOK
  <2>3. CASE StartReap(c)
    <3>1. pc' \in [Thread -> PcSet] /\ msk' \in [CPU -> Int]
      BY <2>1, <2>3, GotoType, MskType DEF StartReap, PcSet
    <3> QED BY <2>3, <3>1 DEF StartReap, TypeOK
  <2>4. CASE Reap(c)
    <3>1. Tail(freeThds[c]) \in Seq(Thread)
      BY <2>4, HeadTailProperties DEF Reap, TypeOK
    <3> QED BY <2>4, <3>1 DEF Reap, TypeOK
  <2>5. CASE EndReap(c)
    <3>1. pc' \in [Thread -> PcSet] /\ msk' \in [CPU -> Int]
      BY <2>1, <2>5, GotoType, MskType DEF EndReap, PcSet
    <3> QED BY <2>5, <3>1 DEF EndReap, TypeOK
  <2> QED BY <1>6, <2>2, <2>3, <2>4, <2>5 DEF IdleStep
<1>7. ASSUME NEW c \in CPU, NEW h \in Irqs, Taken(c, h)
      PROVE  /\ irq' \in [CPU -> Irqs]
             /\ pc' \in [Thread -> PcSet]
  BY <1>7 DEF Taken, TypeOK, PcSet
<1>8. ASSUME NEW c \in CPU, ScheIntr(c) \/ (c = 0 /\ TimerIntr)
      PROVE  TypeOK'
  <2>1. vRuntime' \in [Thread -> 0 .. VWindow] /\ state' \in [Thread -> States]
    BY <1>8, UpdType DEF ScheIntr, TimerIntr
  <2>2. /\ irq' \in [CPU -> Irqs]
        /\ pc' \in [Thread -> PcSet]
    BY <1>7, <1>8 DEF ScheIntr, TimerIntr, Irqs
  <2>3. ipi' \in [CPU -> BOOLEAN]
    BY <1>8 DEF ScheIntr, TimerIntr, TypeOK
  <2> QED BY <1>8, <2>1, <2>2, <2>3 DEF ScheIntr, TimerIntr, TypeOK
<1>9. ASSUME NEW c \in CPU, NEW t \in Thread, NEW k \in Ctx, RespIntr(c, t, k)
      PROVE  TypeOK'
  <2>1. /\ irq' \in [CPU -> Irqs]
        /\ pc' \in [Thread -> PcSet]
    BY <1>7, <1>9 DEF RespIntr, Irqs, Ops
  <2>2. req' \in [Thread -> [Ctx -> Stage]] /\ reqWait' \in [Thread -> Int]
    BY <1>9 DEF RespIntr, TypeOK, Stage
  <2> QED BY <1>9, <2>1, <2>2 DEF RespIntr, TypeOK
<1>10. ASSUME NEW c \in CPU, ConnectIntr(c) \/ \E t \in Thread : DisconnectIntr(c, t)
       PROVE  TypeOK'
  <2>1. CASE ConnectIntr(c)
    <3>1. thdCnt \in Thread /\ thdCnt' \in NCpu .. NThd
      BY <2>1, CpuAssumption, ThreadAssumption DEF ConnectIntr, TypeOK, Thread, Client
    <3>2. /\ irq' \in [CPU -> Irqs]
          /\ pc' \in [Thread -> PcSet]
      BY <1>7, <2>1, <3>1 DEF ConnectIntr, Irqs, Ops
    <3>3. vRuntime' \in [Thread -> 0 .. VWindow]
      BY <2>1 DEF ConnectIntr, SyncVRuntime, TypeOK
    <3> QED BY <2>1, <3>1, <3>2, <3>3 DEF ConnectIntr, TypeOK
  <2>2. ASSUME NEW t \in Thread, DisconnectIntr(c, t)
        PROVE  TypeOK'
    <3>1. /\ irq' \in [CPU -> Irqs]
          /\ pc' \in [Thread -> PcSet]
      BY <1>7, <2>2 DEF DisconnectIntr, Irqs, Ops
    <3>2. signal' \in [Thread -> {"none", "pending", "handled", "handledPaused"}]
      BY <2>2 DEF DisconnectIntr, TypeOK
    <3> QED BY <2>2, <3>1, <3>2 DEF DisconnectIntr, TypeOK
  <2> QED BY <1>10, <2>1, <2>2
<1>11. ASSUME NEW c \in CPU, IrqStep(c)
       PROVE  TypeOK'
  <2>1. CASE FinishReqTest(c)
    <3>1. irq[c] \in [at : {"test"} \union Ops, thd : Thread]
      BY <2>1 DEF FinishReqTest, TypeOK, Irqs, Ret, NoIrq
    <3>2. [at |-> "preempt", thd |-> irq[c].thd] \in Irqs /\ Ret \in Irqs
      BY <3>1 DEF Irqs, Ops
    <3>3. irq' \in [CPU -> Irqs]
      BY <2>1, <3>2 DEF FinishReqTest, TypeOK
    <3> QED BY <2>1, <3>3 DEF FinishReqTest, TypeOK
  <2>2. CASE IntrOp(c)
    <3> DEFINE t == irq[c].thd
               op == irq[c].at
    <3>1. t \in Thread /\ op \in Ops
      <4>1. op \in Ops /\ irq[c] \in Irqs  BY <2>2 DEF IntrOp, TypeOK
      <4>2. irq[c] # Ret /\ irq[c] # NoIrq  BY <4>1 DEF Ret, NoIrq, Ops
      <4> QED BY <4>1, <4>2 DEF Irqs
    <3>2. irq' \in [CPU -> Irqs]
      BY <2>2 DEF IntrOp, TypeOK, Irqs
    <3>3. CASE CpuOf(t) = c /\ Do(c, [thd |-> t, op |-> op]) /\ UNCHANGED reqs
      <4>1. [thd |-> t, op |-> op] \in WaitReq
        BY <3>1 DEF WaitReq
      <4>2. SchedTypeOK'
        BY <3>3, <4>1, DoType
      <4> QED BY <2>2, <3>2, <3>3, <4>2 DEF IntrOp, SchedTypeOK, TypeOK
    <3>4. CASE SendReq(t, op) /\ UNCHANGED <<state, vRuntime, queues>>
      <4>1. reqs' \in [CPU -> Seq(WaitReq)]
        BY <3>1, <3>4, SendReqType
      <4> QED BY <2>2, <3>2, <3>4, <4>1 DEF IntrOp, TypeOK
    <3> QED BY <2>2, <3>3, <3>4 DEF IntrOp
  <2>3. CASE RunHandler(c)
    <3>1. irq' \in [CPU -> Irqs] /\ pc' \in [Thread -> PcSet]
      BY <2>3 DEF RunHandler, TypeOK, Goto, PcSet, Irqs
    <3> QED BY <2>3, <3>1 DEF RunHandler, TypeOK
  <2>4. CASE Restore(c)
    BY <2>4 DEF Restore, TypeOK, Irqs
  <2>5. CASE TrySche(c)
    <3> DEFINE first == left[c]
    <3>1. irq' \in [CPU -> Irqs]
      BY <2>5 DEF TrySche, TypeOK, Irqs
    <3>2. ASSUME NEW n \in Thread, NEW tree \in Trees, SwitchTo(c, n, tree),
                 rdyPreemptThds' \in [CPU -> Seq(Thread)]
          PROVE  TypeOK'
      <4>1. /\ cur' \in [CPU -> Thread]
            /\ state' \in [Thread -> States]
            /\ thds' \in [CPU -> Seq(Thread)]
            /\ left' \in [CPU -> Thread \union {None}]
            /\ sleepThds' \in [CPU -> SUBSET Thread]
            /\ freeThds' \in [CPU -> Seq(Thread)]
        BY <3>2, SwitchType
      <4> QED BY <2>5, <3>1, <3>2, <4>1 DEF TrySche, TypeOK
    <3>3. CASE /\ rdyPreemptThds[c] # <<>>
               /\ rdyPreemptThds' = [rdyPreemptThds EXCEPT ![c] = Tail(@)]
               /\ SwitchTo(c, Head(rdyPreemptThds[c]), TreeOf(c))
      <4>1. rdyPreemptThds \in [CPU -> Seq(Thread)]  BY DEF TypeOK
      <4>2. Head(rdyPreemptThds[c]) \in Thread /\ Tail(rdyPreemptThds[c]) \in Seq(Thread)
        BY <3>3, <4>1, HeadTailProperties
      <4> QED BY <3>2, <3>3, <4>1, <4>2, TreeOfType
    <3>4. CASE /\ first # None
               /\ SwitchTo(c, first, TreeDel(TreeOf(c), first))
               /\ UNCHANGED rdyPreemptThds
      <4>1. first \in Thread /\ rdyPreemptThds \in [CPU -> Seq(Thread)]
        BY <3>4 DEF TypeOK
      <4> QED BY <3>2, <3>4, <4>1, TreeOfType, TreeDelType
    <3>5. CASE /\ state' = [state EXCEPT ![cur[c]] = Running]
               /\ UNCHANGED <<cur, queues, freeThds>>
      BY <2>5, <3>1, <3>5 DEF TrySche, TypeOK, States
    <3> QED BY <2>5, <3>3, <3>4, <3>5 DEF TrySche
  <2> QED BY <1>11, <2>1, <2>2, <2>3, <2>4, <2>5 DEF IrqStep
<1>12. CASE UNCHANGED vars
  BY <1>12 DEF vars, TypeOK
<1>13. 0 \in CPU /\ IrqCpu \subseteq CPU /\ Client \subseteq Thread /\ Unplug \subseteq Client
  BY CpuAssumption, ThreadAssumption DEF CPU, Client, Thread
<1> QED
  BY <1>1, <1>2, <1>3, <1>4, <1>5, <1>6, <1>8, <1>9, <1>10, <1>11, <1>12, <1>13
  DEF Next, ThreadStep

\* Type correctness: on any number of CPUs, no reachable state has a request,
\* an operation or a queue entry that is not a thread's, a state outside
\* task_state_*, or an interrupt handler at an unknown point.
THEOREM TypeCorrect == Safety => []TypeOK
<1> QED BY TypeInit, TypeStep, PTL DEF Safety

-----------------------------------------------------------------------------
(* The balance of requests, and the refinement of BlockingRequest.         *)

\* Only a thread whose device is disconnected has a signal.
HandlerInv == \A t \in Plain : signal[t] = "none" /\ working[t] = FALSE

\* The counter of a thread outside its handler is the requests it counted
\* minus those answered; it is inside a call exactly while one is open.
Counted(t)  == IF pc[t] \in {"test", "testIpi"} THEN 1 ELSE 0
Answered(t) == IF req[t]["main"] = "answered" THEN 1 ELSE 0
Balanced(t) ==
    /\ pc[t] # "giveUp"
    /\ req[t]["handler"] = "none"
    /\ InCall(t) <=> req[t]["main"] # "none"
    /\ reqWait[t] = Counted(t) - Answered(t)
RequestInv == \A t \in Client : working[t] = FALSE => Balanced(t)

\* No thread starts with a signal.
LEMMA HandlerInit == Init => HandlerInv
BY CpuAssumption, ThreadAssumption DEF Init, HandlerInv, Plain, Client, Thread

\* A signal is sent by a disconnect only, and only a thread with one starts its
\* handler.
LEMMA HandlerStep == TypeOK /\ HandlerInv /\ [Next]_vars => HandlerInv'
<1> SUFFICES ASSUME TypeOK, HandlerInv, [Next]_vars, NEW t \in Plain
             PROVE  signal'[t] = "none" /\ working'[t] = FALSE
  BY DEF HandlerInv
<1>0. signal[t] = "none" /\ working[t] = FALSE /\ t \notin Unplug
  BY DEF HandlerInv, Plain
<1>1. ASSUME NEW c \in CPU, NEW u \in Thread, ThreadStep(c, u)
      PROVE  signal'[t] = "none" /\ working'[t] = FALSE
  <2>1. UNCHANGED <<signal, working>>
    BY <1>1 DEF ThreadStep, Launch, Operate, Resume, Submit, Insert, WaitReqInc, WaitReqYield,
                WaitReqReturn, Yield, SendIpi, Exit, ExitResume, ExitYield, SetHandler, GiveUp
  <2> QED BY <1>0, <2>1
<1>2. ASSUME NEW c \in CPU, IrqStep(c)
      PROVE  signal'[t] = "none" /\ working'[t] = FALSE
  <2>1. CASE RunHandler(c)
    BY <1>0, <2>1 DEF RunHandler, Signalled, TypeOK
  <2> QED BY <1>0, <1>2, <2>1 DEF IrqStep, FinishReqTest, IntrOp, Restore, TrySche
<1>3. ASSUME NEW c \in CPU, NEW u \in Unplug, DisconnectIntr(c, u)
      PROVE  signal'[t] = "none" /\ working'[t] = FALSE
  BY <1>0, <1>3 DEF DisconnectIntr, TypeOK
<1>4. CASE UNCHANGED <<signal, working>>
  BY <1>0, <1>4
<1>5. IrqCpu \subseteq CPU
  BY CpuAssumption
<1> QED BY <1>1, <1>2, <1>3, <1>4, <1>5
    DEF Next, IdleStep, TakeReq, StartReap, Reap, EndReap, ScheIntr, TimerIntr,
        RespIntr, ConnectIntr, vars

\* No thread starts inside a request.
LEMMA RequestInit == Init => RequestInv
<1> SUFFICES ASSUME Init, NEW t \in Client PROVE Balanced(t)
  BY DEF RequestInv
<1>1. t \in Thread /\ ~IsIdle(t) /\ t # 0
  BY CpuAssumption, ThreadAssumption DEF Client, Thread, IsIdle
<1>2. pc[t] = "run" /\ reqWait[t] = 0 /\ req[t] = [k \in Ctx |-> "none"]
  BY <1>1 DEF Init
<1> QED BY <1>2 DEF Balanced, InCall, Counted, Answered, Ctx

\* A step that moves a thread only between points outside its calls, and
\* touches neither its requests nor its counter, keeps it balanced.
LEMMA BalancedKept ==
    ASSUME NEW t, Balanced(t), reqWait'[t] = reqWait[t], req'[t] = req[t],
           \/ pc'[t] = pc[t]
           \/ {pc[t], pc'[t]} \subseteq {"test", "testIpi"}
           \/ {pc[t], pc'[t]} \subseteq {"inserted", "wait"}
           \/ {pc[t], pc'[t]} \cap {"inserted", "wait", "test", "testIpi", "giveUp"} = {}
    PROVE  Balanced(t)'
BY DEF Balanced, InCall, Counted, Answered

\* A step that is no part of a request: it touches no request, no counter and
\* no handler, and moves threads only outside their calls, or inside one.
Outside == PcSet \ {"inserted", "wait", "test", "testIpi", "giveUp"}
Quiet ==
    /\ req' = req /\ reqWait' = reqWait /\ working' = working
    /\ \A t \in Client : \/ pc'[t] = pc[t]
                         \/ {pc[t], pc'[t]} \subseteq {"test", "testIpi"}
                         \/ {pc[t], pc'[t]} \subseteq {"inserted", "wait"}
                         \/ {pc[t], pc'[t]} \subseteq Outside

\* One thread that jumps outside its calls or inside one is such a step.
LEMMA QuietGoto ==
    ASSUME TypeOK, NEW t \in Thread, NEW l, Goto(t, l), UNCHANGED <<req, reqWait, working>>,
           \/ t \notin Client
           \/ {pc[t], l} \subseteq {"test", "testIpi"}
           \/ {pc[t], l} \subseteq {"inserted", "wait"}
           \/ {pc[t], l} \subseteq Outside
    PROVE  Quiet
BY DEF Quiet, Goto, TypeOK, Client, Thread

\* An interrupt moves the thread it interrupts only past its hlt.
LEMMA QuietTaken ==
    ASSUME TypeOK, NEW c \in CPU, NEW h, Taken(c, h)
    PROVE  \A t \in Client : pc'[t] = pc[t] \/ {pc[t], pc'[t]} \subseteq Outside
<1> SUFFICES ASSUME NEW t \in Client
             PROVE  pc'[t] = pc[t] \/ {pc[t], pc'[t]} \subseteq Outside
  OBVIOUS
<1>1. t \in Thread /\ cur[c] \in Thread
  BY CpuAssumption, ThreadAssumption DEF Client, Thread, TypeOK
<1>2. pc'[t] = IF t = cur[c] /\ pc[t] = "hlt" THEN "loop" ELSE pc[t]
  BY <1>1 DEF Taken, TypeOK
<1> QED BY <1>2 DEF Outside, PcSet

\* The steps that matter to requests are these six; all others are quiet.
RequestStep ==
    \/ \E c \in CPU, t \in Thread :
          Insert(c, t) \/ WaitReqInc(c, t) \/ WaitReqReturn(c, t) \/ GiveUp(c, t)
    \/ \E c \in CPU, t \in Client, k \in Ctx : RespIntr(c, t, k)
    \/ \E c \in CPU : RunHandler(c)

\* A step is one of the six or quiet.
LEMMA QuietOrRequest == TypeOK /\ [Next]_vars => Quiet \/ RequestStep
<1> SUFFICES ASSUME TypeOK, [Next]_vars, ~RequestStep PROVE Quiet
  OBVIOUS
<1>0. CPU \subseteq Thread \ Client
  BY CpuAssumption, ThreadAssumption DEF CPU, Thread, Client
<1>1. ASSUME NEW c \in CPU, NEW t \in Thread, ThreadStep(c, t)
      PROVE  Quiet
  <2>1. CASE Launch(c, t)
    <3>1. UNCHANGED <<req, reqWait, working>> /\ (UNCHANGED pc \/ Goto(t, "op"))
      BY <2>1 DEF Launch
    <3>2. {pc[t], "op"} \subseteq Outside
      BY <2>1 DEF Launch, Outside, PcSet
    <3> QED BY <3>1, <3>2, QuietGoto DEF Quiet
  <2>2. CASE \/ Operate(c, t) \/ Submit(c, t) \/ ExitResume(c, t) \/ Yield(c, t)
             \/ Exit(c, t) \/ ExitYield(c, t)
    <3>1. UNCHANGED <<req, reqWait, working>>
            /\ \E l \in Outside : Goto(t, l) /\ {pc[t], l} \subseteq Outside
      BY <2>2 DEF Operate, Submit, ExitResume, Yield, Exit, ExitYield, Outside, PcSet
    <3> QED BY <3>1, QuietGoto
  <2>3. CASE Resume(c, t)
    <3> DEFINE l == IF IsIdle(t) THEN "loop" ELSE "run"
    <3>1. UNCHANGED <<req, reqWait, working>>
      BY <2>3 DEF Resume
    <3>2. CASE pc[t] = "inserted" /\ Goto(t, "wait")
      BY <3>1, <3>2, QuietGoto
    <3>3. CASE pc[t] = "resume" /\ Goto(t, l)
      <4>1. {"resume", l} \subseteq Outside
        BY DEF Outside, PcSet
      <4> QED BY <3>1, <3>3, <4>1, QuietGoto
    <3> QED BY <2>3, <3>2, <3>3 DEF Resume
  <2>4. CASE WaitReqYield(c, t)
    <3>1. UNCHANGED <<req, reqWait, working>>
            /\ Goto(t, "testIpi") /\ {pc[t], "testIpi"} \subseteq {"test", "testIpi"}
      BY <2>4 DEF WaitReqYield
    <3> QED BY <3>1, QuietGoto
  <2>5. CASE SendIpi(c, t)
    <3>1. UNCHANGED <<req, reqWait, working>>
            /\ \E l \in PcSet : /\ Goto(t, l)
                                /\ \/ {pc[t], l} \subseteq {"test", "testIpi"}
                                   \/ {pc[t], l} \subseteq Outside
      BY <2>5 DEF SendIpi, Outside, PcSet
    <3> QED BY <3>1, QuietGoto
  <2>6. CASE SetHandler(c, t)
    BY <2>6 DEF SetHandler, Quiet
  <2> QED BY <1>1, <2>1, <2>2, <2>3, <2>4, <2>5, <2>6 DEF ThreadStep, RequestStep
<1>2. ASSUME NEW c \in CPU, IdleStep(c)
      PROVE  Quiet
  <2>1. c \in Thread /\ c \notin Client  BY <1>0
  <2>2. UNCHANGED <<req, reqWait, working>> /\ (UNCHANGED pc \/ \E l \in PcSet : Goto(c, l))
    BY <1>2 DEF IdleStep, TakeReq, StartReap, Reap, EndReap, PcSet
  <2> QED BY <2>1, <2>2, QuietGoto DEF Quiet
<1>3. ASSUME NEW c \in CPU, IrqStep(c)
      PROVE  Quiet
  BY <1>3 DEF IrqStep, RequestStep, FinishReqTest, IntrOp, Restore, TrySche, Quiet
<1>4. ASSUME NEW c \in CPU, NEW h, Taken(c, h), UNCHANGED <<req, reqWait, working>>
      PROVE  Quiet
  BY <1>4, QuietTaken DEF Quiet
<1>5. 0 \in CPU /\ IrqCpu \subseteq CPU
  BY CpuAssumption DEF CPU
<1>6. CASE UNCHANGED vars
  BY <1>6 DEF vars, Quiet
<1>7. ASSUME NEW c \in CPU, ScheIntr(c) PROVE Quiet
  BY <1>4, <1>7 DEF ScheIntr
<1>8. CASE TimerIntr
  BY <1>4, <1>5, <1>8 DEF TimerIntr
<1>9. ASSUME NEW c \in CPU, ConnectIntr(c) PROVE Quiet
  BY <1>4, <1>9 DEF ConnectIntr
<1>10. ASSUME NEW c \in CPU, NEW t \in Unplug, DisconnectIntr(c, t) PROVE Quiet
  BY <1>4, <1>10 DEF DisconnectIntr
<1> QED BY <1>1, <1>2, <1>3, <1>5, <1>6, <1>7, <1>8, <1>9, <1>10 DEF Next, RequestStep

\* A quiet step keeps every thread balanced.
LEMMA QuietBalanced == RequestInv /\ Quiet => RequestInv'
<1> SUFFICES ASSUME RequestInv, Quiet, NEW t \in Client, working'[t] = FALSE
             PROVE  Balanced(t)'
  BY DEF RequestInv
<1>1. Balanced(t)
  BY DEF RequestInv, Quiet
<1> QED BY <1>1, BalancedKept DEF Quiet, Outside

\* The counter is kept: an insertion opens a call, waitReq counts it, a response
\* that is taken before or after the count undoes it, and the call is left
\* when the counter is back at 0.  A thread in its handler is not balanced: it
\* gave up the count of its open request and not the request.
LEMMA RequestInvStep == TypeOK /\ RequestInv /\ [Next]_vars => RequestInv'
<1> SUFFICES ASSUME TypeOK, RequestInv, RequestStep PROVE RequestInv'
  BY QuietOrRequest, QuietBalanced
<1> SUFFICES ASSUME NEW t \in Client, working'[t] = FALSE PROVE Balanced(t)'
  BY DEF RequestInv
<1>0. t \in Thread
  BY CpuAssumption DEF Client, Thread
<1>1. ASSUME NEW c \in CPU, NEW u \in Thread,
             Insert(c, u) \/ WaitReqInc(c, u) \/ WaitReqReturn(c, u) \/ GiveUp(c, u)
      PROVE  Balanced(t)'
  <2>1. Balanced(t)
    BY <1>1 DEF Insert, WaitReqInc, WaitReqReturn, GiveUp, RequestInv
  <2>2. CASE t # u
    <3>1. pc'[t] = pc[t] /\ reqWait'[t] = reqWait[t] /\ req'[t] = req[t]
      BY <1>0, <1>1, <2>2 DEF Insert, WaitReqInc, WaitReqReturn, GiveUp, Goto, TypeOK
    <3> QED BY <2>1, <3>1, BalancedKept
  <2>3. CASE t = u /\ Insert(c, u)
    <3>1. CASE Goto(t, "inserted")
      <4>1. pc[t] = "insert" /\ pc'[t] = "inserted" /\ reqWait' = reqWait
        BY <1>0, <2>3, <3>1 DEF Insert, Goto, TypeOK
      <4>2. working[t] = FALSE /\ pc'[t] # "resume"
        BY <2>3, <4>1 DEF Insert
      <4>3. req' = [req EXCEPT ![t]["main"] = "sent"]
        BY <1>0, <2>3, <4>2 DEF Insert, Goto, TypeOK
      <4>4. req'[t]["main"] = "sent" /\ req'[t]["handler"] = req[t]["handler"]
        BY <1>0, <4>3 DEF TypeOK, Ctx
      <4> QED BY <2>1, <4>1, <4>4 DEF Balanced, InCall, Counted, Answered
    <3>2. CASE UNCHANGED req /\ Goto(t, "resume")
      <4>1. pc[t] = "insert" /\ pc'[t] = "resume" /\ reqWait' = reqWait
        BY <1>0, <2>3, <3>2 DEF Insert, Goto, TypeOK
      <4> QED BY <2>1, <3>2, <4>1, BalancedKept
    <3> QED BY <2>3, <3>1, <3>2 DEF Insert
  <2>4. CASE t = u /\ WaitReqInc(c, u)
    <3>1. pc[t] = "wait" /\ pc'[t] = "test" /\ req' = req /\ reqWait'[t] = reqWait[t] + 1
      BY <1>0, <2>4 DEF WaitReqInc, Goto, TypeOK
    <3> QED BY <2>1, <3>1 DEF Balanced, InCall, Counted, Answered
  <2>5. CASE t = u /\ WaitReqReturn(c, u)
    <3>1. pc[t] = "test" /\ pc'[t] = "run" /\ reqWait[t] <= 0 /\ reqWait' = reqWait
            /\ req' = [req EXCEPT ![t]["main"] = IF @ = "answered" THEN "none" ELSE @]
      BY <1>0, <2>5 DEF WaitReqReturn, Goto, TypeOK
    <3>2. reqWait[t] = 0 /\ req[t]["main"] = "answered"
      BY <2>1, <3>1 DEF Balanced, Counted, Answered
    <3>3. req'[t]["main"] = "none" /\ req'[t]["handler"] = req[t]["handler"]
      BY <1>0, <3>1, <3>2 DEF TypeOK, Ctx
    <3> QED BY <2>1, <3>1, <3>2, <3>3 DEF Balanced, InCall, Counted, Answered
  <2>6. CASE t = u /\ GiveUp(c, u)
    BY <2>1, <2>6 DEF GiveUp, Balanced
  <2> QED BY <1>1, <2>2, <2>3, <2>4, <2>5, <2>6
<1>2. ASSUME NEW c \in CPU, NEW u \in Client, NEW k \in Ctx, RespIntr(c, u, k)
      PROVE  Balanced(t)'
  <2>1. Balanced(t)
    BY <1>2 DEF RespIntr, RequestInv
  <2>2. pc'[t] = pc[t] \/ {pc[t], pc'[t]} \subseteq Outside
    BY <1>2, QuietTaken DEF RespIntr
  <2>3. CASE t # u
    <3>1. reqWait'[t] = reqWait[t] /\ req'[t] = req[t]
      BY <1>0, <1>2, <2>3 DEF RespIntr, TypeOK
    <3> QED BY <2>1, <2>2, <3>1, BalancedKept DEF Outside
  <2>4. CASE t = u
    <3>1. k = "main" /\ req[t]["main"] = "sent"
      BY <1>2, <2>1, <2>4 DEF RespIntr, Balanced, Ctx
    <3>2. reqWait'[t] = reqWait[t] - 1 /\ req' = [req EXCEPT ![t]["main"] = "answered"]
      BY <1>0, <1>2, <2>4, <3>1 DEF RespIntr, TypeOK
    <3>3. req'[t]["main"] = "answered" /\ req'[t]["handler"] = req[t]["handler"]
      BY <1>0, <3>2 DEF TypeOK, Ctx
    <3>4. pc'[t] = pc[t]
      BY <2>1, <2>2, <3>1 DEF Balanced, InCall, Outside
    <3> QED BY <2>1, <3>1, <3>2, <3>3, <3>4 DEF Balanced, InCall, Counted, Answered
  <2> QED BY <2>3, <2>4
<1>3. ASSUME NEW c \in CPU, RunHandler(c)
      PROVE  Balanced(t)'
  <2>1. t # cur[c] /\ working[t] = FALSE
    BY <1>0, <1>3 DEF RunHandler, TypeOK
  <2>2. pc'[t] = pc[t] /\ reqWait' = reqWait /\ req' = req
    BY <1>0, <1>3, <2>1 DEF RunHandler, Goto, TypeOK
  <2> QED BY <2>1, <2>2, BalancedKept DEF RequestInv
<1> QED BY <1>1, <1>2, <1>3 DEF RequestStep

\* Outside of signal handlers a thread's counter is, at every moment, its open
\* count minus the answer that came: no schedule of responses, ticks, IPIs and
\* switches on any number of CPUs makes task_sche_waitReq return early.
THEOREM RequestBalance == Safety => []RequestInv
<1>1. TypeOK /\ RequestInv /\ [Next]_vars => RequestInv'
  BY RequestInvStep
<1> QED BY <1>1, RequestInit, TypeCorrect, PTL DEF Safety

-----------------------------------------------------------------------------
(* Refinement of BlockingRequest. *)

\* No request is open initially.
LEMMA BlockingInit == Init => Blocking!Init
<1> SUFFICES ASSUME Init PROVE Phase = [t \in Plain |-> "none"]
  BY DEF Blocking!Init
<1>1. \A t \in Plain : t \in Thread /\ ~IsIdle(t) /\ t # 0
  BY CpuAssumption, ThreadAssumption DEF Plain, Client, Thread, IsIdle
<1> QED BY <1>1 DEF Init, Phase, InCall

\* A step that leaves the requests alone and moves no thread into or out of a
\* call stutters.
LEMMA PhaseKept ==
    ASSUME req' = req, \A t \in Plain : InCall(t)' <=> InCall(t)
    PROVE  Phase' = Phase
BY DEF Phase

\* An insertion is the abstract Send, a completion interrupt the abstract Answer,
\* the end of task_sche_waitReq the abstract Return; all else stutters.
LEMMA BlockingStep ==
    TypeOK /\ HandlerInv /\ RequestInv /\ [Next]_vars => [Blocking!Next]_Phase
<1> SUFFICES ASSUME TypeOK, HandlerInv, RequestInv, [Next]_vars
             PROVE  Blocking!Next \/ Phase' = Phase
  OBVIOUS
<1>0. \A t \in Plain : t \in Thread /\ t \in Client /\ ~working[t] /\ Balanced(t)
  BY CpuAssumption DEF Plain, Client, Thread, HandlerInv, RequestInv
<1>1. CASE Quiet
  <2>1. \A t \in Plain : InCall(t)' <=> InCall(t)
    BY <1>0, <1>1 DEF Quiet, InCall, Outside
  <2> QED BY <1>1, <2>1, PhaseKept DEF Quiet
<1>2. ASSUME NEW c \in CPU, NEW u \in Thread \ Plain,
             Insert(c, u) \/ WaitReqInc(c, u) \/ WaitReqReturn(c, u) \/ GiveUp(c, u)
      PROVE  Phase' = Phase
  <2>1. \A t \in Plain : pc'[t] = pc[t] /\ req'[t] = req[t]
    BY <1>0, <1>2 DEF Insert, WaitReqInc, WaitReqReturn, GiveUp, Goto, TypeOK
  <2> QED BY <2>1 DEF Phase, InCall
<1>3. ASSUME NEW c \in CPU, NEW u \in Plain, Insert(c, u)
      PROVE  Blocking!Next \/ Phase' = Phase
  <2>1. CASE Goto(u, "inserted")
    <3>1. pc[u] = "insert" /\ pc' = [pc EXCEPT ![u] = "inserted"] /\ pc'[u] # "resume"
      BY <1>0, <1>3, <2>1 DEF Insert, Goto, TypeOK
    <3>2. req' = [req EXCEPT ![u]["main"] = "sent"]
      BY <1>0, <1>3, <3>1 DEF Insert, Goto, TypeOK
    <3>3. Phase[u] = "none"
      BY <3>1 DEF Phase, InCall
    <3>4. Phase' = [Phase EXCEPT ![u] = "sent"]
      <4>1. req'[u]["main"] = "sent" /\ InCall(u)'
        BY <1>0, <3>1, <3>2 DEF InCall, TypeOK, Ctx
      <4>2. \A t \in Plain \ {u} : req'[t] = req[t] /\ InCall(t)' = InCall(t)
        BY <1>0, <3>1, <3>2 DEF InCall, TypeOK
      <4> QED BY <4>1, <4>2 DEF Phase
    <3>5. Blocking!Send(u)
      BY <3>3, <3>4 DEF Blocking!Send
    <3> QED BY <3>5 DEF Blocking!Next
  <2>2. CASE UNCHANGED req /\ Goto(u, "resume")
    <3>1. pc[u] = "insert" /\ pc' = [pc EXCEPT ![u] = "resume"]
      BY <1>3, <2>2 DEF Insert, Goto
    <3>2. \A t \in Plain : InCall(t)' <=> InCall(t)
      BY <1>0, <3>1 DEF InCall, TypeOK
    <3> QED BY <2>2, <3>2, PhaseKept
  <2> QED BY <1>3, <2>1, <2>2 DEF Insert
<1>4. ASSUME NEW c \in CPU, NEW u \in Plain, WaitReqInc(c, u)
      PROVE  Phase' = Phase
  <2>1. pc[u] = "wait" /\ pc' = [pc EXCEPT ![u] = "test"] /\ req' = req
    BY <1>4 DEF WaitReqInc, Goto
  <2>2. \A t \in Plain : InCall(t)' <=> InCall(t)
    BY <1>0, <2>1 DEF InCall, TypeOK
  <2> QED BY <2>1, <2>2, PhaseKept
<1>5. ASSUME NEW c \in CPU, NEW u \in Plain, WaitReqReturn(c, u)
      PROVE  Blocking!Next
  <2>1. pc[u] = "test" /\ pc' = [pc EXCEPT ![u] = "run"] /\ reqWait[u] <= 0
          /\ req' = [req EXCEPT ![u]["main"] = IF @ = "answered" THEN "none" ELSE @]
    BY <1>0, <1>5 DEF WaitReqReturn, Goto
  <2>2. Phase[u] = "answered"
    BY <1>0, <2>1 DEF Phase, InCall, Balanced, Counted, Answered
  <2>3. Phase' = [Phase EXCEPT ![u] = "none"]
    <3>1. ~InCall(u)'
      BY <1>0, <2>1 DEF InCall, TypeOK
    <3>2. \A t \in Plain \ {u} : req'[t] = req[t] /\ InCall(t)' = InCall(t)
      BY <1>0, <2>1 DEF InCall, TypeOK
    <3> QED BY <3>1, <3>2 DEF Phase
  <2>4. Blocking!Return(u)
    BY <2>2, <2>3 DEF Blocking!Return
  <2> QED BY <2>4 DEF Blocking!Next
<1>6. ASSUME NEW c \in CPU, NEW u \in Plain, GiveUp(c, u)
      PROVE  FALSE
  BY <1>0, <1>6 DEF GiveUp, Balanced
<1>7. ASSUME NEW c \in CPU, NEW u \in Client, NEW k \in Ctx, RespIntr(c, u, k)
      PROVE  Blocking!Next \/ Phase' = Phase
  <2>1. \A t \in Plain : InCall(t)' <=> InCall(t)
    <3>1. \A t \in Client : pc'[t] = pc[t] \/ {pc[t], pc'[t]} \subseteq Outside
      BY <1>7, QuietTaken DEF RespIntr
    <3> QED BY <1>0, <3>1 DEF InCall, Outside
  <2>2. CASE u \notin Plain
    <3>1. \A t \in Plain : req'[t] = req[t]
      BY <1>0, <1>7, <2>2 DEF RespIntr, TypeOK
    <3> QED BY <2>1, <3>1 DEF Phase
  <2>3. CASE u \in Plain
    <3>1. k = "main" /\ req[u]["main"] = "sent" /\ InCall(u)
      BY <1>0, <1>7, <2>3 DEF RespIntr, Balanced, Ctx
    <3>2. req'[u]["main"] = "answered" /\ \A t \in Plain \ {u} : req'[t] = req[t]
      BY <1>0, <1>7, <2>3, <3>1 DEF RespIntr, TypeOK
    <3>3. Phase[u] = "sent" /\ Phase' = [Phase EXCEPT ![u] = "answered"]
      BY <2>1, <2>3, <3>1, <3>2 DEF Phase
    <3>4. Blocking!Answer(u)
      BY <3>3 DEF Blocking!Answer
    <3> QED BY <2>3, <3>4 DEF Blocking!Next
  <2> QED BY <2>2, <2>3
<1>8. ASSUME NEW c \in CPU, RunHandler(c)
      PROVE  Phase' = Phase
  <2>1. cur[c] \notin Plain
    BY <1>8 DEF RunHandler, Signalled, HandlerInv
  <2>2. req' = req /\ \A t \in Plain : pc'[t] = pc[t]
    BY <1>0, <1>8, <2>1 DEF RunHandler, Goto, TypeOK
  <2> QED BY <2>2, PhaseKept DEF InCall
<1> QED BY <1>1, <1>2, <1>3, <1>4, <1>5, <1>6, <1>7, <1>8, QuietOrRequest DEF RequestStep

\* The scheduler implements the blocking request: for every number of CPUs and
\* threads, the call of a thread that gets no signal returns once, and only after
\* the response.
THEOREM ImplementsBlocking == Safety => BlockingSafety
<1>1. Init => Blocking!Init
  BY BlockingInit
<1>2. TypeOK /\ HandlerInv /\ RequestInv /\ [Next]_vars => [Blocking!Next]_Phase
  BY BlockingStep
<1>3. TypeOK /\ HandlerInv /\ [Next]_vars => HandlerInv'
  BY HandlerStep
<1> QED BY <1>1, <1>2, <1>3, HandlerInit, TypeCorrect, RequestBalance, PTL
        DEF Safety, BlockingSafety, Blocking!Safety
=============================================================================
