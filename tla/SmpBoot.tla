------------------------------- MODULE SmpBoot ------------------------------
(***************************************************************************)
(* The start of the CPUs, from the MADT to the first launch of a thread:   *)
(* hal_cpu_init and hal_cpu_enableAP on the boot CPU, apboot.S, the path   *)
(* of head.S for the others and hal_init_initAP on each of them.  A CPU is *)
(* an APIC id; it may need any time for any step, or never start.          *)
(***************************************************************************)
EXTENDS Integers, Sequences, FiniteSets

CONSTANTS
    Apic,           \* APIC ids
    Bsp,            \* hal_cpu_bspApicId
    Madt            \* tables: sequences of entries of type 0, an id and
                    \* whether it can be enabled

\* An id has one entry in a table.
ASSUME BootAssumption ==
    /\ Bsp \in Apic
    /\ \A m \in Madt :
          /\ m \in Seq([id : Apic, ok : BOOLEAN])
          /\ \A i, j \in DOMAIN m : m[i].id = m[j].id => i = j

VARIABLES
    madt,
    bsp,            \* the step of hal_init_init the boot CPU is at
    idx,            \* its loop over the table, then that over the CPUs
    cpu,            \* cpu_bsAddr: APIC id, task register, pid of the idle
                    \* thread and cpu_state
    ap,             \* where the other CPUs are
    sipi,           \* those that were sent the start-up message
    low,            \* the page below 1M holds the trampoline
    idMap,          \* virtual 0 is mapped to physical 0
    task_thdCnt,
    sche,           \* _sche_enable
    first           \* the pid and the CPU of the first thread

smpVars == <<madt, bsp, idx, cpu, ap, sipi, low, idMap, task_thdCnt, sche, first>>

NoPid == -1
AP == Apic \ {Bsp}
cpu_num == Len(cpu)

BootInit ==
    /\ madt \in Madt
    /\ bsp = "parse" /\ idx = 1
    /\ cpu = <<>>
    /\ ap = [a \in AP |-> "off"] /\ sipi = {}
    /\ low = FALSE /\ idMap = TRUE
    /\ task_thdCnt = 0 /\ sche = FALSE
    /\ first = [pid |-> NoPid, cpuId |-> 0]

IdxOf(id) == CHOOSE i \in DOMAIN cpu : cpu[i].id = id

-----------------------------------------------------------------------------
\* _registerCPU: the boot CPU keeps the task register of head.S, the others
\* get the next ones.
Registered(id) ==
    [id |-> id, pid |-> NoPid, active |-> FALSE,
     trIdx |-> IF id = Bsp THEN 10 ELSE 12 + 2 * Cardinality({i \in DOMAIN cpu : cpu[i].id # Bsp})]

\* _parseMadt: the CPUs that can be enabled, in the order of the table.
ParseMadt ==
    /\ bsp = "parse" /\ idx <= Len(madt)
    /\ cpu' = IF madt[idx].ok THEN Append(cpu, Registered(madt[idx].id)) ELSE cpu
    /\ idx' = idx + 1
    /\ UNCHANGED <<madt, bsp, ap, sipi, low, idMap, task_thdCnt, sche, first>>

\* hal_cpu_init: without a boot CPU in the list it halts.
FindBsp ==
    /\ bsp = "parse" /\ idx > Len(madt)
    /\ bsp' = IF \E i \in DOMAIN cpu : cpu[i].id = Bsp THEN "timer" ELSE "hung"
    /\ idx' = 1
    /\ UNCHANGED <<madt, cpu, ap, sipi, low, idMap, task_thdCnt, sche, first>>

InitTimer ==
    /\ bsp = "timer" /\ bsp' \in {"init", "hung"}
    /\ UNCHANGED <<madt, idx, cpu, ap, sipi, low, idMap, task_thdCnt, sche, first>>

\* INIT to all but itself, whether they can be enabled or not.
SendInit ==
    /\ bsp = "init" /\ bsp' = "copy"
    /\ ap' = [a \in AP |-> "init"]
    /\ UNCHANGED <<madt, idx, cpu, sipi, low, idMap, task_thdCnt, sche, first>>

\* The memory map may have no page below 1M for the trampoline.
CopyBoot ==
    /\ bsp = "copy"
    /\ \/ bsp' = "send" /\ low' = TRUE
       \/ bsp' = "hung" /\ UNCHANGED low
    /\ UNCHANGED <<madt, idx, cpu, ap, sipi, idMap, task_thdCnt, sche, first>>

\* The start-up message twice: the second finds the CPU started.
SendStartup ==
    /\ bsp = "send" /\ idx <= cpu_num /\ cpu[idx].id # Bsp
    /\ bsp' = "wait" /\ sipi' = sipi \union {cpu[idx].id}
    /\ UNCHANGED <<madt, idx, cpu, ap, low, idMap, task_thdCnt, sche, first>>

SkipSelf ==
    /\ bsp = "send" /\ idx <= cpu_num /\ cpu[idx].id = Bsp
    /\ idx' = idx + 1
    /\ UNCHANGED <<madt, bsp, cpu, ap, sipi, low, idMap, task_thdCnt, sche, first>>

\* The wait for cpu_state, without a limit.  Mutant: no wait.
IsUpAlways(i) == TRUE
IsUp(i) == cpu[i].active
AwaitActive ==
    /\ bsp = "wait" /\ IsUp(idx)
    /\ bsp' = "send" /\ idx' = idx + 1
    /\ UNCHANGED <<madt, cpu, ap, sipi, low, idMap, task_thdCnt, sche, first>>

Restore ==
    /\ bsp = "send" /\ idx > cpu_num
    /\ bsp' = "clear" /\ low' = FALSE
    /\ UNCHANGED <<madt, idx, cpu, ap, sipi, idMap, task_thdCnt, sche, first>>

ClearMap ==
    /\ bsp = "clear" /\ bsp' = "pid" /\ idMap' = FALSE
    /\ UNCHANGED <<madt, idx, cpu, ap, sipi, low, task_thdCnt, sche, first>>

\* task_initIdleThd: the pid is read, later the counter goes on.
TakePid(id) == cpu' = [cpu EXCEPT ![IdxOf(id)].pid = task_thdCnt]

BspPid ==
    /\ bsp = "pid" /\ bsp' = "count" /\ TakePid(Bsp)
    /\ UNCHANGED <<madt, idx, ap, sipi, low, idMap, task_thdCnt, sche, first>>
BspCount ==
    /\ bsp = "count" /\ bsp' = "enable" /\ task_thdCnt' = task_thdCnt + 1
    /\ UNCHANGED <<madt, idx, cpu, ap, sipi, low, idMap, sche, first>>

Enable ==
    /\ bsp = "enable" /\ bsp' = "launch" /\ sche' = TRUE
    /\ UNCHANGED <<madt, idx, cpu, ap, sipi, low, idMap, task_thdCnt, first>>

\* task_newThd of init_init, and hal_task_sche_dispatch.
LaunchInit ==
    /\ bsp = "launch" /\ bsp' = "run"
    /\ first' = [pid |-> task_thdCnt, cpuId |-> task_thdCnt % cpu_num]
    /\ task_thdCnt' = task_thdCnt + 1
    /\ UNCHANGED <<madt, idx, cpu, ap, sipi, low, idMap, sche>>

-----------------------------------------------------------------------------
ApStep(a, from, to) == ap[a] = from /\ ap' = [ap EXCEPT ![a] = to]

Start(a) ==
    /\ a \in sipi /\ ApStep(a, "init", "low")
    /\ UNCHANGED <<madt, bsp, idx, cpu, sipi, low, idMap, task_thdCnt, sche, first>>

\* apboot.S, in the page below 1M, to its jump to 1M; then head.S, still at
\* physical addresses, which finds the CPU's record and stack by its id.
Trampoline(a) ==
    /\ ApStep(a, "low", "head")
    /\ UNCHANGED <<madt, bsp, idx, cpu, sipi, low, idMap, task_thdCnt, sche, first>>
HeadS(a) ==
    /\ ApStep(a, "head", "high")
    /\ UNCHANGED <<madt, bsp, idx, cpu, sipi, low, idMap, task_thdCnt, sche, first>>

\* hal_init_initAP: hal_intr_initAP and task_syscall_init cannot fail.
ApPid(a) ==
    /\ ApStep(a, "high", "count") /\ TakePid(a)
    /\ UNCHANGED <<madt, bsp, idx, sipi, low, idMap, task_thdCnt, sche, first>>
ApCount(a) ==
    /\ ApStep(a, "count", "ready") /\ task_thdCnt' = task_thdCnt + 1
    /\ UNCHANGED <<madt, bsp, idx, cpu, sipi, low, idMap, sche, first>>

SetActive(a) ==
    /\ ApStep(a, "ready", "run")
    /\ cpu' = [cpu EXCEPT ![IdxOf(a)].active = TRUE]
    /\ UNCHANGED <<madt, bsp, idx, sipi, low, idMap, task_thdCnt, sche, first>>

BspNext ==
    \/ ParseMadt \/ FindBsp \/ InitTimer \/ SendInit \/ CopyBoot
    \/ SendStartup \/ SkipSelf \/ AwaitActive
    \/ Restore \/ ClearMap \/ BspPid \/ BspCount \/ Enable \/ LaunchInit
ApNext ==
    \E a \in AP :
        Start(a) \/ Trampoline(a) \/ HeadS(a) \/ ApPid(a) \/ ApCount(a) \/ SetActive(a)
BootNext == BspNext \/ ApNext

BootSpec == BootInit /\ [][BootNext]_smpVars

-----------------------------------------------------------------------------
BootTypeOK ==
    /\ idx \in 1 .. Cardinality(Apic) + 1
    /\ bsp \in {"parse", "timer", "init", "copy", "send", "wait", "clear", "pid", "count",
                "enable", "launch", "run", "hung"}
    /\ ap \in [AP -> {"off", "init", "low", "head", "high", "count", "ready", "run"}]
    /\ \A i \in DOMAIN cpu : cpu[i].pid \in -1 .. Cardinality(Apic) - 1

(***************************************************************************)
(* What a CPU that starts stands on is there and is its own: the           *)
(* trampoline, which has one stack and one set of vectors for all, runs on *)
(* one CPU at a time and is not restored under it, the identity map lasts  *)
(* until every CPU is out of it, no two idle threads have one pid or two   *)
(* CPUs one task register, and when scheduling is enabled every CPU has    *)
(* its idle thread; the first thread gets a pid of its own and a CPU that  *)
(* runs (hal_cpu_enableAP, hal_init_initAP, task_initIdleThd).             *)
(***************************************************************************)
At(places) == {a \in AP : ap[a] \in places}

BootOrder ==
    /\ At({"low"}) # {} => low
    /\ Cardinality(At({"low"})) <= 1
    /\ At({"low", "head"}) # {} => idMap
    /\ \A i, j \in DOMAIN cpu : i # j =>
          /\ cpu[i].pid # cpu[j].pid \/ cpu[i].pid = NoPid
          /\ cpu[i].trIdx # cpu[j].trIdx
    /\ sche => \A i \in DOMAIN cpu : cpu[i].pid # NoPid /\ (cpu[i].id # Bsp => cpu[i].active)
    /\ first.pid # NoPid =>
          first.cpuId < cpu_num /\ \A i \in DOMAIN cpu : cpu[i].pid < first.pid
=============================================================================
