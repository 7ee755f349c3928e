--------------------------- MODULE HardwareProof ----------------------------
(***************************************************************************)
(* Proofs about the hardware the kernel starts and drives: the CPUs        *)
(* (SmpBoot), for any number of them and any table, the page, the stack    *)
(* and the map they share at their start having one CPU at a time on them; *)
(* the controllers (BringUp), whatever they offer and in any order of      *)
(* their steps; the queues of an NVMe controller (Nvme), for any number of *)
(* threads, queues and requests and every length of the queues: the        *)
(* handler and the controller stay in step over the phase tags of a        *)
(* completion queue; a ring of an xHCI controller and its event ring       *)
(* (XhciRing), for any threads, requests and lengths: driver, controller   *)
(* and handler stay in step over the cycle bits of both.                   *)
(***************************************************************************)
EXTENDS SmpBoot, BringUp, Nvme, XhciRing, DataLemmas

-----------------------------------------------------------------------------
(* The invariant.                                                          *)
(*   The boot CPU starts the CPUs of the list in its order and waits for   *)
(* each: those before idx run, the one at idx may be anywhere on its way,  *)
(* those after it were not sent the message.                               *)

Steps == {"parse", "timer", "init", "copy", "send", "wait", "clear", "pid", "count",
          "enable", "launch", "run", "hung"}
Places == {"off", "init", "low", "head", "high", "count", "ready", "run"}
Cpus == [id : Apic, pid : Nat \union {NoPid}, active : BOOLEAN, trIdx : Nat]

BootTypes ==
    /\ madt \in Madt
    /\ bsp \in Steps /\ idx \in Nat \ {0}
    /\ cpu \in Seq(Cpus)
    /\ ap \in [AP -> Places] /\ sipi \in SUBSET AP
    /\ low \in BOOLEAN /\ idMap \in BOOLEAN /\ sche \in BOOLEAN
    /\ task_thdCnt \in Nat
    /\ first \in [pid : Nat \union {NoPid}, cpuId : Nat]

\* The list: distinct CPUs, those of the table before idx while it is read.
Others == {i \in DOMAIN cpu : cpu[i].id # Bsp}
ListInv ==
    /\ \A i, j \in DOMAIN cpu : i # j => cpu[i].id # cpu[j].id /\ cpu[i].trIdx # cpu[j].trIdx
    /\ \A i \in Others : cpu[i].trIdx >= 12 /\ cpu[i].trIdx < 12 + 2 * Cardinality(Others)
    /\ \A i \in DOMAIN cpu : cpu[i].id = Bsp => cpu[i].trIdx = 10
    /\ bsp = "parse" => \A i \in DOMAIN cpu :
          /\ cpu[i].pid = NoPid /\ ~cpu[i].active
          /\ \E j \in DOMAIN madt : j < idx /\ madt[j].id = cpu[i].id
    /\ bsp \notin {"parse", "hung"} => \E i \in DOMAIN cpu : cpu[i].id = Bsp

\* The CPUs that were sent the message, and how far they are.
Started == {"count", "ready", "run"}
StartInv ==
    /\ bsp = "parse" => ap = [a \in AP |-> "off"]
    /\ bsp \in {"parse", "timer", "init", "copy", "hung"} => sipi = {}
    /\ bsp \in {"timer", "init", "copy"} => idx = 1
    /\ bsp = "wait" => idx \in DOMAIN cpu
    /\ bsp \in {"clear", "pid", "count", "enable", "launch", "run"} => idx > cpu_num
    /\ \A a \in sipi : \E i \in DOMAIN cpu :
          cpu[i].id = a /\ (i < idx \/ (i = idx /\ bsp = "wait"))
    /\ \A a \in AP : ap[a] \notin {"off", "init"} => a \in sipi
    /\ bsp \notin {"parse", "hung"} =>
          \A i \in Others : i < idx => cpu[i].active
    /\ \A i \in Others :
          /\ cpu[i].active <=> ap[cpu[i].id] = "run"
          /\ cpu[i].pid # NoPid <=> ap[cpu[i].id] \in Started

\* What they share while they start, and when scheduling starts.
ShareInv ==
    /\ bsp = "wait" => low
    /\ bsp = "send" => low
    /\ bsp \notin {"pid", "count", "enable", "launch", "run"} => idMap
    /\ sche => bsp \in {"launch", "run"}

\* The pids: the counter is above all but the one that is taken and not yet
\* counted.
Counting(id) == IF id = Bsp THEN bsp = "count" ELSE ap[id] = "count"
PidInv ==
    /\ \A i \in DOMAIN cpu : cpu[i].id = Bsp =>
          (cpu[i].pid # NoPid <=> bsp \in {"count", "enable", "launch", "run"})
    /\ \A i \in DOMAIN cpu : cpu[i].pid # NoPid =>
          cpu[i].pid < task_thdCnt \/ (cpu[i].pid = task_thdCnt /\ Counting(cpu[i].id))
    /\ \A i, j \in DOMAIN cpu : i # j => cpu[i].pid # cpu[j].pid \/ cpu[i].pid = NoPid
    /\ first.pid # NoPid =>
          /\ bsp = "run" /\ first.cpuId < cpu_num
          /\ \A i \in DOMAIN cpu : cpu[i].pid < first.pid

BootInv == BootTypes /\ ListInv /\ StartInv /\ ShareInv /\ PidInv
-----------------------------------------------------------------------------
(* The list and its records. *)

\* Writing a field of a record of the list.
LEMMA PidSet ==
    ASSUME NEW c \in Seq(Cpus), NEW k \in DOMAIN c, NEW p \in Nat
    PROVE  LET d == [c EXCEPT ![k].pid = p] IN
           /\ d \in Seq(Cpus) /\ DOMAIN d = DOMAIN c /\ Len(d) = Len(c)
           /\ \A i \in DOMAIN c :
                 /\ d[i].id = c[i].id /\ d[i].active = c[i].active /\ d[i].trIdx = c[i].trIdx
                 /\ d[i].pid = IF i = k THEN p ELSE c[i].pid
<1> DEFINE e == [c[k] EXCEPT !.pid = p]
           d == [c EXCEPT ![k] = e]
<1>1. DOMAIN c = 1 .. Len(c) /\ c[k] \in Cpus  BY LenProperties, ElementOfSeq
<1>2. e \in Cpus /\ e.id = c[k].id /\ e.active = c[k].active /\ e.trIdx = c[k].trIdx /\ e.pid = p
  BY <1>1 DEF Cpus
<1> HIDE DEF e
<1>3. /\ d \in Seq(Cpus) /\ Len(d) = Len(c)
      /\ \A j \in 1 .. Len(c) : d[j] = IF j = k THEN e ELSE c[j]
  BY <1>1, <1>2, ExceptSeq
<1>4. DOMAIN d = 1 .. Len(c)  BY <1>3, LenProperties
<1>5. [c EXCEPT ![k].pid = p] = d  BY DEF e
<1> HIDE DEF d
<1> QED BY <1>1, <1>2, <1>3, <1>4, <1>5

\* Marking a CPU as running.
LEMMA ActiveSet ==
    ASSUME NEW c \in Seq(Cpus), NEW k \in DOMAIN c
    PROVE  LET d == [c EXCEPT ![k].active = TRUE] IN
           /\ d \in Seq(Cpus) /\ DOMAIN d = DOMAIN c /\ Len(d) = Len(c)
           /\ \A i \in DOMAIN c :
                 /\ d[i].id = c[i].id /\ d[i].pid = c[i].pid /\ d[i].trIdx = c[i].trIdx
                 /\ d[i].active = IF i = k THEN TRUE ELSE c[i].active
<1> DEFINE e == [c[k] EXCEPT !.active = TRUE]
           d == [c EXCEPT ![k] = e]
<1>1. DOMAIN c = 1 .. Len(c) /\ c[k] \in Cpus  BY LenProperties, ElementOfSeq
<1>2. e \in Cpus /\ e.id = c[k].id /\ e.pid = c[k].pid /\ e.trIdx = c[k].trIdx /\ e.active = TRUE
  BY <1>1 DEF Cpus
<1> HIDE DEF e
<1>3. /\ d \in Seq(Cpus) /\ Len(d) = Len(c)
      /\ \A j \in 1 .. Len(c) : d[j] = IF j = k THEN e ELSE c[j]
  BY <1>1, <1>2, ExceptSeq
<1>4. DOMAIN d = 1 .. Len(c)  BY <1>3, LenProperties
<1>5. [c EXCEPT ![k].active = TRUE] = d  BY DEF e
<1> HIDE DEF d
<1> QED BY <1>1, <1>2, <1>3, <1>4, <1>5

\* The records of the list.
LEMMA Listed ==
    ASSUME BootTypes
    PROVE  /\ DOMAIN cpu = 1 .. Len(cpu) /\ Len(cpu) \in Nat
           /\ \A i \in DOMAIN cpu : cpu[i] \in Cpus
           /\ \A i \in DOMAIN cpu : cpu[i].id \in Apic /\ cpu[i].pid \in Nat \union {NoPid}
                                    /\ cpu[i].active \in BOOLEAN /\ cpu[i].trIdx \in Nat
<1>1. cpu \in Seq(Cpus)  BY DEF BootTypes
<1>2. DOMAIN cpu = 1 .. Len(cpu) /\ Len(cpu) \in Nat  BY <1>1, LenProperties
<1>3. \A i \in DOMAIN cpu : cpu[i] \in Cpus  BY <1>1, <1>2, ElementOfSeq
<1> QED BY <1>2, <1>3 DEF Cpus

\* An id finds its record.
LEMMA Found ==
    ASSUME ListInv, NEW i \in DOMAIN cpu
    PROVE  IdxOf(cpu[i].id) = i
<1>1. \A j \in DOMAIN cpu : cpu[j].id = cpu[i].id => j = i  BY DEF ListInv
<1> QED BY <1>1 DEF IdxOf

\* A CPU that was sent the message and does not run yet is the one that the
\* boot CPU waits for.
LEMMA Awaited ==
    ASSUME BootInv, NEW a \in AP, a \in sipi \/ ap[a] \notin {"off", "init"}, ap[a] # "run"
    PROVE  bsp = "wait" /\ idx \in Others /\ cpu[idx].id = a /\ IdxOf(a) = idx
<1>1. a \in sipi /\ bsp \notin {"parse", "hung"}  BY DEF BootInv, StartInv
<1>2. PICK i \in DOMAIN cpu : cpu[i].id = a /\ (i < idx \/ (i = idx /\ bsp = "wait"))
  BY <1>1 DEF BootInv, StartInv
<1>3. i \in Others  BY <1>2 DEF Others, AP
<1>4. ~cpu[i].active  BY <1>2, <1>3 DEF BootInv, StartInv
<1>5. i = idx /\ bsp = "wait"  BY <1>1, <1>2, <1>3, <1>4 DEF BootInv, StartInv
<1> QED BY <1>2, <1>3, <1>5, Found DEF BootInv

\* After the loop every CPU of the list runs.
LEMMA AllRun ==
    ASSUME BootInv, bsp \in {"clear", "pid", "count", "enable", "launch", "run"}
    PROVE  \A i \in Others :
              cpu[i].active /\ ap[cpu[i].id] = "run" /\ cpu[i].pid # NoPid
<1>1. \A i \in DOMAIN cpu : i < idx
  <2>1. \A i \in DOMAIN cpu : i \in Nat /\ i <= Len(cpu)  BY Listed DEF BootInv
  <2> QED BY <2>1, Listed DEF BootInv, BootTypes, StartInv, cpu_num
<1>2. \A i \in Others : cpu[i].active  BY <1>1 DEF BootInv, StartInv, Others
<1> QED BY <1>2 DEF BootInv, StartInv, Started

-----------------------------------------------------------------------------
(* The steps of the boot CPU. *)

\* The table is read from an empty list.
LEMMA BootInvInit == BootInit => BootInv
<1> SUFFICES ASSUME BootInit PROVE BootInv  OBVIOUS
<1>1. cpu = <<>> /\ cpu \in Seq(Cpus) /\ DOMAIN cpu = {}  BY EmptySeq DEF BootInit
<1>2. BootTypes
  <2>1. first = [pid |-> NoPid, cpuId |-> 0] /\ ap = [a \in AP |-> "off"] /\ sipi = {}  BY DEF BootInit
  <2>2. first \in [pid : Nat \union {NoPid}, cpuId : Nat] /\ ap \in [AP -> Places] /\ sipi \in SUBSET AP
    BY <2>1 DEF Places
  <2>3. bsp \in Steps /\ idx \in Nat \ {0} /\ task_thdCnt \in Nat  BY DEF BootInit, Steps
  <2>4. madt \in Madt  BY DEF BootInit
  <2>5. low \in BOOLEAN /\ idMap \in BOOLEAN /\ sche \in BOOLEAN  BY DEF BootInit
  <2> QED BY <1>1, <2>2, <2>3, <2>4, <2>5 DEF BootTypes
<1>3. ListInv /\ StartInv /\ ShareInv /\ PidInv
  BY <1>1 DEF BootInit, ListInv, StartInv, ShareInv, PidInv, Others
<1> QED BY <1>2, <1>3 DEF BootInv

\* _registerCPU adds a CPU that is not in the list and a task register above
\* those of the list.
LEMMA ParseHeld ==
    ASSUME BootInv, ParseMadt
    PROVE  BootInv'
<1> DEFINE e == Registered(madt[idx].id)
           n == Cardinality(Others)
<1>1. /\ madt \in Seq([id : Apic, ok : BOOLEAN])
      /\ \A i, j \in DOMAIN madt : madt[i].id = madt[j].id => i = j
  BY BootAssumption DEF BootInv, BootTypes
<1>2. DOMAIN madt = 1 .. Len(madt) /\ Len(madt) \in Nat  BY <1>1, LenProperties
<1>3. idx \in DOMAIN madt /\ madt[idx].id \in Apic
  <2>1. idx \in 1 .. Len(madt)  BY <1>2 DEF BootInv, BootTypes, ParseMadt
  <2>2. madt[idx] \in [id : Apic, ok : BOOLEAN]  BY <1>1, <2>1, ElementOfSeq
  <2> QED BY <1>2, <2>1, <2>2
<1>4. IsFiniteSet(Others) /\ n \in Nat
  <2>1. IsFiniteSet(DOMAIN cpu)  BY Listed, FS_Interval DEF BootInv
  <2>2. Others \in SUBSET (DOMAIN cpu)  BY DEF Others
  <2> QED BY <2>1, <2>2, FS_Subset, FS_CardinalityType
<1>5. Others = {i \in DOMAIN cpu : cpu[i].id # Bsp}  BY DEF Others
<1>6. e = [id |-> madt[idx].id, pid |-> NoPid, active |-> FALSE,
           trIdx |-> IF madt[idx].id = Bsp THEN 10 ELSE 12 + 2 * n]
  BY <1>5 DEF Registered
<1>7. e \in Cpus
  <2>1. 12 + 2 * n \in Nat  BY <1>4
  <2> QED BY <1>3, <1>6, <2>1 DEF Cpus
<1> HIDE DEF n, e
<1>8. /\ cpu \in Seq(Cpus) /\ Len(cpu) \in Nat /\ DOMAIN cpu = 1 .. Len(cpu)
      /\ \A i \in DOMAIN cpu : cpu[i] \in Cpus
  BY Listed DEF BootInv, BootTypes
<1>9. bsp = "parse" /\ bsp' = "parse" /\ idx' = idx + 1 /\ madt' = madt
      /\ sipi = {} /\ sipi' = {} /\ ap' = ap /\ UNCHANGED <<low, idMap, task_thdCnt, sche, first>>
  BY DEF ParseMadt, BootInv, StartInv
<1>10. CASE madt[idx].ok
  <2>1. cpu' = Append(cpu, e)  BY <1>10 DEF ParseMadt, e
  <2>2. /\ cpu' \in Seq(Cpus) /\ Len(cpu') = Len(cpu) + 1
        /\ \A i \in 1 .. Len(cpu) : cpu'[i] = cpu[i]
        /\ cpu'[Len(cpu) + 1] = e
    BY <1>7, <1>8, <2>1, AppendProperties
  <2>3. DOMAIN cpu' = 1 .. Len(cpu) + 1  BY <2>2, LenProperties
  <2> DEFINE k == Len(cpu) + 1
  <2>4. DOMAIN cpu' = DOMAIN cpu \union {k} /\ k \notin DOMAIN cpu  BY <1>8, <2>3
  <2>5. \A i \in DOMAIN cpu : cpu'[i] = cpu[i]  BY <1>8, <2>2
  <2>6. cpu'[k] = e  BY <2>2
  <2> HIDE DEF k
  <2>7. \A i \in DOMAIN cpu : cpu[i].id # e.id
    <3>1. e.id = madt[idx].id  BY <1>6
    <3>2. \A j \in DOMAIN madt : j < idx => j # idx  BY <1>2, <1>3
    <3> QED BY <1>1, <1>3, <1>9, <3>1, <3>2 DEF BootInv, ListInv
  <2>8. BootTypes'  BY <1>9, <2>2 DEF BootInv, BootTypes
  <2>9. \A i \in Others : cpu[i].trIdx >= 12 /\ cpu[i].trIdx < 12 + 2 * n /\ cpu[i].trIdx \in Nat
    BY <1>8 DEF BootInv, ListInv, Others, Cpus, n
  <2>10. \A i \in DOMAIN cpu : cpu[i].id = Bsp => cpu[i].trIdx = 10  BY DEF BootInv, ListInv
  <2>11. \A i \in DOMAIN cpu : cpu[i].trIdx # e.trIdx
    <3> SUFFICES ASSUME NEW i \in DOMAIN cpu PROVE cpu[i].trIdx # e.trIdx  OBVIOUS
    <3>1. CASE cpu[i].id = Bsp
      <4>1. e.trIdx = 12 + 2 * n  BY <1>6, <2>7, <3>1
      <4> QED BY <1>4, <2>10, <3>1, <4>1
    <3>2. CASE cpu[i].id # Bsp
      <4>1. cpu[i].trIdx >= 12 /\ cpu[i].trIdx < 12 + 2 * n /\ cpu[i].trIdx \in Nat
        BY <2>9, <3>2 DEF Others
      <4>2. e.trIdx = 10 \/ e.trIdx = 12 + 2 * n  BY <1>6
      <4> QED BY <1>4, <4>1, <4>2
    <3> QED BY <3>1, <3>2
  <2>12. Others' = IF e.id = Bsp THEN Others ELSE Others \union {k}
    BY <2>4, <2>5, <2>6 DEF Others
  <2>13. Cardinality(Others') = IF e.id = Bsp THEN n ELSE n + 1
    <3>1. k \notin Others  BY <2>4 DEF Others
    <3> QED BY <1>4, <2>12, <3>1, FS_AddElement DEF n
  <2>14. \A i \in Others' :
            cpu'[i].trIdx >= 12 /\ cpu'[i].trIdx < 12 + 2 * Cardinality(Others')
    <3> SUFFICES ASSUME NEW i \in Others'
                 PROVE  cpu'[i].trIdx >= 12 /\ cpu'[i].trIdx < 12 + 2 * Cardinality(Others')
      OBVIOUS
    <3>1. CASE i \in Others
      <4>1. cpu'[i] = cpu[i]  BY <2>5, <3>1 DEF Others
      <4>2. cpu[i].trIdx >= 12 /\ cpu[i].trIdx < 12 + 2 * n /\ cpu[i].trIdx \in Nat  BY <2>9, <3>1
      <4> QED BY <1>4, <2>13, <4>1, <4>2
    <3>2. CASE i \notin Others
      <4>1. i = k /\ e.id # Bsp  BY <2>12, <3>2
      <4>2. cpu'[i].trIdx = 12 + 2 * n  BY <1>6, <2>6, <4>1
      <4> QED BY <1>4, <2>13, <4>1, <4>2
    <3> QED BY <3>1, <3>2
  <2>15. \A i, j \in DOMAIN cpu' :
            i # j => cpu'[i].id # cpu'[j].id /\ cpu'[i].trIdx # cpu'[j].trIdx
    BY <2>4, <2>5, <2>6, <2>7, <2>11 DEF BootInv, ListInv
  <2>16. \A i \in DOMAIN cpu' :
            /\ cpu'[i].id = Bsp => cpu'[i].trIdx = 10
            /\ cpu'[i].pid = NoPid /\ ~cpu'[i].active
            /\ \E j \in DOMAIN madt : j < idx + 1 /\ madt[j].id = cpu'[i].id
    <3>1. \A i \in DOMAIN cpu : \E j \in DOMAIN madt : j < idx + 1 /\ madt[j].id = cpu[i].id
      <4>1. \A j \in DOMAIN madt : j < idx => j < idx + 1  BY <1>2 DEF BootInv, BootTypes
      <4> QED BY <1>9, <4>1 DEF BootInv, ListInv
    <3>2. idx < idx + 1  BY DEF BootInv, BootTypes
    <3>3. e.id = madt[idx].id /\ e.pid = NoPid /\ ~e.active /\ (e.id = Bsp => e.trIdx = 10)
      BY <1>6
    <3> QED BY <1>3, <1>9, <2>4, <2>5, <2>6, <2>10, <3>1, <3>2, <3>3 DEF BootInv, ListInv
  <2>17. ListInv'  BY <1>9, <2>14, <2>15, <2>16 DEF ListInv
  <2>18. StartInv'
    <3>1. ap = [a \in AP |-> "off"] /\ \A a \in AP : ap[a] = "off"  BY <1>9 DEF BootInv, StartInv
    <3>2. \A i \in Others' : cpu'[i].id \in AP
      <4>1. \A i \in DOMAIN cpu' : cpu'[i].id \in Apic
        BY <1>8, <1>7, <2>4, <2>5, <2>6 DEF Cpus
      <4> QED BY <4>1 DEF Others, AP
    <3>3. \A i \in Others' : ~cpu'[i].active /\ cpu'[i].pid = NoPid  BY <2>16 DEF Others
    <3> QED BY <1>9, <3>1, <3>2, <3>3 DEF StartInv, Started
  <2>19. PidInv'
    <3>1. \A i \in DOMAIN cpu' : cpu'[i].pid = NoPid  BY <2>16
    <3>2. first.pid = NoPid  BY <1>9 DEF BootInv, PidInv
    <3> QED BY <1>9, <3>1, <3>2 DEF PidInv
  <2>20. ShareInv'  BY <1>9 DEF BootInv, ShareInv
  <2> QED BY <2>8, <2>17, <2>18, <2>19, <2>20 DEF BootInv
<1>11. CASE ~madt[idx].ok
  <2>1. cpu' = cpu  BY <1>11 DEF ParseMadt
  <2>2. BootTypes'  BY <1>9, <2>1 DEF BootInv, BootTypes
  <2>3. ListInv'
    <3>1. \A j \in DOMAIN madt : j < idx => j < idx + 1  BY <1>2 DEF BootInv, BootTypes
    <3>2. Others' = Others  BY <2>1 DEF Others
    <3>3. ListInv /\ madt' = madt /\ bsp = "parse" /\ bsp' = bsp /\ idx' = idx + 1
      BY <1>9 DEF BootInv
    <3>4. \A i \in DOMAIN cpu : \E j \in DOMAIN madt : j < idx + 1 /\ madt[j].id = cpu[i].id
      BY <3>1, <3>3 DEF ListInv
    <3> QED BY <2>1, <3>2, <3>3, <3>4 DEF ListInv
  <2>4. StartInv'  BY <1>9, <2>1 DEF BootInv, StartInv, Others, Started
  <2>5. PidInv' /\ ShareInv'  BY <1>9, <2>1 DEF BootInv, PidInv, ShareInv, Counting
  <2> QED BY <2>2, <2>3, <2>4, <2>5 DEF BootInv
<1> QED BY <1>10, <1>11

\* Once the table is read, a step that changes no CPU's id and no task
\* register keeps what ListInv says.
LEMMA ListKept ==
    ASSUME ListInv, bsp \notin {"parse", "hung"}, bsp' # "parse",
           DOMAIN cpu' = DOMAIN cpu,
           \A i \in DOMAIN cpu : cpu'[i].id = cpu[i].id /\ cpu'[i].trIdx = cpu[i].trIdx
    PROVE  ListInv'
<1>1. Others' = Others  BY DEF Others
<1>2. \A i, j \in DOMAIN cpu' : i # j => cpu'[i].id # cpu'[j].id /\ cpu'[i].trIdx # cpu'[j].trIdx
  BY DEF ListInv
<1>3. \A i \in Others : cpu'[i].trIdx >= 12 /\ cpu'[i].trIdx < 12 + 2 * Cardinality(Others)
  BY DEF ListInv, Others
<1>4. \A i \in DOMAIN cpu' : cpu'[i].id = Bsp => cpu'[i].trIdx = 10  BY DEF ListInv
<1>5. \E i \in DOMAIN cpu' : cpu'[i].id = Bsp  BY DEF ListInv
<1> QED BY <1>1, <1>2, <1>3, <1>4, <1>5 DEF ListInv

\* The steps of the boot CPU that leave the records and the other CPUs alone.
LEMMA BspHeld ==
    ASSUME BootInv,
           FindBsp \/ InitTimer \/ CopyBoot \/ SkipSelf \/ AwaitActive \/ Restore \/ ClearMap \/ Enable
    PROVE  BootInv'
<1> USE DEF BootInv, Others
<1>1. DOMAIN cpu = 1 .. Len(cpu) /\ Len(cpu) \in Nat  BY Listed
<1>2. idx \in Nat \ {0}  BY DEF BootTypes
<1>3. CASE FindBsp
  <2>1. BootTypes' /\ ListInv' /\ ShareInv'
    <3>1. BootTypes'  BY <1>3 DEF FindBsp, BootTypes, Steps
    <3>2. ListInv'  BY <1>3 DEF FindBsp, ListInv
    <3>3. ShareInv'  BY <1>3 DEF FindBsp, ShareInv
    <3> QED BY <3>1, <3>2, <3>3
  <2>2. StartInv'
    <3>1. \A i \in DOMAIN cpu : ~(i < 1)  BY <1>1
    <3> QED BY <1>3, <3>1 DEF FindBsp, StartInv, Started
  <2>3. PidInv'
    <3>1. \A i \in DOMAIN cpu : cpu[i].pid = NoPid  BY <1>3 DEF FindBsp, ListInv
    <3> QED BY <1>3, <3>1 DEF FindBsp, PidInv
  <2> QED BY <2>1, <2>2, <2>3
<1>4. CASE InitTimer
  <2>1. BootTypes' /\ ListInv' /\ ShareInv' /\ StartInv'
    <3>1. BootTypes'  BY <1>4 DEF InitTimer, BootTypes, Steps
    <3>2. ListInv'  BY <1>4 DEF InitTimer, ListInv
    <3>3. ShareInv'  BY <1>4 DEF InitTimer, ShareInv
    <3>4. StartInv'  BY <1>4 DEF InitTimer, StartInv, Started
    <3> QED BY <3>1, <3>2, <3>3, <3>4
  <2>2. PidInv'  BY <1>4 DEF InitTimer, PidInv, Counting
  <2> QED BY <2>1, <2>2
<1>5. CASE CopyBoot
  <2>1. BootTypes' /\ ListInv' /\ ShareInv'
    <3>1. BootTypes'  BY <1>5 DEF CopyBoot, BootTypes, Steps
    <3>2. ListInv'  BY <1>5 DEF CopyBoot, ListInv
    <3>3. ShareInv'  BY <1>5 DEF CopyBoot, ShareInv
    <3> QED BY <3>1, <3>2, <3>3
  <2>3. StartInv'
    <3>1. \A i \in DOMAIN cpu : ~(i < 1)  BY <1>1
    <3> QED BY <1>5, <3>1 DEF CopyBoot, StartInv, Started
  <2>2. PidInv'  BY <1>5 DEF CopyBoot, PidInv, Counting
  <2> QED BY <2>1, <2>2, <2>3
<1>6. CASE SkipSelf
  <2>1. BootTypes' /\ ListInv' /\ ShareInv'
    <3>1. BootTypes'  BY <1>6 DEF SkipSelf, BootTypes
    <3>2. ListInv'  BY <1>6 DEF SkipSelf, ListInv
    <3>3. ShareInv'  BY <1>6 DEF SkipSelf, ShareInv
    <3> QED BY <3>1, <3>2, <3>3
  <2>2. \A i \in DOMAIN cpu : (i < idx => i < idx + 1) /\ (i < idx + 1 => i < idx \/ i = idx)
    BY <1>1, <1>2
  <2>3. StartInv'  BY <1>6, <2>2 DEF SkipSelf, StartInv, Started
  <2>4. PidInv'  BY <1>6 DEF SkipSelf, PidInv, Counting
  <2> QED BY <2>1, <2>3, <2>4
<1>7. CASE AwaitActive
  <2>1. BootTypes' /\ ListInv'
    <3>1. BootTypes'  BY <1>7 DEF AwaitActive, BootTypes, Steps
    <3>2. ListInv'  BY <1>7 DEF AwaitActive, ListInv
    <3> QED BY <3>1, <3>2
  <2>5. ShareInv'  BY <1>7 DEF AwaitActive, ShareInv
  <2>2. \A i \in DOMAIN cpu : (i < idx \/ i = idx => i < idx + 1) /\ (i < idx + 1 => i < idx \/ i = idx)
    BY <1>1, <1>2
  <2>3. StartInv'  BY <1>7, <2>2 DEF AwaitActive, IsUp, StartInv, Started
  <2>4. PidInv'  BY <1>7 DEF AwaitActive, PidInv, Counting
  <2> QED BY <2>1, <2>3, <2>4, <2>5
<1>8. CASE Restore
  <2>1. BootTypes' /\ ListInv' /\ ShareInv'
    <3>1. BootTypes'  BY <1>8 DEF Restore, BootTypes, Steps
    <3>2. ListInv'  BY <1>8 DEF Restore, ListInv
    <3>3. ShareInv'  BY <1>8 DEF Restore, ShareInv
    <3> QED BY <3>1, <3>2, <3>3
  <2>2. StartInv'  BY <1>8 DEF Restore, StartInv, Started, cpu_num
  <2>3. PidInv'  BY <1>8 DEF Restore, PidInv, Counting
  <2> QED BY <2>1, <2>2, <2>3
<1>9. CASE ClearMap
  <2>1. BootTypes' /\ ListInv'
    <3>1. BootTypes'  BY <1>9 DEF ClearMap, BootTypes, Steps
    <3>2. ListInv'  BY <1>9 DEF ClearMap, ListInv
    <3> QED BY <3>1, <3>2
  <2>4. ShareInv'  BY <1>9 DEF ClearMap, ShareInv
  <2>2. StartInv'  BY <1>9 DEF ClearMap, StartInv, Started, cpu_num
  <2>3. PidInv'  BY <1>9 DEF ClearMap, PidInv, Counting
  <2> QED BY <2>1, <2>2, <2>3, <2>4
<1>10. CASE Enable
  <2>1. BootTypes' /\ ListInv' /\ ShareInv'
    <3>1. BootTypes'  BY <1>10 DEF Enable, BootTypes, Steps
    <3>2. ListInv'  BY <1>10 DEF Enable, ListInv
    <3>3. ShareInv'  BY <1>10 DEF Enable, ShareInv
    <3> QED BY <3>1, <3>2, <3>3
  <2>2. StartInv'  BY <1>10 DEF Enable, StartInv, Started, cpu_num
  <2>3. PidInv'  BY <1>10 DEF Enable, PidInv, Counting
  <2> QED BY <2>1, <2>2, <2>3
<1> QED BY <1>3, <1>4, <1>5, <1>6, <1>7, <1>8, <1>9, <1>10

\* INIT, and the start-up message.
LEMMA SendHeld ==
    ASSUME BootInv, SendInit \/ SendStartup
    PROVE  BootInv'
<1> USE DEF BootInv, Others
<1>1. DOMAIN cpu = 1 .. Len(cpu) /\ Len(cpu) \in Nat /\ \A i \in DOMAIN cpu : cpu[i].id \in Apic
  BY Listed
<1>2. idx \in Nat \ {0}  BY DEF BootTypes
<1>3. CASE SendInit
  <2>1. sipi = {} /\ \A a \in AP : ap[a] \in {"off", "init"}  BY <1>3 DEF SendInit, StartInv
  <2>2. \A i \in DOMAIN cpu : cpu[i].id # Bsp => cpu[i].id \in AP  BY <1>1 DEF AP
  <2>3. ap' = [a \in AP |-> "init"] /\ \A a \in AP : ap'[a] = "init"  BY <1>3 DEF SendInit
  <2>4. \A i \in DOMAIN cpu : cpu[i].id # Bsp => ~cpu[i].active /\ cpu[i].pid = NoPid
    BY <2>1, <2>2 DEF StartInv, Started
  <2>5. BootTypes' /\ ListInv' /\ ShareInv'
    <3>1. BootTypes'  BY <1>3 DEF SendInit, BootTypes, Steps, Places
    <3>2. ListInv'  BY <1>3 DEF SendInit, ListInv
    <3>3. ShareInv'  BY <1>3 DEF SendInit, ShareInv
    <3> QED BY <3>1, <3>2, <3>3
  <2>6. StartInv'
    <3>1. \A i \in DOMAIN cpu : ~(i < 1)  BY <1>1
    <3> QED BY <1>3, <2>1, <2>2, <2>3, <2>4, <3>1 DEF SendInit, StartInv, Started
  <2>7. PidInv'  BY <1>3, <2>4 DEF SendInit, PidInv, Counting
  <2> QED BY <2>5, <2>6, <2>7
<1>4. CASE SendStartup
  <2>1. idx \in DOMAIN cpu /\ cpu[idx].id \in AP  BY <1>1, <1>2, <1>4 DEF SendStartup, cpu_num, AP
  <2>2. BootTypes' /\ ListInv' /\ ShareInv'
    <3>1. BootTypes'  BY <1>4, <2>1 DEF SendStartup, BootTypes, Steps
    <3>2. ListInv'  BY <1>4, <2>1 DEF SendStartup, ListInv
    <3>3. ShareInv'  BY <1>4, <2>1 DEF SendStartup, ShareInv
    <3> QED BY <3>1, <3>2, <3>3
  <2>3. StartInv'  BY <1>4, <2>1 DEF SendStartup, StartInv, Started
  <2>4. PidInv'  BY <1>4 DEF SendStartup, PidInv, Counting
  <2> QED BY <2>2, <2>3, <2>4
<1> QED BY <1>3, <1>4

\* Its idle thread takes a pid when no other CPU takes one any more.
LEMMA BspPidHeld ==
    ASSUME BootInv, BspPid \/ BspCount \/ LaunchInit
    PROVE  BootInv'
<1>1. DOMAIN cpu = 1 .. Len(cpu) /\ Len(cpu) \in Nat /\ cpu \in Seq(Cpus) /\ task_thdCnt \in Nat
  BY Listed DEF BootInv, BootTypes
<1>2. bsp \in {"pid", "count", "launch"}  BY DEF BspPid, BspCount, LaunchInit
<1>3. \A i \in Others : cpu[i].active /\ ap[cpu[i].id] = "run" /\ cpu[i].pid # NoPid
  BY <1>2, AllRun
<1>4. PICK b \in DOMAIN cpu : cpu[b].id = Bsp  BY <1>2 DEF BootInv, ListInv
<1>5. \A i \in DOMAIN cpu : i # b => i \in Others  BY <1>4 DEF BootInv, ListInv, Others
<1>6. \A i \in DOMAIN cpu : i # b => cpu[i].pid \in Nat /\ cpu[i].pid < task_thdCnt
  BY <1>3, <1>5, Listed DEF BootInv, PidInv, Counting, Others
<1>7. CASE BspPid
  <2>1. cpu' = [cpu EXCEPT ![b].pid = task_thdCnt]  BY <1>4, <1>7, Found DEF BootInv, BspPid, TakePid
  <2>2. /\ cpu' \in Seq(Cpus) /\ DOMAIN cpu' = DOMAIN cpu /\ Len(cpu') = Len(cpu)
        /\ \A i \in DOMAIN cpu :
              /\ cpu'[i].id = cpu[i].id /\ cpu'[i].active = cpu[i].active
              /\ cpu'[i].trIdx = cpu[i].trIdx
              /\ cpu'[i].pid = IF i = b THEN task_thdCnt ELSE cpu[i].pid
    BY <1>1, <2>1, PidSet
  <2>3. Others' = Others  BY <2>2 DEF Others
  <2>4. \A i \in Others : i \in DOMAIN cpu /\ i # b  BY <1>4 DEF Others
  <2>5. BootTypes'  BY <1>7, <2>2 DEF BootInv, BspPid, BootTypes, Steps
  <2>6. ListInv'  BY <1>7, <2>2, <2>3, <2>4 DEF BootInv, BspPid, ListInv
  <2>7. StartInv'  BY <1>7, <2>2, <2>3, <2>4 DEF BootInv, BspPid, StartInv, Started, cpu_num
  <2>8. ShareInv'  BY <1>7 DEF BootInv, BspPid, ShareInv
  <2>9. PidInv'
    <3>1. first.pid = NoPid /\ first' = first /\ bsp' = "count" /\ ap' = ap /\ task_thdCnt' = task_thdCnt
      BY <1>7 DEF BootInv, BspPid, PidInv
    <3>2. task_thdCnt # NoPid /\ \A i \in DOMAIN cpu : i # b => cpu[i].pid # task_thdCnt
      BY <1>1, <1>6 DEF NoPid
    <3>3. \A i, j \in DOMAIN cpu : i # j => cpu[i].pid # cpu[j].pid \/ cpu[i].pid = NoPid
      BY DEF BootInv, PidInv
    <3>4. \A i, j \in DOMAIN cpu' : i # j => cpu'[i].pid # cpu'[j].pid \/ cpu'[i].pid = NoPid
      BY <2>2, <3>2, <3>3
    <3>5. \A i \in DOMAIN cpu' : cpu'[i].id = Bsp => cpu'[i].pid # NoPid
      BY <1>5, <2>2, <3>2 DEF Others
    <3>6. \A i \in DOMAIN cpu' : cpu'[i].pid # NoPid =>
             cpu'[i].pid < task_thdCnt \/ (cpu'[i].pid = task_thdCnt /\ Counting(cpu[i].id)')
      BY <1>4, <1>6, <2>2, <3>1 DEF Counting
    <3> QED BY <3>1, <3>4, <3>5, <3>6 DEF PidInv
  <2> QED BY <2>5, <2>6, <2>7, <2>8, <2>9 DEF BootInv
<1>8. CASE BspCount
  <2>1. BootTypes' /\ ListInv' /\ ShareInv' /\ StartInv'
    <3>1. BootTypes'  BY <1>8 DEF BootInv, BspCount, BootTypes, Steps
    <3>2. ListInv'  BY <1>8 DEF BootInv, BspCount, ListInv, Others
    <3>3. ShareInv'  BY <1>8 DEF BootInv, BspCount, ShareInv
    <3>4. StartInv'  BY <1>8 DEF BootInv, BspCount, StartInv, Started, cpu_num, Others
    <3> QED BY <3>1, <3>2, <3>3, <3>4
  <2>2. \A i \in DOMAIN cpu : cpu[i].pid # NoPid => cpu[i].pid < task_thdCnt + 1
    BY <1>1, Listed DEF BootInv, PidInv
  <2>3. PidInv'  BY <1>8, <2>2 DEF BootInv, BspCount, PidInv
  <2> QED BY <2>1, <2>3 DEF BootInv
<1>9. CASE LaunchInit
  <2>1. Len(cpu) > 0  BY <1>1, <1>4
  <2>2. task_thdCnt % Len(cpu) \in Nat /\ task_thdCnt % Len(cpu) < Len(cpu)  BY <1>1, <2>1
  <2>3. /\ first' = [pid |-> task_thdCnt, cpuId |-> task_thdCnt % Len(cpu)]
        /\ task_thdCnt' = task_thdCnt + 1 /\ bsp = "launch" /\ bsp' = "run"
        /\ UNCHANGED <<madt, idx, cpu, ap, sipi, low, idMap, sche>>
    BY <1>9 DEF LaunchInit, cpu_num
  <2>4. BootTypes'  BY <1>1, <2>2, <2>3 DEF BootInv, BootTypes, Steps
  <2>5. ListInv' /\ ShareInv' /\ StartInv'
    BY <2>3 DEF BootInv, ListInv, ShareInv, StartInv, Started, cpu_num, Others
  <2>6. cpu[b].pid \in Nat \union {NoPid} /\ (cpu[b].pid # NoPid => cpu[b].pid < task_thdCnt)
    BY <1>4, <2>3, Listed DEF BootInv, PidInv, Counting
  <2>7. \A i \in DOMAIN cpu : cpu[i].pid < task_thdCnt /\ cpu[i].pid < task_thdCnt + 1
    <3>1. cpu[b].pid < task_thdCnt /\ cpu[b].pid < task_thdCnt + 1  BY <1>1, <2>6 DEF NoPid
    <3>2. \A i \in DOMAIN cpu : i # b => cpu[i].pid < task_thdCnt + 1  BY <1>1, <1>6
    <3> QED BY <1>6, <3>1, <3>2
  <2>8. PidInv'  BY <2>2, <2>3, <2>7 DEF BootInv, PidInv, cpu_num
  <2> QED BY <2>4, <2>5, <2>8 DEF BootInv
<1> QED BY <1>7, <1>8, <1>9

-----------------------------------------------------------------------------
(* The steps of the others. *)

\* From INIT to the high addresses.
LEMMA ApEarlyHeld ==
    ASSUME BootInv, NEW a \in AP, Start(a) \/ Trampoline(a) \/ HeadS(a)
    PROVE  BootInv'
<1> USE DEF BootInv, Others
<1>1. PICK to \in {"low", "head", "high"} :
         /\ ap' = [ap EXCEPT ![a] = to]
         /\ UNCHANGED <<madt, bsp, idx, cpu, sipi, low, idMap, task_thdCnt, sche, first>>
  BY DEF Start, Trampoline, HeadS, ApStep
<1>2. ap[a] \notin Started /\ ap[a] # "run" /\ (a \in sipi \/ ap[a] \notin {"off", "init"})
  BY DEF Start, Trampoline, HeadS, ApStep, Started
<1>3. bsp = "wait" /\ a \in sipi  BY <1>2, Awaited DEF StartInv
<1>4. ap \in [AP -> Places] /\ ap' \in [AP -> Places]  BY <1>1 DEF BootTypes, Places
<1>5. \A o \in AP : ap'[o] = IF o = a THEN to ELSE ap[o]  BY <1>1, <1>4
<1>6. \A i \in DOMAIN cpu : cpu[i].id # Bsp => cpu[i].id \in AP  BY Listed DEF AP
<1>7. BootTypes' /\ ListInv' /\ ShareInv'
  <2>1. BootTypes'  BY <1>1, <1>4 DEF BootTypes
  <2>2. ListInv'  BY <1>1, <1>4 DEF ListInv
  <2>3. ShareInv'  BY <1>1, <1>4 DEF ShareInv
  <2> QED BY <2>1, <2>2, <2>3
<1>8. StartInv'
  <2>1. \A o \in AP : /\ ap'[o] = "run" <=> ap[o] = "run"
                      /\ ap'[o] \in Started <=> ap[o] \in Started
    BY <1>2, <1>5 DEF Started
  <2>2. \A o \in AP : ap'[o] \notin {"off", "init"} => o \in sipi  BY <1>3, <1>5 DEF StartInv
  <2> QED BY <1>1, <1>3, <1>6, <2>1, <2>2 DEF StartInv
<1>9. PidInv'
  <2>1. \A o \in AP : ap'[o] = "count" <=> ap[o] = "count"  BY <1>2, <1>5 DEF Started
  <2>2. \A i \in DOMAIN cpu : Counting(cpu[i].id)' <=> Counting(cpu[i].id)
    BY <1>1, <1>6, <2>1 DEF Counting
  <2>3. \A i \in DOMAIN cpu : cpu[i].pid # NoPid =>
            cpu[i].pid < task_thdCnt \/ (cpu[i].pid = task_thdCnt /\ Counting(cpu[i].id)')
    BY <2>2 DEF PidInv
  <2>4. /\ \A i \in DOMAIN cpu : cpu[i].id = Bsp => cpu[i].pid = NoPid
        /\ \A i, j \in DOMAIN cpu : i # j => cpu[i].pid # cpu[j].pid \/ cpu[i].pid = NoPid
        /\ first.pid = NoPid
    BY <1>3 DEF PidInv
  <2>5. cpu' = cpu /\ bsp' = "wait" /\ first' = first /\ task_thdCnt' = task_thdCnt  BY <1>1, <1>3
  <2> QED BY <2>3, <2>4, <2>5 DEF PidInv
<1> QED BY <1>7, <1>8, <1>9

\* Its pid, and what makes it active.
LEMMA ApLateHeld ==
    ASSUME BootInv, NEW a \in AP, ApPid(a) \/ ApCount(a) \/ SetActive(a)
    PROVE  BootInv'
<1>1. ap[a] \in {"high", "count", "ready"}  BY DEF ApPid, ApCount, SetActive, ApStep
<1>2. bsp = "wait" /\ idx \in Others /\ cpu[idx].id = a /\ IdxOf(a) = idx  BY <1>1, Awaited
<1>3. a \in sipi /\ a # Bsp  BY <1>1 DEF BootInv, StartInv, AP
<1>4. /\ cpu \in Seq(Cpus) /\ task_thdCnt \in Nat /\ ap \in [AP -> Places]
      /\ idx \in DOMAIN cpu
  BY <1>2 DEF BootInv, BootTypes, Others
<1>5. \A i \in DOMAIN cpu : cpu[i].id # Bsp => cpu[i].id \in AP  BY Listed DEF AP, BootInv
<1>6. \A i \in DOMAIN cpu : i # idx => cpu[i].id # a  BY <1>2, <1>4 DEF BootInv, ListInv
\* No other CPU is between its pid and the counter.
<1>7. \A i \in DOMAIN cpu : i # idx => ~Counting(cpu[i].id)
  <2> SUFFICES ASSUME NEW i \in DOMAIN cpu, i # idx, Counting(cpu[i].id) PROVE FALSE  OBVIOUS
  <2>1. cpu[i].id # Bsp /\ ap[cpu[i].id] = "count"  BY <1>2 DEF Counting
  <2>2. cpu[i].id \in AP  BY <1>5, <2>1
  <2>3. cpu[idx].id = cpu[i].id  BY <2>1, <2>2, Awaited
  <2> QED BY <1>2, <1>6, <2>3
<1>8. \A i \in DOMAIN cpu : i # idx => cpu[i].pid = NoPid \/ cpu[i].pid < task_thdCnt
  BY <1>7 DEF BootInv, PidInv
<1>9. first.pid = NoPid  BY <1>2 DEF BootInv, PidInv
<1>10. ASSUME NEW to \in {"count", "ready", "run"}, ap' = [ap EXCEPT ![a] = to]
       PROVE  /\ ap' \in [AP -> Places]
              /\ \A o \in AP : ap'[o] = IF o = a THEN to ELSE ap[o]
  BY <1>4, <1>10 DEF Places
<1>11. CASE ApPid(a)
  <2>1. /\ cpu' = [cpu EXCEPT ![idx].pid = task_thdCnt] /\ ap' = [ap EXCEPT ![a] = "count"]
        /\ UNCHANGED <<madt, bsp, idx, sipi, low, idMap, task_thdCnt, sche, first>>
    BY <1>2, <1>11 DEF ApPid, ApStep, TakePid
  <2>2. /\ cpu' \in Seq(Cpus) /\ DOMAIN cpu' = DOMAIN cpu /\ Len(cpu') = Len(cpu)
        /\ \A i \in DOMAIN cpu :
              /\ cpu'[i].id = cpu[i].id /\ cpu'[i].active = cpu[i].active
              /\ cpu'[i].trIdx = cpu[i].trIdx
              /\ cpu'[i].pid = IF i = idx THEN task_thdCnt ELSE cpu[i].pid
    BY <1>4, <2>1, PidSet
  <2>3. Others' = Others  BY <2>2 DEF Others
  <2>4. /\ ap' \in [AP -> Places]
        /\ \A o \in AP : ap'[o] = IF o = a THEN "count" ELSE ap[o]
    BY <1>10, <2>1
  <2>5. BootTypes'  BY <2>1, <2>2, <2>4 DEF BootInv, BootTypes
  <2>6. ListInv'  BY <1>2, <2>1, <2>2, ListKept DEF BootInv
  <2>7. ShareInv'  BY <2>1 DEF BootInv, ShareInv
  <2>8. task_thdCnt # NoPid  BY <1>4 DEF NoPid
  <2>9. ap[a] = "high"  BY <1>11 DEF ApPid, ApStep
  <2>10. StartInv'
    <3>1. \A i \in Others : i \in DOMAIN cpu /\ cpu[i].id \in AP  BY <1>5 DEF Others
    <3>2. \A i \in Others' : /\ cpu'[i].active <=> ap'[cpu'[i].id] = "run"
                             /\ cpu'[i].pid # NoPid <=> ap'[cpu'[i].id] \in Started
      <4> SUFFICES ASSUME NEW i \in Others
                   PROVE  /\ cpu'[i].active <=> ap'[cpu'[i].id] = "run"
                          /\ cpu'[i].pid # NoPid <=> ap'[cpu'[i].id] \in Started
        BY <2>3
      <4>1. /\ cpu[i].active <=> ap[cpu[i].id] = "run"
            /\ cpu[i].pid # NoPid <=> ap[cpu[i].id] \in Started
        BY DEF BootInv, StartInv
      <4>2. CASE i = idx  BY <1>2, <2>2, <2>4, <2>8, <2>9, <3>1, <4>1, <4>2 DEF Started
      <4>3. CASE i # idx  BY <1>6, <2>2, <2>4, <3>1, <4>1, <4>3
      <4> QED BY <4>2, <4>3
    <3>3. \A o \in AP : ap'[o] \notin {"off", "init"} => o \in sipi
      BY <1>3, <2>4 DEF BootInv, StartInv
    <3>4. \A o \in sipi : \E i \in DOMAIN cpu' : cpu'[i].id = o /\ (i < idx \/ i = idx)
      <4>1. \A o \in sipi : \E i \in DOMAIN cpu : cpu[i].id = o /\ (i < idx \/ i = idx)
        BY DEF BootInv, StartInv
      <4> QED BY <2>2, <4>1
    <3>5. \A i \in Others' : i < idx => cpu'[i].active
      BY <1>2, <2>2, <2>3, <3>1 DEF BootInv, StartInv
    <3> QED BY <1>2, <1>4, <2>1, <2>2, <3>2, <3>3, <3>4, <3>5 DEF StartInv
  <2>11. PidInv'
    <3>1. \A i, j \in DOMAIN cpu' : i # j => cpu'[i].pid # cpu'[j].pid \/ cpu'[i].pid = NoPid
      <4>1. \A i \in DOMAIN cpu : i # idx => cpu[i].pid # task_thdCnt
        BY <1>4, <1>8, <2>8
      <4>2. \A i, j \in DOMAIN cpu : i # j => cpu[i].pid # cpu[j].pid \/ cpu[i].pid = NoPid
        BY DEF BootInv, PidInv
      <4> QED BY <2>2, <4>1, <4>2
    <3>2. \A i \in DOMAIN cpu' : cpu'[i].pid # NoPid =>
             cpu'[i].pid < task_thdCnt \/ (cpu'[i].pid = task_thdCnt /\ Counting(cpu[i].id)')
      <4>1. Counting(cpu[idx].id)'
        BY <1>2, <1>3, <1>4, <2>1, <2>2, <2>4 DEF Counting
      <4> SUFFICES ASSUME NEW i \in DOMAIN cpu, cpu'[i].pid # NoPid
                   PROVE  \/ cpu'[i].pid < task_thdCnt
                          \/ cpu'[i].pid = task_thdCnt /\ Counting(cpu[i].id)'
        BY <2>2
      <4>2. CASE i = idx  BY <2>1, <2>2, <4>1, <4>2
      <4>3. CASE i # idx  BY <1>8, <2>2, <4>3
      <4> QED BY <4>2, <4>3
    <3>3. \A i \in DOMAIN cpu' : cpu'[i].id = Bsp => cpu'[i].pid = NoPid
      BY <1>2, <1>3, <2>2 DEF BootInv, PidInv
    <3> QED BY <1>2, <1>9, <2>1, <3>1, <3>2, <3>3 DEF PidInv
  <2> QED BY <2>5, <2>6, <2>7, <2>10, <2>11 DEF BootInv
<1>12. CASE ApCount(a)
  <2>1. /\ ap[a] = "count" /\ ap' = [ap EXCEPT ![a] = "ready"] /\ task_thdCnt' = task_thdCnt + 1
        /\ UNCHANGED <<madt, bsp, idx, cpu, sipi, low, idMap, sche, first>>
    BY <1>12 DEF ApCount, ApStep
  <2>2. /\ ap' \in [AP -> Places]
        /\ \A o \in AP : ap'[o] = IF o = a THEN "ready" ELSE ap[o]
    BY <1>10, <2>1
  <2>3. BootTypes' /\ ListInv' /\ ShareInv'
    <3>1. BootTypes'  BY <1>4, <2>1, <2>2 DEF BootInv, BootTypes
    <3>2. ListInv'  BY <1>2, <2>1, ListKept DEF BootInv
    <3>3. ShareInv'  BY <1>4, <2>1, <2>2 DEF BootInv, ShareInv
    <3> QED BY <3>1, <3>2, <3>3
  <2>4. StartInv'
    <3>1. \A o \in AP : /\ ap'[o] = "run" <=> ap[o] = "run"
                        /\ ap'[o] \in Started <=> ap[o] \in Started
                        /\ ap'[o] \in {"off", "init"} <=> ap[o] \in {"off", "init"}
      BY <2>1, <2>2 DEF Started
    <3> QED BY <1>2, <1>5, <2>1, <3>1 DEF BootInv, StartInv, Others
  <2>5. PidInv'
    <3>1. \A i \in DOMAIN cpu : cpu[i].pid # NoPid => cpu[i].pid < task_thdCnt + 1
      BY <1>4, Listed DEF BootInv, PidInv
    <3> QED BY <1>2, <1>9, <2>1, <3>1 DEF BootInv, PidInv
  <2> QED BY <2>3, <2>4, <2>5 DEF BootInv
<1>13. CASE SetActive(a)
  <2>1. /\ ap[a] = "ready" /\ ap' = [ap EXCEPT ![a] = "run"]
        /\ cpu' = [cpu EXCEPT ![idx].active = TRUE]
        /\ UNCHANGED <<madt, bsp, idx, sipi, low, idMap, task_thdCnt, sche, first>>
    BY <1>2, <1>13 DEF SetActive, ApStep
  <2>2. /\ cpu' \in Seq(Cpus) /\ DOMAIN cpu' = DOMAIN cpu /\ Len(cpu') = Len(cpu)
        /\ \A i \in DOMAIN cpu :
              /\ cpu'[i].id = cpu[i].id /\ cpu'[i].pid = cpu[i].pid
              /\ cpu'[i].trIdx = cpu[i].trIdx
              /\ cpu'[i].active = IF i = idx THEN TRUE ELSE cpu[i].active
    BY <1>4, <2>1, ActiveSet
  <2>3. Others' = Others  BY <2>2 DEF Others
  <2>4. /\ ap' \in [AP -> Places]
        /\ \A o \in AP : ap'[o] = IF o = a THEN "run" ELSE ap[o]
    BY <1>10, <2>1
  <2>5. BootTypes'  BY <2>1, <2>2, <2>4 DEF BootInv, BootTypes
  <2>6. ListInv'  BY <1>2, <2>1, <2>2, ListKept DEF BootInv
  <2>7. ShareInv'  BY <2>1 DEF BootInv, ShareInv
  <2>8. StartInv'
    <3>1. \A i \in Others : i \in DOMAIN cpu /\ cpu[i].id \in AP  BY <1>5 DEF Others
    <3>2. \A i \in Others' : /\ cpu'[i].active <=> ap'[cpu'[i].id] = "run"
                             /\ cpu'[i].pid # NoPid <=> ap'[cpu'[i].id] \in Started
      <4> SUFFICES ASSUME NEW i \in Others
                   PROVE  /\ cpu'[i].active <=> ap'[cpu'[i].id] = "run"
                          /\ cpu'[i].pid # NoPid <=> ap'[cpu'[i].id] \in Started
        BY <2>3
      <4>1. /\ cpu[i].active <=> ap[cpu[i].id] = "run"
            /\ cpu[i].pid # NoPid <=> ap[cpu[i].id] \in Started
        BY DEF BootInv, StartInv
      <4>2. CASE i = idx  BY <1>2, <2>1, <2>2, <2>4, <3>1, <4>1, <4>2 DEF Started
      <4>3. CASE i # idx  BY <1>6, <2>2, <2>4, <3>1, <4>1, <4>3
      <4> QED BY <4>2, <4>3
    <3>3. \A o \in AP : ap'[o] \notin {"off", "init"} => o \in sipi
      BY <1>3, <2>4 DEF BootInv, StartInv
    <3>4. \A o \in sipi : \E i \in DOMAIN cpu' : cpu'[i].id = o /\ (i < idx \/ i = idx)
      <4>1. \A o \in sipi : \E i \in DOMAIN cpu : cpu[i].id = o /\ (i < idx \/ i = idx)
        BY DEF BootInv, StartInv
      <4> QED BY <2>2, <4>1
    <3>5. \A i \in Others' : i < idx => cpu'[i].active
      BY <1>2, <2>2, <2>3, <3>1 DEF BootInv, StartInv
    <3> QED BY <1>2, <1>4, <2>1, <2>2, <3>2, <3>3, <3>4, <3>5 DEF StartInv
  <2>9. PidInv'
    <3>1. \A i \in DOMAIN cpu : cpu[i].pid # NoPid => cpu[i].pid < task_thdCnt
      <4>1. ~Counting(cpu[idx].id)  BY <1>2, <1>3, <2>1 DEF Counting
      <4> QED BY <1>7, <4>1 DEF BootInv, PidInv
    <3> QED BY <1>2, <1>9, <2>1, <2>2, <3>1 DEF BootInv, PidInv
  <2> QED BY <2>5, <2>6, <2>7, <2>8, <2>9 DEF BootInv
<1> QED BY <1>11, <1>12, <1>13

-----------------------------------------------------------------------------
\* All the steps.
LEMMA BootInvStep == BootInv /\ [BootNext]_smpVars => BootInv'
<1> SUFFICES ASSUME BootInv, [BootNext]_smpVars PROVE BootInv'  OBVIOUS
<1>1. CASE BspNext
  BY <1>1, ParseHeld, BspHeld, SendHeld, BspPidHeld DEF BspNext
<1>2. CASE ApNext  BY <1>2, ApEarlyHeld, ApLateHeld DEF ApNext
<1>3. CASE UNCHANGED smpVars
  <2>1. BootTypes' /\ ListInv'
    <3>1. BootTypes'  BY <1>3 DEF smpVars, BootInv, BootTypes
    <3>2. ListInv'  BY <1>3 DEF smpVars, BootInv, ListInv, Others
    <3> QED BY <3>1, <3>2
  <2>3. StartInv'  BY <1>3 DEF smpVars, BootInv, StartInv, Others, cpu_num
  <2>2. ShareInv' /\ PidInv'
    BY <1>3 DEF smpVars, BootInv, ShareInv, PidInv, Counting, cpu_num
  <2> QED BY <2>1, <2>2, <2>3 DEF BootInv
<1> QED BY <1>1, <1>2, <1>3 DEF BootNext

\* What the invariant says is what the run checks.
LEMMA BootInvShows == BootInv => BootOrder
<1> SUFFICES ASSUME BootInv PROVE BootOrder  OBVIOUS
<1> DEFINE Early == {"low", "head"}
<1>1. \A a \in AP : ap[a] \in Early => bsp = "wait" /\ cpu[idx].id = a  BY Awaited
<1>2. At({"low"}) # {} => low  BY <1>1 DEF At, BootInv, ShareInv
<1>3. At(Early) # {} => idMap  BY <1>1 DEF At, BootInv, ShareInv
<1>4. Cardinality(At({"low"})) <= 1
  <2>1. At({"low"}) \in SUBSET {cpu[idx].id}  BY <1>1 DEF At
  <2>2. IsFiniteSet({cpu[idx].id}) /\ Cardinality({cpu[idx].id}) = 1  BY FS_Singleton
  <2> QED BY <2>1, <2>2, FS_Subset
<1>5. \A i, j \in DOMAIN cpu : i # j =>
         (cpu[i].pid # cpu[j].pid \/ cpu[i].pid = NoPid) /\ cpu[i].trIdx # cpu[j].trIdx
  BY DEF BootInv, PidInv, ListInv
<1>6. sche => \A i \in DOMAIN cpu : cpu[i].pid # NoPid /\ (cpu[i].id # Bsp => cpu[i].active)
  <2> SUFFICES ASSUME sche, NEW i \in DOMAIN cpu
               PROVE  cpu[i].pid # NoPid /\ (cpu[i].id # Bsp => cpu[i].active)
    OBVIOUS
  <2>1. bsp \in {"launch", "run"}  BY DEF BootInv, ShareInv
  <2>2. CASE cpu[i].id = Bsp  BY <2>1, <2>2 DEF BootInv, PidInv
  <2>3. CASE cpu[i].id # Bsp  BY <2>1, <2>3, AllRun DEF Others
  <2> QED BY <2>2, <2>3
<1>7. first.pid # NoPid => first.cpuId < cpu_num /\ \A i \in DOMAIN cpu : cpu[i].pid < first.pid
  BY DEF BootInv, PidInv
<1> QED BY <1>2, <1>3, <1>4, <1>5, <1>6, <1>7 DEF BootOrder

(***************************************************************************)
(* However many CPUs the table lists and however long each takes, one CPU  *)
(* at a time is on the trampoline while it is there, none is left at low   *)
(* addresses when their map goes, no two have one pid or one task          *)
(* register, and scheduling starts when all have their idle threads        *)
(* (hal_cpu_enableAP, hal_init_initAP, task_initIdleThd).                  *)
(***************************************************************************)
THEOREM BootInOrder == BootSpec => []BootOrder
<1> QED BY BootInvInit, BootInvStep, BootInvShows, PTL DEF BootSpec

-----------------------------------------------------------------------------
(* The bring-up of the controllers: what the driver counted, asked for and *)
(* was given stays one number from the vectors on.                         *)

\* The greatest power of two that divides a number is between 1 and it.
LEMMA LowestBitType ==
    ASSUME NEW n \in Nat
    PROVE  X!LowestBit(n) \in Nat \ {0} /\ N!LowestBit(n) \in Nat \ {0}
<1> DEFINE S == {p \in {1, 2, 4, 8, 16, 32} : n % p = 0}
<1>1. n % 1 = 0  OBVIOUS
<1>2. S \subseteq Nat \ {0} /\ 1 \in S /\ \A y \in S : y <= 32  BY <1>1
<1>3. X!LowestBit(n) = Max(S) /\ N!LowestBit(n) = Max(S)  BY DEF X!LowestBit, N!LowestBit, X!Max, N!Max, Max
<1> HIDE DEF S
<1>4. \E x \in S : \A y \in S : y <= x
  <2>1. PICK T \in SUBSET Nat : T = S  BY <1>2
  <2>2. \E x \in T : \A y \in T : y <= x  BY <1>2, <2>1, GreatestOf
  <2> QED BY <2>1, <2>2
<1>5. Max(S) \in S  BY <1>4 DEF Max
<1> QED BY <1>2, <1>3, <1>5

\* The least and the greatest of two numbers, and the least of a set.
LEMMA MinMaxOf ==
    ASSUME NEW a \in Nat, NEW b \in Nat
    PROVE  /\ X!Min({a, b}) = (IF a <= b THEN a ELSE b) /\ N!Min({a, b}) = (IF a <= b THEN a ELSE b)
           /\ N!Max({a, b}) = (IF a <= b THEN b ELSE a)
BY DEF X!Min, N!Min, N!Max

\* The least of some numbers is one of them (the min of _initIntr).
LEMMA MinIn ==
    ASSUME NEW T \in SUBSET Nat, T # {}
    PROVE  X!Min(T) \in T /\ N!Min(T) \in T
<1>1. Min(T) \in T  BY MinLeast
<1> QED BY <1>1 DEF Min, X!Min, N!Min

\* Of three numbers the least is one of them and below the others (_initHost).
LEMMA MinOfThree ==
    ASSUME NEW a \in Nat, NEW b \in Nat, NEW c \in Nat
    PROVE  LET m == X!Min({a, b, c}) IN m \in {a, b, c} /\ m <= a /\ m <= b /\ m <= c
<1>1. PICK T \in SUBSET Nat : T = {a, b, c}  OBVIOUS
<1>2. Min(T) \in T /\ \A y \in T : Min(T) <= y  BY <1>1, MinLeast
<1> QED BY <1>1, <1>2 DEF Min, X!Min

Tps == {"none", "msi", "msix"}

\* The steps of _initHost (usb/xhci/init.c) behind the vectors.
XArmed == {"enable", "arrays", "rings", "done"}
XInv ==
    /\ xEnv \in XEnv /\ xRun \in {"bios", "off", "on"} /\ (xRun = "on" => xAt = "done")
    /\ xHost \in [intrNum : 0 .. XMaxIntr, vecs : Nat, devVecs : Nat, rings : SUBSET Nat]
    /\ xHost.intrNum <= xEnv.cpus /\ xHost.intrNum <= xEnv.mxIntr /\ xHost.vecs <= xEnv.vecNum
    /\ xAt = "vectors" => xHost.intrNum >= 1
    /\ xAt \in XArmed => /\ xHost.intrNum >= 1
                         /\ xHost.vecs = xHost.intrNum
                         /\ xHost.devVecs = X!Programmed(xEnv.tp, xHost.intrNum)
    /\ xAt = "done" => 0 .. xHost.intrNum - 1 \subseteq xHost.rings

\* Those of hardware/nvme/init.c.
NArmed == {"enable", "register", "done"}
Asked == N!Ask
Pairs == N!Min({N!Max({2, nEnv.cpus}), NMaxIntr})
NInv ==
    /\ nEnv \in NEnv /\ nRun \in {"bios", "off", "on"}
    /\ nHost \in [intrNum : 0 .. NMaxIntr, ques : SUBSET Nat, vecs : Nat, devVecs : Nat, made : SUBSET Nat]
    /\ nHost.vecs <= nEnv.vecNum /\ nHost.vecs <= NMaxIntr
    /\ nRun = "on" => nAt \in {"register", "done", "failed"}
    /\ nAt \in {"regs", "reset", "count", "ques", "vectors"} => nHost.made = {}
    /\ nAt = "ques" => nHost.intrNum = Pairs
    /\ nAt = "vectors" => \A n \in Nat : n < Pairs => n \in nHost.ques
    /\ nAt \in NArmed => /\ nHost.intrNum = Asked /\ nHost.vecs = Asked /\ nHost.devVecs >= 1
                         /\ 0 .. Asked - 1 \subseteq nHost.ques
    /\ \A q \in nHost.made : q \in nHost.ques /\ q < nHost.vecs /\ q < nHost.devVecs
    /\ nAt = "done" => 1 .. nHost.intrNum - 1 \subseteq nHost.made

\* Every step of the xHCI bring-up.
LEMMA XStep == ASSUME XInv, X!Next PROVE XInv'
<1> USE BringUpAssumption
<1> DEFINE Host == [intrNum : 0 .. XMaxIntr, vecs : Nat, devVecs : Nat, rings : SUBSET Nat]
<1>1. /\ xEnv \in XEnv /\ xHost \in Host
      /\ xEnv.cpus \in Nat \ {0} /\ xEnv.mxIntr \in Nat \ {0} /\ xEnv.vecNum \in Nat \ {0}
      /\ xEnv \in [cpus : Nat \ {0}, mxIntr : Nat \ {0}, vecNum : Nat \ {0}, tp : Tps]
  BY DEF XInv, Tps
<1>2. CASE X!FindCaps  BY <1>2 DEF X!FindCaps, X!Step, XInv, XArmed
<1>3. CASE X!GetRegs  BY <1>3 DEF X!GetRegs, X!Step, XInv, XArmed
<1>4. CASE X!Halt  BY <1>4 DEF X!Halt, X!Step, XInv, XArmed
<1>5. CASE X!CountIntr
  <2> DEFINE n == X!Min({XMaxIntr, xEnv.cpus, xEnv.mxIntr})
  <2>1. n >= 1 /\ n <= xEnv.cpus /\ n <= xEnv.mxIntr /\ n \in 0 .. XMaxIntr
    <3>1. PICK a \in Nat \ {0}, b \in Nat \ {0} : a = xEnv.cpus /\ b = xEnv.mxIntr  BY <1>1
    <3>2. /\ X!Min({XMaxIntr, a, b}) \in {XMaxIntr, a, b} /\ X!Min({XMaxIntr, a, b}) <= XMaxIntr
          /\ X!Min({XMaxIntr, a, b}) <= a /\ X!Min({XMaxIntr, a, b}) <= b
      BY <3>1, MinOfThree
    <3>3. X!Min({XMaxIntr, a, b}) \in Nat \ {0}  BY <3>2
    <3> QED BY <3>1, <3>2, <3>3
  <2>2. xHost' = [xHost EXCEPT !.intrNum = n] /\ xAt = "count" /\ xAt' = "vectors" /\ UNCHANGED <<xEnv, xRun>>
    BY <1>5 DEF X!CountIntr, X!Step
  <2> HIDE DEF n
  <2>3. xHost' \in Host /\ xHost'.intrNum = n /\ xHost'.vecs = xHost.vecs  BY <1>1, <2>1, <2>2
  <2> QED BY <2>1, <2>2, <2>3 DEF XInv, XArmed
<1>6. CASE X!Vectors
  <2> DEFINE n == X!Ask(xHost.intrNum)
             d == X!Programmed(xEnv.tp, n)
  <2>1. /\ xHost' = [xHost EXCEPT !.intrNum = n, !.vecs = n, !.devVecs = d]
        /\ xAt = "vectors" /\ xAt' = "enable" /\ UNCHANGED <<xEnv, xRun>>
    BY <1>6 DEF X!Vectors, X!Step
  <2>2. /\ xHost.intrNum \in 0 .. XMaxIntr /\ xHost.intrNum >= 1
        /\ xHost.intrNum <= xEnv.cpus /\ xHost.intrNum <= xEnv.mxIntr
    BY <1>1, <2>1 DEF XInv
  <2>3. n \in Nat \ {0} /\ n <= xHost.intrNum /\ n <= xEnv.vecNum
    <3>1. PICK a \in Nat \ {0}, b \in Nat \ {0} : a = xEnv.vecNum /\ b = xHost.intrNum  BY <1>1, <2>2
    <3>2. n = X!Min({a, b})  BY <3>1 DEF X!Ask
    <3>3. X!Min({a, b}) = IF a <= b THEN a ELSE b  BY MinMaxOf
    <3> QED BY <3>1, <3>2, <3>3
  <2>4. d \in Nat
    <3>1. PICK m \in Nat : m = n  BY <2>3
    <3>2. X!LowestBit(m) \in Nat  BY LowestBitType
    <3> QED BY <3>1, <3>2 DEF X!Programmed
  <2> HIDE DEF n
  <2>5. n \in 0 .. XMaxIntr /\ n <= xEnv.cpus /\ n <= xEnv.mxIntr /\ n <= xEnv.vecNum /\ n >= 1
    BY <1>1, <2>2, <2>3
  <2>6. xHost' \in Host /\ xHost'.intrNum = n /\ xHost'.vecs = n /\ xHost'.devVecs = d
    BY <1>1, <2>1, <2>3, <2>4, <2>5
  <2> QED BY <2>1, <2>5, <2>6 DEF XInv, XArmed
<1>7. CASE X!NoVectors  BY <1>7 DEF X!NoVectors, X!Step, XInv, XArmed
<1>8. CASE X!Enable  BY <1>8 DEF X!Enable, X!Step, XInv, XArmed
<1>9. CASE X!Arrays  BY <1>9 DEF X!Arrays, X!Step, XInv, XArmed
<1>10. CASE X!EventRing
  <2>1. PICK T \in SUBSET Nat : T = X!Lacking
    <3>1. PICK k \in Nat : k = xHost.intrNum  BY <1>1
    <3>2. 0 .. k - 1 \subseteq Nat  OBVIOUS
    <3>3. X!Lacking \subseteq 0 .. k - 1  BY <3>1 DEF X!Lacking
    <3> QED BY <3>2, <3>3
  <2>2. T # {}  BY <1>10, <2>1 DEF X!EventRing
  <2>3. X!Min(T) \in T  BY <2>2, MinIn
  <2>4. PICK m \in Nat : m = X!Min(X!Lacking)  BY <2>1, <2>3
  <2>5. /\ xHost' = [xHost EXCEPT !.rings = xHost.rings \union {m}]
        /\ xAt = "rings" /\ xAt' = "rings" /\ UNCHANGED <<xEnv, xRun>>
    BY <1>10, <2>4 DEF X!EventRing, X!Step
  <2>6. /\ xHost' \in Host /\ xHost'.intrNum = xHost.intrNum /\ xHost'.vecs = xHost.vecs
        /\ xHost'.devVecs = xHost.devVecs
    BY <1>1, <2>5
  <2> QED BY <2>5, <2>6 DEF XInv, XArmed
<1>11. CASE X!NoRing  BY <1>11 DEF X!NoRing, X!Step, XInv, XArmed
<1>12. CASE X!Restart
  <2>1. 0 .. xHost.intrNum - 1 \subseteq xHost.rings  BY <1>12 DEF X!Restart, X!Lacking
  <2> QED BY <1>12, <2>1 DEF X!Restart, X!Step, XInv, XArmed
<1> QED BY <1>2, <1>3, <1>4, <1>5, <1>6, <1>7, <1>8, <1>9, <1>10, <1>11, <1>12 DEF X!Next

\* What the NVMe driver asks for: as many queue pairs as it has made at most.
LEMMA AskedFits ==
    ASSUME nEnv \in NEnv
    PROVE  /\ Asked \in 1 .. NMaxIntr /\ Pairs \in 1 .. NMaxIntr /\ Asked <= Pairs /\ Asked <= nEnv.vecNum
           /\ nEnv.vecNum >= 2 => Asked >= 2
<1> USE BringUpAssumption
<1>1. PICK c \in Nat \ {0}, v \in Nat \ {0} : c = nEnv.cpus /\ v = nEnv.vecNum  OBVIOUS
<1>2. N!Max({2, c}) = IF 2 <= c THEN c ELSE 2  BY MinMaxOf
<1>3. PICK a \in Nat : a = N!Max({2, c})  BY <1>2
<1>4. Pairs = IF a <= NMaxIntr THEN a ELSE NMaxIntr  BY <1>1, <1>3, MinMaxOf DEF Pairs
<1>5. N!Min({NMaxIntr, c}) = IF NMaxIntr <= c THEN NMaxIntr ELSE c  BY MinMaxOf
<1>6. PICK b \in Nat : b = N!Min({NMaxIntr, c})  BY <1>5
<1>7. N!Max({2, b}) = IF 2 <= b THEN b ELSE 2  BY MinMaxOf
<1>8. PICK e \in Nat : e = N!Max({2, b})  BY <1>7
<1>9. Asked = IF v <= e THEN v ELSE e  BY <1>1, <1>6, <1>8, MinMaxOf DEF Asked, N!Ask
<1> QED BY <1>1, <1>2, <1>3, <1>4, <1>5, <1>6, <1>7, <1>8, <1>9

\* Every step of the NVMe bring-up.
LEMMA NStep == ASSUME NInv, N!Next PROVE NInv'
<1> USE BringUpAssumption
<1> DEFINE Host == [intrNum : 0 .. NMaxIntr, ques : SUBSET Nat, vecs : Nat, devVecs : Nat, made : SUBSET Nat]
<1>1. /\ nEnv \in NEnv /\ nHost \in Host
      /\ Asked \in 1 .. NMaxIntr /\ Pairs \in 1 .. NMaxIntr /\ Asked <= Pairs /\ Asked <= nEnv.vecNum
  BY AskedFits DEF NInv
<1>2. nEnv' = nEnv => Asked' = Asked /\ Pairs' = Pairs  BY DEF Asked, Pairs, N!Ask, N!Min, N!Max
<1>3. CASE N!GetRegs  BY <1>3 DEF N!GetRegs, N!Step, NInv, NArmed
<1>4. CASE N!Reset  BY <1>4 DEF N!Reset, N!Step, NInv, NArmed
<1>5. CASE N!Count
  <2>1. CASE nAt' = "failed"  BY <1>5, <2>1 DEF N!Count, N!Step, NInv, NArmed
  <2>2. CASE nAt' # "failed"
    <3>1. /\ nHost' = [nHost EXCEPT !.intrNum = Pairs]
          /\ nAt = "count" /\ nAt' = "ques" /\ UNCHANGED <<nEnv, nRun>>
      BY <1>5, <2>2 DEF N!Count, N!Step, Pairs
    <3>2. /\ nHost' \in Host /\ nHost'.intrNum = Pairs /\ nHost'.made = nHost.made /\ nHost'.ques = nHost.ques
          /\ nHost'.vecs = nHost.vecs /\ nHost'.devVecs = nHost.devVecs
      BY <1>1, <3>1
    <3> QED BY <1>2, <3>1, <3>2 DEF NInv, NArmed
  <2> QED BY <2>1, <2>2
<1>6. CASE N!AllocQue
  <2>1. PICK T \in SUBSET Nat : T = N!Lacking
    <3>1. PICK k \in Nat : k = nHost.intrNum  BY <1>1
    <3>2. 0 .. k - 1 \subseteq Nat  OBVIOUS
    <3>3. N!Lacking \subseteq 0 .. k - 1  BY <3>1 DEF N!Lacking
    <3> QED BY <3>2, <3>3
  <2>2. T # {}  BY <1>6, <2>1 DEF N!AllocQue
  <2>3. N!Min(T) \in T  BY <2>2, MinIn
  <2>4. PICK m \in Nat : m = N!Min(N!Lacking)  BY <2>1, <2>3
  <2>5. /\ nHost' = [nHost EXCEPT !.ques = nHost.ques \union {m}]
        /\ nAt = "ques" /\ nAt' = "ques" /\ UNCHANGED <<nEnv, nRun>>
    BY <1>6, <2>4 DEF N!AllocQue, N!Step
  <2>6. /\ nHost' \in Host /\ nHost'.intrNum = nHost.intrNum /\ nHost'.vecs = nHost.vecs
        /\ nHost'.devVecs = nHost.devVecs /\ nHost'.made = nHost.made /\ nHost.made = {}
    BY <1>1, <2>5 DEF NInv
  <2> QED BY <1>2, <2>5, <2>6 DEF NInv, NArmed
<1>7. CASE N!NoQue  BY <1>7 DEF N!NoQue, N!Step, NInv, NArmed
<1>8. CASE N!QueuesReady
  <2>1. nHost.intrNum = Pairs /\ 0 .. nHost.intrNum - 1 \subseteq nHost.ques
    BY <1>8 DEF N!QueuesReady, N!Step, N!Lacking, NInv
  <2>2. \A n \in Nat : n < Pairs => n \in nHost.ques  BY <1>1, <2>1
  <2> QED BY <1>2, <1>8, <2>2 DEF N!QueuesReady, N!Step, NInv, NArmed
<1>9. CASE N!Vectors
  <2> DEFINE d == N!Programmed(nEnv.tp, Asked)
  <2>1. /\ nHost' = [nHost EXCEPT !.intrNum = Asked, !.vecs = Asked, !.devVecs = d]
        /\ nAt = "vectors" /\ nAt' = "enable" /\ UNCHANGED <<nEnv, nRun>>
    BY <1>9 DEF N!Vectors, N!Step, Asked
  <2>2. d \in Nat \ {0}
    <3>1. PICK m \in Nat \ {0} : m = Asked  BY <1>1
    <3>2. N!LowestBit(m) \in Nat \ {0}  BY LowestBitType
    <3> QED BY <3>1, <3>2 DEF N!Programmed
  <2> HIDE DEF d
  <2>3. Asked \in 0 .. NMaxIntr /\ Asked \in Nat  BY <1>1
  <2>4. /\ nHost' \in Host /\ nHost'.intrNum = Asked /\ nHost'.vecs = Asked /\ nHost'.devVecs = d
        /\ nHost'.made = nHost.made /\ nHost'.ques = nHost.ques
    BY <1>1, <2>1, <2>2, <2>3
  <2>5. nHost.made = {} /\ \A n \in Nat : n < Pairs => n \in nHost.ques  BY <2>1 DEF NInv
  <2>6. 0 .. Asked - 1 \subseteq nHost.ques  BY <1>1, <2>5
  <2>7. Asked <= nEnv.vecNum /\ Asked <= NMaxIntr  BY <1>1
  <2> QED BY <1>2, <2>1, <2>2, <2>4, <2>5, <2>6, <2>7 DEF NInv, NArmed
<1>10. CASE N!NoVectors  BY <1>10 DEF N!NoVectors, N!Step, NInv, NArmed
<1>11. CASE N!Enable
  <2>1. nHost' = [nHost EXCEPT !.made = {0}] /\ nAt = "enable" /\ nAt' \in {"register", "failed"} /\ nEnv' = nEnv
    BY <1>11 DEF N!Enable, N!Step
  <2>2. nRun' \in {"bios", "off", "on"}  BY <1>11 DEF N!Enable, NInv
  <2>3. /\ nHost' \in Host /\ nHost'.intrNum = nHost.intrNum /\ nHost'.vecs = nHost.vecs
        /\ nHost'.devVecs = nHost.devVecs /\ nHost'.made = {0} /\ nHost'.ques = nHost.ques
    BY <1>1, <2>1
  <2>4. /\ nHost.vecs = Asked /\ nHost.intrNum = Asked /\ nHost.devVecs >= 1 /\ 0 .. Asked - 1 \subseteq nHost.ques
        /\ nHost.devVecs \in Nat
    BY <1>1, <2>1 DEF NInv, NArmed
  <2>5. 0 \in nHost.ques /\ 0 < nHost.vecs /\ 0 < nHost.devVecs  BY <1>1, <2>4
  <2> QED BY <1>2, <2>1, <2>2, <2>3, <2>4, <2>5 DEF NInv, NArmed
<1>12. CASE N!Register
  <2>1. PICK T \in SUBSET Nat : T = N!Unmade
    <3>1. PICK k \in Nat : k = nHost.intrNum  BY <1>1
    <3>2. 1 .. k - 1 \subseteq Nat  OBVIOUS
    <3>3. N!Unmade \subseteq 1 .. k - 1  BY <3>1 DEF N!Unmade
    <3> QED BY <3>2, <3>3
  <2>2. T # {}  BY <1>12, <2>1 DEF N!Register
  <2>3. N!Min(T) \in T  BY <2>2, MinIn
  <2>4. PICK m \in Nat : m = N!Min(N!Unmade) /\ m \in 1 .. nHost.intrNum - 1  BY <2>1, <2>3 DEF N!Unmade
  <2>5. /\ nHost' = [nHost EXCEPT !.made = nHost.made \union {m}] /\ m < nHost.devVecs
        /\ nAt = "register" /\ nAt' = "register" /\ UNCHANGED <<nEnv, nRun>>
    BY <1>12, <2>4 DEF N!Register, N!Step
  <2>6. /\ nHost' \in Host /\ nHost'.intrNum = nHost.intrNum /\ nHost'.vecs = nHost.vecs
        /\ nHost'.devVecs = nHost.devVecs /\ nHost'.made = nHost.made \union {m} /\ nHost'.ques = nHost.ques
    BY <1>1, <2>5
  <2>7. nHost.vecs = Asked /\ nHost.intrNum = Asked /\ 0 .. Asked - 1 \subseteq nHost.ques
    BY <2>5 DEF NInv, NArmed
  <2>8. m \in nHost.ques /\ m < nHost.vecs  BY <1>1, <2>4, <2>7
  <2> QED BY <1>2, <2>5, <2>6, <2>8 DEF NInv, NArmed
<1>13. CASE N!Refused  BY <1>13 DEF N!Refused, N!Step, NInv, NArmed
<1>14. CASE N!Namespaces
  <2>1. 1 .. nHost.intrNum - 1 \subseteq nHost.made  BY <1>14 DEF N!Namespaces, N!Unmade
  <2> QED BY <1>2, <1>14, <2>1 DEF N!Namespaces, N!Step, NInv, NArmed
<1> QED BY <1>3, <1>4, <1>5, <1>6, <1>7, <1>8, <1>9, <1>10, <1>11, <1>12, <1>13, <1>14 DEF N!Next

\* The invariant of both bring-ups, in any order of their steps.
THEOREM ControllersKept == UpSpec => [](XInv /\ NInv)
<1> USE BringUpAssumption
<1>1. UpInit => XInv /\ NInv
  <2> SUFFICES ASSUME UpInit PROVE XInv /\ NInv  OBVIOUS
  <2> DEFINE z == 0
             e == {}
  <2>1. z \in Nat /\ z \in 0 .. XMaxIntr /\ z \in 0 .. NMaxIntr /\ e \in SUBSET Nat  OBVIOUS
  <2>2. /\ xHost = [intrNum |-> z, vecs |-> z, devVecs |-> z, rings |-> e]
        /\ nHost = [intrNum |-> z, ques |-> e, vecs |-> z, devVecs |-> z, made |-> e]
        /\ xEnv \in XEnv /\ nEnv \in NEnv /\ xAt = "caps" /\ nAt = "regs" /\ xRun = "bios" /\ nRun = "bios"
    BY DEF UpInit, X!Init, N!Init
  <2> HIDE DEF z, e
  <2>3. /\ xHost \in [intrNum : 0 .. XMaxIntr, vecs : Nat, devVecs : Nat, rings : SUBSET Nat]
        /\ nHost \in [intrNum : 0 .. NMaxIntr, ques : SUBSET Nat, vecs : Nat, devVecs : Nat, made : SUBSET Nat]
        /\ nHost.made = e
    BY <2>1, <2>2
  <2>4. nHost.made = {}  BY <2>3 DEF e
  <2>5. /\ xHost.intrNum <= xEnv.cpus /\ xHost.intrNum <= xEnv.mxIntr /\ xHost.vecs <= xEnv.vecNum
        /\ nHost.vecs <= nEnv.vecNum /\ nHost.vecs <= NMaxIntr
    <3>1. xHost.intrNum = 0 /\ xHost.vecs = 0 /\ nHost.vecs = 0  BY <2>2 DEF z
    <3>2. /\ xEnv.cpus \in Nat /\ xEnv.mxIntr \in Nat /\ xEnv.vecNum \in Nat
          /\ nEnv.vecNum \in Nat /\ NMaxIntr \in Nat
      BY <2>2
    <3> QED BY <3>1, <3>2
  <2> QED BY <2>2, <2>3, <2>4, <2>5 DEF XInv, NInv, XArmed, NArmed
<1>2. XInv /\ NInv /\ [UpNext]_<<xVars, nVars>> => XInv' /\ NInv'
  <2> SUFFICES ASSUME XInv, NInv, [UpNext]_<<xVars, nVars>> PROVE XInv' /\ NInv'  OBVIOUS
  <2>1. UNCHANGED xVars => XInv'  BY DEF XInv, XArmed, xVars, X!Programmed, X!LowestBit, X!Max
  <2>2. UNCHANGED nVars => NInv'
    <3>1. UNCHANGED nVars => UNCHANGED <<Asked, Pairs>>  BY DEF nVars, Asked, Pairs, N!Ask, N!Min, N!Max
    <3> QED BY <3>1 DEF NInv, NArmed, nVars
  <2>3. CASE X!Next /\ UNCHANGED nVars  BY <2>2, <2>3, XStep
  <2>4. CASE N!Next /\ UNCHANGED xVars  BY <2>1, <2>4, NStep
  <2> QED BY <2>1, <2>2, <2>3, <2>4 DEF UpNext
<1> QED BY <1>1, <1>2, PTL DEF UpSpec

\* A controller that runs has the rings, queues and vectors that its driver
\* may use, whatever the controller offers (_initHost of both).
THEOREM ControllersArmed == UpSpec => []Armed
<1> USE BringUpAssumption
<1>1. XInv => X!Armed
  <2> SUFFICES ASSUME XInv, xRun = "on", NEW slot \in 0 .. MaxSlot
               PROVE  LET i == slot % xHost.intrNum IN
                      /\ i < xEnv.mxIntr /\ i \in xHost.rings /\ i < xHost.vecs
                      /\ xEnv.tp = "msix" \/ X!PowerOfTwo(xHost.intrNum) => i < xHost.devVecs
      BY DEF X!Armed
  <2> DEFINE n == xHost.intrNum
             i == slot % n
  <2>1. /\ n \in Nat \ {0} /\ n <= xEnv.mxIntr /\ xHost.vecs = n /\ xHost.devVecs = X!Programmed(xEnv.tp, n)
        /\ 0 .. n - 1 \subseteq xHost.rings /\ xEnv.mxIntr \in Nat
    BY DEF XInv, XArmed
  <2>2. i \in 0 .. n - 1
    <3>1. PICK m \in Nat \ {0} : m = n  BY <2>1
    <3>2. slot % m \in 0 .. m - 1  OBVIOUS
    <3> QED BY <3>1, <3>2
  <2>3. xEnv.tp = "msix" \/ X!PowerOfTwo(n) => xHost.devVecs = n  BY <2>1 DEF X!Programmed, X!PowerOfTwo
  <2> HIDE DEF i
  <2>4. i < xEnv.mxIntr /\ i \in xHost.rings /\ i < xHost.vecs /\ i < n  BY <2>1, <2>2
  <2> QED BY <2>3, <2>4 DEF i
<1>2. NInv => N!Armed
  <2> SUFFICES ASSUME NInv PROVE N!Armed  OBVIOUS
  <2>1. \A q \in nHost.made : q \in nHost.ques /\ q < nHost.vecs /\ q < nHost.devVecs  BY DEF NInv
  <2>2. ASSUME nAt = "done", nEnv.vecNum >= 2 PROVE N!Used \subseteq nHost.made
    <3>1. nHost.intrNum = Asked /\ Asked \in Nat /\ Asked >= 2 /\ 1 .. Asked - 1 \subseteq nHost.made
      BY <2>2, AskedFits DEF NInv, NArmed
    <3> QED BY <3>1 DEF N!Used
  <2> QED BY <2>1, <2>2 DEF N!Armed
<1> QED BY <1>1, <1>2, ControllersKept, PTL DEF Armed

\* The xHCI driver never counts more interrupters than it, the CPUs and the
\* controller have, nor takes more vectors than the device has; the NVMe
\* driver takes no more than it can use and the device has (_initHost of
\* both, _initIntr, hw_nvme_initIntr).
THEOREM BringUpTyped == UpSpec => []UpTypeOK
<1>1. XInv => X!TypeOK  BY DEF XInv, X!TypeOK
<1>2. NInv => N!TypeOK  BY BringUpAssumption DEF NInv, N!TypeOK
<1> QED BY <1>1, <1>2, ControllersKept, PTL DEF UpTypeOK

-----------------------------------------------------------------------------
(* A completion queue: the entries from the handler's position up to the   *)
(* controller's tail are those that were posted and not taken, with the    *)
(* phase the handler will have when it comes to them; all the others have  *)
(* the other one.  What the head doorbell has not told the controller yet  *)
(* counts as room that is used, so the tail never comes round to pos.      *)

\* What a u16 can hold.
Wide == 2 ^ 16

CmdRec == [cmdIden : Slots, of : Req \union {Unset}]
EntryRec == [phase : {0, 1}, subQueHdrPtr : Slots, cmdIden : Slots, of : Req \union {Unset}]
SubRec == [tail : Slots, head : Slots, load : 0 .. Wide - 1,
           entries : [Slots -> CmdRec], req : [Slots -> Req \union {Unset}]]
CmplRec == [pos : Entries, phase : {0, 1}, entries : [Entries -> EntryRec]]
CtlRec == [tail : Slots, head : Slots, out : SUBSET CmdRec, cmplTail : Entries,
           cmplHead : Entries, phase : {0, 1}, late : BOOLEAN]

\* How far b is in front of a.
Ahead(a, b) == IF a <= b THEN b - a ELSE b - a + CmplSz
PhaseOf(c, e) == IF e >= c.pos THEN c.phase ELSE 1 - c.phase

QueInStep(c, d, s) ==
    /\ Len(s) = Ahead(c.pos, d.cmplTail)
    /\ Ahead(d.cmplHead, c.pos) + Len(s) < CmplSz
    /\ d.phase = PhaseOf(c, d.cmplTail)
    /\ \A e \in Entries :
          IF Ahead(c.pos, e) < Len(s)
          THEN c.entries[e].phase = PhaseOf(c, e) /\ s[Ahead(c.pos, e) + 1] = c.entries[e]
          ELSE c.entries[e].phase # PhaseOf(c, e)

\* The length of a submission queue fits its load.
LEMMA SubSzFits == Wide \in Nat \ {0} /\ SubSz \in Nat \ {0} /\ SubSz < Wide
<1>1. Wide \in Nat \ {0}  BY PowType DEF Wide
<1>2. SubSz \in 1 .. Wide - 1  BY IOAssumption DEF Wide
<1> QED BY <1>1, <1>2

\* The index behind one.
LEMMA NextEntry ==
    ASSUME NEW e \in Entries
    PROVE  (e + 1) % CmplSz = IF e + 1 = CmplSz THEN 0 ELSE e + 1
<1> USE IOAssumption
<1>1. e \in 0 .. CmplSz - 1 /\ CmplSz \in Nat \ {0}  BY DEF Entries
<1> QED BY <1>1

\* The index some places in front of one.
LEMMA EntryIn ==
    ASSUME NEW e \in Entries, NEW i \in 0 .. CmplSz - 1
    PROVE  /\ (e + i) % CmplSz = IF e + i < CmplSz THEN e + i ELSE e + i - CmplSz
           /\ (e + i) % CmplSz \in Entries /\ Ahead(e, (e + i) % CmplSz) = i
<1> USE IOAssumption
<1>1. e \in 0 .. CmplSz - 1 /\ CmplSz \in Nat \ {0} /\ i \in Nat /\ i < CmplSz  BY DEF Entries
<1>2. (e + i) % CmplSz = IF e + i < CmplSz THEN e + i ELSE e + i - CmplSz  BY <1>1
<1> QED BY <1>1, <1>2 DEF Ahead, Entries

\* Before anything is posted.
LEMMA FreshInStep ==
    ASSUME NEW c \in CmplRec, NEW d \in CtlRec, NEW s, s = <<>>, c.pos = 0, c.phase = 1,
           \A e \in Entries : c.entries[e].phase = 0,
           d.cmplTail = 0, d.cmplHead = 0, d.phase = 1
    PROVE  QueInStep(c, d, s)
<1> USE IOAssumption
<1>1. Len(s) = 0 /\ Ahead(0, 0) = 0  BY EmptySeq DEF Ahead
<1>2. \A e \in Entries : e \in Nat /\ Ahead(0, e) >= 0 /\ PhaseOf(c, e) = 1  BY DEF Ahead, PhaseOf, Entries
<1>3. PhaseOf(c, 0) = 1  BY DEF PhaseOf
<1>4. \A e \in Entries : ~(Ahead(c.pos, e) < Len(s)) /\ c.entries[e].phase # PhaseOf(c, e)
  <2> SUFFICES ASSUME NEW e \in Entries
               PROVE  ~(Ahead(c.pos, e) < Len(s)) /\ c.entries[e].phase # PhaseOf(c, e)
      OBVIOUS
  <2>1. c.entries[e].phase = 0 /\ PhaseOf(c, e) = 1  BY <1>2
  <2>2. e \in 0 .. CmplSz - 1 /\ Ahead(0, e) = e  BY DEF Ahead, Entries
  <2> QED BY <1>1, <2>1, <2>2
<1>5. Ahead(c.pos, d.cmplTail) = 0 /\ Ahead(d.cmplHead, c.pos) + Len(s) < CmplSz  BY <1>1
<1> QED BY <1>1, <1>3, <1>4, <1>5 DEF QueInStep

\* A completion is posted at the tail unless the tail would meet the head.
LEMMA PostInStep ==
    ASSUME NEW c \in CmplRec, NEW d \in CtlRec, NEW s \in Seq(EntryRec), QueInStep(c, d, s),
           NEW n, n = (d.cmplTail + 1) % CmplSz, n # d.cmplHead,
           NEW x \in EntryRec, x.phase = d.phase,
           NEW c2 \in CmplRec, c2 = [c EXCEPT !.entries = [@ EXCEPT ![d.cmplTail] = x]],
           NEW d2 \in CtlRec, d2.cmplHead = d.cmplHead, d2.cmplTail = n,
           d2.phase = IF n = 0 THEN 1 - d.phase ELSE d.phase
    PROVE  QueInStep(c2, d2, Append(s, x))
<1> USE IOAssumption
<1> DEFINE p == c.pos
           t == d.cmplTail
           h == d.cmplHead
           m == Len(s)
<1>1. /\ CmplSz \in Nat \ {0} /\ p \in 0 .. CmplSz - 1 /\ t \in 0 .. CmplSz - 1 /\ h \in 0 .. CmplSz - 1
      /\ c.phase \in {0, 1} /\ d.phase \in {0, 1} /\ m \in Nat /\ c.entries \in [Entries -> EntryRec]
  BY LenProperties DEF CmplRec, CtlRec, Entries
<1>2. n = IF t + 1 = CmplSz THEN 0 ELSE t + 1
  <2>1. t \in Entries  BY DEF CtlRec
  <2> QED BY <2>1, NextEntry
<1>3. m = Ahead(p, t) /\ Ahead(h, p) + m < CmplSz /\ d.phase = PhaseOf(c, t)  BY DEF QueInStep
<1>4. c2.pos = p /\ c2.phase = c.phase /\ c2.entries = [c.entries EXCEPT ![t] = x]  BY DEF CmplRec
<1>5. /\ Len(Append(s, x)) = m + 1 /\ Append(s, x)[m + 1] = x
      /\ \A i \in 1 .. m : Append(s, x)[i] = s[i]
  BY AppendProperties
<1>6. \A e \in Entries : PhaseOf(c2, e) = PhaseOf(c, e)  BY <1>4 DEF PhaseOf
<1>7. \A e \in Entries : c2.entries[e] = IF e = t THEN x ELSE c.entries[e]  BY <1>1, <1>4
<1> HIDE DEF p, t, h, m
<1>8. m + 1 = Ahead(p, n) /\ Ahead(h, p) + (m + 1) < CmplSz
  <2>1. n # h  BY DEF h
  <2>2. t \in Int /\ p \in Int /\ h \in Int /\ 0 <= t /\ t < CmplSz /\ 0 <= p /\ p < CmplSz /\ 0 <= h /\ h < CmplSz
    BY <1>1
  <2>3. Ahead(p, t) = IF p <= t THEN t - p ELSE t - p + CmplSz  BY ONLY DEF Ahead
  <2>4. Ahead(p, n) = IF p <= n THEN n - p ELSE n - p + CmplSz  BY ONLY DEF Ahead
  <2>5. Ahead(h, p) = IF h <= p THEN p - h ELSE p - h + CmplSz  BY ONLY DEF Ahead
  <2> QED BY ONLY <1>1, <1>2, <1>3, <2>1, <2>2, <2>3, <2>4, <2>5
<1>9. d2.phase = PhaseOf(c2, n)
  <2>1. PhaseOf(c, t) = IF t >= p THEN c.phase ELSE 1 - c.phase  BY DEF PhaseOf, p
  <2>2. PhaseOf(c2, n) = IF n >= p THEN c.phase ELSE 1 - c.phase  BY <1>4 DEF PhaseOf
  <2>3. d2.phase = IF n = 0 THEN 1 - d.phase ELSE d.phase  OBVIOUS
  <2>4. m + 1 < CmplSz /\ (m = IF p <= t THEN t - p ELSE t - p + CmplSz)
    <3>1. Ahead(h, p) = IF h <= p THEN p - h ELSE p - h + CmplSz  BY ONLY DEF Ahead
    <3>2. Ahead(p, t) = IF p <= t THEN t - p ELSE t - p + CmplSz  BY ONLY DEF Ahead
    <3>3. Ahead(h, p) \in Int /\ Ahead(h, p) >= 0  BY ONLY <1>1, <3>1
    <3>4. m + 1 < CmplSz  BY ONLY <1>1, <1>8, <3>3
    <3>5. m = IF p <= t THEN t - p ELSE t - p + CmplSz  BY ONLY <1>3, <3>2
    <3> QED BY ONLY <3>4, <3>5
  <2> QED BY ONLY <1>1, <1>2, <1>3, <2>1, <2>2, <2>3, <2>4
<1>10. ASSUME NEW e \in Entries
       PROVE  IF Ahead(p, e) < m + 1
              THEN c2.entries[e].phase = PhaseOf(c2, e) /\ Append(s, x)[Ahead(p, e) + 1] = c2.entries[e]
              ELSE c2.entries[e].phase # PhaseOf(c2, e)
  <2>1. CASE e = t
    <3>1. Ahead(p, e) = m  BY <1>3, <2>1
    <3>2. c2.entries[e] = x /\ PhaseOf(c2, e) = d.phase  BY <1>3, <1>6, <1>7, <2>1
    <3> QED BY <1>1, <1>5, <3>1, <3>2
  <2>2. CASE e # t
    <3>1. e \in 0 .. CmplSz - 1  BY DEF Entries
    <3>2. Ahead(p, e) # m /\ Ahead(p, e) \in Nat
      <4>1. Ahead(p, t) = IF p <= t THEN t - p ELSE t - p + CmplSz  BY ONLY DEF Ahead
      <4>2. Ahead(p, e) = IF p <= e THEN e - p ELSE e - p + CmplSz  BY ONLY DEF Ahead
      <4> QED BY ONLY <1>1, <1>3, <2>2, <3>1, <4>1, <4>2
    <3>3. c2.entries[e] = c.entries[e] /\ PhaseOf(c2, e) = PhaseOf(c, e)  BY <1>6, <1>7, <2>2
    <3>4. IF Ahead(p, e) < m
          THEN c.entries[e].phase = PhaseOf(c, e) /\ s[Ahead(p, e) + 1] = c.entries[e]
          ELSE c.entries[e].phase # PhaseOf(c, e)
      BY DEF QueInStep, p, m
    <3>5. CASE Ahead(p, e) < m
      <4>1. Ahead(p, e) + 1 \in 1 .. m /\ Ahead(p, e) < m + 1  BY <1>1, <3>2, <3>5
      <4> QED BY <1>5, <3>3, <3>4, <3>5, <4>1
    <3>6. CASE ~(Ahead(p, e) < m)
      <4>1. ~(Ahead(p, e) < m + 1)  BY <1>1, <3>2, <3>6
      <4> QED BY <3>3, <3>4, <3>6, <4>1
    <3> QED BY <3>5, <3>6
  <2> QED BY <2>1, <2>2
<1> QED BY <1>4, <1>5, <1>8, <1>9, <1>10 DEF QueInStep, h

\* The handler takes the entry at its position, which is the oldest.
LEMMA TakeInStep ==
    ASSUME NEW c \in CmplRec, NEW d \in CtlRec, NEW s \in Seq(EntryRec), QueInStep(c, d, s),
           c.entries[c.pos].phase = c.phase
    PROVE  s # <<>> /\ QueInStep(Advance(c), d, Tail(s)) /\ Advance(c) \in CmplRec
<1> USE IOAssumption
<1> DEFINE p == c.pos
           t == d.cmplTail
           h == d.cmplHead
           m == Len(s)
           c2 == Advance(c)
           q == (p + 1) % CmplSz
<1>1. /\ CmplSz \in Nat \ {0} /\ p \in 0 .. CmplSz - 1 /\ t \in 0 .. CmplSz - 1 /\ h \in 0 .. CmplSz - 1
      /\ c.phase \in {0, 1} /\ d.phase \in {0, 1} /\ m \in Nat /\ p \in Entries
  BY LenProperties DEF CmplRec, CtlRec, Entries
<1>2. q = IF p + 1 = CmplSz THEN 0 ELSE p + 1  BY <1>1, NextEntry
<1>3. m = Ahead(p, t) /\ Ahead(h, p) + m < CmplSz /\ d.phase = PhaseOf(c, t)  BY DEF QueInStep
<1>4. Ahead(p, p) = 0 /\ PhaseOf(c, p) = c.phase  BY <1>1 DEF Ahead, PhaseOf
<1>5. m # 0 /\ s # <<>>
  <2>1. 0 < m  BY <1>1, <1>4 DEF QueInStep
  <2> QED BY <1>1, <2>1, EmptySeq
<1>6. /\ c2.pos = q /\ c2.entries = c.entries
      /\ c2.phase = IF p + 1 = CmplSz THEN 1 - c.phase ELSE c.phase
  BY DEF Advance, CmplRec
<1>7. Len(Tail(s)) = m - 1 /\ \A i \in 1 .. m - 1 : Tail(s)[i] = s[i + 1]
  BY <1>5, HeadTailProperties
<1> HIDE DEF q, c2
<1>8. c2 \in CmplRec
  <2>1. q \in Entries /\ c2.phase \in {0, 1}  BY <1>1, <1>2, <1>6 DEF Entries
  <2>2. c2 = [c EXCEPT !.pos = q, !.phase = c2.phase]  BY <1>6 DEF c2, Advance, CmplRec, q
  <2> QED BY <2>1, <2>2 DEF CmplRec
<1> HIDE DEF p, t, h, m
<1>9. m - 1 = Ahead(q, t) /\ Ahead(h, q) + (m - 1) < CmplSz
  BY <1>1, <1>2, <1>3, <1>5 DEF Ahead
<1>10. d.phase = PhaseOf(c2, t)
  BY <1>1, <1>2, <1>3, <1>5, <1>6 DEF PhaseOf, Ahead, p
<1>11. ASSUME NEW e \in Entries
       PROVE  IF Ahead(q, e) < m - 1
              THEN c2.entries[e].phase = PhaseOf(c2, e) /\ Tail(s)[Ahead(q, e) + 1] = c2.entries[e]
              ELSE c2.entries[e].phase # PhaseOf(c2, e)
  <2>1. e \in 0 .. CmplSz - 1  BY DEF Entries
  <2>2. CASE e = p
    <3>1. Ahead(q, e) = CmplSz - 1  BY <1>1, <1>2, <2>2 DEF Ahead
    <3>2. ~(Ahead(q, e) < m - 1)
      <4>1. m < CmplSz  BY <1>1, <1>3 DEF Ahead
      <4> QED BY <1>1, <3>1, <4>1
    <3>3. c2.entries[e].phase = c.phase  BY <1>6, <2>2 DEF p
    <3>4. PhaseOf(c2, e) = 1 - c.phase  BY <1>1, <1>2, <1>6, <2>2 DEF PhaseOf
    <3> QED BY <1>1, <3>2, <3>3, <3>4
  <2>3. CASE e # p
    <3>1. Ahead(p, e) = Ahead(q, e) + 1 /\ Ahead(q, e) \in Nat  BY <1>1, <1>2, <2>1, <2>3 DEF Ahead
    <3>2. PhaseOf(c2, e) = PhaseOf(c, e)  BY <1>1, <1>2, <1>6, <2>1, <2>3 DEF PhaseOf, p
    <3>3. IF Ahead(p, e) < m
          THEN c.entries[e].phase = PhaseOf(c, e) /\ s[Ahead(p, e) + 1] = c.entries[e]
          ELSE c.entries[e].phase # PhaseOf(c, e)
      BY DEF QueInStep, p, m
    <3>4. CASE Ahead(p, e) < m
      <4>1. Ahead(q, e) + 1 \in 1 .. m - 1 /\ Ahead(q, e) < m - 1  BY <1>1, <3>1, <3>4
      <4>2. Tail(s)[Ahead(q, e) + 1] = s[Ahead(p, e) + 1]  BY <1>7, <3>1, <4>1
      <4> QED BY <1>6, <3>2, <3>3, <3>4, <4>1, <4>2
    <3>5. CASE ~(Ahead(p, e) < m)
      <4>1. ~(Ahead(q, e) < m - 1)  BY <1>1, <3>1, <3>5
      <4> QED BY <1>6, <3>2, <3>3, <3>5, <4>1
    <3> QED BY <3>4, <3>5
  <2> QED BY <2>2, <2>3
<1>12. QueInStep(c2, d, Tail(s))  BY <1>6, <1>7, <1>9, <1>10, <1>11 DEF QueInStep, h, t
<1> QED BY <1>5, <1>8, <1>12 DEF c2

\* The head doorbell tells the controller the handler's position.
LEMMA LeaveInStep ==
    ASSUME NEW c \in CmplRec, NEW d \in CtlRec, NEW s \in Seq(EntryRec), QueInStep(c, d, s),
           NEW d2 \in CtlRec, d2.cmplHead = c.pos, d2.cmplTail = d.cmplTail, d2.phase = d.phase
    PROVE  QueInStep(c, d2, s)
<1> USE IOAssumption
<1>1. /\ CmplSz \in Nat \ {0} /\ c.pos \in 0 .. CmplSz - 1 /\ d.cmplHead \in 0 .. CmplSz - 1 /\ Len(s) \in Nat
  BY LenProperties DEF CmplRec, CtlRec, Entries
<1>2. Ahead(d.cmplHead, c.pos) + Len(s) < CmplSz  BY DEF QueInStep
<1>3. Ahead(c.pos, c.pos) + Len(s) < CmplSz  BY <1>1, <1>2 DEF Ahead
<1> QED BY <1>3 DEF QueInStep

\* What the handler will read is what was posted and not taken.
LEMMA ReadsPosted ==
    ASSUME NEW c \in CmplRec, NEW d \in CtlRec, NEW s \in Seq(EntryRec), QueInStep(c, d, s),
           NEW n, n = Min({i \in 0 .. CmplSz :
                      \/ i = CmplSz
                      \/ c.entries[(c.pos + i) % CmplSz].phase
                            # IF c.pos + i < CmplSz THEN c.phase ELSE 1 - c.phase})
    PROVE  [i \in 1 .. n |-> c.entries[(c.pos + (i - 1)) % CmplSz]] = s
<1> USE IOAssumption
<1> DEFINE p == c.pos
           m == Len(s)
           S == {i \in 0 .. CmplSz :
                      \/ i = CmplSz
                      \/ c.entries[(p + i) % CmplSz].phase # IF p + i < CmplSz THEN c.phase ELSE 1 - c.phase}
<1>1. /\ CmplSz \in Nat \ {0} /\ p \in Entries /\ p \in 0 .. CmplSz - 1 /\ d.cmplTail \in 0 .. CmplSz - 1
      /\ d.cmplHead \in 0 .. CmplSz - 1 /\ m \in Nat
  BY LenProperties DEF CmplRec, CtlRec, Entries
<1>2. m < CmplSz  BY <1>1 DEF QueInStep, Ahead
<1>3. \A i \in 0 .. CmplSz - 1 :
          LET e == (p + i) % CmplSz IN
          /\ e \in Entries /\ Ahead(p, e) = i
          /\ PhaseOf(c, e) = IF p + i < CmplSz THEN c.phase ELSE 1 - c.phase
  <2> SUFFICES ASSUME NEW i \in 0 .. CmplSz - 1
               PROVE  LET e == (p + i) % CmplSz IN
                      /\ e \in Entries /\ Ahead(p, e) = i
                      /\ PhaseOf(c, e) = IF p + i < CmplSz THEN c.phase ELSE 1 - c.phase
      OBVIOUS
  <2> DEFINE e == (p + i) % CmplSz
  <2>1. /\ e = IF p + i < CmplSz THEN p + i ELSE p + i - CmplSz
        /\ e \in Entries /\ Ahead(p, e) = i
    BY <1>1, EntryIn
  <2> HIDE DEF e
  <2>2. PhaseOf(c, e) = IF p + i < CmplSz THEN c.phase ELSE 1 - c.phase  BY <1>1, <2>1 DEF PhaseOf
  <2> QED BY <2>1, <2>2 DEF e
<1>4. m \in S
  <2>1. m \in 0 .. CmplSz - 1  BY <1>1, <1>2
  <2>2. c.entries[(p + m) % CmplSz].phase # PhaseOf(c, (p + m) % CmplSz)
    <3> DEFINE e == (p + m) % CmplSz
    <3>1. e \in Entries /\ Ahead(p, e) = m  BY <1>3, <2>1
    <3> HIDE DEF e
    <3>2. ~(Ahead(c.pos, e) < Len(s))  BY <1>1, <3>1
    <3>3. c.entries[e].phase # PhaseOf(c, e)  BY <3>1, <3>2 DEF QueInStep
    <3> QED BY <3>3 DEF e
  <2> QED BY <1>1, <1>2, <1>3, <2>1, <2>2
<1>5. \A i \in 0 .. m - 1 :
          /\ c.entries[(p + i) % CmplSz].phase = PhaseOf(c, (p + i) % CmplSz)
          /\ s[i + 1] = c.entries[(p + i) % CmplSz]
  <2> SUFFICES ASSUME NEW i \in 0 .. m - 1
               PROVE  /\ c.entries[(p + i) % CmplSz].phase = PhaseOf(c, (p + i) % CmplSz)
                      /\ s[i + 1] = c.entries[(p + i) % CmplSz]
      OBVIOUS
  <2>1. i \in 0 .. CmplSz - 1 /\ i < m  BY <1>1, <1>2
  <2> QED BY <1>3, <2>1 DEF QueInStep
<1>6. \A i \in S : i >= m
  <2> SUFFICES ASSUME NEW i \in S, i < m PROVE FALSE  BY <1>1
  <2>1. i \in 0 .. m - 1 /\ i \in 0 .. CmplSz - 1 /\ i # CmplSz  BY <1>1, <1>2
  <2> QED BY <1>3, <1>5, <2>1
<1>7. n = m
  <2>1. n = Min(S)  OBVIOUS
  <2>2. S \in SUBSET Nat /\ S # {}  BY <1>1, <1>4
  <2> HIDE DEF S
  <2>3. n \in S /\ n <= m  BY <1>4, <2>1, <2>2, MinLeast
  <2> QED BY <1>1, <1>6, <2>2, <2>3
<1>8. \A i \in 1 .. m : c.entries[(p + (i - 1)) % CmplSz] = s[i]
  <2> SUFFICES ASSUME NEW i \in 1 .. m PROVE c.entries[(p + (i - 1)) % CmplSz] = s[i]  OBVIOUS
  <2>1. i - 1 \in 0 .. m - 1 /\ (i - 1) + 1 = i  BY <1>1
  <2> QED BY <1>5, <2>1
<1>9. s = [i \in 1 .. m |-> s[i]]  BY LenProperties
<1> QED BY <1>7, <1>8, <1>9

-----------------------------------------------------------------------------
(* The invariant. *)

Points == {"idle", "next", "insert", "bell", "ring", "wait", "end", "release"}
ThdRec == [pc : Points, req : Req \union {Unset}, que : Que \union {Unset}, left : Int,
           val : SUBSET (Slots \union Req)]
IntrRec == [pc : {"off", "loop", "answer"}, pending : BOOLEAN, entry : EntryRec,
            req : Req \union {Unset}]

IOTypes ==
    /\ subQue \in [Que -> SubRec] /\ cmplQue \in [Que -> CmplRec] /\ ctlr \in [Que -> CtlRec]
    /\ posted \in [Que -> Seq(EntryRec)] /\ intr \in [Que -> IntrRec]
    /\ reqBitmap \subseteq Req /\ thd \in [Thread -> ThdRec]

\* A thread has chosen its queue before it inserts; what it has read is a
\* tail or a bitmap.
Reads(l) ==
    /\ l.pc \in {"insert", "bell", "ring"} => l.que \in Que
    /\ l.pc = "ring" => \E s \in Slots : l.val = {s}
    /\ l.pc = "release" => l.val \subseteq Req

IOInv ==
    /\ IOTypes /\ \A t \in Thread : Reads(thd[t])
    /\ \A q \in Que : QueInStep(cmplQue[q], ctlr[q], posted[q])

\* A step of one thread.
LEMMA ThreadKeeps ==
    ASSUME IOInv, NEW t \in Thread, NEW l \in ThdRec, Reads(l), thd' = [thd EXCEPT ![t] = l],
           subQue' \in [Que -> SubRec], ctlr' \in [Que -> CtlRec], reqBitmap' \subseteq Req,
           \A q \in Que : /\ ctlr'[q].cmplTail = ctlr[q].cmplTail
                          /\ ctlr'[q].cmplHead = ctlr[q].cmplHead /\ ctlr'[q].phase = ctlr[q].phase,
           UNCHANGED <<cmplQue, intr, posted>>
    PROVE  IOInv'
<1>1. IOTypes'  BY DEF IOInv, IOTypes
<1>2. \A u \in Thread : Reads(thd'[u])  BY DEF IOInv, IOTypes, Reads
<1>3. \A q \in Que : QueInStep(cmplQue'[q], ctlr'[q], posted'[q])  BY DEF IOInv, QueInStep, PhaseOf, Ahead
<1> QED BY <1>1, <1>2, <1>3 DEF IOInv, Reads, QueInStep, PhaseOf, Ahead

\* A step at one queue.
LEMMA QueueKeeps ==
    ASSUME IOInv, NEW q \in Que,
           NEW s \in SubRec, subQue' = [subQue EXCEPT ![q] = s],
           NEW c \in CmplRec, cmplQue' = [cmplQue EXCEPT ![q] = c],
           NEW d \in CtlRec, ctlr' = [ctlr EXCEPT ![q] = d],
           NEW p \in Seq(EntryRec), posted' = [posted EXCEPT ![q] = p],
           NEW i \in IntrRec, intr' = [intr EXCEPT ![q] = i],
           QueInStep(c, d, p), UNCHANGED <<reqBitmap, thd>>
    PROVE  IOInv'
<1>1. IOTypes'  BY DEF IOInv, IOTypes
<1>2. \A u \in Thread : Reads(thd'[u])  BY DEF IOInv, IOTypes
<1>3. \A o \in Que : QueInStep(cmplQue'[o], ctlr'[o], posted'[o])
  <2> SUFFICES ASSUME NEW o \in Que PROVE QueInStep(cmplQue'[o], ctlr'[o], posted'[o])  OBVIOUS
  <2>1. CASE o = q
    <3>1. cmplQue'[o] = c /\ ctlr'[o] = d /\ posted'[o] = p  BY <2>1 DEF IOInv, IOTypes
    <3> QED BY <3>1
  <2>2. CASE o # q
    <3>1. cmplQue'[o] = cmplQue[o] /\ ctlr'[o] = ctlr[o] /\ posted'[o] = posted[o]
      BY <2>2 DEF IOInv, IOTypes
    <3> QED BY <3>1 DEF IOInv
  <2> QED BY <2>1, <2>2
<1> QED BY <1>1, <1>2, <1>3 DEF IOInv, Reads, QueInStep, PhaseOf, Ahead

\* _findIOSubQue finds a queue: one of the least loaded, the first of them.
LEMMA QueueFound == IOInv => FindIOSubQue \in Que
<1> SUFFICES ASSUME IOInv PROVE FindIOSubQue \in Que  OBVIOUS
<1> USE IOAssumption
<1>1. \A q \in Que : subQue[q].load \in Nat /\ q \in Nat
  <2> SUFFICES ASSUME NEW q \in Que PROVE subQue[q].load \in Nat /\ q \in Nat  OBVIOUS
  <2>1. subQue[q].load \in 0 .. Wide - 1  BY DEF IOInv, IOTypes, SubRec
  <2> QED BY <2>1, SubSzFits
<1>2. PICK T \in SUBSET Nat : T = {subQue[q].load : q \in Que}  BY <1>1
<1>3. T # {}  BY <1>2
<1>4. PICK n \in T : \A y \in T : n <= y  BY <1>3, LeastOf
<1>5. PICK U \in SUBSET Nat : U = {q \in Que : subQue[q].load = n}  BY <1>1
<1>6. U # {}  BY <1>2, <1>4, <1>5
<1>7. PICK m \in U : \A y \in U : m <= y  BY <1>6, LeastOf
<1>8. m \in Que /\ subQue[m].load = n  BY <1>5, <1>7
<1>9. \A o \in Que : \/ subQue[m].load < subQue[o].load
                     \/ subQue[m].load = subQue[o].load /\ m <= o
  <2> SUFFICES ASSUME NEW o \in Que
               PROVE  \/ subQue[m].load < subQue[o].load
                      \/ subQue[m].load = subQue[o].load /\ m <= o
      OBVIOUS
  <2>1. subQue[o].load \in T /\ n <= subQue[o].load  BY <1>2, <1>4
  <2>2. CASE subQue[o].load = n
    <3>1. o \in U  BY <1>5, <2>2
    <3>2. m <= o  BY <1>7, <3>1
    <3> QED BY <1>8, <2>2, <3>2
  <2>3. CASE subQue[o].load # n
    <3>1. PICK a \in Nat : a = subQue[o].load  BY <1>1
    <3>2. n <= a /\ n # a  BY <2>1, <2>3, <3>1
    <3>3. n \in Nat  BY <1>3, <1>4
    <3>4. n < a  BY <3>1, <3>2, <3>3
    <3> QED BY <1>8, <3>1, <3>4
  <2> QED BY <2>2, <2>3
<1> QED BY <1>8, <1>9 DEF FindIOSubQue

-----------------------------------------------------------------------------
(* The steps of a thread. *)

\* A step of a thread in hw_nvme_devRead or hw_nvme_devWrite.
LEMMA ThreadStepKeeps == ASSUME IOInv, NEW t \in Thread, ThreadStep(t) PROVE IOInv'
<1> USE IOAssumption
<1>1. /\ thd \in [Thread -> ThdRec] /\ thd[t] \in ThdRec /\ Reads(thd[t]) /\ reqBitmap \subseteq Req
      /\ subQue \in [Que -> SubRec] /\ ctlr \in [Que -> CtlRec]
  BY DEF IOInv, IOTypes
<1>2. CASE GetSpareReq(t)
  <2>1. PICK S \in SUBSET Nat : S = Req \ reqBitmap  OBVIOUS
  <2>2. S # {}  BY <1>1, <1>2, <2>1 DEF GetSpareReq
  <2>3. Min(S) \in S  BY <2>2, MinLeast
  <2>4. PICK r \in Req : r = Min(Req \ reqBitmap)  BY <2>1, <2>3
  <2>5. PICK n \in 1 .. MaxBlk :
            thd' = [thd EXCEPT ![t] = [Begun EXCEPT !.pc = "next", !.req = r, !.left = n]]
    BY <1>2, <2>4 DEF GetSpareReq
  <2>6. PICK b \in ThdRec : b = Begun
    <3>1. Begun \in ThdRec  BY DEF Begun, ThdRec, Points
    <3> QED BY <3>1
  <2>7. PICK l \in ThdRec : l = [b EXCEPT !.pc = "next", !.req = r, !.left = n]
    <3>1. n \in Int  OBVIOUS
    <3>2. [b EXCEPT !.pc = "next", !.req = r, !.left = n] \in ThdRec  BY <3>1 DEF ThdRec, Points
    <3> QED BY <3>2
  <2>8. thd' = [thd EXCEPT ![t] = l] /\ Reads(l)
    <3>1. thd' = [thd EXCEPT ![t] = l]  BY <2>5, <2>6, <2>7
    <3>2. l.pc = "next"  BY <2>7 DEF ThdRec
    <3> QED BY <3>1, <3>2 DEF Reads
  <2>9. reqBitmap' \subseteq Req /\ UNCHANGED <<subQue, cmplQue, intr, ctlr, posted>>
    BY <1>1, <1>2, <2>4 DEF GetSpareReq
  <2> QED BY <1>1, <2>8, <2>9, ThreadKeeps
<1>3. CASE NextBlock(t)
  <2>1. PICK q \in Que : q = FindIOSubQue  BY QueueFound
  <2>2. PICK l \in ThdRec : l = [thd[t] EXCEPT !.pc = "insert", !.que = q]
    <3>1. [thd[t] EXCEPT !.pc = "insert", !.que = q] \in ThdRec  BY <1>1 DEF ThdRec, Points
    <3> QED BY <3>1
  <2>3. l.pc = "insert" /\ l.que = q  BY <1>1, <2>2 DEF ThdRec
  <2>4. thd' = [thd EXCEPT ![t] = l]  BY <1>1, <1>3, <2>1, <2>2 DEF NextBlock
  <2>5. UNCHANGED <<subQue, cmplQue, reqBitmap, intr, ctlr, posted>>  BY <1>3 DEF NextBlock
  <2>6. Reads(l)  BY <2>3 DEF Reads
  <2> QED BY <1>1, <2>4, <2>5, <2>6, ThreadKeeps
<1>4. CASE InsReq(t)
  <2>1. PICK q \in Que : q = thd[t].que  BY <1>1, <1>4 DEF InsReq, Reads
  <2>2. PICK u \in SubRec : u = subQue[q]  BY <1>1
  <2>3. PICK r \in Req \union {Unset} : r = thd[t].req  BY <1>1 DEF ThdRec
  <2> DEFINE s == u.tail
             cmd == [cmdIden |-> s, of |-> r]
             n == (s + 1) % SubSz
             ld == u.load + 1
             en == [u.entries EXCEPT ![s] = cmd]
             rq == [u.req EXCEPT ![s] = r]
             v == [u EXCEPT !.load = ld, !.tail = n, !.req = rq, !.entries = en]
  <2>5. s \in Slots /\ n \in Slots
    <3>1. s \in 0 .. SubSz - 1  BY DEF SubRec, Slots
    <3> QED BY <3>1, SubSzFits DEF Slots
  <2>6. ld \in 0 .. Wide - 1
    <3>1. u.load + 1 <= SubSz  BY <1>4, <2>1, <2>2 DEF InsReq
    <3>2. u.load \in 0 .. Wide - 1  BY DEF SubRec
    <3> QED BY <3>1, <3>2, SubSzFits
  <2>7. cmd \in CmdRec  BY <2>5 DEF CmdRec
  <2> HIDE DEF cmd
  <2>8. en \in [Slots -> CmdRec] /\ rq \in [Slots -> Req \union {Unset}]  BY <2>5, <2>7 DEF SubRec
  <2>9. subQue' = [subQue EXCEPT ![q] = v]
    <3>1. subQue' = [subQue EXCEPT ![q] = [u EXCEPT
                      !.load = u.load + 1, !.tail = (s + 1) % SubSz, !.req[s] = r,
                      !.entries[s] = [cmdIden |-> s, of |-> r]]]
      <4> DEFINE F(qq, rr) ==
               [subQue EXCEPT ![qq] = [subQue[qq] EXCEPT
                      !.load = subQue[qq].load + 1, !.tail = (subQue[qq].tail + 1) % SubSz,
                      !.req[subQue[qq].tail] = rr,
                      !.entries[subQue[qq].tail] = [cmdIden |-> subQue[qq].tail, of |-> rr]]]
      <4>1. subQue' = F(thd[t].que, thd[t].req)  BY <1>4 DEF InsReq
      <4> HIDE DEF F
      <4>2. subQue' = F(q, r)  BY <2>1, <2>3, <4>1
      <4>3. F(q, r) = [subQue EXCEPT ![q] = [u EXCEPT
                      !.load = u.load + 1, !.tail = (u.tail + 1) % SubSz,
                      !.req[u.tail] = r, !.entries[u.tail] = [cmdIden |-> u.tail, of |-> r]]]
        BY <2>2 DEF F
      <4> QED BY <4>2, <4>3
    <3>2. [u EXCEPT !.load = u.load + 1, !.tail = (s + 1) % SubSz, !.req[s] = r,
                    !.entries[s] = [cmdIden |-> s, of |-> r]] = v
      BY DEF cmd, SubRec
    <3> QED BY <1>1, <2>2, <3>1, <3>2
  <2> HIDE DEF n, ld, en, rq
  <2>10. v \in SubRec  BY <2>5, <2>6, <2>8 DEF SubRec
  <2>11. subQue' \in [Que -> SubRec]  BY <1>1, <2>9, <2>10
  <2>12. PICK l \in ThdRec : l = [thd[t] EXCEPT !.pc = "bell"]
    <3>1. [thd[t] EXCEPT !.pc = "bell"] \in ThdRec  BY <1>1 DEF ThdRec, Points
    <3> QED BY <3>1
  <2>13. thd' = [thd EXCEPT ![t] = l]  BY <1>1, <1>4, <2>12 DEF InsReq
  <2>14. Reads(l)  BY <1>1, <2>1, <2>12 DEF Reads, ThdRec
  <2>15. UNCHANGED <<cmplQue, reqBitmap, intr, ctlr, posted>>  BY <1>4 DEF InsReq
  <2> QED BY <1>1, <2>11, <2>13, <2>14, <2>15, ThreadKeeps
<1>5. CASE ReadTail(t)
  <2>1. PICK q \in Que : q = thd[t].que  BY <1>1, <1>5 DEF ReadTail, Reads
  <2>2. PICK s \in Slots : s = subQue[q].tail  BY <1>1 DEF SubRec
  <2>3. PICK l \in ThdRec : l = [thd[t] EXCEPT !.pc = "ring", !.val = {s}]
    <3>1. [thd[t] EXCEPT !.pc = "ring", !.val = {s}] \in ThdRec  BY <1>1 DEF ThdRec, Points
    <3> QED BY <3>1
  <2>4. thd' = [thd EXCEPT ![t] = l]  BY <1>1, <1>5, <2>1, <2>2, <2>3 DEF ReadTail
  <2>5. l.pc = "ring" /\ l.val = {s} /\ l.que = q  BY <1>1, <2>1, <2>3 DEF ThdRec
  <2>6. Reads(l)  BY <2>5 DEF Reads
  <2>7. UNCHANGED <<subQue, cmplQue, reqBitmap, intr, ctlr, posted>>  BY <1>5 DEF ReadTail
  <2> QED BY <1>1, <2>4, <2>6, <2>7, ThreadKeeps
<1>6. CASE WriteSubDb(t)
  <2>1. PICK q \in Que : q = thd[t].que  BY <1>1, <1>6 DEF WriteSubDb, Reads
  <2>2. PICK s \in Slots : thd[t].val = {s}  BY <1>1, <1>6 DEF WriteSubDb, Reads
  <2>3. (CHOOSE x \in thd[t].val : TRUE) = s  BY <2>2
  <2>4. PICK d \in CtlRec : d = ctlr[q]  BY <1>1
  <2> DEFINE b == d.late \/ s # subQue[q].tail
             e == [d EXCEPT !.tail = s, !.late = b]
  <2>5. ctlr' = [ctlr EXCEPT ![q] = e]
    <3>1. ctlr' = [ctlr EXCEPT ![q].tail = s, ![q].late = @ \/ s # subQue[q].tail]
      BY <1>6, <2>1, <2>3 DEF WriteSubDb
    <3> QED BY <1>1, <2>4, <3>1 DEF CtlRec
  <2>6. b \in BOOLEAN  OBVIOUS
  <2> HIDE DEF b
  <2>7. /\ e \in CtlRec /\ e.cmplTail = d.cmplTail /\ e.cmplHead = d.cmplHead /\ e.phase = d.phase
    BY <2>6 DEF CtlRec
  <2> HIDE DEF e
  <2>8. /\ ctlr' \in [Que -> CtlRec]
        /\ \A o \in Que : /\ ctlr'[o].cmplTail = ctlr[o].cmplTail
                          /\ ctlr'[o].cmplHead = ctlr[o].cmplHead /\ ctlr'[o].phase = ctlr[o].phase
    BY <1>1, <2>4, <2>5, <2>7
  <2>9. PICK l \in ThdRec : l = [thd[t] EXCEPT !.pc = "wait", !.val = {}]
    <3>1. [thd[t] EXCEPT !.pc = "wait", !.val = {}] \in ThdRec  BY <1>1 DEF ThdRec, Points
    <3> QED BY <3>1
  <2>10. thd' = [thd EXCEPT ![t] = l]  BY <1>1, <1>6, <2>9 DEF WriteSubDb
  <2>11. l.pc = "wait"  BY <1>1, <2>9 DEF ThdRec
  <2>12. Reads(l)  BY <2>11 DEF Reads
  <2>13. UNCHANGED <<subQue, cmplQue, reqBitmap, intr, posted>>  BY <1>6 DEF WriteSubDb
  <2> QED BY <1>1, <2>8, <2>10, <2>12, <2>13, ThreadKeeps
<1>7. CASE SendReturns(t)
  <2>1. PICK n \in Int : n = thd[t].left - 1  BY <1>1 DEF ThdRec
  <2>2. PICK p \in {"next", "end"} :
            p = IF req[thd[t].req].status = 1 /\ thd[t].left > 1 THEN "next" ELSE "end"
    OBVIOUS
  <2>3. PICK l \in ThdRec : l = [thd[t] EXCEPT !.left = n, !.pc = p]
    <3>1. [thd[t] EXCEPT !.left = n, !.pc = p] \in ThdRec  BY <1>1 DEF ThdRec, Points
    <3> QED BY <3>1
  <2>4. thd' = [thd EXCEPT ![t] = l]  BY <1>1, <1>7, <2>1, <2>2, <2>3 DEF SendReturns, ThdRec
  <2>5. l.pc = p  BY <1>1, <2>3 DEF ThdRec
  <2>6. Reads(l)  BY <2>5 DEF Reads
  <2>7. UNCHANGED <<subQue, cmplQue, reqBitmap, intr, ctlr, posted>>  BY <1>7 DEF SendReturns
  <2> QED BY <1>1, <2>4, <2>6, <2>7, ThreadKeeps
<1>8. CASE ReadBitmap(t)
  <2>1. PICK v \in SUBSET Req : v = reqBitmap \ {thd[t].req}  BY <1>1
  <2>2. PICK l \in ThdRec : l = [thd[t] EXCEPT !.pc = "release", !.val = v]
    <3>1. [thd[t] EXCEPT !.pc = "release", !.val = v] \in ThdRec  BY <1>1 DEF ThdRec, Points
    <3> QED BY <3>1
  <2>3. thd' = [thd EXCEPT ![t] = l]  BY <1>1, <1>8, <2>1, <2>2 DEF ReadBitmap
  <2>4. l.pc = "release" /\ l.val = v  BY <1>1, <2>2 DEF ThdRec
  <2>5. Reads(l)  BY <2>4 DEF Reads
  <2>6. UNCHANGED <<subQue, cmplQue, reqBitmap, intr, ctlr, posted>>  BY <1>8 DEF ReadBitmap
  <2> QED BY <1>1, <2>3, <2>5, <2>6, ThreadKeeps
<1>9. CASE WriteBitmap(t)
  <2>1. Begun \in ThdRec  BY DEF Begun, ThdRec, Points
  <2>2. PICK l \in ThdRec : l = Begun  BY <2>1
  <2>3. thd' = [thd EXCEPT ![t] = l]  BY <1>9, <2>2 DEF WriteBitmap
  <2>4. Reads(l)  BY <2>2 DEF Reads, Begun
  <2>5. reqBitmap' \subseteq Req /\ UNCHANGED <<subQue, cmplQue, intr, ctlr, posted>>
    BY <1>1, <1>9 DEF WriteBitmap, Reads
  <2> QED BY <1>1, <2>3, <2>4, <2>5, ThreadKeeps
<1> QED BY <1>2, <1>3, <1>4, <1>5, <1>6, <1>7, <1>8, <1>9 DEF ThreadStep

-----------------------------------------------------------------------------
(* The steps at a queue. *)

\* A step of the controller or of hw_nvme_msiHandler.
LEMMA QueueStepKeeps == ASSUME IOInv, NEW q \in Que, QueueStep(q) PROVE IOInv'
<1> USE IOAssumption
<1>1. /\ subQue \in [Que -> SubRec] /\ cmplQue \in [Que -> CmplRec] /\ ctlr \in [Que -> CtlRec]
      /\ posted \in [Que -> Seq(EntryRec)] /\ intr \in [Que -> IntrRec]
  BY DEF IOInv, IOTypes
<1>2. PICK s \in SubRec : s = subQue[q]  BY <1>1
<1>3. PICK c \in CmplRec : c = cmplQue[q]  BY <1>1
<1>4. PICK d \in CtlRec : d = ctlr[q]  BY <1>1
<1>5. PICK p \in Seq(EntryRec) : p = posted[q]  BY <1>1
<1>6. PICK i \in IntrRec : i = intr[q]  BY <1>1
<1>7. QueInStep(c, d, p)  BY <1>3, <1>4, <1>5 DEF IOInv
<1>8. /\ subQue = [subQue EXCEPT ![q] = s] /\ cmplQue = [cmplQue EXCEPT ![q] = c]
      /\ ctlr = [ctlr EXCEPT ![q] = d] /\ posted = [posted EXCEPT ![q] = p]
      /\ intr = [intr EXCEPT ![q] = i]
  BY <1>1, <1>2, <1>3, <1>4, <1>5, <1>6
<1>9. CASE Fetch(q)
  <2>1. PICK h \in Slots : h = (d.head + 1) % SubSz
    <3>1. d.head \in 0 .. SubSz - 1  BY DEF CtlRec, Slots
    <3> QED BY <3>1, SubSzFits DEF Slots
  <2>2. PICK o \in SUBSET CmdRec : o = d.out \union {s.entries[d.head]}  BY DEF CtlRec, SubRec
  <2>3. PICK e \in CtlRec : e = [d EXCEPT !.head = h, !.out = o]
    <3>1. [d EXCEPT !.head = h, !.out = o] \in CtlRec  BY DEF CtlRec
    <3> QED BY <3>1
  <2>4. ctlr' = [ctlr EXCEPT ![q] = e]
    <3>1. ctlr' = [ctlr EXCEPT ![q].head = h, ![q].out = o]
      BY <1>2, <1>4, <1>9, <2>1, <2>2 DEF Fetch
    <3> QED BY <1>1, <1>4, <2>3, <3>1
  <2>5. UNCHANGED <<subQue, cmplQue, posted, intr, reqBitmap, thd>>  BY <1>9 DEF Fetch
  <2>6. e.cmplTail = d.cmplTail /\ e.cmplHead = d.cmplHead /\ e.phase = d.phase  BY <2>3 DEF CtlRec
  <2>7. QueInStep(c, e, p)  BY <1>7, <2>6 DEF QueInStep
  <2> QED BY <1>8, <2>4, <2>5, <2>7, QueueKeeps
<1>10. CASE Post(q)
  <2> DEFINE t == d.cmplTail
  <2>1. t \in Entries  BY DEF CtlRec
  <2>2. PICK n \in Entries : n = (t + 1) % CmplSz
    <3>1. (t + 1) % CmplSz = IF t + 1 = CmplSz THEN 0 ELSE t + 1  BY <2>1, NextEntry
    <3> QED BY <2>1, <3>1 DEF Entries
  <2>3. n # d.cmplHead  BY <1>4, <1>10, <2>2 DEF Post
  <2>4. PICK k \in CmdRec :
          LET x == [phase |-> d.phase, subQueHdrPtr |-> d.head, cmdIden |-> k.cmdIden, of |-> k.of] IN
          /\ cmplQue' = [cmplQue EXCEPT ![q].entries[t] = x]
          /\ posted' = [posted EXCEPT ![q] = Append(@, x)]
          /\ ctlr' = [ctlr EXCEPT ![q] = [d EXCEPT
                         !.out = @ \ {k}, !.cmplTail = n,
                         !.phase = IF n = 0 THEN 1 - @ ELSE @]]
    <3>1. d.out \subseteq CmdRec  BY DEF CtlRec
    <3> QED BY <1>4, <1>10, <2>2, <3>1 DEF Post
  <2>5. PICK x \in EntryRec :
            x = [phase |-> d.phase, subQueHdrPtr |-> d.head, cmdIden |-> k.cmdIden, of |-> k.of]
    <3>1. [phase |-> d.phase, subQueHdrPtr |-> d.head, cmdIden |-> k.cmdIden, of |-> k.of] \in EntryRec
      BY DEF EntryRec, CtlRec, CmdRec
    <3> QED BY <3>1
  <2>6. x.phase = d.phase  BY <2>5
  <2>7. PICK en \in [Entries -> EntryRec] : en = [c.entries EXCEPT ![t] = x]  BY <2>1 DEF CmplRec
  <2>8. PICK c2 \in CmplRec : c2 = [c EXCEPT !.entries = en]
    <3>1. [c EXCEPT !.entries = en] \in CmplRec  BY DEF CmplRec
    <3> QED BY <3>1
  <2>9. cmplQue' = [cmplQue EXCEPT ![q] = c2]
    <3>1. cmplQue' = [cmplQue EXCEPT ![q].entries[t] = x]  BY <2>4, <2>5
    <3> QED BY <1>1, <1>3, <2>7, <2>8, <3>1
  <2>10. PICK p2 \in Seq(EntryRec) : p2 = Append(p, x)  BY AppendProperties
  <2>11. posted' = [posted EXCEPT ![q] = p2]  BY <1>5, <2>4, <2>5, <2>10
  <2>12. PICK ph \in {0, 1} : ph = IF n = 0 THEN 1 - d.phase ELSE d.phase  BY DEF CtlRec
  <2>13. PICK o \in SUBSET CmdRec : o = d.out \ {k}  BY DEF CtlRec
  <2>14. PICK d2 \in CtlRec : d2 = [d EXCEPT !.out = o, !.cmplTail = n, !.phase = ph]
    <3>1. [d EXCEPT !.out = o, !.cmplTail = n, !.phase = ph] \in CtlRec  BY DEF CtlRec
    <3> QED BY <3>1
  <2>15. ctlr' = [ctlr EXCEPT ![q] = d2]  BY <2>4, <2>12, <2>13, <2>14
  <2>16. d2.cmplHead = d.cmplHead /\ d2.cmplTail = n /\ d2.phase = ph  BY <2>14 DEF CtlRec
  <2>17. c2 = [c EXCEPT !.entries = [@ EXCEPT ![d.cmplTail] = x]]  BY <2>7, <2>8
  <2>18. QueInStep(c2, d2, p2)
    <3>1. QueInStep(c2, d2, Append(p, x))
      BY <1>7, <2>2, <2>3, <2>6, <2>12, <2>16, <2>17, PostInStep
    <3> QED BY <2>10, <3>1
  <2>19. PICK i2 \in IntrRec : i2 = [i EXCEPT !.pending = TRUE]
    <3>1. [i EXCEPT !.pending = TRUE] \in IntrRec  BY DEF IntrRec
    <3> QED BY <3>1
  <2>20. intr' = [intr EXCEPT ![q] = i2]  BY <1>1, <1>6, <1>10, <2>19 DEF Post
  <2>21. UNCHANGED <<subQue, reqBitmap, thd>>  BY <1>10 DEF Post
  <2> QED BY <1>8, <2>9, <2>11, <2>15, <2>18, <2>20, <2>21, QueueKeeps
<1>11. CASE Enter(q)
  <2>1. PICK i2 \in IntrRec : i2 = [i EXCEPT !.pc = "loop", !.pending = FALSE]
    <3>1. [i EXCEPT !.pc = "loop", !.pending = FALSE] \in IntrRec  BY DEF IntrRec
    <3> QED BY <3>1
  <2>2. intr' = [intr EXCEPT ![q] = i2]  BY <1>1, <1>6, <1>11, <2>1 DEF Enter
  <2>3. UNCHANGED <<subQue, cmplQue, ctlr, posted, reqBitmap, thd>>  BY <1>11 DEF Enter
  <2> QED BY <1>7, <1>8, <2>2, <2>3, QueueKeeps
<1>12. CASE TakeEntry(q)
  <2>1. PICK x \in EntryRec : x = Cur(q)  BY <1>3 DEF Cur, CmplRec
  <2>2. c.entries[c.pos].phase = c.phase  BY <1>3, <1>12 DEF TakeEntry, IsNew, Cur
  <2>3. p # <<>> /\ QueInStep(Advance(c), d, Tail(p)) /\ Advance(c) \in CmplRec
    BY <1>7, <2>2, TakeInStep
  <2>4. PICK c2 \in CmplRec : c2 = Advance(c)  BY <2>3
  <2>5. PICK p2 \in Seq(EntryRec) : p2 = Tail(p)  BY <2>3, HeadTailProperties
  <2>6. cmplQue' = [cmplQue EXCEPT ![q] = c2] /\ posted' = [posted EXCEPT ![q] = p2]
    BY <1>3, <1>5, <1>12, <2>4, <2>5 DEF TakeEntry
  <2>7. PICK r \in Req \union {Unset} : r = s.req[x.cmdIden]  BY DEF SubRec, EntryRec
  <2>8. PICK i2 \in IntrRec : i2 = [i EXCEPT !.pc = "answer", !.entry = x, !.req = r]
    <3>1. [i EXCEPT !.pc = "answer", !.entry = x, !.req = r] \in IntrRec  BY DEF IntrRec
    <3> QED BY <3>1
  <2>9. intr' = [intr EXCEPT ![q] = i2]
    BY <1>1, <1>2, <1>6, <1>12, <2>1, <2>7, <2>8 DEF TakeEntry
  <2>10. PICK ld \in 0 .. Wide - 1 : ld = (s.load - Fetched(s, x.subQueHdrPtr)) % 2 ^ 16
    <3>1. /\ s.load \in Int /\ s.head \in Int /\ x.subQueHdrPtr \in Int /\ SubSz \in Int
      <4>1. s.load \in 0 .. Wide - 1 /\ s.head \in 0 .. SubSz - 1 /\ x.subQueHdrPtr \in 0 .. SubSz - 1
        BY DEF SubRec, EntryRec, Slots
      <4> QED BY <4>1, SubSzFits
    <3>2. PICK y \in Int : y = s.load - Fetched(s, x.subQueHdrPtr)  BY <3>1 DEF Fetched
    <3>3. y % Wide \in 0 .. Wide - 1  BY SubSzFits
    <3> QED BY <3>2, <3>3 DEF Wide
  <2>11. PICK h \in Slots : h = x.subQueHdrPtr  BY DEF EntryRec
  <2>12. PICK s2 \in SubRec : s2 = [s EXCEPT !.load = ld, !.head = h]
    <3>1. [s EXCEPT !.load = ld, !.head = h] \in SubRec  BY DEF SubRec
    <3> QED BY <3>1
  <2>13. subQue' = [subQue EXCEPT ![q] = s2]
    BY <1>1, <1>2, <1>12, <2>1, <2>10, <2>11, <2>12 DEF TakeEntry
  <2>14. UNCHANGED <<ctlr, reqBitmap, thd>>  BY <1>12 DEF TakeEntry
  <2> QED BY <1>8, <2>3, <2>4, <2>5, <2>6, <2>9, <2>13, <2>14, QueueKeeps
<1>13. CASE Respond(q)
  <2>1. PICK x \in EntryRec : x = NoEntry
    <3>1. 0 \in {0, 1} /\ 0 \in Slots  BY SubSzFits DEF Slots
    <3>2. NoEntry \in EntryRec  BY <3>1 DEF NoEntry, EntryRec
    <3> QED BY <3>2
  <2>2. PICK i2 \in IntrRec : i2 = [i EXCEPT !.pc = "loop", !.entry = x, !.req = Unset]
    <3>1. [i EXCEPT !.pc = "loop", !.entry = x, !.req = Unset] \in IntrRec  BY DEF IntrRec
    <3> QED BY <3>1
  <2>3. intr' = [intr EXCEPT ![q] = i2]  BY <1>1, <1>6, <1>13, <2>1, <2>2 DEF Respond
  <2>4. UNCHANGED <<subQue, cmplQue, ctlr, posted, reqBitmap, thd>>  BY <1>13 DEF Respond
  <2> QED BY <1>7, <1>8, <2>3, <2>4, QueueKeeps
<1>14. CASE Leave(q)
  <2>1. PICK e \in Entries : e = c.pos  BY DEF CmplRec
  <2>2. PICK d2 \in CtlRec : d2 = [d EXCEPT !.cmplHead = e]
    <3>1. [d EXCEPT !.cmplHead = e] \in CtlRec  BY DEF CtlRec
    <3> QED BY <3>1
  <2>3. ctlr' = [ctlr EXCEPT ![q] = d2]  BY <1>1, <1>3, <1>4, <1>14, <2>1, <2>2 DEF Leave
  <2>4. PICK i2 \in IntrRec : i2 = [i EXCEPT !.pc = "off"]
    <3>1. [i EXCEPT !.pc = "off"] \in IntrRec  BY DEF IntrRec
    <3> QED BY <3>1
  <2>5. intr' = [intr EXCEPT ![q] = i2]  BY <1>1, <1>6, <1>14, <2>4 DEF Leave
  <2>6. d2.cmplHead = c.pos /\ d2.cmplTail = d.cmplTail /\ d2.phase = d.phase
    BY <2>1, <2>2 DEF CtlRec
  <2>7. QueInStep(c, d2, p)  BY <1>7, <2>6, LeaveInStep
  <2>8. UNCHANGED <<subQue, cmplQue, posted, reqBitmap, thd>>  BY <1>14 DEF Leave
  <2> QED BY <1>8, <2>3, <2>5, <2>7, <2>8, QueueKeeps
<1> QED BY <1>9, <1>10, <1>11, <1>12, <1>13, <1>14 DEF QueueStep

-----------------------------------------------------------------------------
\* The queues as hw_nvme_allocSubQue and hw_nvme_allocCmplQue leave them.
LEMMA IOStart == IOInit => IOInv
<1> SUFFICES ASSUME IOInit PROVE IOInv  OBVIOUS
<1> USE IOAssumption
<1> DEFINE z == 0
           one == 1
           no == Unset
<1>1. /\ z \in Slots /\ z \in Entries /\ z \in 0 .. Wide - 1 /\ z \in {0, 1} /\ one \in {0, 1}
      /\ no \in Req \union {Unset}
  BY SubSzFits DEF Slots, Entries
<1>2. PICK x \in EntryRec : x = NoEntry /\ x.phase = 0
  <2>1. NoEntry = [phase |-> z, subQueHdrPtr |-> z, cmdIden |-> z, of |-> no]  BY DEF NoEntry
  <2> HIDE DEF z, no
  <2>2. NoEntry \in EntryRec  BY <1>1, <2>1 DEF EntryRec
  <2>3. NoEntry.phase = z  BY <2>1
  <2> QED BY <2>2, <2>3 DEF z
<1>3. PICK k \in CmdRec : k = NoCmd
  <2>1. NoCmd = [cmdIden |-> z, of |-> no]  BY DEF NoCmd
  <2> HIDE DEF z, no
  <2>2. NoCmd \in CmdRec  BY <1>1, <2>1 DEF CmdRec
  <2> QED BY <2>2
<1>4. PICK s \in SubRec : subQue = [q \in Que |-> s]
  <2> DEFINE en == [b \in Slots |-> k]
             rq == [b \in Slots |-> no]
             s == [tail |-> z, head |-> z, load |-> z, entries |-> en, req |-> rq]
  <2>1. subQue = [q \in Que |-> s]  BY <1>3 DEF IOInit
  <2>2. en \in [Slots -> CmdRec] /\ rq \in [Slots -> Req \union {Unset}]  BY <1>1
  <2> HIDE DEF z, en, rq
  <2>3. s \in SubRec  BY <1>1, <2>2 DEF SubRec
  <2> QED BY <2>1, <2>3
<1>5. PICK c \in CmplRec : /\ cmplQue = [q \in Que |-> c] /\ c.pos = 0 /\ c.phase = 1
                           /\ \A e \in Entries : c.entries[e].phase = 0
  <2> DEFINE en == [e \in Entries |-> x]
             c == [pos |-> z, phase |-> one, entries |-> en]
  <2>1. cmplQue = [q \in Que |-> c]  BY <1>2 DEF IOInit
  <2>2. en \in [Entries -> EntryRec] /\ \A e \in Entries : en[e].phase = 0  BY <1>2
  <2> HIDE DEF z, one, en
  <2>3. c \in CmplRec  BY <1>1, <2>2 DEF CmplRec
  <2>4. c.pos = z /\ c.phase = one /\ c.entries = en  OBVIOUS
  <2> HIDE DEF c
  <2>5. c.pos = 0 /\ c.phase = 1  BY <2>4 DEF z, one
  <2> QED BY <2>1, <2>2, <2>3, <2>4, <2>5
<1>6. PICK d \in CtlRec : /\ ctlr = [q \in Que |-> d] /\ d.cmplTail = 0 /\ d.cmplHead = 0 /\ d.phase = 1
  <2> DEFINE o == {}
             d == [tail |-> z, head |-> z, out |-> o, cmplTail |-> z, cmplHead |-> z,
                   phase |-> one, late |-> FALSE]
  <2>1. ctlr = [q \in Que |-> d]  BY DEF IOInit
  <2>2. o \in SUBSET CmdRec  OBVIOUS
  <2> HIDE DEF z, one, o
  <2>3. d \in CtlRec  BY <1>1, <2>2 DEF CtlRec
  <2>4. d.cmplTail = z /\ d.cmplHead = z /\ d.phase = one  OBVIOUS
  <2> HIDE DEF d
  <2>5. d.cmplTail = 0 /\ d.cmplHead = 0 /\ d.phase = 1  BY <2>4 DEF z, one
  <2> QED BY <2>1, <2>3, <2>5
<1>7. posted = [q \in Que |-> <<>>] /\ <<>> \in Seq(EntryRec)  BY EmptySeq DEF IOInit
<1>8. intr \in [Que -> IntrRec]
  <2>1. intr = [q \in Que |-> [pc |-> "off", pending |-> FALSE, entry |-> x, req |-> no]]
    BY <1>2 DEF IOInit
  <2> QED BY <2>1 DEF IntrRec
<1>9. thd = [t \in Thread |-> Begun] /\ Begun \in ThdRec /\ Reads(Begun)
  BY DEF IOInit, Begun, ThdRec, Points, Reads
<1>10. reqBitmap = {}  BY DEF IOInit
<1>11. IOTypes
  <2>1. posted \in [Que -> Seq(EntryRec)]  BY <1>7
  <2>2. subQue \in [Que -> SubRec]  BY <1>4
  <2>3. cmplQue \in [Que -> CmplRec]  BY <1>5
  <2>4. ctlr \in [Que -> CtlRec]  BY <1>6
  <2>5. thd \in [Thread -> ThdRec]  BY <1>9
  <2> QED BY <1>8, <1>10, <2>1, <2>2, <2>3, <2>4, <2>5 DEF IOTypes
<1>12. \A t \in Thread : Reads(thd[t])  BY <1>9
<1>13. ASSUME NEW q \in Que PROVE QueInStep(cmplQue[q], ctlr[q], posted[q])
  <2>1. QueInStep(c, d, <<>>)  BY <1>5, <1>6, FreshInStep
  <2> QED BY <1>5, <1>6, <1>7, <2>1
<1> QED BY <1>11, <1>12, <1>13 DEF IOInv

\* The invariant of the queues (hardware/nvme/api.c, init.c).
THEOREM QueuesKept == IOSpec => []IOInv
<1>1. IOInv /\ [IONext]_nvmeVars => IOInv'
  <2> SUFFICES ASSUME IOInv, [IONext]_nvmeVars PROVE IOInv'  OBVIOUS
  <2>1. CASE \E t \in Thread : ThreadStep(t)  BY <2>1, ThreadStepKeeps
  <2>2. CASE \E q \in Que : QueueStep(q)  BY <2>2, QueueStepKeeps
  <2>3. CASE UNCHANGED nvmeVars
    BY <2>3 DEF nvmeVars, IOInv, IOTypes, Reads, QueInStep, PhaseOf, Ahead
  <2> QED BY <2>1, <2>2, <2>3 DEF IONext
<1> QED BY <1>1, IOStart, PTL DEF IOSpec

\* Indices stay in the queues, the identifier and the head pointer that the
\* handler reads in an entry are slots of the submission queue, load stays
\* in its 16 bits although it is only added to and subtracted from, and the
\* bitmap has no request but the device's, however its unlocked changes are
\* lost (hw_nvme_tryInsReq, hw_nvme_msiHandler, _releaseReq).
THEOREM QueuesTyped == IOSpec => []IOTypeOK
<1>1. IOInv => IOTypeOK
  <2> SUFFICES ASSUME IOInv PROVE IOTypeOK  OBVIOUS
  <2>1. \A q \in Que : /\ subQue[q].tail \in Slots /\ subQue[q].head \in Slots
                       /\ subQue[q].load \in 0 .. 2 ^ 16 - 1
    BY DEF IOInv, IOTypes, SubRec, Wide
  <2>2. \A q \in Que : cmplQue[q].pos \in Entries /\ cmplQue[q].phase \in {0, 1}
    BY DEF IOInv, IOTypes, CmplRec
  <2>6. \A q \in Que, e \in Entries : /\ cmplQue[q].entries[e].cmdIden \in Slots
                                      /\ cmplQue[q].entries[e].subQueHdrPtr \in Slots
    BY DEF IOInv, IOTypes, CmplRec, EntryRec
  <2>7. \A q \in Que, s \in Slots : /\ subQue[q].entries[s].cmdIden \in Slots
                                    /\ subQue[q].req[s] \in Req \union {Unset}
    BY DEF IOInv, IOTypes, SubRec, CmdRec
  <2>3. \A q \in Que : intr[q].pc \in {"off", "loop", "answer"}  BY DEF IOInv, IOTypes, IntrRec
  <2>4. \A t \in Thread : thd[t].pc \in Points  BY DEF IOInv, IOTypes, ThdRec
  <2>5. reqBitmap \subseteq Req  BY DEF IOInv, IOTypes
  <2> QED BY <2>1, <2>2, <2>3, <2>4, <2>5, <2>6, <2>7 DEF IOTypeOK, Points
<1> QED BY <1>1, QueuesKept, PTL

\* What the handler will read is what was posted and not taken, on every
\* lap and whenever the doorbell is written (hw_nvme_msiHandler).
THEOREM CompletionsInStep == IOSpec => []PhaseInStep
<1>1. IOInv => PhaseInStep
  <2> SUFFICES ASSUME IOInv, NEW q \in Que PROVE Unread(q) = posted[q]  BY DEF PhaseInStep
  <2>1. PICK c \in CmplRec : c = cmplQue[q]  BY DEF IOInv, IOTypes
  <2>2. PICK d \in CtlRec : d = ctlr[q]  BY DEF IOInv, IOTypes
  <2>3. PICK s \in Seq(EntryRec) : s = posted[q]  BY DEF IOInv, IOTypes
  <2>4. QueInStep(c, d, s)  BY <2>1, <2>2, <2>3 DEF IOInv
  <2> DEFINE n == Min({i \in 0 .. CmplSz :
                      \/ i = CmplSz
                      \/ c.entries[(c.pos + i) % CmplSz].phase
                            # IF c.pos + i < CmplSz THEN c.phase ELSE 1 - c.phase})
  <2>5. [i \in 1 .. n |-> c.entries[(c.pos + (i - 1)) % CmplSz]] = s  BY <2>4, ReadsPosted
  <2>6. Unread(q) = [i \in 1 .. n |-> c.entries[(c.pos + (i - 1)) % CmplSz]]
    BY <2>1 DEF Unread, EntryAt, PhaseAt
  <2> QED BY <2>3, <2>5, <2>6
<1> QED BY <1>1, QueuesKept, PTL
-----------------------------------------------------------------------------
(* The invariant of a ring. *)

Inserting == {"copy", "cyc", "reqs"}

\* Where the holder of the lock is, and how many of its TRBs are in the ring.
Holder == IF ring.lck = NoUser THEN "none" ELSE ringThd[ring.lck].pc
Done == IF Holder = "none" THEN 0
        ELSE IF Holder = "copy" THEN ringThd[ring.lck].i - 1 ELSE ringThd[ring.lck].i
Rest == IF Holder = "none" THEN 0 ELSE InputSz[ring.lck] - Done

\* The entries of this lap that are written, and that are the controller's.
Put == IF Holder \in {"cyc", "reqs"} THEN ring.curIdx + 1 ELSE ring.curIdx
Turned == IF Holder = "reqs" \/ (Holder = "cyc" /\ ring.cycBit = 0) THEN ring.curIdx + 1 ELSE ring.curIdx

RingRec == [curIdx : RingSlots, cycBit : {0, 1}, load : Nat, lck : User \union {NoUser},
            trbs : [RingSlots -> [cyc : {0, 1}, of : User \union {NoUser}, i : Nat]],
            reqs : [RingSlots -> User \union {NoUser}]]
UserRec == [pc : Inserting \union {"idle", "bell", "wait"}, i : Nat \ {0}]
CtrlRec == [bell : BOOLEAN, deq : RingSlots, ccs : {0, 1}, enq : 0 .. EveSz - 1, pcs : {0, 1},
            deqPtr : 0 .. EveSz - 1]
EveRec == [trbs : [0 .. EveSz - 1 -> [cyc : {0, 1}, idx : RingSlots]],
           curRingIdx : 0 .. RingNum - 1, curIdx : 0 .. RingSz - 1, cycBit : {0, 1}]
HandlerRec == [pc : {"off", "loop", "look", "answer"}, idx : RingSlots,
               of : User \union {NoUser}, req : User \union {NoUser}]

RingTypes ==
    /\ ring \in RingRec /\ ring.load <= Size
    /\ ringWait \in [User -> Int] /\ ringThd \in [User -> UserRec]
    /\ ringCtl \in CtrlRec /\ eve \in EveRec /\ ringIntr \in HandlerRec
    /\ due \in Seq(TRBs) /\ evePosted \in Seq([idx : RingSlots, of : User])

LockOK ==
    /\ \A t \in User : ringThd[t].pc \in Inserting <=> ring.lck = t
    /\ \A t \in User : ringThd[t].i <= InputSz[t] /\ (ring.lck # t => ringThd[t].i = 1)
    /\ Holder \in {"cyc", "reqs"} => ring.curIdx < LinkIdx

CycOK == \A s \in RingSlots : ring.trbs[s].cyc = IF s < Turned THEN ring.cycBit ELSE 1 - ring.cycBit

\* The event ring: where the driver comes to the m-th event.
EveAhead(m) == IF Pos + m - 1 < EveSz THEN Pos + m - 1 ELSE Pos + m - 1 - EveSz
EvesOK ==
    /\ \A e \in 0 .. EveSz - 1 : eve.trbs[e].cyc = IF e < ringCtl.enq THEN ringCtl.pcs ELSE 1 - ringCtl.pcs
    /\ Len(evePosted) = ringCtl.enq - (IF eve.cycBit = ringCtl.pcs THEN Pos ELSE Pos - EveSz)
    /\ Len(evePosted) + (IF ringCtl.deqPtr <= Pos THEN Pos - ringCtl.deqPtr
                         ELSE Pos - ringCtl.deqPtr + EveSz) < EveSz
    /\ \A m \in 1 .. Len(evePosted) : evePosted[m].idx = eve.trbs[EveAhead(m)].idx

\* The TRBs in flight, f, lie behind Put, the k-th of them here.
SlotAt(w, n, k) == IF w - n + k - 1 >= 0 THEN w - n + k - 1 ELSE w - n + k - 1 + LinkIdx
FlightAt(f, k) == SlotAt(Put, Len(f), k)
LastTRB(r) == r.i = InputSz[r.of]

\* No TRB twice, those of a request together and in order.
Laid(f) ==
    /\ \A k, l \in 1 .. Len(f) : f[k] = f[l] => k = l
    /\ \A k \in 1 .. Len(f) : \A j \in 1 .. f[k].i :
          k - f[k].i + j >= 1 /\ f[k - f[k].i + j] = [of |-> f[k].of, i |-> j]
    /\ \A k \in 1 .. Len(f) - 1 : LastTRB(f[k]) \/ f[k + 1].i # 1

StoredOK(f) ==
    /\ ring.load = Len(f) + Rest
    /\ Done > 0 => Len(f) > 0 /\ f[Len(f)] = [of |-> ring.lck, i |-> Done]
    /\ Done = 0 /\ Len(f) > 0 => LastTRB(f[Len(f)])
    /\ \A k \in 1 .. Len(f) : f[k].of = ring.lck => f[k].i <= Done
    /\ \A k \in 1 .. Len(f) :
          /\ ring.trbs[FlightAt(f, k)].of = f[k].of /\ ring.trbs[FlightAt(f, k)].i = f[k].i
          /\ ring.reqs[FlightAt(f, k)] = f[k].of \/ (k = Len(f) /\ Holder \in {"cyc", "reqs"})

\* Those the controller has not executed are the last ones.
DuesOK(f) ==
    /\ Len(due) <= Len(f)
    /\ \A k \in 1 .. Len(due) : due[k] = f[Len(f) - Len(due) + k]
    /\ Put - Len(due) = IF ring.cycBit = ringCtl.ccs THEN ringCtl.deq ELSE ringCtl.deq - LinkIdx

\* The requests that are executed and not answered end at the places p.
Looks == IF ringIntr.pc = "look" THEN 1 ELSE 0
EndsOK(f, p) ==
    /\ Len(p) = Looks + Len(evePosted)
    /\ \A m \in 1 .. Len(p) : p[m] \in 1 .. Len(f) - Len(due) /\ LastTRB(f[p[m]])
    /\ \A m, n \in 1 .. Len(p) : m < n => p[m] < p[n]
    /\ \A k \in 1 .. Len(f) - Len(due) : LastTRB(f[k]) => \E m \in 1 .. Len(p) : p[m] = k
    /\ \A m \in 1 .. Len(evePosted) :
          /\ evePosted[m].idx = FlightAt(f, p[Looks + m]) /\ evePosted[m].of = f[p[Looks + m]].of
    /\ Looks = 1 => ringIntr.idx = FlightAt(f, p[1]) /\ ringIntr.of = f[p[1]].of

InFlight(f, t) == \E k \in 1 .. Len(f) : f[k].of = t
Answered(t) == ringIntr.pc = "answer" /\ ringIntr.req = t
WaitOK(f, t) ==
    /\ ringThd[t].pc = "idle" => ringWait[t] = 0 /\ ~InFlight(f, t) /\ ~Answered(t)
    /\ ringThd[t].pc \in Inserting => ringWait[t] = 0 /\ ~Answered(t)
    /\ ringThd[t].pc \in {"bell", "wait"} =>
          ringWait[t] = (IF ringThd[t].pc = "wait" THEN 1 ELSE 0)
                          - (IF InFlight(f, t) \/ Answered(t) THEN 0 ELSE 1)
    /\ ~(InFlight(f, t) /\ Answered(t))
WaitsOK(f) ==
    /\ ringIntr.pc = "answer" => ringIntr.req = ringIntr.of /\ ringIntr.req \in User
    /\ \A t \in User : WaitOK(f, t)

Flight(f, p) == Laid(f) /\ StoredOK(f) /\ DuesOK(f) /\ EndsOK(f, p) /\ WaitsOK(f)

RingInv ==
    /\ RingTypes /\ LockOK /\ CycOK /\ EvesOK
    /\ \E f \in Seq(TRBs), p \in Seq(Nat) : Flight(f, p)

-----------------------------------------------------------------------------
(* Lists of TRBs. *)

\* A TRB is one of the TRBs of a thread's request.
LEMMA TRBIs ==
    /\ \A t \in User : \A j \in 1 .. InputSz[t] : [of |-> t, i |-> j] \in TRBs
    /\ \A r \in TRBs : r.of \in User /\ r.i \in 1 .. InputSz[r.of] /\ r = [of |-> r.of, i |-> r.i]
    /\ \A t \in User : InputSz[t] \in Nat \ {0}
<1>1. \A t \in User : InputSz[t] \in Nat \ {0}  BY RingAssumption
<1>2. ASSUME NEW t \in User, NEW j \in 1 .. InputSz[t] PROVE [of |-> t, i |-> j] \in TRBs
  <2>1. [of |-> t, i |-> j] \in [of : {t}, i : 1 .. InputSz[t]]  OBVIOUS
  <2> QED BY <2>1 DEF TRBs
<1>3. ASSUME NEW r \in TRBs PROVE r.of \in User /\ r.i \in 1 .. InputSz[r.of] /\ r = [of |-> r.of, i |-> r.i]
  <2>1. PICK t \in User : r \in [of : {t}, i : 1 .. InputSz[t]]  BY DEF TRBs
  <2> QED BY <2>1
<1> QED BY <1>1, <1>2, <1>3

\* There are finitely many.
LEMMA TRBsFinite == IsFiniteSet(TRBs) /\ Cardinality(TRBs) \in Nat
<1> DEFINE Of(t) == [of : {t}, i : 1 .. InputSz[t]]
           S == {Of(t) : t \in User}
<1>1. IsFiniteSet(S)
  <2>1. IsFiniteSet(User)  BY RingAssumption
  <2> DEFINE g == [t \in User |-> Of(t)]
  <2>2. g \in Surjection(User, S)  BY DEF Surjection
  <2> HIDE DEF g, S
  <2> QED BY <2>1, <2>2, FS_Surjection
<1>2. ASSUME NEW x \in S PROVE IsFiniteSet(x)
  <2>1. PICK t \in User : x = Of(t)  OBVIOUS
  <2>2. 1 \in Int /\ InputSz[t] \in Int  BY RingAssumption
  <2>3. IsFiniteSet(1 .. InputSz[t])  BY <2>2, FS_Interval
  <2> DEFINE g == [j \in 1 .. InputSz[t] |-> [of |-> t, i |-> j]]
  <2>4. g \in Surjection(1 .. InputSz[t], Of(t))
    <3>1. g \in [1 .. InputSz[t] -> Of(t)]  OBVIOUS
    <3>2. \A r \in Of(t) : r.i \in 1 .. InputSz[t] /\ g[r.i] = r  OBVIOUS
    <3> QED BY <3>1, <3>2 DEF Surjection
  <2> HIDE DEF g
  <2>5. IsFiniteSet(Of(t))  BY <2>3, <2>4, FS_Surjection
  <2> QED BY <2>1, <2>5
<1>3. IsFiniteSet(UNION S)  BY <1>1, <1>2, FS_UNION
<1>4. TRBs = UNION S  BY DEF TRBs
<1> QED BY <1>3, <1>4, FS_CardinalityType

\* What is in flight leaves the link entry out.
LEMMA LaidFits ==
    ASSUME NEW f \in Seq(TRBs), Laid(f)
    PROVE  Len(f) \in Nat /\ Len(f) <= LinkIdx /\ LinkIdx \in Nat /\ Size \in Nat
<1>1. DOMAIN f = 1 .. Len(f) /\ Len(f) \in Nat  BY LenProperties
<1>2. IsInjective(f)  BY <1>1 DEF Laid, IsInjective
<1>3. IsFiniteSet(ToSet(f)) /\ Cardinality(ToSet(f)) = Len(f)  BY <1>2, SetOfListOnce
<1>4. ToSet(f) \subseteq TRBs  BY <1>1 DEF ToSet
<1>5. Cardinality(ToSet(f)) <= Cardinality(TRBs)  BY <1>4, TRBsFinite, FS_Subset
<1> QED BY <1>1, <1>3, <1>5, TRBsFinite, RingAssumption DEF LinkIdx

\* A TRB that comes behind those of its request, or behind a request that is whole.
Follows(f, t, i) ==
    /\ i > 1 => Len(f) > 0 /\ f[Len(f)] = [of |-> t, i |-> i - 1]
    /\ i = 1 /\ Len(f) > 0 => LastTRB(f[Len(f)])
    /\ \A k \in 1 .. Len(f) : f[k].of = t => f[k].i <= i - 1

Longer(f, t, i) == Append(f, [of |-> t, i |-> i])

\* The TRBs stay laid out with it.
LEMMA LaidAppend ==
    ASSUME NEW f \in Seq(TRBs), Laid(f), NEW t \in User, NEW i \in 1 .. InputSz[t], Follows(f, t, i)
    PROVE  /\ Longer(f, t, i) \in Seq(TRBs) /\ Laid(Longer(f, t, i)) /\ Len(Longer(f, t, i)) = Len(f) + 1
           /\ Longer(f, t, i)[Len(f) + 1] = [of |-> t, i |-> i]
           /\ \A k \in 1 .. Len(f) : Longer(f, t, i)[k] = f[k]
<1> DEFINE r == [of |-> t, i |-> i]
           n == Len(f)
           g == Longer(f, t, i)
<1>0. /\ i > 1 => Len(f) > 0 /\ f[Len(f)] = [of |-> t, i |-> i - 1]
      /\ i = 1 /\ Len(f) > 0 => LastTRB(f[Len(f)])
      /\ \A k \in 1 .. Len(f) : f[k].of = t => f[k].i <= i - 1
  BY DEF Follows
<1>1. r \in TRBs /\ i \in Nat /\ r.of = t /\ r.i = i  BY TRBIs
<1>2. /\ g \in Seq(TRBs) /\ Len(g) = n + 1 /\ n \in Nat /\ g[n + 1] = r /\ \A k \in 1 .. n : g[k] = f[k]
  BY <1>1 DEF Longer
<1>3. \A k \in 1 .. n : f[k] \in TRBs /\ f[k].i \in Nat \ {0}
  <2>1. \A k \in 1 .. n : f[k] \in TRBs  BY ElementOfSeq
  <2> QED BY <2>1, TRBIs
<1> HIDE DEF r, n, g
<1>4. \A k, l \in 1 .. Len(g) : g[k] = g[l] => k = l
  <2>1. \A k \in 1 .. n : f[k] # r  BY <1>0, <1>1, <1>3 DEF n
  <2>2. \A k, l \in 1 .. n : f[k] = f[l] => k = l  BY DEF Laid, n
  <2> QED BY <1>2, <2>1, <2>2
<1>5. ASSUME NEW k \in 1 .. Len(g), NEW j \in 1 .. g[k].i
      PROVE  k - g[k].i + j >= 1 /\ g[k - g[k].i + j] = [of |-> g[k].of, i |-> j]
  <2>1. CASE k <= n
    <3>1. g[k] = f[k] /\ j \in 1 .. f[k].i /\ k \in 1 .. n  BY <1>2, <2>1
    <3>2. k - f[k].i + j >= 1 /\ f[k - f[k].i + j] = [of |-> f[k].of, i |-> j]  BY <3>1 DEF Laid, n
    <3>3. k - f[k].i + j \in 1 .. n
      <4>1. PICK x \in Nat : x = f[k].i  BY <1>3, <3>1
      <4>2. j \in 1 .. x /\ k - x + j >= 1 /\ n \in Nat /\ k <= n  BY <1>2, <3>1, <3>2, <4>1
      <4>3. k \in Nat  BY <3>1
      <4>4. k - x + j \in 1 .. n  BY <4>2, <4>3
      <4> QED BY <4>1, <4>4
    <3> QED BY <1>2, <3>1, <3>2, <3>3
  <2>2. CASE k = n + 1
    <3>1. g[k] = r /\ j \in 1 .. i  BY <1>1, <1>2, <2>2
    <3>2. CASE j = i  BY <1>1, <1>2, <2>2, <3>1, <3>2 DEF r
    <3>3. CASE j < i
      <4>1. i > 1 /\ n > 0 /\ f[n].of = t /\ f[n].i = i - 1  BY <1>0, <1>1, <3>1, <3>3 DEF n
      <4>2. n \in 1 .. n /\ j \in 1 .. f[n].i  BY <1>1, <1>2, <3>1, <3>3, <4>1
      <4>3. n - f[n].i + j >= 1 /\ f[n - f[n].i + j] = [of |-> f[n].of, i |-> j]  BY <4>2 DEF Laid, n
      <4>4. PICK q \in Int : q = n - (i - 1) + j  BY <1>1, <1>2, <3>1
      <4>5. q >= 1 /\ f[q] = [of |-> t, i |-> j]  BY <4>1, <4>3, <4>4
      <4>6. q \in 1 .. n /\ q = k - i + j  BY <1>1, <1>2, <2>2, <3>1, <3>3, <4>4, <4>5
      <4>7. g[q] = f[q]  BY <1>2, <4>6
      <4>8. g[k].i = i /\ g[k].of = t  BY <1>1, <3>1
      <4>9. k - g[k].i + j = q  BY <4>6, <4>8
      <4>10. g[q] = [of |-> g[k].of, i |-> j]
        <5>1. g[q] = [of |-> t, i |-> j]  BY <4>5, <4>7
        <5> QED BY <4>8, <5>1
      <4>11. k - g[k].i + j >= 1  BY <4>5, <4>9
      <4>12. g[k - g[k].i + j] = [of |-> g[k].of, i |-> j]  BY <4>9, <4>10
      <4> QED BY <4>11, <4>12
    <3> QED BY <1>1, <3>1, <3>2, <3>3
  <2>3. k <= n \/ k = n + 1  BY <1>2
  <2> QED BY <2>1, <2>2, <2>3
<1>6. ASSUME NEW k \in 1 .. Len(g) - 1 PROVE LastTRB(g[k]) \/ g[k + 1].i # 1
  <2>1. k \in 1 .. n /\ g[k] = f[k]  BY <1>2
  <2>2. CASE k < n  BY <1>2, <2>1, <2>2 DEF Laid, n
  <2>3. CASE k = n
    <3>1. g[k + 1].i = i /\ n > 0  BY <1>1, <1>2, <2>1, <2>3
    <3>2. i = 1 => LastTRB(f[n])  BY <1>0, <3>1 DEF n
    <3> QED BY <2>1, <2>3, <3>1, <3>2
  <2> QED BY <1>2, <2>1, <2>2, <2>3
<1> QED BY <1>2, <1>4, <1>5, <1>6 DEF Laid, n, r, g

\* A list without its first entries.
BehindOf(f, n) == SubSeq(f, n + 1, Len(f))

\* The first request leaves.
LEMMA LaidDrop ==
    ASSUME NEW f \in Seq(TRBs), Laid(f), NEW n \in 1 .. Len(f), LastTRB(f[n]),
           \A k \in 1 .. n - 1 : ~LastTRB(f[k]), NEW g, g = BehindOf(f, n)
    PROVE  /\ n = InputSz[f[n].of] /\ g \in Seq(TRBs) /\ Laid(g) /\ Len(g) = Len(f) - n
           /\ \A k \in 1 .. Len(g) : g[k] = f[n + k] /\ g[k].of # f[n].of
           /\ \A k \in 1 .. n : f[k].of = f[n].of
<1> DEFINE t == f[n].of
           c == Len(f)
<1>1. c \in Nat /\ n \in Nat /\ n <= c /\ 1 <= n  BY LenProperties
<1>2. \A k \in 1 .. c : f[k] \in TRBs /\ f[k].of \in User /\ f[k].i \in 1 .. InputSz[f[k].of] /\ InputSz[f[k].of] \in Nat
  <2>1. \A k \in 1 .. c : f[k] \in TRBs  BY ElementOfSeq
  <2> QED BY <2>1, TRBIs
<1>3. /\ \A k, l \in 1 .. c : f[k] = f[l] => k = l
      /\ \A k \in 1 .. c : \A j \in 1 .. f[k].i :
            k - f[k].i + j >= 1 /\ f[k - f[k].i + j] = [of |-> f[k].of, i |-> j]
      /\ \A k \in 1 .. c - 1 : LastTRB(f[k]) \/ f[k + 1].i # 1
  BY DEF Laid
<1> HIDE DEF c
<1>4. g \in Seq(TRBs) /\ Len(g) = c - n /\ \A k \in 1 .. c - n : g[k] = f[n + k]
  BY <1>1 DEF c, BehindOf
<1>5. f[n].i = InputSz[t] /\ f[n].i \in Nat \ {0}  BY <1>1, <1>2 DEF LastTRB
<1>6. n = InputSz[t]
  <2> DEFINE b == n - f[n].i + 1
  <2>1. 1 \in 1 .. f[n].i  BY <1>5
  <2>2. b >= 1 /\ f[b] = [of |-> t, i |-> 1]  BY <1>1, <1>3, <2>1
  <2>3. b <= n /\ b \in Int /\ b = n - InputSz[t] + 1 /\ InputSz[t] \in Nat  BY <1>1, <1>5
  <2>4. CASE b > 1
    <3>1. b - 1 \in 1 .. c - 1 /\ b - 1 \in 1 .. n - 1 /\ (b - 1) + 1 = b  BY <1>1, <2>2, <2>3, <2>4
    <3>2. LastTRB(f[b - 1])  BY <1>3, <2>2, <3>1
    <3> QED BY <3>1, <3>2
  <2> HIDE DEF b
  <2>5. CASE b = 1  BY <1>1, <2>3, <2>5
  <2> QED BY <2>2, <2>3, <2>4, <2>5
<1>7. \A k \in 1 .. n : f[k] = [of |-> t, i |-> k]
  <2> TAKE k \in 1 .. n
  <2>1. k \in 1 .. f[n].i /\ n - f[n].i + k = k  BY <1>1, <1>5, <1>6
  <2> QED BY <1>1, <1>3, <2>1
<1>11. \A k \in 1 .. n : f[k].of = t
  <2> TAKE k \in 1 .. n
  <2>1. f[k] = [of |-> t, i |-> k]  BY <1>7
  <2> HIDE DEF t
  <2> QED BY <2>1
<1>8. ASSUME NEW k \in n + 1 .. c PROVE f[k].of # t
  <2>1. SUFFICES ASSUME f[k].of = t PROVE FALSE  OBVIOUS
  <2>2. k \in 1 .. c /\ f[k] \in TRBs /\ f[k].i \in 1 .. n  BY <1>1, <1>2, <1>6, <2>1
  <2>3. f[k] = [of |-> t, i |-> f[k].i] /\ f[f[k].i] = [of |-> t, i |-> f[k].i]  BY <1>7, <2>1, <2>2, TRBIs
  <2>4. f[k].i \in 1 .. c  BY <1>1, <2>2
  <2>5. k = f[k].i  BY <1>3, <2>2, <2>3, <2>4
  <2> QED BY <1>1, <2>2, <2>5
<1>9. Laid(g)
  <2>1. \A k, l \in 1 .. Len(g) : g[k] = g[l] => k = l
    <3> TAKE k, l \in 1 .. Len(g)
    <3>1. n + k \in 1 .. c /\ n + l \in 1 .. c /\ g[k] = f[n + k] /\ g[l] = f[n + l]  BY <1>1, <1>4
    <3>2. f[n + k] = f[n + l] => n + k = n + l  BY <1>3, <3>1
    <3> QED BY <1>1, <1>4, <3>1, <3>2
  <2>2. ASSUME NEW k \in 1 .. Len(g), NEW j \in 1 .. g[k].i
        PROVE  k - g[k].i + j >= 1 /\ g[k - g[k].i + j] = [of |-> g[k].of, i |-> j]
    <3>1. PICK h \in Nat : h = n + k  BY <1>1, <1>4
    <3>2. h \in n + 1 .. c /\ h \in 1 .. c /\ g[k] = f[h]  BY <1>1, <1>4, <3>1
    <3>3. PICK i \in Nat : i = f[h].i  BY <1>2, <3>2
    <3>4. j \in 1 .. i /\ g[k].i = i /\ j \in 1 .. f[h].i /\ f[h].i = i  BY <3>2, <3>3
    <3>5. PICK q \in Int : q = h - i + j  BY <3>1, <3>4
    <3>6. q >= 1 /\ f[q] = [of |-> f[h].of, i |-> j]
      <4>1. h - f[h].i + j >= 1 /\ f[h - f[h].i + j] = [of |-> f[h].of, i |-> j]  BY <1>3, <3>2, <3>4
      <4> QED BY <3>4, <3>5, <4>1
    <3>7. f[q].of # t  BY <1>8, <3>2, <3>6
    <3>8. q \notin 1 .. n  BY <1>11, <3>7
    <3>9. q > n  BY <1>1, <3>6, <3>8
    <3>10. q <= h  BY <3>4, <3>5
    <3>11. PICK m \in 1 .. c - n : n + m = q  BY <1>1, <3>2, <3>9, <3>10
    <3>12. m = k - i + j
      <4>1. k \in Int /\ j \in Int /\ n \in Int  BY <1>1, <3>4
      <4>2. h = n + k /\ q = h - i + j /\ n + m = q  BY <3>1, <3>5, <3>11
      <4> QED BY <4>1, <4>2
    <3>13. g[m] = f[q]  BY <1>4, <3>11
    <3>14. k - g[k].i + j = m  BY <3>4, <3>12
    <3>15. m >= 1 /\ g[m] = [of |-> g[k].of, i |-> j]
      <4>1. g[k].of = f[h].of  BY <3>2
      <4>2. g[m] = [of |-> f[h].of, i |-> j]  BY <3>6, <3>13
      <4>3. m >= 1  BY <3>11
      <4>4. g[m] = [of |-> g[k].of, i |-> j]  BY <4>1, <4>2
      <4> QED BY <4>3, <4>4
    <3> QED BY <3>14, <3>15
  <2>3. ASSUME NEW k \in 1 .. Len(g) - 1 PROVE LastTRB(g[k]) \/ g[k + 1].i # 1
    <3>1. /\ n + k \in 1 .. c - 1 /\ k \in 1 .. c - n /\ k + 1 \in 1 .. c - n
          /\ n + (k + 1) = (n + k) + 1
      BY <1>1, <1>4
    <3>2. g[k] = f[n + k] /\ g[k + 1] = f[(n + k) + 1]  BY <1>4, <3>1
    <3> QED BY <1>3, <3>1, <3>2
  <2> QED BY <2>1, <2>2, <2>3 DEF Laid
<1>10. \A k \in 1 .. Len(g) : g[k] = f[n + k] /\ g[k].of # t
  <2> TAKE k \in 1 .. Len(g)
  <2>1. n + k \in n + 1 .. c /\ g[k] = f[n + k]  BY <1>1, <1>4
  <2> QED BY <1>8, <2>1
<1> QED BY <1>4, <1>6, <1>9, <1>10, <1>11 DEF c
-----------------------------------------------------------------------------
(* What follows from the parts of the invariant. *)

\* The holder of the lock is inserting.
LEMMA HolderIs ==
    ASSUME RingTypes, LockOK
    PROVE  /\ LinkIdx \in Nat /\ RingSlots = 0 .. LinkIdx /\ Size = LinkIdx + 1 /\ ring.curIdx \in 0 .. LinkIdx
           /\ Holder = "none" <=> ring.lck = NoUser
           /\ Holder # "none" => ring.lck \in User /\ Holder = ringThd[ring.lck].pc /\ Holder \in Inserting
           /\ Holder = "none" => Done = 0 /\ Rest = 0
           /\ Holder # "none" => Done <= InputSz[ring.lck] /\ Rest = InputSz[ring.lck] - Done
           /\ Holder = "copy" => Done = ringThd[ring.lck].i - 1
           /\ Holder \in {"cyc", "reqs"} => Done = ringThd[ring.lck].i
           /\ Done \in Nat /\ Rest \in Nat
           /\ Put \in 0 .. LinkIdx /\ Turned \in 0 .. LinkIdx /\ (Turned = Put \/ Turned = Put - 1)
<1>1. ring \in RingRec /\ ringThd \in [User -> UserRec]  BY DEF RingTypes
<1>2. Size \in Nat /\ ring.curIdx \in RingSlots /\ ring.lck \in User \union {NoUser} /\ NoUser \notin User
  BY <1>1, RingAssumption DEF RingRec
<1>3. LinkIdx \in Nat /\ RingSlots = 0 .. LinkIdx /\ Size = LinkIdx + 1 /\ ring.curIdx \in 0 .. LinkIdx
  BY <1>2 DEF RingSlots, LinkIdx
<1>4. CASE ring.lck = NoUser
  <2>1. Holder = "none" /\ Done = 0 /\ Rest = 0 /\ Put = ring.curIdx /\ Turned = ring.curIdx
    BY <1>4 DEF Holder, Done, Rest, Put, Turned
  <2> QED BY <1>3, <1>4, <2>1
<1>5. CASE ring.lck # NoUser
  <2>1. PICK t \in User : ring.lck = t  BY <1>2, <1>5
  <2>2. /\ ringThd[t].pc \in Inserting /\ ringThd[t].i \in Nat \ {0} /\ ringThd[t].i <= InputSz[t]
        /\ InputSz[t] \in Nat
    BY <1>1, <2>1, RingAssumption DEF LockOK, UserRec
  <2>3. Holder = ringThd[t].pc /\ Holder # "none" /\ Holder \in Inserting
    BY <1>5, <2>1, <2>2 DEF Holder, Inserting
  <2>4. /\ Holder = "copy" => Done = ringThd[t].i - 1
        /\ Holder \in {"cyc", "reqs"} => Done = ringThd[t].i /\ ring.curIdx < LinkIdx
        /\ Rest = InputSz[t] - Done
    BY <2>1, <2>3 DEF Done, Rest, LockOK
  <2>5. Done \in Nat /\ Done <= InputSz[t]  BY <2>2, <2>3, <2>4 DEF Inserting
  <2>6. Rest \in Nat  BY <2>2, <2>4, <2>5
  <2>7. /\ Put \in 0 .. LinkIdx /\ Turned \in 0 .. LinkIdx
        /\ Turned = Put \/ Turned = Put - 1
    BY <1>3, <2>3, <2>4 DEF Put, Turned, Inserting
  <2> QED BY <1>3, <1>5, <2>1, <2>2, <2>3, <2>4, <2>5, <2>6, <2>7
<1> QED BY <1>4, <1>5

\* What a thread does that does not hold the lock.
LEMMA HolderKeeps ==
    ASSUME RingTypes, LockOK, NEW t \in User, ring.lck # t, ring'.lck = ring.lck,
           \A u \in User \ {t} : ringThd'[u] = ringThd[u]
    PROVE  Holder' = Holder /\ Done' = Done /\ Rest' = Rest
<1>1. CASE ring.lck = NoUser  BY <1>1 DEF Holder, Done, Rest
<1>2. CASE ring.lck # NoUser
  <2>1. ring.lck \in User \ {t}  BY <1>2 DEF RingTypes, RingRec
  <2>2. ringThd'[ring.lck] = ringThd[ring.lck]  BY <2>1
  <2>3. Holder' = Holder  BY <1>2, <2>2 DEF Holder
  <2>4. Done' = Done  BY <2>2, <2>3 DEF Done
  <2> QED BY <2>3, <2>4 DEF Rest
<1> QED BY <1>1, <1>2

\* Entries in flight lie in front of the link entry, each in its own.
LEMMA SlotsDiffer ==
    ASSUME LinkIdx \in Nat, NEW w \in 0 .. LinkIdx, NEW n \in 0 .. LinkIdx
    PROVE  /\ \A k \in 1 .. n : SlotAt(w, n, k) \in 0 .. LinkIdx - 1
           /\ \A k, l \in 1 .. n : SlotAt(w, n, k) = SlotAt(w, n, l) => k = l
           /\ n < LinkIdx => \A k \in 1 .. n : SlotAt(w, n, k) # w
           /\ \A k \in 1 .. n : SlotAt(w + 1, n + 1, k) = SlotAt(w, n, k)
           /\ \A d \in 0 .. n : \A k \in 1 .. n - d : SlotAt(w, n - d, k) = SlotAt(w, n, d + k)
           /\ w = LinkIdx => \A k \in 1 .. n : SlotAt(0, n, k) = SlotAt(w, n, k)
BY DEF SlotAt

\* The driver's place in the event ring as one number, and the next one.
LEMMA PosIs ==
    ASSUME eve \in EveRec
    PROVE  /\ Pos \in 0 .. EveSz - 1 /\ EveSz \in Nat \ {0}
           /\ NextIdx(eve) \in EveRec /\ NextIdx(eve).trbs = eve.trbs
           /\ NextIdx(eve).curRingIdx * RingSz + NextIdx(eve).curIdx = IF Pos + 1 < EveSz THEN Pos + 1 ELSE 0
           /\ NextIdx(eve).cycBit = IF Pos + 1 < EveSz THEN eve.cycBit ELSE 1 - eve.cycBit
<1> DEFINE a == eve.curRingIdx
           b == eve.curIdx
<1> USE RingAssumption
<1>1. a \in 0 .. RingNum - 1 /\ b \in 0 .. RingSz - 1 /\ a \in Nat /\ b \in Nat /\ eve.cycBit \in {0, 1}
      /\ RingNum \in Nat \ {0} /\ RingSz \in Nat \ {0}
  BY DEF EveRec
<1>2. a * RingSz \in Nat /\ RingNum * RingSz \in Nat /\ EveSz = RingNum * RingSz /\ Pos = a * RingSz + b
  BY <1>1, MulType DEF EveSz, Pos
<1>3. a * RingSz + RingSz <= RingNum * RingSz
  <2>1. a \in Int /\ RingNum \in Int /\ RingSz \in Nat /\ a < RingNum  BY <1>1
  <2> QED BY <2>1, MulNext
<1>4. Pos \in 0 .. EveSz - 1 /\ EveSz \in Nat \ {0}  BY <1>1, <1>2, <1>3
<1>5. CASE b + 1 < RingSz
  <2>1. NextIdx(eve) = [eve EXCEPT !.curIdx = @ + 1]  BY <1>5 DEF NextIdx
  <2>2. NextIdx(eve).curIdx = b + 1 /\ NextIdx(eve).curRingIdx = a /\ NextIdx(eve).cycBit = eve.cycBit
        /\ NextIdx(eve).trbs = eve.trbs /\ NextIdx(eve) \in EveRec
    BY <1>1, <1>5, <2>1 DEF EveRec
  <2>3. a * RingSz + (b + 1) = Pos + 1  BY <1>1, <1>2
  <2>4. Pos + 1 < EveSz  BY <1>1, <1>2, <1>3, <1>5
  <2> QED BY <1>4, <2>2, <2>3, <2>4
<1>6. CASE ~(b + 1 < RingSz) /\ a + 1 < RingNum
  <2>1. NextIdx(eve) = [eve EXCEPT !.curIdx = 0, !.curRingIdx = @ + 1]  BY <1>6 DEF NextIdx
  <2>2. NextIdx(eve).curIdx = 0 /\ NextIdx(eve).curRingIdx = a + 1 /\ NextIdx(eve).cycBit = eve.cycBit
        /\ NextIdx(eve).trbs = eve.trbs /\ NextIdx(eve) \in EveRec
    <3>1. 0 \in 0 .. RingSz - 1 /\ a + 1 \in 0 .. RingNum - 1  BY <1>1, <1>6
    <3>2. PICK x : x = a + 1  OBVIOUS
    <3>3. NextIdx(eve) = [eve EXCEPT !.curIdx = 0, !.curRingIdx = x]  BY <2>1, <3>2
    <3> HIDE DEF a
    <3> QED BY <3>1, <3>2, <3>3 DEF EveRec
  <2>3. (a + 1) * RingSz = a * RingSz + RingSz  BY <1>1
  <2>4. b + 1 = RingSz  BY <1>1, <1>6
  <2>5. (a + 1) * RingSz + 0 = Pos + 1  BY <1>1, <1>2, <2>3, <2>4
  <2>6. (a + 1) * RingSz + RingSz <= RingNum * RingSz
    <3>1. a + 1 \in Int /\ RingNum \in Int /\ RingSz \in Nat /\ a + 1 < RingNum  BY <1>1, <1>6
    <3> QED BY <3>1, MulNext
  <2>7. Pos + 1 < EveSz
    <3>1. (a + 1) * RingSz \in Int  BY <1>1, <1>2, <2>3
    <3> QED BY <1>1, <1>2, <2>5, <2>6, <3>1
  <2> QED BY <1>4, <2>2, <2>5, <2>7
<1>7. CASE ~(b + 1 < RingSz) /\ ~(a + 1 < RingNum)
  <2>1. NextIdx(eve) = [eve EXCEPT !.curIdx = 0, !.curRingIdx = 0, !.cycBit = 1 - @]  BY <1>7 DEF NextIdx
  <2>2. NextIdx(eve).curIdx = 0 /\ NextIdx(eve).curRingIdx = 0 /\ NextIdx(eve).cycBit = 1 - eve.cycBit
        /\ NextIdx(eve).trbs = eve.trbs /\ NextIdx(eve) \in EveRec
    <3>1. 0 \in 0 .. RingSz - 1 /\ 0 \in 0 .. RingNum - 1 /\ 1 - eve.cycBit \in {0, 1}  BY <1>1
    <3>2. PICK x : x = 1 - eve.cycBit  OBVIOUS
    <3>3. NextIdx(eve) = [eve EXCEPT !.curIdx = 0, !.curRingIdx = 0, !.cycBit = x]  BY <2>1, <3>2
    <3> QED BY <3>1, <3>2, <3>3 DEF EveRec
  <2>3. 0 * RingSz + 0 = 0  BY <1>1
  <2>4. b + 1 = RingSz /\ a + 1 = RingNum  BY <1>1, <1>7
  <2>5. RingNum * RingSz = a * RingSz + RingSz  BY <1>1, <2>4
  <2>6. ~(Pos + 1 < EveSz)  BY <1>1, <1>2, <2>4, <2>5
  <2> QED BY <1>4, <2>2, <2>3, <2>6
<1> QED BY <1>5, <1>6, <1>7
-----------------------------------------------------------------------------
(* Steps that leave the TRBs in flight alone. *)

\* The places of the TRBs depend on the ring, its holder and the controller.
LEMMA FlightStays ==
    ASSUME NEW f \in Seq(TRBs), NEW p \in Seq(Nat), StoredOK(f), DuesOK(f), EndsOK(f, p),
           UNCHANGED <<ring, due, evePosted, Holder, Done, Rest>>, Looks' = Looks,
           Looks = 1 => ringIntr'.idx = ringIntr.idx /\ ringIntr'.of = ringIntr.of,
           ringCtl'.ccs = ringCtl.ccs, ringCtl'.deq = ringCtl.deq
    PROVE  StoredOK(f)' /\ DuesOK(f)' /\ EndsOK(f, p)'
<1>1. Put' = Put  BY DEF Put
<1>2. \A k : FlightAt(f, k)' = FlightAt(f, k)  BY <1>1 DEF FlightAt
<1>3. StoredOK(f)'  BY <1>2 DEF StoredOK
<1>4. DuesOK(f)'  BY <1>1 DEF DuesOK
<1>5. EndsOK(f, p)'  BY <1>2 DEF EndsOK
<1> QED BY <1>3, <1>4, <1>5

\* The entries' cycle bits are as they were.
LEMMA CycStays ==
    ASSUME CycOK, UNCHANGED <<ring, Holder>>
    PROVE  CycOK' /\ Turned' = Turned
<1>1. Turned' = Turned  BY DEF Turned
<1> QED BY <1>1 DEF CycOK

\* The event ring is as it was.
LEMMA EvesStay ==
    ASSUME EvesOK, UNCHANGED <<eve, evePosted>>, ringCtl'.enq = ringCtl.enq, ringCtl'.pcs = ringCtl.pcs,
           ringCtl'.deqPtr = ringCtl.deqPtr
    PROVE  EvesOK'
<1>1. Pos' = Pos  BY DEF Pos
<1>2. \A m : EveAhead(m)' = EveAhead(m)  BY <1>1 DEF EveAhead
<1> QED BY <1>1, <1>2 DEF EvesOK

\* The doorbell, after which the thread waits.
LEMMA BellStep == ASSUME RingInv, NEW t \in User, Bell(t) PROVE RingInv'
<1>1. PICK f \in Seq(TRBs), p \in Seq(Nat) : Flight(f, p)  BY DEF RingInv
<1>2. RingTypes /\ LockOK /\ CycOK /\ EvesOK  BY DEF RingInv
<1>3. /\ ringThd[t].pc = "bell" /\ ringCtl' = [ringCtl EXCEPT !.bell = TRUE]
      /\ ringThd' = [ringThd EXCEPT ![t].pc = "wait"] /\ ringWait' = [ringWait EXCEPT ![t] = @ + 1]
      /\ UNCHANGED <<ring, eve, ringIntr, due, evePosted>>
  BY DEF Bell
<1>4. /\ ringThd'[t].pc = "wait" /\ ringThd'[t].i = ringThd[t].i /\ \A u \in User \ {t} : ringThd'[u] = ringThd[u]
      /\ ringWait'[t] = ringWait[t] + 1 /\ \A u \in User \ {t} : ringWait'[u] = ringWait[u]
      /\ ringThd' \in [User -> UserRec] /\ ringWait' \in [User -> Int] /\ ringWait[t] \in Int
  <2>1. /\ ringThd'[t].pc = "wait" /\ ringThd'[t].i = ringThd[t].i /\ ringThd' \in [User -> UserRec]
        /\ \A u \in User \ {t} : ringThd'[u] = ringThd[u]
    BY <1>2, <1>3 DEF RingTypes, UserRec
  <2>2. /\ ringWait[t] \in Int /\ ringWait' \in [User -> Int] /\ ringWait'[t] = ringWait[t] + 1
        /\ \A u \in User \ {t} : ringWait'[u] = ringWait[u]
    BY <1>2, <1>3 DEF RingTypes
  <2> QED BY <2>1, <2>2
<1>5. ring.lck # t /\ "wait" \notin Inserting /\ "bell" \notin Inserting
  BY <1>2, <1>3 DEF LockOK, Inserting
<1>6. UNCHANGED <<Holder, Done, Rest>>  BY <1>2, <1>3, <1>4, <1>5, HolderKeeps
<1>7. RingTypes'
  <2>1. ringCtl' \in CtrlRec  BY <1>2, <1>3 DEF RingTypes, CtrlRec
  <2> QED BY <1>2, <1>3, <1>4, <2>1 DEF RingTypes
<1>8. LockOK'  BY <1>2, <1>3, <1>4, <1>5, <1>6 DEF LockOK
<1>9. CycOK'  BY <1>2, <1>3, <1>6, CycStays
<1>10. /\ ringCtl'.enq = ringCtl.enq /\ ringCtl'.pcs = ringCtl.pcs /\ ringCtl'.deqPtr = ringCtl.deqPtr
       /\ ringCtl'.ccs = ringCtl.ccs /\ ringCtl'.deq = ringCtl.deq
  BY <1>2, <1>3 DEF RingTypes, CtrlRec
<1>11. EvesOK'  BY <1>2, <1>3, <1>10, EvesStay
<1>12. Looks' = Looks /\ \A u : Answered(u)' = Answered(u)  BY <1>3 DEF Looks, Answered
<1>13. StoredOK(f)' /\ DuesOK(f)' /\ EndsOK(f, p)'
  BY <1>1, <1>3, <1>6, <1>10, <1>12, FlightStays DEF Flight
<1>14. WaitsOK(f)'
  <2>1. WaitOK(f, t)'
    <3>1. WaitOK(f, t)  BY <1>1 DEF Flight, WaitsOK
    <3>2. /\ ringWait[t] = 0 - (IF InFlight(f, t) \/ Answered(t) THEN 0 ELSE 1)
          /\ ~(InFlight(f, t) /\ Answered(t))
      BY <1>3, <3>1 DEF WaitOK
    <3>3. ringWait'[t] = 1 - (IF InFlight(f, t) \/ Answered(t) THEN 0 ELSE 1)  BY <1>4, <3>2
    <3>4. ringThd'[t].pc = "wait" /\ "wait" \notin Inserting  BY <1>4, <1>5
    <3>5. Answered(t)' = Answered(t)  BY <1>12
    <3> QED BY <3>2, <3>3, <3>4, <3>5 DEF WaitOK
  <2>2. ASSUME NEW u \in User \ {t} PROVE WaitOK(f, u)'
    BY <1>1, <1>4, <1>12, <2>2 DEF Flight, WaitsOK, WaitOK
  <2> QED BY <1>1, <1>3, <2>1, <2>2 DEF Flight, WaitsOK
<1>15. Flight(f, p)'  BY <1>1, <1>13, <1>14 DEF Flight
<1> QED BY <1>7, <1>8, <1>9, <1>11, <1>15 DEF RingInv

\* task_Request_send returns when the request is answered.
LEMMA ReturnsStep == ASSUME RingInv, NEW t \in User, RingReturns(t) PROVE RingInv'
<1>1. PICK f \in Seq(TRBs), p \in Seq(Nat) : Flight(f, p)  BY DEF RingInv
<1>2. RingTypes /\ LockOK /\ CycOK /\ EvesOK  BY DEF RingInv
<1>3. /\ ringThd[t].pc = "wait" /\ ringWait[t] <= 0 /\ ringThd' = [ringThd EXCEPT ![t].pc = "idle"]
      /\ UNCHANGED <<ring, ringWait, ringCtl, eve, ringIntr, due, evePosted>>
  BY DEF RingReturns
<1>4. /\ ringThd'[t].pc = "idle" /\ ringThd'[t].i = ringThd[t].i /\ \A u \in User \ {t} : ringThd'[u] = ringThd[u]
      /\ ringThd' \in [User -> UserRec] /\ ringWait[t] \in Int
  BY <1>2, <1>3 DEF RingTypes, UserRec
<1>5. ring.lck # t /\ "wait" \notin Inserting /\ "idle" \notin Inserting
  BY <1>2, <1>3 DEF LockOK, Inserting
<1>6. UNCHANGED <<Holder, Done, Rest>>  BY <1>2, <1>3, <1>4, <1>5, HolderKeeps
<1>7. RingTypes'  BY <1>2, <1>3, <1>4 DEF RingTypes
<1>8. LockOK'  BY <1>2, <1>3, <1>4, <1>5, <1>6 DEF LockOK
<1>9. CycOK'  BY <1>2, <1>3, <1>6, CycStays
<1>11. EvesOK'  BY <1>2, <1>3, EvesStay
<1>12. Looks' = Looks /\ \A u : Answered(u)' = Answered(u)  BY <1>3 DEF Looks, Answered
<1>13. StoredOK(f)' /\ DuesOK(f)' /\ EndsOK(f, p)'
  BY <1>1, <1>3, <1>6, <1>12, FlightStays DEF Flight
<1>14. WaitsOK(f)'
  <2>1. WaitOK(f, t)'  BY <1>1, <1>3, <1>4, <1>5, <1>12 DEF Flight, WaitsOK, WaitOK
  <2>2. ASSUME NEW u \in User \ {t} PROVE WaitOK(f, u)'
    BY <1>1, <1>3, <1>4, <1>12, <2>2 DEF Flight, WaitsOK, WaitOK
  <2> QED BY <1>1, <1>3, <2>1, <2>2 DEF Flight, WaitsOK
<1>15. Flight(f, p)'  BY <1>1, <1>13, <1>14 DEF Flight
<1> QED BY <1>7, <1>8, <1>9, <1>11, <1>15 DEF RingInv

\* What the threads wait for does not change.
LEMMA WaitsStay ==
    ASSUME NEW f \in Seq(TRBs), WaitsOK(f), UNCHANGED <<ringThd, ringWait>>,
           ringIntr.pc = "answer" <=> ringIntr'.pc = "answer",
           ringIntr.pc = "answer" => ringIntr'.req = ringIntr.req /\ ringIntr'.of = ringIntr.of
    PROVE  WaitsOK(f)'
<1>1. \A u : Answered(u)' <=> Answered(u)  BY DEF Answered
<1> QED BY <1>1 DEF WaitsOK, WaitOK

\* The controller comes to an entry that is the driver's.
LEMMA StopStep == ASSUME RingInv, Stop PROVE RingInv'
<1>1. PICK f \in Seq(TRBs), p \in Seq(Nat) : Flight(f, p)  BY DEF RingInv
<1>2. RingTypes /\ LockOK /\ CycOK /\ EvesOK  BY DEF RingInv
<1>3. ringCtl' = [ringCtl EXCEPT !.bell = FALSE] /\ UNCHANGED <<ring, ringWait, ringThd, eve, ringIntr, due, evePosted>>
  BY DEF Stop
<1>4. UNCHANGED <<Holder, Done, Rest>>  BY <1>3 DEF Holder, Done, Rest
<1>5. /\ ringCtl'.enq = ringCtl.enq /\ ringCtl'.pcs = ringCtl.pcs /\ ringCtl'.deqPtr = ringCtl.deqPtr
      /\ ringCtl'.ccs = ringCtl.ccs /\ ringCtl'.deq = ringCtl.deq /\ ringCtl' \in CtrlRec
  BY <1>2, <1>3 DEF RingTypes, CtrlRec
<1>6. RingTypes'  BY <1>2, <1>3, <1>5 DEF RingTypes
<1>7. LockOK'  BY <1>2, <1>3, <1>4 DEF LockOK
<1>8. CycOK'  BY <1>2, <1>3, <1>4, CycStays
<1>9. EvesOK'  BY <1>2, <1>3, <1>5, EvesStay
<1>10. StoredOK(f)' /\ DuesOK(f)' /\ EndsOK(f, p)'
  <2>1. Looks' = Looks  BY <1>3 DEF Looks
  <2> QED BY <1>1, <1>3, <1>4, <1>5, <2>1, FlightStays DEF Flight
<1>11. WaitsOK(f)'  BY <1>1, <1>3, WaitsStay DEF Flight
<1>12. Flight(f, p)'  BY <1>1, <1>10, <1>11 DEF Flight
<1> QED BY <1>6, <1>7, <1>8, <1>9, <1>12 DEF RingInv

\* The link entry turns the controller's cycle bit round.
LEMMA FollowStep == ASSUME RingInv, FollowLink PROVE RingInv'
<1>1. PICK f \in Seq(TRBs), p \in Seq(Nat) : Flight(f, p)  BY DEF RingInv
<1>2. RingTypes /\ LockOK /\ CycOK /\ EvesOK  BY DEF RingInv
<1>3. /\ ringCtl' = [ringCtl EXCEPT !.deq = 0, !.ccs = 1 - @] /\ ringCtl.deq = LinkIdx
      /\ ring.trbs[LinkIdx].cyc = ringCtl.ccs
      /\ UNCHANGED <<ring, ringWait, ringThd, eve, ringIntr, due, evePosted>>
  BY DEF FollowLink, Owns
<1>4. UNCHANGED <<Holder, Done, Rest>>  BY <1>3 DEF Holder, Done, Rest
<1>5. /\ LinkIdx \in Nat /\ RingSlots = 0 .. LinkIdx /\ Turned \in 0 .. LinkIdx /\ ring.cycBit \in {0, 1}
      /\ ringCtl.ccs \in {0, 1}
  BY <1>2, HolderIs DEF RingTypes, RingRec, CtrlRec
<1>6. /\ ringCtl'.enq = ringCtl.enq /\ ringCtl'.pcs = ringCtl.pcs /\ ringCtl'.deqPtr = ringCtl.deqPtr
      /\ ringCtl'.ccs = 1 - ringCtl.ccs /\ ringCtl'.deq = 0 /\ ringCtl' \in CtrlRec
  <2>1. 0 \in RingSlots /\ 1 - ringCtl.ccs \in {0, 1}  BY <1>5
  <2>2. PICK x : x = 1 - ringCtl.ccs  OBVIOUS
  <2> QED BY <1>2, <1>3, <2>1, <2>2 DEF RingTypes, CtrlRec
<1>7. RingTypes'  BY <1>2, <1>3, <1>6 DEF RingTypes
<1>8. LockOK'  BY <1>2, <1>3, <1>4 DEF LockOK
<1>9. CycOK'  BY <1>2, <1>3, <1>4, CycStays
<1>10. EvesOK'  BY <1>2, <1>3, <1>6, EvesStay
<1>11. Put' = Put /\ (\A k : FlightAt(f, k)' = FlightAt(f, k)) /\ Looks' = Looks
  BY <1>3, <1>4 DEF Put, FlightAt, Looks
<1>12. StoredOK(f)'  BY <1>1, <1>3, <1>4, <1>11 DEF Flight, StoredOK
<1>13. ring.cycBit # ringCtl.ccs
  <2>1. LinkIdx \in RingSlots  BY <1>5
  <2>2. ring.trbs[LinkIdx].cyc = 1 - ring.cycBit  BY <1>2, <1>5, <2>1 DEF CycOK
  <2> QED BY <1>3, <1>5, <2>2
<1>14. DuesOK(f)'  BY <1>1, <1>3, <1>5, <1>6, <1>11, <1>13 DEF Flight, DuesOK
<1>15. EndsOK(f, p)'  BY <1>1, <1>3, <1>11 DEF Flight, EndsOK
<1>16. WaitsOK(f)'  BY <1>1, <1>3, WaitsStay DEF Flight
<1>17. Flight(f, p)'  BY <1>1, <1>12, <1>14, <1>15, <1>16 DEF Flight
<1> QED BY <1>7, <1>8, <1>9, <1>10, <1>17 DEF RingInv
\* The handler writes the dequeue pointer when nothing is left to read.
LEMMA LeaveStep == ASSUME RingInv, LeaveEves PROVE RingInv'
<1>1. PICK f \in Seq(TRBs), p \in Seq(Nat) : Flight(f, p)  BY DEF RingInv
<1>2. RingTypes /\ LockOK /\ CycOK /\ EvesOK  BY DEF RingInv
<1>3. /\ ringIntr.pc = "loop" /\ ringCtl' = [ringCtl EXCEPT !.deqPtr = Pos] /\ ringIntr' = [ringIntr EXCEPT !.pc = "off"]
      /\ UNCHANGED <<ring, ringWait, ringThd, eve, due, evePosted>>
  BY DEF LeaveEves
<1>4. UNCHANGED <<Holder, Done, Rest>>  BY <1>3 DEF Holder, Done, Rest
<1>5. Pos \in 0 .. EveSz - 1 /\ EveSz \in Nat \ {0}  BY <1>2, PosIs DEF RingTypes
<1>6. /\ ringCtl'.enq = ringCtl.enq /\ ringCtl'.pcs = ringCtl.pcs /\ ringCtl'.deqPtr = Pos
      /\ ringCtl'.ccs = ringCtl.ccs /\ ringCtl'.deq = ringCtl.deq /\ ringCtl' \in CtrlRec
      /\ ringIntr' \in HandlerRec /\ ringIntr'.pc = "off"
  BY <1>2, <1>3, <1>5 DEF RingTypes, CtrlRec, HandlerRec
<1>7. RingTypes'  BY <1>2, <1>3, <1>6 DEF RingTypes
<1>8. LockOK'  BY <1>2, <1>3, <1>4 DEF LockOK
<1>9. CycOK'  BY <1>2, <1>3, <1>4, CycStays
<1>10. EvesOK'
  <2>1. Pos' = Pos /\ \A m : EveAhead(m)' = EveAhead(m)  BY <1>3 DEF Pos, EveAhead
  <2>2. Len(evePosted) \in Nat /\ ringCtl.deqPtr \in 0 .. EveSz - 1
    BY <1>2, LenProperties DEF RingTypes, CtrlRec
  <2>3. Len(evePosted) + (IF Pos <= Pos THEN Pos - Pos ELSE Pos - Pos + EveSz) < EveSz
    BY <1>2, <1>5, <2>2 DEF EvesOK
  <2> QED BY <1>2, <1>3, <1>6, <2>1, <2>3 DEF EvesOK
<1>11. StoredOK(f)' /\ DuesOK(f)' /\ EndsOK(f, p)'
  <2>1. Looks' = Looks /\ Looks = 0  BY <1>3, <1>6 DEF Looks
  <2> QED BY <1>1, <1>3, <1>4, <1>6, <2>1, FlightStays DEF Flight
<1>12. WaitsOK(f)'  BY <1>1, <1>3, <1>6, WaitsStay DEF Flight
<1>13. Flight(f, p)'  BY <1>1, <1>11, <1>12 DEF Flight
<1> QED BY <1>7, <1>8, <1>9, <1>10, <1>13 DEF RingInv

\* The thread of the request is told.
LEMMA ResponseStep == ASSUME RingInv, Response PROVE RingInv'
<1>1. PICK f \in Seq(TRBs), p \in Seq(Nat) : Flight(f, p)  BY DEF RingInv
<1>2. RingTypes /\ LockOK /\ CycOK /\ EvesOK  BY DEF RingInv
<1>3. /\ ringIntr.pc = "answer" /\ ringWait' = [ringWait EXCEPT ![ringIntr.req] = @ - 1]
      /\ ringIntr' = [ringIntr EXCEPT !.pc = "loop", !.of = NoUser, !.req = NoUser]
      /\ UNCHANGED <<ring, ringThd, ringCtl, eve, due, evePosted>>
  BY DEF Response
<1>4. UNCHANGED <<Holder, Done, Rest>>  BY <1>3 DEF Holder, Done, Rest
<1>5. PICK t \in User : ringIntr.req = t  BY <1>1, <1>3 DEF Flight, WaitsOK
<1>6. /\ ringWait' \in [User -> Int] /\ ringWait'[t] = ringWait[t] - 1 /\ ringWait[t] \in Int
      /\ \A u \in User \ {t} : ringWait'[u] = ringWait[u]
  BY <1>2, <1>3, <1>5 DEF RingTypes
<1>7. ringIntr' \in HandlerRec /\ ringIntr'.pc = "loop"  BY <1>2, <1>3 DEF RingTypes, HandlerRec
<1>8. RingTypes'  BY <1>2, <1>3, <1>6, <1>7 DEF RingTypes
<1>9. LockOK'  BY <1>2, <1>3, <1>4 DEF LockOK
<1>10. CycOK'  BY <1>2, <1>3, <1>4, CycStays
<1>11. EvesOK'  BY <1>2, <1>3, EvesStay
<1>12. StoredOK(f)' /\ DuesOK(f)' /\ EndsOK(f, p)'
  <2>1. Looks' = Looks /\ Looks = 0  BY <1>3, <1>7 DEF Looks
  <2> QED BY <1>1, <1>3, <1>4, <2>1, FlightStays DEF Flight
<1>13. WaitsOK(f)'
  <2>1. Answered(t) /\ \A u \in User \ {t} : ~Answered(u)  BY <1>3, <1>5 DEF Answered
  <2>2. \A u \in User : ~Answered(u)'  BY <1>7 DEF Answered
  <2>3. WaitOK(f, t) /\ ringThd[t] \in UserRec  BY <1>1, <1>2 DEF Flight, WaitsOK, RingTypes
  <2>4. ringThd[t].pc \in {"bell", "wait"} /\ ~InFlight(f, t)  BY <2>1, <2>3 DEF WaitOK, UserRec
  <2>5. WaitOK(f, t)'
    <3>1. InFlight(f, t)' <=> InFlight(f, t)  BY DEF InFlight
    <3>2. "bell" \notin Inserting /\ "wait" \notin Inserting  BY DEF Inserting
    <3>3. ringWait[t] = IF ringThd[t].pc = "wait" THEN 1 ELSE 0  BY <2>1, <2>3, <2>4 DEF WaitOK
    <3>4. ringWait'[t] = (IF ringThd[t].pc = "wait" THEN 1 ELSE 0) - 1  BY <1>6, <3>3
    <3> QED BY <1>3, <2>2, <2>4, <3>1, <3>2, <3>4 DEF WaitOK
  <2>6. ASSUME NEW u \in User \ {t} PROVE WaitOK(f, u)'
    <3>1. WaitOK(f, u)  BY <1>1 DEF Flight, WaitsOK
    <3> QED BY <1>3, <1>6, <2>1, <2>2, <3>1 DEF WaitOK, InFlight
  <2> QED BY <1>7, <2>5, <2>6 DEF WaitsOK
<1>14. Flight(f, p)'  BY <1>1, <1>12, <1>13 DEF Flight
<1> QED BY <1>8, <1>9, <1>10, <1>11, <1>14 DEF RingInv

-----------------------------------------------------------------------------
(* The steps of the thread that has the lock. *)

\* The lock, and room for the request.
LEMMA BeginStep == ASSUME RingInv, NEW t \in User, Begin(t) PROVE RingInv'
<1>1. PICK f \in Seq(TRBs), p \in Seq(Nat) : Flight(f, p)  BY DEF RingInv
<1>2. RingTypes /\ LockOK /\ CycOK /\ EvesOK  BY DEF RingInv
<1>3. /\ ringThd[t].pc = "idle" /\ ring.lck = NoUser /\ ring.load + InputSz[t] <= Size
      /\ ring' = [ring EXCEPT !.lck = t, !.load = @ + InputSz[t]] /\ ringThd' = [ringThd EXCEPT ![t].pc = "copy"]
      /\ UNCHANGED <<ringWait, ringCtl, eve, ringIntr, due, evePosted>>
  BY DEF Begin
<1>4. InputSz[t] \in Nat \ {0} /\ t # NoUser /\ "copy" \in Inserting /\ "idle" \notin Inserting
  BY TRBIs, RingAssumption DEF Inserting
<1>5. /\ ring' \in RingRec /\ ring'.lck = t /\ ring'.load = ring.load + InputSz[t] /\ ring.load \in Nat
      /\ ring'.curIdx = ring.curIdx /\ ring'.cycBit = ring.cycBit /\ ring'.trbs = ring.trbs /\ ring'.reqs = ring.reqs
  <2>1. ring.load \in Nat  BY <1>2 DEF RingTypes, RingRec
  <2>2. PICK x \in Nat : x = ring.load + InputSz[t]  BY <1>4, <2>1
  <2>3. ring' = [ring EXCEPT !.lck = t, !.load = x]  BY <1>3, <2>2
  <2> QED BY <1>2, <2>1, <2>2, <2>3 DEF RingTypes, RingRec
<1>6. /\ ringThd'[t].pc = "copy" /\ ringThd'[t].i = ringThd[t].i /\ \A u \in User \ {t} : ringThd'[u] = ringThd[u]
      /\ ringThd' \in [User -> UserRec]
  BY <1>2, <1>3, <1>4 DEF RingTypes, UserRec
<1>7. ringThd[t].i = 1  BY <1>2, <1>3, <1>4 DEF LockOK
<1>8. /\ Holder = "none" /\ Done = 0 /\ Rest = 0 /\ Put = ring.curIdx /\ Turned = ring.curIdx
      /\ Holder' = "copy" /\ Done' = 0 /\ Rest' = InputSz[t] /\ Put' = ring.curIdx /\ Turned' = ring.curIdx
  BY <1>3, <1>4, <1>5, <1>6, <1>7 DEF Holder, Done, Rest, Put, Turned
<1>9. RingTypes'  BY <1>2, <1>3, <1>5, <1>6 DEF RingTypes
<1>10. LockOK'
  <2>1. \A u \in User : ringThd[u].pc \notin Inserting /\ ringThd[u].i = 1  BY <1>2, <1>3, <1>4, RingAssumption DEF LockOK
  <2>2. \A u \in User : ringThd'[u].pc \in Inserting <=> ring'.lck = u  BY <1>4, <1>5, <1>6, <2>1
  <2>3. \A u \in User : ringThd'[u].i = 1 /\ 1 <= InputSz[u]  BY <1>6, <1>7, <2>1, TRBIs
  <2> QED BY <1>8, <2>2, <2>3 DEF LockOK
<1>11. CycOK'  BY <1>2, <1>5, <1>8 DEF CycOK
<1>12. EvesOK'  BY <1>2, <1>3, EvesStay
<1>13. Looks' = Looks /\ (\A u : Answered(u)' = Answered(u)) /\ \A k : FlightAt(f, k)' = FlightAt(f, k)
  BY <1>3, <1>8 DEF Looks, Answered, FlightAt
<1>14. StoredOK(f)'
  <2>1. StoredOK(f) /\ Len(f) \in Nat  BY <1>1, LenProperties DEF Flight
  <2>2. \A k \in 1 .. Len(f) : f[k].of # t
    <3>1. ~InFlight(f, t)  BY <1>1, <1>3 DEF Flight, WaitsOK, WaitOK
    <3> QED BY <3>1 DEF InFlight
  <2>3. ring'.load = Len(f) + Rest'  BY <1>5, <1>8, <2>1 DEF StoredOK
  <2>4. \A k \in 1 .. Len(f) :
          /\ ring.trbs[FlightAt(f, k)].of = f[k].of /\ ring.trbs[FlightAt(f, k)].i = f[k].i
          /\ ring.reqs[FlightAt(f, k)] = f[k].of
    BY <1>8, <2>1 DEF StoredOK
  <2>5. Len(f) > 0 => LastTRB(f[Len(f)])  BY <1>8, <2>1 DEF StoredOK
  <2> QED BY <1>5, <1>8, <1>13, <2>2, <2>3, <2>4, <2>5 DEF StoredOK
<1>15. DuesOK(f)'  BY <1>1, <1>3, <1>5, <1>8 DEF Flight, DuesOK
<1>16. EndsOK(f, p)'  BY <1>1, <1>3, <1>13 DEF Flight, EndsOK
<1>17. WaitsOK(f)'
  <2>1. WaitOK(f, t)'  BY <1>1, <1>3, <1>4, <1>6, <1>13 DEF Flight, WaitsOK, WaitOK
  <2>2. ASSUME NEW u \in User \ {t} PROVE WaitOK(f, u)'
    BY <1>1, <1>3, <1>6, <1>13, <2>2 DEF Flight, WaitsOK, WaitOK
  <2> QED BY <1>1, <1>3, <2>1, <2>2 DEF Flight, WaitsOK
<1>18. Flight(f, p)'  BY <1>1, <1>14, <1>15, <1>16, <1>17 DEF Flight
<1> QED BY <1>9, <1>10, <1>11, <1>12, <1>18 DEF RingInv
\* The holder of the lock, by its point of the code.
LEMMA HolderHas ==
    ASSUME RingTypes, LockOK, NEW t \in User, ringThd[t].pc \in Inserting
    PROVE  /\ ring.lck = t /\ t # NoUser /\ Holder = ringThd[t].pc /\ Holder # "none"
           /\ ringThd[t].i \in 1 .. InputSz[t] /\ InputSz[t] \in Nat \ {0}
           /\ Done = (IF Holder = "copy" THEN ringThd[t].i - 1 ELSE ringThd[t].i) /\ Rest = InputSz[t] - Done
           /\ \A u \in User \ {t} : ringThd[u].i = 1 /\ ringThd[u].pc \notin Inserting
<1>1. ring.lck = t /\ t # NoUser  BY RingAssumption DEF LockOK
<1>2. Holder = ringThd[t].pc /\ Holder # "none"  BY <1>1 DEF Holder, Inserting
<1>3. ringThd[t].i \in Nat \ {0} /\ InputSz[t] \in Nat \ {0}  BY RingAssumption DEF RingTypes, UserRec
<1>4. ringThd[t].i \in 1 .. InputSz[t]  BY <1>3 DEF LockOK
<1>5. Done = (IF Holder = "copy" THEN ringThd[t].i - 1 ELSE ringThd[t].i) /\ Rest = InputSz[t] - Done
  BY <1>1, <1>2 DEF Done, Rest
<1>6. \A u \in User \ {t} : ringThd[u].i = 1 /\ ringThd[u].pc \notin Inserting  BY <1>1 DEF LockOK
<1> QED BY <1>1, <1>2, <1>3, <1>4, <1>5, <1>6

\* A TRB that is to be written fits in front of the link entry.
LEMMA RoomLeft ==
    ASSUME RingTypes, LockOK, NEW t \in User, ringThd[t].pc = "copy",
           NEW f \in Seq(TRBs), Laid(f), StoredOK(f),
           NEW g, g = Longer(f, t, ringThd[t].i)
    PROVE  /\ g \in Seq(TRBs) /\ Laid(g) /\ Len(g) = Len(f) + 1 /\ g[Len(f) + 1] = [of |-> t, i |-> ringThd[t].i]
           /\ \A k \in 1 .. Len(f) : g[k] = f[k]
           /\ Len(f) < LinkIdx /\ Len(f) \in Nat
<1> DEFINE i == ringThd[t].i
<1>1. /\ ring.lck = t /\ Holder = "copy" /\ Done = i - 1 /\ i \in 1 .. InputSz[t] /\ InputSz[t] \in Nat
      /\ Len(f) \in Nat
  BY HolderHas, LenProperties DEF Inserting
<1> HIDE DEF i
<1>2. Follows(f, t, i)  BY <1>1 DEF Follows, StoredOK
<1>3. /\ g \in Seq(TRBs) /\ Laid(g) /\ Len(g) = Len(f) + 1 /\ g[Len(f) + 1] = [of |-> t, i |-> i]
      /\ \A k \in 1 .. Len(f) : g[k] = f[k]
  <2>1. g = Longer(f, t, i)  BY DEF i
  <2> QED BY <1>1, <1>2, <2>1, LaidAppend
<1>4. Len(g) <= LinkIdx /\ LinkIdx \in Nat  BY <1>3, LaidFits
<1> QED BY <1>1, <1>3, <1>4 DEF i

\* The link entry, behind which the lap and its cycle bit change.
LEMMA LinkStep == ASSUME RingInv, NEW t \in User, Link(t) PROVE RingInv'
<1>1. PICK f \in Seq(TRBs), p \in Seq(Nat) : Flight(f, p)  BY DEF RingInv
<1>2. RingTypes /\ LockOK /\ CycOK /\ EvesOK  BY DEF RingInv
<1>3. /\ ringThd[t].pc = "copy" /\ ring.curIdx = LinkIdx /\ ring' = Linked(ring)
      /\ UNCHANGED <<ringWait, ringThd, ringCtl, eve, ringIntr, due, evePosted>>
  BY DEF Link
<1>4. ring.lck = t /\ Holder = "copy" /\ Put = LinkIdx /\ Turned = LinkIdx
  BY <1>2, <1>3, HolderHas DEF Inserting, Put, Turned
<1>5. LinkIdx \in Nat /\ RingSlots = 0 .. LinkIdx /\ ring.cycBit \in {0, 1} /\ LinkIdx \in RingSlots
  BY <1>2, HolderIs DEF RingTypes, RingRec
<1>6. /\ ring' \in RingRec /\ ring'.lck = ring.lck /\ ring'.load = ring.load /\ ring'.curIdx = 0
      /\ ring'.cycBit = 1 - ring.cycBit /\ ring'.reqs = ring.reqs
      /\ ring'.trbs = [ring.trbs EXCEPT ![LinkIdx].cyc = ring.cycBit]
  <2>1. PICK x \in [RingSlots -> [cyc : {0, 1}, of : User \union {NoUser}, i : Nat]] :
           x = [ring.trbs EXCEPT ![LinkIdx].cyc = ring.cycBit]
    BY <1>2, <1>5 DEF RingTypes, RingRec
  <2>2. PICK y \in {0, 1} : y = 1 - ring.cycBit  BY <1>5
  <2>3. ring' = [ring EXCEPT !.trbs = x, !.curIdx = 0, !.cycBit = y]  BY <1>3, <2>1, <2>2 DEF Linked
  <2>4. ring \in RingRec /\ 0 \in RingSlots  BY <1>2, <1>5 DEF RingTypes
  <2> QED BY <2>1, <2>2, <2>3, <2>4 DEF RingRec
<1>7. /\ Holder' = Holder /\ Done' = Done /\ Rest' = Rest /\ Put' = 0 /\ Turned' = 0
  <2>1. Holder' = Holder  BY <1>3, <1>6 DEF Holder
  <2>2. Done' = Done  BY <1>3, <1>6, <2>1 DEF Done
  <2> QED BY <1>3, <1>4, <1>6, <2>1, <2>2 DEF Rest, Put, Turned
<1>8. RingTypes'  BY <1>2, <1>3, <1>6 DEF RingTypes
<1>9. LockOK'  BY <1>2, <1>3, <1>4, <1>6, <1>7 DEF LockOK
<1>10. CycOK'
  <2>1. ASSUME NEW s \in RingSlots PROVE ring'.trbs[s].cyc = ring.cycBit
    <3>1. CASE s = LinkIdx  BY <1>2, <1>5, <1>6, <3>1 DEF RingTypes, RingRec
    <3>2. CASE s # LinkIdx
      <4>1. s < Turned  BY <1>4, <1>5, <2>1, <3>2
      <4>2. ring.trbs[s].cyc = ring.cycBit  BY <1>2, <2>1, <4>1 DEF CycOK
      <4> QED BY <1>2, <1>6, <2>1, <3>2, <4>2 DEF RingTypes, RingRec
    <3> QED BY <3>1, <3>2
  <2> QED BY <1>5, <1>6, <1>7, <2>1 DEF CycOK
<1>11. EvesOK'  BY <1>2, <1>3, EvesStay
<1>12. Len(f) < LinkIdx /\ Len(f) \in Nat
  <2>1. Laid(f) /\ StoredOK(f)  BY <1>1 DEF Flight
  <2> QED BY <1>2, <1>3, <2>1, RoomLeft
<1>13. \A k \in 1 .. Len(f) : FlightAt(f, k)' = FlightAt(f, k) /\ FlightAt(f, k) \in 0 .. LinkIdx - 1
  <2>1. Len(f) \in 0 .. LinkIdx /\ LinkIdx \in 0 .. LinkIdx  BY <1>5, <1>12
  <2>2. \A k \in 1 .. Len(f) : /\ SlotAt(0, Len(f), k) = SlotAt(LinkIdx, Len(f), k)
                               /\ SlotAt(LinkIdx, Len(f), k) \in 0 .. LinkIdx - 1
    BY <1>5, <2>1, SlotsDiffer
  <2> QED BY <1>4, <1>7, <2>2 DEF FlightAt
<1>14. StoredOK(f)'
  <2>1. \A k \in 1 .. Len(f) : ring'.trbs[FlightAt(f, k)] = ring.trbs[FlightAt(f, k)]
    BY <1>2, <1>5, <1>6, <1>13 DEF RingTypes, RingRec
  <2> QED BY <1>1, <1>6, <1>7, <1>13, <2>1 DEF Flight, StoredOK
<1>15. DuesOK(f)'
  <2>1. DuesOK(f) /\ Len(due) \in Nat /\ ringCtl.deq \in 0 .. LinkIdx /\ ringCtl.ccs \in {0, 1}
    BY <1>1, <1>2, <1>5, LenProperties DEF Flight, RingTypes, CtrlRec
  <2>2. Put' - Len(due) = IF ring'.cycBit = ringCtl.ccs THEN ringCtl.deq ELSE ringCtl.deq - LinkIdx
    <3>1. Len(due) < LinkIdx  BY <1>5, <1>12, <2>1 DEF DuesOK
    <3>2. LinkIdx - Len(due) = IF ring.cycBit = ringCtl.ccs THEN ringCtl.deq ELSE ringCtl.deq - LinkIdx
      BY <1>4, <2>1 DEF DuesOK
    <3>3. ring.cycBit = ringCtl.ccs  BY <1>5, <2>1, <3>1, <3>2
    <3> QED BY <1>5, <1>6, <1>7, <2>1, <3>2, <3>3
  <2> QED BY <1>3, <2>1, <2>2 DEF DuesOK
<1>16. EndsOK(f, p)'
  <2>1. Looks' = Looks  BY <1>3 DEF Looks
  <2>2. EndsOK(f, p) /\ Len(due) \in Nat /\ Len(evePosted) \in Nat /\ Len(p) \in Nat
    BY <1>1, <1>2, LenProperties DEF Flight, RingTypes
  <2>3. \A m \in 1 .. Len(p) : p[m] \in 1 .. Len(f)  BY <1>12, <2>2 DEF EndsOK
  <2>4. \A m \in 1 .. Len(p) : FlightAt(f, p[m])' = FlightAt(f, p[m])  BY <1>13, <2>3
  <2>5. Looks \in {0, 1} /\ Len(p) = Looks + Len(evePosted)  BY <2>2 DEF Looks, EndsOK
  <2>6. \A m \in 1 .. Len(evePosted) : Looks + m \in 1 .. Len(p)  BY <2>2, <2>5
  <2>7. Looks = 1 => 1 \in 1 .. Len(p)  BY <2>2, <2>5
  <2> QED BY <1>3, <2>1, <2>2, <2>4, <2>6, <2>7 DEF EndsOK
<1>17. WaitsOK(f)'  BY <1>1, <1>3, WaitsStay DEF Flight
<1>18. Flight(f, p)'  BY <1>1, <1>14, <1>15, <1>16, <1>17 DEF Flight
<1> QED BY <1>8, <1>9, <1>10, <1>11, <1>18 DEF RingInv
\* While it inserts, the thread waits for nothing.
LEMMA InsertWaits ==
    ASSUME NEW f \in Seq(TRBs), NEW g \in Seq(TRBs), WaitsOK(f), NEW t \in User,
           ringThd[t].pc \in Inserting, ringThd'[t].pc \in Inserting, UNCHANGED <<ringWait, ringIntr>>,
           \A u \in User \ {t} : ringThd'[u] = ringThd[u] /\ (InFlight(g, u) <=> InFlight(f, u))
    PROVE  WaitsOK(g)'
<1>1. \A u : Answered(u)' <=> Answered(u)  BY DEF Answered
<1>2. \A u : InFlight(g, u)' <=> InFlight(g, u)  BY DEF InFlight
<1>3. WaitOK(g, t)'
  <2>1. ringWait[t] = 0 /\ ~Answered(t)  BY DEF WaitsOK, WaitOK
  <2>2. ringThd'[t].pc \notin {"idle", "bell", "wait"}  BY DEF Inserting
  <2> QED BY <1>1, <2>1, <2>2 DEF WaitOK
<1>4. ASSUME NEW u \in User \ {t} PROVE WaitOK(g, u)'
  <2>1. WaitOK(f, u)  BY DEF WaitsOK
  <2> QED BY <1>1, <1>2, <2>1 DEF WaitOK
<1> QED BY <1>3, <1>4 DEF WaitsOK

\* An entry is written: its TRB is in flight.
LEMMA CopyStep == ASSUME RingInv, NEW t \in User, Copy(t) PROVE RingInv'
<1>1. PICK f \in Seq(TRBs), p \in Seq(Nat) : Flight(f, p)  BY DEF RingInv
<1>2. RingTypes /\ LockOK /\ CycOK /\ EvesOK  BY DEF RingInv
<1> DEFINE i == ringThd[t].i
           n == Len(f)
           d == Len(due)
           c == ring.curIdx
           r == [of |-> t, i |-> i]
<1>3. /\ ringThd[t].pc = "copy" /\ c < LinkIdx
      /\ ring' = [ring EXCEPT !.trbs[c] = [cyc |-> 0, of |-> t, i |-> i]]
      /\ due' = Append(due, r) /\ ringThd' = [ringThd EXCEPT ![t].pc = "cyc"]
      /\ UNCHANGED <<ringWait, ringCtl, eve, ringIntr, evePosted>>
  BY DEF Copy
<1>4. /\ ring.lck = t /\ t # NoUser /\ Holder = "copy" /\ Put = c /\ Turned = c /\ Done = i - 1 /\ Rest = InputSz[t] - (i - 1)
      /\ i \in 1 .. InputSz[t] /\ InputSz[t] \in Nat
  BY <1>2, <1>3, HolderHas DEF Inserting, Put, Turned
<1>5. LinkIdx \in Nat /\ RingSlots = 0 .. LinkIdx /\ ring.cycBit \in {0, 1} /\ c \in 0 .. LinkIdx - 1
  BY <1>2, <1>3, HolderIs DEF RingTypes, RingRec
<1>6. PICK g : g = Longer(f, t, i)  OBVIOUS
<1>7. /\ g \in Seq(TRBs) /\ Laid(g) /\ Len(g) = n + 1 /\ g[n + 1] = r /\ \A k \in 1 .. n : g[k] = f[k]
      /\ n \in 0 .. LinkIdx - 1 /\ StoredOK(f) /\ DuesOK(f) /\ EndsOK(f, p) /\ WaitsOK(f)
  <2>1. Laid(f) /\ StoredOK(f) /\ DuesOK(f) /\ EndsOK(f, p) /\ WaitsOK(f)  BY <1>1 DEF Flight
  <2>2. /\ g \in Seq(TRBs) /\ Laid(g) /\ Len(g) = n + 1 /\ g[n + 1] = r /\ \A k \in 1 .. n : g[k] = f[k]
        /\ n < LinkIdx /\ n \in Nat
    BY <1>2, <1>3, <1>6, <2>1, RoomLeft
  <2> QED BY <1>5, <2>1, <2>2
<1>8. /\ ring' \in RingRec /\ ring'.lck = t /\ ring'.load = ring.load /\ ring'.curIdx = c
      /\ ring'.cycBit = ring.cycBit /\ ring'.reqs = ring.reqs
      /\ ring'.trbs[c] = [cyc |-> 0, of |-> t, i |-> i]
      /\ \A s \in RingSlots \ {c} : ring'.trbs[s] = ring.trbs[s]
  <2>0. c \in RingSlots /\ i \in Nat  BY <1>4, <1>5
  <2> HIDE DEF c, i
  <2>1. PICK x \in [RingSlots -> [cyc : {0, 1}, of : User \union {NoUser}, i : Nat]] :
           x = [ring.trbs EXCEPT ![c] = [cyc |-> 0, of |-> t, i |-> i]]
    BY <1>2, <2>0 DEF RingTypes, RingRec
  <2>2. ring' = [ring EXCEPT !.trbs = x] /\ ring \in RingRec  BY <1>2, <1>3, <2>1 DEF RingTypes
  <2>3. /\ ring' \in RingRec /\ ring'.lck = ring.lck /\ ring'.load = ring.load /\ ring'.curIdx = ring.curIdx
        /\ ring'.cycBit = ring.cycBit /\ ring'.reqs = ring.reqs /\ ring'.trbs = x
    BY <2>1, <2>2 DEF RingRec
  <2>4. x[c] = [cyc |-> 0, of |-> t, i |-> i] /\ \A s \in RingSlots \ {c} : x[s] = ring.trbs[s]
    BY <1>2, <2>0, <2>1 DEF RingTypes, RingRec
  <2> QED BY <1>4, <2>3, <2>4 DEF c
<1>9. /\ ringThd'[t].pc = "cyc" /\ ringThd'[t].i = i /\ \A u \in User \ {t} : ringThd'[u] = ringThd[u]
      /\ ringThd' \in [User -> UserRec]
  BY <1>2, <1>3 DEF RingTypes, UserRec, Inserting
<1>10. /\ Holder' = "cyc" /\ Done' = i /\ Rest' = InputSz[t] - i /\ Put' = c + 1
       /\ Turned' = IF ring.cycBit = 0 THEN c + 1 ELSE c
  <2>1. Holder' = "cyc"  BY <1>4, <1>8, <1>9 DEF Holder
  <2>2. Done' = i  BY <1>8, <1>9, <2>1 DEF Done
  <2> QED BY <1>8, <2>1, <2>2 DEF Rest, Put, Turned
<1> HIDE DEF i, n, d, c, r
<1>11. d \in Nat /\ due' \in Seq(TRBs) /\ Len(due') = d + 1 /\ due'[d + 1] = r /\ \A k \in 1 .. d : due'[k] = due[k]
  <2>1. r \in TRBs  BY <1>4, TRBIs DEF r
  <2>2. due \in Seq(TRBs)  BY <1>2 DEF RingTypes
  <2> QED BY <1>3, <2>1, <2>2 DEF d
<1>12. RingTypes'  BY <1>2, <1>3, <1>8, <1>9, <1>11 DEF RingTypes
<1>13. LockOK'
  <2>1. \A u \in User \ {t} : ringThd[u].i = 1 /\ ringThd[u].pc \notin Inserting
    BY <1>2, <1>3, HolderHas DEF Inserting
  <2>2. \A u \in User : ringThd'[u].pc \in Inserting <=> ring'.lck = u  BY <1>8, <1>9, <2>1 DEF Inserting
  <2>3. \A u \in User : ringThd'[u].i <= InputSz[u] /\ (ring'.lck # u => ringThd'[u].i = 1)
    BY <1>4, <1>8, <1>9, <2>1, TRBIs
  <2> QED BY <1>5, <1>8, <2>2, <2>3 DEF LockOK, c
<1>14. CycOK'
  <2>0. SUFFICES ASSUME NEW s \in RingSlots
                 PROVE  ring'.trbs[s].cyc = IF s < Turned' THEN ring'.cycBit ELSE 1 - ring'.cycBit
    BY DEF CycOK
  <2>1. CASE s = c  BY <1>5, <1>8, <1>10, <2>1
  <2>2. CASE s # c
    <3>1. ring'.trbs[s] = ring.trbs[s] /\ ring.trbs[s].cyc = IF s < Turned THEN ring.cycBit ELSE 1 - ring.cycBit
      BY <1>2, <1>8, <2>2 DEF CycOK
    <3>2. s < Turned <=> s < Turned'  BY <1>4, <1>5, <1>10, <2>2
    <3> QED BY <1>8, <3>1, <3>2
  <2> QED BY <2>1, <2>2
<1>15. EvesOK'  BY <1>2, <1>3, EvesStay
<1>16. /\ \A k \in 1 .. n : FlightAt(g, k)' = FlightAt(f, k) /\ FlightAt(f, k) \in RingSlots \ {c}
       /\ FlightAt(g, n + 1)' = c
  <2>1. n \in 0 .. LinkIdx /\ c \in 0 .. LinkIdx /\ n < LinkIdx  BY <1>5, <1>7
  <2>2. \A k \in 1 .. n : /\ SlotAt(c + 1, n + 1, k) = SlotAt(c, n, k) /\ SlotAt(c, n, k) # c
                          /\ SlotAt(c, n, k) \in 0 .. LinkIdx - 1
    BY <1>5, <2>1, SlotsDiffer
  <2>3. SlotAt(c + 1, n + 1, n + 1) = c  BY <1>5, <2>1 DEF SlotAt
  <2> QED BY <1>4, <1>5, <1>7, <1>10, <2>2, <2>3 DEF FlightAt, n
<1>17. StoredOK(g)'
  <2>1. /\ ring.load = n + Rest /\ \A k \in 1 .. n : f[k].of = t => f[k].i <= Done
        /\ \A k \in 1 .. n : /\ ring.trbs[FlightAt(f, k)].of = f[k].of /\ ring.trbs[FlightAt(f, k)].i = f[k].i
                             /\ ring.reqs[FlightAt(f, k)] = f[k].of
    BY <1>4, <1>7 DEF StoredOK, n
  <2>2. ring'.load = Len(g) + Rest'
    <3>1. n \in Nat /\ InputSz[t] \in Nat /\ i \in Nat  BY <1>4, <1>7
    <3>2. Rest = InputSz[t] - (i - 1) /\ Rest' = InputSz[t] - i /\ Len(g) = n + 1 /\ ring'.load = n + Rest
      BY <1>4, <1>7, <1>8, <1>10, <2>1
    <3>3. PICK x \in Int : x = InputSz[t] - i  BY <3>1
    <3>4. InputSz[t] - (i - 1) = x + 1  BY <3>1, <3>3
    <3>5. Rest = x + 1 /\ Rest' = x  BY <3>2, <3>3, <3>4
    <3> QED BY <3>1, <3>2, <3>5
  <2>3. r.of = t /\ r.i = i /\ i > 0 /\ Len(g) > 0 /\ Len(g) = n + 1 /\ n \in Nat  BY <1>4, <1>7 DEF r
  <2>4. ASSUME NEW k \in 1 .. Len(g)
        PROVE  /\ g[k].of = t => g[k].i <= i
               /\ ring'.trbs[FlightAt(g, k)'].of = g[k].of /\ ring'.trbs[FlightAt(g, k)'].i = g[k].i
               /\ ring'.reqs[FlightAt(g, k)'] = g[k].of \/ k = Len(g)
    <3>1. CASE k \in 1 .. n
      <4>0. f[k].i \in Nat
        <5>1. f[k] \in TRBs  BY <3>1, ElementOfSeq DEF n
        <5> QED BY <5>1, TRBIs
      <4>1. g[k] = f[k] /\ FlightAt(g, k)' = FlightAt(f, k) /\ FlightAt(f, k) \in RingSlots \ {c}  BY <1>7, <1>16, <3>1
      <4>2. ring'.trbs[FlightAt(f, k)] = ring.trbs[FlightAt(f, k)]  BY <1>8, <4>1
      <4>3. f[k].of = t => f[k].i <= i  BY <1>4, <2>1, <3>1, <4>0
      <4> QED BY <1>8, <2>1, <3>1, <4>1, <4>2, <4>3
    <3>2. CASE k = n + 1  BY <1>4, <1>7, <1>8, <1>16, <2>3, <3>2
    <3>3. k \in 1 .. n \/ k = n + 1  BY <2>3
    <3> QED BY <3>1, <3>2, <3>3
  <2>5. g[Len(g)] = [of |-> ring'.lck, i |-> Done']  BY <1>7, <1>8, <1>10 DEF r
  <2> QED BY <1>8, <1>10, <2>2, <2>3, <2>4, <2>5 DEF StoredOK
<1>18. DuesOK(g)'
  <2>1. /\ d <= n /\ \A k \in 1 .. d : due[k] = f[n - d + k]
        /\ c - d = IF ring.cycBit = ringCtl.ccs THEN ringCtl.deq ELSE ringCtl.deq - LinkIdx
    BY <1>4, <1>7 DEF DuesOK, n, d
  <2>2. ASSUME NEW k \in 1 .. d + 1 PROVE due'[k] = g[n + 1 - (d + 1) + k]
    <3>1. CASE k = d + 1
      <4>1. n + 1 - (d + 1) + k = n + 1  BY <1>7, <1>11, <3>1
      <4> QED BY <1>7, <1>11, <3>1, <4>1
    <3>2. CASE k \in 1 .. d
      <4>1. PICK q \in 1 .. n : q = n - d + k  BY <1>7, <1>11, <2>1, <3>2
      <4>2. n + 1 - (d + 1) + k = q  BY <1>7, <1>11, <4>1
      <4>3. due[k] = f[q]  BY <2>1, <3>2, <4>1
      <4> QED BY <1>7, <1>11, <3>2, <4>2, <4>3
    <3>3. k = d + 1 \/ k \in 1 .. d  BY <1>11
    <3> QED BY <3>1, <3>2, <3>3
  <2>3. d + 1 <= n + 1 /\ (c + 1) - (d + 1) = c - d  BY <1>5, <1>7, <1>11, <2>1
  <2>4. Len(due') = d + 1 /\ Len(g) = n + 1 /\ Put' = c + 1  BY <1>7, <1>10, <1>11
  <2>5. Put' - Len(due') = c - d  BY <2>3, <2>4
  <2>6. Len(due') <= Len(g) /\ \A k \in 1 .. Len(due') : due'[k] = g[Len(g) - Len(due') + k]
    <3>1. Len(due') <= Len(g)  BY <2>3, <2>4
    <3>2. PICK b \in Nat, e \in Nat : b = n + 1 /\ e = d + 1  BY <1>7, <1>11
    <3>3. ASSUME NEW k \in 1 .. e PROVE due'[k] = g[b - e + k]
      <4>0. n \in Nat /\ d \in Nat  BY <1>7, <1>11
      <4>1. k \in 1 .. d + 1 /\ n + 1 - (d + 1) + k = b - e + k  BY <3>2, <4>0
      <4> QED BY <2>2, <4>1
    <3>4. Len(due') = e /\ Len(g) = b  BY <2>4, <3>2
    <3> QED BY <3>1, <3>3, <3>4
  <2>7. ring'.cycBit = ring.cycBit /\ ringCtl' = ringCtl  BY <1>3, <1>8
  <2>8. Put' - Len(due') = IF ring'.cycBit = ringCtl'.ccs THEN ringCtl'.deq ELSE ringCtl'.deq - LinkIdx
    BY <2>1, <2>5, <2>7
  <2> QED BY <2>6, <2>8 DEF DuesOK
<1>19. EndsOK(g, p)'
  <2>1. Looks' = Looks /\ Looks \in {0, 1}  BY <1>3 DEF Looks
  <2>2. /\ Len(p) = Looks + Len(evePosted) /\ Len(evePosted) \in Nat /\ Len(p) \in Nat /\ d <= n
        /\ \A m \in 1 .. Len(p) : p[m] \in 1 .. n - d /\ LastTRB(f[p[m]])
        /\ \A m, l \in 1 .. Len(p) : m < l => p[m] < p[l]
        /\ \A k \in 1 .. n - d : LastTRB(f[k]) => \E m \in 1 .. Len(p) : p[m] = k
        /\ \A m \in 1 .. Len(evePosted) :
              /\ evePosted[m].idx = FlightAt(f, p[Looks + m]) /\ evePosted[m].of = f[p[Looks + m]].of
        /\ Looks = 1 => ringIntr.idx = FlightAt(f, p[1]) /\ ringIntr.of = f[p[1]].of
    BY <1>2, <1>7, LenProperties DEF EndsOK, RingTypes, DuesOK, n, d
  <2>3. Len(g) - Len(due') = n - d  BY <1>7, <1>11
  <2>4. \A k \in 1 .. n - d : g[k] = f[k] /\ FlightAt(g, k)' = FlightAt(f, k)
    <3>1. n \in Nat /\ d \in Nat  BY <1>7, <1>11
    <3>2. \A k \in 1 .. n - d : k \in 1 .. n  BY <3>1
    <3>3. \A k \in 1 .. n : g[k] = f[k]  BY <1>7
    <3>4. \A k \in 1 .. n : FlightAt(g, k)' = FlightAt(f, k)  BY <1>16
    <3> QED BY <3>2, <3>3, <3>4
  <2>5. \A m \in 1 .. Len(evePosted) : Looks + m \in 1 .. Len(p)  BY <2>1, <2>2
  <2>6. Looks = 1 => 1 \in 1 .. Len(p)  BY <2>2
  <2>7. \A m \in 1 .. Len(p) : g[p[m]] = f[p[m]] /\ FlightAt(g, p[m])' = FlightAt(f, p[m])  BY <2>2, <2>4
  <2>8. \A m \in 1 .. Len(p) : p[m] \in 1 .. n - d /\ LastTRB(g[p[m]])  BY <2>2, <2>7
  <2>9. \A k \in 1 .. n - d : LastTRB(g[k]) => \E m \in 1 .. Len(p) : p[m] = k  BY <2>2, <2>4
  <2>10. \A m \in 1 .. Len(evePosted) :
            /\ evePosted[m].idx = FlightAt(g, p[Looks + m])' /\ evePosted[m].of = g[p[Looks + m]].of
    <3> TAKE m \in 1 .. Len(evePosted)
    <3>1. PICK q \in 1 .. Len(p) : q = Looks + m  BY <2>5
    <3>2. evePosted[m].idx = FlightAt(f, p[q]) /\ evePosted[m].of = f[p[q]].of  BY <2>2, <3>1
    <3>3. g[p[q]] = f[p[q]] /\ FlightAt(g, p[q])' = FlightAt(f, p[q])  BY <2>7
    <3> QED BY <2>1, <3>1, <3>2, <3>3
  <2>11. Looks = 1 => ringIntr.idx = FlightAt(g, p[1])' /\ ringIntr.of = g[p[1]].of  BY <2>2, <2>6, <2>7
  <2> QED BY <1>3, <2>1, <2>2, <2>3, <2>8, <2>9, <2>10, <2>11 DEF EndsOK
<1>20. WaitsOK(g)'
  <2>1. ASSUME NEW u \in User \ {t} PROVE InFlight(g, u) <=> InFlight(f, u)
    <3>1. g[n + 1].of = t  BY <1>7 DEF r
    <3>2. \A k \in 1 .. n + 1 : k \in 1 .. n \/ k = n + 1  BY <1>7
    <3>3. \A k \in 1 .. n : k \in 1 .. n + 1  BY <1>7
    <3> QED BY <1>7, <3>1, <3>2, <3>3 DEF InFlight, n
  <2> QED BY <1>3, <1>7, <1>9, <2>1, InsertWaits DEF Inserting
<1>21. Flight(g, p)'  BY <1>7, <1>17, <1>18, <1>19, <1>20 DEF Flight
<1> QED BY <1>7, <1>12, <1>13, <1>14, <1>15, <1>21 DEF RingInv
\* Where the TRBs are depends on Put, the rest on what the holder leaves alone.
LEMMA FlightKeeps ==
    ASSUME NEW f \in Seq(TRBs), NEW p \in Seq(Nat), DuesOK(f), EndsOK(f, p), Put' = Put,
           ring'.cycBit = ring.cycBit, UNCHANGED <<ringCtl, ringIntr, due, evePosted>>
    PROVE  DuesOK(f)' /\ EndsOK(f, p)' /\ \A k : FlightAt(f, k)' = FlightAt(f, k)
<1>1. (\A k : FlightAt(f, k)' = FlightAt(f, k)) /\ Looks' = Looks  BY DEF FlightAt, Looks
<1>2. DuesOK(f)'  BY DEF DuesOK
<1>3. EndsOK(f, p)'  BY <1>1 DEF EndsOK
<1> QED BY <1>1, <1>2, <1>3

\* The entry is given to the controller.
LEMMA SetCycBitStep == ASSUME RingInv, NEW t \in User, SetCycBit(t) PROVE RingInv'
<1>1. PICK f \in Seq(TRBs), p \in Seq(Nat) : Flight(f, p)  BY DEF RingInv
<1>2. RingTypes /\ LockOK /\ CycOK /\ EvesOK  BY DEF RingInv
<1> DEFINE c == ring.curIdx
<1>3. /\ ringThd[t].pc = "cyc" /\ ring' = [ring EXCEPT !.trbs[c].cyc = ring.cycBit]
      /\ ringThd' = [ringThd EXCEPT ![t].pc = "reqs"]
      /\ UNCHANGED <<ringWait, ringCtl, eve, ringIntr, due, evePosted>>
  BY DEF SetCycBit
<1>4. /\ ring.lck = t /\ t # NoUser /\ Holder = "cyc" /\ Put = c + 1 /\ Turned \in {c, c + 1}
      /\ Done = ringThd[t].i /\ Rest = InputSz[t] - Done
      /\ \A u \in User \ {t} : ringThd[u].i = 1 /\ ringThd[u].pc \notin Inserting
  BY <1>2, <1>3, HolderHas DEF Inserting, Put, Turned
<1>5. LinkIdx \in Nat /\ RingSlots = 0 .. LinkIdx /\ ring.cycBit \in {0, 1} /\ c \in 0 .. LinkIdx - 1 /\ c \in RingSlots
  <2>1. c < LinkIdx  BY <1>2, <1>4 DEF LockOK
  <2> QED BY <1>2, <2>1, HolderIs DEF RingTypes, RingRec
<1>6. /\ ring' \in RingRec /\ ring'.lck = t /\ ring'.load = ring.load /\ ring'.curIdx = c
      /\ ring'.cycBit = ring.cycBit /\ ring'.reqs = ring.reqs /\ ring'.trbs[c].cyc = ring.cycBit
      /\ \A s \in RingSlots \ {c} : ring'.trbs[s] = ring.trbs[s]
      /\ \A s \in RingSlots : ring'.trbs[s].of = ring.trbs[s].of /\ ring'.trbs[s].i = ring.trbs[s].i
  <2> HIDE DEF c
  <2>1. PICK x \in [RingSlots -> [cyc : {0, 1}, of : User \union {NoUser}, i : Nat]] :
           x = [ring.trbs EXCEPT ![c].cyc = ring.cycBit]
    BY <1>2, <1>5 DEF RingTypes, RingRec
  <2>2. ring' = [ring EXCEPT !.trbs = x] /\ ring \in RingRec  BY <1>2, <1>3, <2>1 DEF RingTypes
  <2>3. /\ ring' \in RingRec /\ ring'.lck = ring.lck /\ ring'.load = ring.load /\ ring'.curIdx = ring.curIdx
        /\ ring'.cycBit = ring.cycBit /\ ring'.reqs = ring.reqs /\ ring'.trbs = x
    BY <2>1, <2>2 DEF RingRec
  <2>4. /\ x[c].cyc = ring.cycBit /\ \A s \in RingSlots \ {c} : x[s] = ring.trbs[s]
        /\ x[c].of = ring.trbs[c].of /\ x[c].i = ring.trbs[c].i
    BY <1>2, <1>5, <2>1 DEF RingTypes, RingRec
  <2> QED BY <1>4, <2>3, <2>4 DEF c
<1>7. /\ ringThd'[t].pc = "reqs" /\ ringThd'[t].i = ringThd[t].i /\ \A u \in User \ {t} : ringThd'[u] = ringThd[u]
      /\ ringThd' \in [User -> UserRec]
  BY <1>2, <1>3 DEF RingTypes, UserRec, Inserting
<1>8. Holder' = "reqs" /\ Done' = Done /\ Rest' = Rest /\ Put' = Put /\ Turned' = c + 1
  <2>1. Holder' = "reqs"  BY <1>4, <1>6, <1>7 DEF Holder
  <2>2. Done' = Done  BY <1>4, <1>6, <1>7, <2>1 DEF Done
  <2> QED BY <1>4, <1>6, <2>1, <2>2 DEF Rest, Put, Turned
<1> HIDE DEF c
<1>9. RingTypes'  BY <1>2, <1>3, <1>6, <1>7 DEF RingTypes
<1>10. LockOK'
  <2>1. \A u \in User : ringThd'[u].pc \in Inserting <=> ring'.lck = u  BY <1>4, <1>6, <1>7 DEF Inserting
  <2>2. \A u \in User : ringThd'[u].i <= InputSz[u] /\ (ring'.lck # u => ringThd'[u].i = 1)
    BY <1>2, <1>4, <1>6, <1>7 DEF LockOK
  <2> QED BY <1>5, <1>6, <2>1, <2>2 DEF LockOK
<1>11. CycOK'
  <2>0. SUFFICES ASSUME NEW s \in RingSlots
                 PROVE  ring'.trbs[s].cyc = IF s < Turned' THEN ring'.cycBit ELSE 1 - ring'.cycBit
    BY DEF CycOK
  <2>1. CASE s = c  BY <1>5, <1>6, <1>8, <2>1
  <2>2. CASE s # c
    <3>1. ring'.trbs[s] = ring.trbs[s] /\ ring.trbs[s].cyc = IF s < Turned THEN ring.cycBit ELSE 1 - ring.cycBit
      BY <1>2, <1>6, <2>2 DEF CycOK
    <3>2. s < Turned <=> s < Turned'  BY <1>4, <1>5, <1>8, <2>2
    <3> QED BY <1>6, <3>1, <3>2
  <2> QED BY <2>1, <2>2
<1>12. EvesOK'  BY <1>2, <1>3, EvesStay
<1>13. DuesOK(f)' /\ EndsOK(f, p)' /\ \A k : FlightAt(f, k)' = FlightAt(f, k)
  BY <1>1, <1>3, <1>6, <1>8, FlightKeeps DEF Flight
<1>14. StoredOK(f)'
  <2>1. StoredOK(f) /\ Laid(f)  BY <1>1 DEF Flight
  <2>2. \A k \in 1 .. Len(f) : FlightAt(f, k) \in RingSlots
    <3>1. Put \in 0 .. LinkIdx /\ Len(f) \in 0 .. LinkIdx  BY <1>2, <2>1, HolderIs, LaidFits
    <3>2. \A k \in 1 .. Len(f) : SlotAt(Put, Len(f), k) \in 0 .. LinkIdx - 1  BY <1>5, <3>1, SlotsDiffer
    <3> QED BY <1>5, <3>2 DEF FlightAt
  <2> QED BY <1>4, <1>6, <1>8, <1>13, <2>1, <2>2 DEF StoredOK
<1>15. WaitsOK(f)'  BY <1>1, <1>3, <1>7, InsertWaits DEF Inserting, Flight
<1>16. Flight(f, p)'  BY <1>1, <1>13, <1>14, <1>15 DEF Flight
<1> QED BY <1>9, <1>10, <1>11, <1>12, <1>16 DEF RingInv

\* The request of the entry, and the end of the loop.
LEMMA SetReqsStep == ASSUME RingInv, NEW t \in User, SetReqs(t) PROVE RingInv'
<1>1. PICK f \in Seq(TRBs), p \in Seq(Nat) : Flight(f, p)  BY DEF RingInv
<1>2. RingTypes /\ LockOK /\ CycOK /\ EvesOK  BY DEF RingInv
<1> DEFINE c == ring.curIdx
           n == Len(f)
           i == ringThd[t].i
           end == i = InputSz[t]
<1>3. /\ ringThd[t].pc = "reqs"
      /\ ring' = [ring EXCEPT !.reqs[c] = t, !.curIdx = @ + 1, !.lck = IF end THEN NoUser ELSE @]
      /\ ringThd' = [ringThd EXCEPT ![t] = IF end THEN [pc |-> "bell", i |-> 1] ELSE [pc |-> "copy", i |-> @.i + 1]]
      /\ UNCHANGED <<ringWait, ringCtl, eve, ringIntr, due, evePosted>>
  BY DEF SetReqs
<1>4. /\ ring.lck = t /\ t # NoUser /\ Holder = "reqs" /\ Put = c + 1 /\ Turned = c + 1
      /\ Done = i /\ Rest = InputSz[t] - Done /\ i \in 1 .. InputSz[t] /\ InputSz[t] \in Nat \ {0}
      /\ \A u \in User \ {t} : ringThd[u].i = 1 /\ ringThd[u].pc \notin Inserting
  <2>1. ringThd[t].pc \in Inserting  BY <1>3 DEF Inserting
  <2>2. /\ ring.lck = t /\ t # NoUser /\ Holder = "reqs" /\ i \in 1 .. InputSz[t] /\ InputSz[t] \in Nat \ {0}
        /\ Done = (IF Holder = "copy" THEN i - 1 ELSE i) /\ Rest = InputSz[t] - Done
        /\ \A u \in User \ {t} : ringThd[u].i = 1 /\ ringThd[u].pc \notin Inserting
    BY <1>2, <1>3, <2>1, HolderHas
  <2> HIDE DEF c, i
  <2>3. Done = i  BY <2>2
  <2>4. Put = c + 1 /\ Turned = c + 1  BY <2>2 DEF Put, Turned, c
  <2> QED BY <2>2, <2>3, <2>4
<1>5. LinkIdx \in Nat /\ RingSlots = 0 .. LinkIdx /\ c \in 0 .. LinkIdx - 1 /\ c \in RingSlots /\ c + 1 \in RingSlots
  <2>1. c < LinkIdx  BY <1>2, <1>4 DEF LockOK
  <2>2. LinkIdx \in Nat /\ RingSlots = 0 .. LinkIdx /\ c \in 0 .. LinkIdx  BY <1>2, HolderIs
  <2> HIDE DEF c
  <2> QED BY <2>1, <2>2
<1>6. PICK w \in User \union {NoUser} : w = IF end THEN NoUser ELSE t  OBVIOUS
<1>7. /\ ring' \in RingRec /\ ring'.lck = w /\ ring'.load = ring.load /\ ring'.curIdx = c + 1
      /\ ring'.cycBit = ring.cycBit /\ ring'.trbs = ring.trbs /\ ring'.reqs[c] = t
      /\ \A s \in RingSlots \ {c} : ring'.reqs[s] = ring.reqs[s]
  <2> HIDE DEF c, end
  <2>1. PICK x \in [RingSlots -> User \union {NoUser}] : x = [ring.reqs EXCEPT ![c] = t]
    BY <1>2, <1>5 DEF RingTypes, RingRec
  <2>2. PICK y \in RingSlots : y = c + 1  BY <1>5
  <2>3. ring' = [ring EXCEPT !.reqs = x, !.curIdx = y, !.lck = w] /\ ring \in RingRec
    BY <1>2, <1>3, <1>4, <1>6, <2>1, <2>2 DEF RingTypes, c
  <2>4. /\ ring' \in RingRec /\ ring'.lck = w /\ ring'.load = ring.load /\ ring'.curIdx = y
        /\ ring'.cycBit = ring.cycBit /\ ring'.trbs = ring.trbs /\ ring'.reqs = x
    BY <2>1, <2>3 DEF RingRec
  <2>5. x[c] = t /\ \A s \in RingSlots \ {c} : x[s] = ring.reqs[s]  BY <1>2, <1>5, <2>1 DEF RingTypes, RingRec
  <2> QED BY <2>2, <2>4, <2>5
<1>8. /\ ringThd' \in [User -> UserRec] /\ \A u \in User \ {t} : ringThd'[u] = ringThd[u]
      /\ ringThd'[t] = IF end THEN [pc |-> "bell", i |-> 1] ELSE [pc |-> "copy", i |-> i + 1]
  <2>1. PICK x \in UserRec : x = IF end THEN [pc |-> "bell", i |-> 1] ELSE [pc |-> "copy", i |-> i + 1]
    <3>1. i + 1 \in Nat \ {0} /\ 1 \in Nat \ {0}  BY <1>4
    <3> HIDE DEF i, end
    <3>2. [pc |-> "bell", i |-> 1] \in UserRec /\ [pc |-> "copy", i |-> i + 1] \in UserRec
      BY <3>1 DEF UserRec, Inserting
    <3> QED BY <3>2
  <2>2. ringThd' = [ringThd EXCEPT ![t] = x] /\ ringThd \in [User -> UserRec]  BY <1>2, <1>3, <2>1 DEF RingTypes
  <2> QED BY <2>1, <2>2
<1>9. /\ end => Holder' = "none" /\ Done' = 0 /\ Rest' = 0 /\ Rest = 0
      /\ ~end => Holder' = "copy" /\ Done' = Done /\ Rest' = Rest
      /\ Put' = Put /\ Turned' = Turned
  <2>1. CASE end
    <3>1. Holder' = "none"  BY <1>6, <1>7, <2>1 DEF Holder
    <3>2. Done' = 0 /\ Rest' = 0  BY <3>1 DEF Done, Rest
    <3> QED BY <1>4, <1>7, <2>1, <3>1, <3>2 DEF Put, Turned
  <2>2. CASE ~end
    <3>1. Holder' = "copy" /\ ring'.lck = t  BY <1>4, <1>6, <1>7, <1>8, <2>2 DEF Holder
    <3>2. ringThd'[t].i = i + 1  BY <1>8, <2>2
    <3>3. Done' = (i + 1) - 1  BY <3>1, <3>2 DEF Done
    <3>4. Done' = Done  BY <1>4, <3>3
    <3> QED BY <1>4, <1>7, <2>2, <3>1, <3>4 DEF Rest, Put, Turned
  <2> QED BY <2>1, <2>2
<1>10. RingTypes'  BY <1>2, <1>3, <1>7, <1>8 DEF RingTypes
<1>11. LockOK'
  <2>1. \A u \in User : ringThd'[u].pc \in Inserting <=> ring'.lck = u
    <3>1. \A u \in User \ {t} : ring'.lck # u  BY <1>6, <1>7, RingAssumption
    <3>2. ringThd'[t].pc \in Inserting <=> ring'.lck = t  BY <1>4, <1>6, <1>7, <1>8 DEF Inserting
    <3> QED BY <1>4, <1>8, <3>1, <3>2
  <2>2. \A u \in User : ringThd'[u].i <= InputSz[u] /\ (ring'.lck # u => ringThd'[u].i = 1)
    <3>1. ringThd'[t].i <= InputSz[t] /\ (ring'.lck # t => ringThd'[t].i = 1)  BY <1>4, <1>6, <1>7, <1>8
    <3> QED BY <1>2, <1>4, <1>8, <3>1 DEF LockOK
  <2> QED BY <1>9, <2>1, <2>2 DEF LockOK
<1>12. CycOK'  BY <1>2, <1>7, <1>9 DEF CycOK
<1>13. EvesOK'  BY <1>2, <1>3, EvesStay
<1>14. DuesOK(f)' /\ EndsOK(f, p)' /\ \A k : FlightAt(f, k)' = FlightAt(f, k)
  BY <1>1, <1>3, <1>7, <1>9, FlightKeeps DEF Flight
<1> HIDE DEF c, n, i, end
<1>15. /\ StoredOK(f) /\ Laid(f) /\ n \in 1 .. LinkIdx /\ f[n] = [of |-> t, i |-> i] /\ FlightAt(f, n) = c
       /\ \A k \in 1 .. n : FlightAt(f, k) \in RingSlots /\ f[k].of \in User /\ f[k].i \in Nat /\ (FlightAt(f, k) = c => k = n)
  <2>1. StoredOK(f) /\ Laid(f)  BY <1>1 DEF Flight
  <2>2. n > 0 /\ f[n] = [of |-> t, i |-> i]  BY <1>4, <2>1 DEF StoredOK, n
  <2>3. Put \in 0 .. LinkIdx /\ n \in 0 .. LinkIdx  BY <1>2, <2>1, HolderIs, LaidFits DEF n
  <2>4. SlotAt(Put, n, n) = c  BY <1>4, <1>5, <2>2, <2>3 DEF SlotAt
  <2>5. /\ \A k \in 1 .. n : SlotAt(Put, n, k) \in 0 .. LinkIdx - 1
        /\ \A k, l \in 1 .. n : SlotAt(Put, n, k) = SlotAt(Put, n, l) => k = l
    BY <1>5, <2>3, SlotsDiffer
  <2>6. \A k \in 1 .. n : f[k].of \in User /\ f[k].i \in Nat
    <3>1. \A k \in 1 .. n : f[k] \in TRBs  BY ElementOfSeq DEF n
    <3> QED BY <3>1, TRBIs
  <2>7. n \in 1 .. n  BY <2>2, <2>3
  <2>8. \A k \in 1 .. n : SlotAt(Put, n, k) = c => k = n  BY <2>4, <2>5, <2>7
  <2> QED BY <1>5, <2>1, <2>2, <2>3, <2>4, <2>5, <2>6, <2>8 DEF FlightAt, n
<1>16. StoredOK(f)'
  <2>1. ring'.load = Len(f) + Rest'  BY <1>7, <1>9, <1>15 DEF StoredOK
  <2>2. Done' > 0 => Len(f) > 0 /\ f[Len(f)] = [of |-> ring'.lck, i |-> Done']
    BY <1>4, <1>6, <1>7, <1>9, <1>15 DEF n
  <2>3. Done' = 0 /\ Len(f) > 0 => LastTRB(f[Len(f)])
    BY <1>4, <1>9, <1>15 DEF n, LastTRB, end
  <2>4. \A k \in 1 .. Len(f) : f[k].of = ring'.lck => f[k].i <= Done'
    <3>1. CASE end
      <4>1. ring'.lck = NoUser /\ NoUser \notin User  BY <1>6, <1>7, <3>1, RingAssumption
      <4>2. \A k \in 1 .. Len(f) : f[k].of \in User  BY <1>15 DEF n
      <4> QED BY <4>1, <4>2
    <3>2. CASE ~end
      <4>1. ring'.lck = ring.lck /\ Done' = Done  BY <1>4, <1>6, <1>7, <1>9, <3>2
      <4>2. \A k \in 1 .. Len(f) : f[k].of = ring.lck => f[k].i <= Done  BY <1>15 DEF StoredOK
      <4> QED BY <4>1, <4>2
    <3> QED BY <3>1, <3>2
  <2>5. ASSUME NEW k \in 1 .. Len(f)
        PROVE  /\ ring'.trbs[FlightAt(f, k)].of = f[k].of /\ ring'.trbs[FlightAt(f, k)].i = f[k].i
               /\ ring'.reqs[FlightAt(f, k)] = f[k].of
    <3>1. k \in 1 .. n  BY DEF n
    <3>2. ring.trbs[FlightAt(f, k)].of = f[k].of /\ ring.trbs[FlightAt(f, k)].i = f[k].i  BY <1>15, <3>1 DEF StoredOK
    <3>3. CASE k = n  BY <1>7, <1>15, <3>2, <3>3
    <3>4. CASE k # n
      <4>1. ring.reqs[FlightAt(f, k)] = f[k].of  BY <1>15, <3>1, <3>4 DEF StoredOK, n
      <4>2. FlightAt(f, k) \in RingSlots \ {c}  BY <1>15, <3>1, <3>4
      <4> QED BY <1>7, <3>2, <4>1, <4>2
    <3> QED BY <3>3, <3>4
  <2> QED BY <1>14, <2>1, <2>2, <2>3, <2>4, <2>5 DEF StoredOK
<1>17. WaitsOK(f)'
  <2>1. CASE ~end  BY <1>1, <1>3, <1>8, <2>1, InsertWaits DEF Inserting, Flight
  <2>2. CASE end
    <3>1. (\A u : Answered(u)' <=> Answered(u)) /\ (\A u : InFlight(f, u)' <=> InFlight(f, u))  BY <1>3 DEF Answered, InFlight
    <3>2. WaitsOK(f)  BY <1>1 DEF Flight
    <3>3. InFlight(f, t)
      <4>1. n \in 1 .. n /\ f[n].of = t  BY <1>5, <1>15
      <4> QED BY <4>1 DEF InFlight, n
    <3>4. ringWait[t] = 0 /\ ~Answered(t)  BY <1>3, <3>2 DEF WaitsOK, WaitOK, Inserting
    <3>5. ringThd'[t].pc = "bell"  BY <1>8, <2>2
    <3>6. WaitOK(f, t)'  BY <1>3, <3>1, <3>3, <3>4, <3>5 DEF WaitOK, Inserting
    <3>7. ASSUME NEW u \in User \ {t} PROVE WaitOK(f, u)'
      BY <1>3, <1>8, <3>1, <3>2, <3>7 DEF WaitsOK, WaitOK
    <3> QED BY <1>3, <3>2, <3>6, <3>7 DEF WaitsOK
  <2> QED BY <2>1, <2>2
<1>18. Flight(f, p)'  BY <1>1, <1>14, <1>16, <1>17 DEF Flight
<1> QED BY <1>10, <1>11, <1>12, <1>13, <1>18 DEF RingInv
-----------------------------------------------------------------------------
(* The controller executes a TRB. *)

\* An entry the controller owns holds the first TRB that is not executed.
LEMMA DeqIs ==
    ASSUME RingTypes, LockOK, CycOK, NEW f \in Seq(TRBs), Laid(f), StoredOK(f), DuesOK(f),
           ringCtl.deq # LinkIdx, Owns(ringCtl.deq, ringCtl.ccs),
           NEW x, x = Len(f) - Len(due) + 1
    PROVE  /\ Len(due) \in Nat \ {0} /\ x \in 1 .. Len(f) /\ FlightAt(f, x) = ringCtl.deq /\ due[1] = f[x]
           /\ ringCtl.deq \in 0 .. LinkIdx - 1 /\ f[x] \in TRBs
           /\ ring.trbs[ringCtl.deq].of = f[x].of /\ ring.trbs[ringCtl.deq].i = f[x].i
<1> DEFINE d == Len(due)
           n == Len(f)
           q == ringCtl.deq
<1>1. /\ LinkIdx \in Nat /\ q \in 0 .. LinkIdx - 1 /\ q \in RingSlots /\ ring.cycBit \in {0, 1} /\ ringCtl.ccs \in {0, 1}
      /\ Put \in 0 .. LinkIdx /\ Turned \in 0 .. LinkIdx /\ Turned <= Put
      /\ d \in Nat /\ n \in 0 .. LinkIdx
  <2>1. q \in RingSlots /\ ring.cycBit \in {0, 1} /\ ringCtl.ccs \in {0, 1} /\ d \in Nat
    BY LenProperties DEF RingTypes, RingRec, CtrlRec
  <2>2. /\ LinkIdx \in Nat /\ RingSlots = 0 .. LinkIdx
        /\ Put \in 0 .. LinkIdx /\ Turned \in 0 .. LinkIdx /\ (Turned = Put \/ Turned = Put - 1)
    BY HolderIs
  <2>3. n \in 0 .. LinkIdx  BY LaidFits
  <2> QED BY <2>1, <2>2, <2>3
<1>2. ring.cycBit = ringCtl.ccs <=> q < Turned
  <2>1. ring.trbs[q].cyc = ringCtl.ccs  BY DEF Owns
  <2>2. ring.trbs[q].cyc = IF q < Turned THEN ring.cycBit ELSE 1 - ring.cycBit  BY <1>1 DEF CycOK
  <2> QED BY <1>1, <2>1, <2>2
<1>3. /\ d <= n /\ \A k \in 1 .. d : due[k] = f[n - d + k]
      /\ Put - d = IF ring.cycBit = ringCtl.ccs THEN q ELSE q - LinkIdx
  BY DEF DuesOK
<1> HIDE DEF d, n, q
<1>4. d > 0  BY <1>1, <1>2, <1>3
<1>5. x \in 1 .. n /\ x = n - d + 1  BY <1>1, <1>3, <1>4 DEF n, d
<1>6. SlotAt(Put, n, x) = q
  <2>0. Put \in Int /\ n \in Int /\ x \in Int /\ d \in Int  BY <1>1, <1>5
  <2>1. PICK w \in Int : w = Put - d  BY <2>0
  <2>2. w = Put - n + x - 1  BY <1>5, <2>0, <2>1
  <2>3. w = IF ring.cycBit = ringCtl.ccs THEN q ELSE q - LinkIdx  BY <1>3, <2>1
  <2>4. (IF w >= 0 THEN w ELSE w + LinkIdx) = q  BY <1>1, <2>3
  <2> QED BY <2>2, <2>4 DEF SlotAt
<1>7. due[1] = f[x]  BY <1>1, <1>3, <1>4, <1>5
<1>8. f[x] \in TRBs  BY <1>5, ElementOfSeq DEF n
<1>9. ring.trbs[FlightAt(f, x)].of = f[x].of /\ ring.trbs[FlightAt(f, x)].i = f[x].i
  BY <1>5 DEF StoredOK, n
<1> QED BY <1>1, <1>4, <1>5, <1>6, <1>7, <1>8, <1>9 DEF FlightAt, d, n, q

\* How far the driver's place, and what it has told of it, lie back.
Back(cb, b) == IF cb = b THEN Pos ELSE Pos - EveSz
Behind(q) == IF q <= Pos THEN Pos - q ELSE Pos - q + EveSz

\* The place of an event is free, and the events before it are where they were.
LEMMA EnqIs ==
    ASSUME EveSz \in Nat \ {0}, NEW e \in 0 .. EveSz - 1, NEW b \in {0, 1}, Pos \in 0 .. EveSz - 1, NEW cb \in {0, 1},
           NEW q \in 0 .. EveSz - 1, NEW m \in Nat, NEW nxt, nxt = (e + 1) % EveSz, nxt # q,
           m = e - Back(cb, b),
           m + Behind(q) < EveSz,
           NEW c, c = IF nxt = 0 THEN 1 - b ELSE b
    PROVE  /\ nxt \in 0 .. EveSz - 1 /\ c \in {0, 1}
           /\ m + 1 = nxt - Back(cb, c)
           /\ (m + 1) + Behind(q) < EveSz
           /\ EveAhead(m + 1) = e /\ \A k \in 1 .. m : EveAhead(k) \in 0 .. EveSz - 1 /\ EveAhead(k) # e
           /\ \A s \in 0 .. EveSz - 1 : s < nxt /\ c = b <=> s <= e /\ c = b
           /\ c # b => nxt = 0 /\ e = EveSz - 1
<1>1. nxt = IF e + 1 < EveSz THEN e + 1 ELSE 0  OBVIOUS
<1>2. c \in {0, 1} /\ (c = b <=> e + 1 < EveSz)  BY <1>1
<1>3. (m + 1) + Behind(q) < EveSz
  <2>1. CASE cb = b  BY <1>1, <2>1 DEF Back, Behind
  <2>2. CASE cb # b  BY <1>1, <2>2 DEF Back, Behind
  <2> QED BY <2>1, <2>2
<1>4. m + 1 = nxt - Back(cb, c)
  <2>1. CASE cb = b  BY <1>1, <1>2, <2>1 DEF Back, Behind
  <2>2. CASE cb # b  BY <1>1, <1>2, <1>3, <2>2 DEF Back, Behind
  <2> QED BY <2>1, <2>2
<1>5. EveAhead(m + 1) = e  BY <1>3 DEF EveAhead, Back, Behind
<1>6. ASSUME NEW k \in 1 .. m PROVE EveAhead(k) \in 0 .. EveSz - 1 /\ EveAhead(k) # e
  BY <1>3 DEF EveAhead, Back, Behind
<1> QED BY <1>1, <1>2, <1>3, <1>4, <1>5, <1>6

\* The controller posts an event.
LEMMA EvePosts ==
    ASSUME RingTypes, EvesOK, NEW nxt, nxt = (ringCtl.enq + 1) % EveSz, nxt # ringCtl.deqPtr,
           NEW x \in RingSlots, NEW u \in User,
           eve' = [eve EXCEPT !.trbs[ringCtl.enq] = [cyc |-> ringCtl.pcs, idx |-> x]],
           evePosted' = Append(evePosted, [idx |-> x, of |-> u]),
           ringCtl'.enq = nxt, ringCtl'.pcs = (IF nxt = 0 THEN 1 - ringCtl.pcs ELSE ringCtl.pcs),
           ringCtl'.deqPtr = ringCtl.deqPtr
    PROVE  /\ EvesOK' /\ eve' \in EveRec /\ evePosted' \in Seq([idx : RingSlots, of : User])
           /\ ringCtl'.enq \in 0 .. EveSz - 1 /\ ringCtl'.pcs \in {0, 1}
<1> DEFINE e == ringCtl.enq
           b == ringCtl.pcs
           m == Len(evePosted)
<1>1. /\ e \in 0 .. EveSz - 1 /\ b \in {0, 1} /\ eve \in EveRec /\ eve.cycBit \in {0, 1} /\ m \in Nat
      /\ ringCtl.deqPtr \in 0 .. EveSz - 1 /\ Pos \in 0 .. EveSz - 1 /\ EveSz \in Nat \ {0}
  <2>1. eve \in EveRec  BY DEF RingTypes
  <2>2. Pos \in 0 .. EveSz - 1 /\ EveSz \in Nat \ {0}  BY <2>1, PosIs
  <2>3. e \in 0 .. EveSz - 1 /\ b \in {0, 1} /\ ringCtl.deqPtr \in 0 .. EveSz - 1  BY DEF RingTypes, CtrlRec
  <2>4. eve.cycBit \in {0, 1} /\ m \in Nat  BY LenProperties DEF RingTypes, EveRec
  <2> QED BY <2>1, <2>2, <2>3, <2>4
<1> HIDE DEF e, b
<1>2. /\ eve' \in EveRec /\ eve'.curRingIdx = eve.curRingIdx /\ eve'.curIdx = eve.curIdx /\ eve'.cycBit = eve.cycBit
      /\ eve'.trbs[e] = [cyc |-> b, idx |-> x] /\ \A s \in 0 .. EveSz - 1 : s # e => eve'.trbs[s] = eve.trbs[s]
  <2>1. PICK y \in [0 .. EveSz - 1 -> [cyc : {0, 1}, idx : RingSlots]] : y = [eve.trbs EXCEPT ![e] = [cyc |-> b, idx |-> x]]
    BY <1>1 DEF EveRec
  <2>2. eve' = [eve EXCEPT !.trbs = y]  BY <2>1 DEF e, b
  <2>3. eve' \in EveRec /\ eve'.curRingIdx = eve.curRingIdx /\ eve'.curIdx = eve.curIdx /\ eve'.cycBit = eve.cycBit /\ eve'.trbs = y
    BY <1>1, <2>1, <2>2 DEF EveRec
  <2>4. y[e] = [cyc |-> b, idx |-> x] /\ \A s \in 0 .. EveSz - 1 : s # e => y[s] = eve.trbs[s]  BY <1>1, <2>1 DEF EveRec
  <2> QED BY <2>3, <2>4
<1>3. /\ evePosted' \in Seq([idx : RingSlots, of : User]) /\ Len(evePosted') = m + 1
      /\ evePosted'[m + 1] = [idx |-> x, of |-> u] /\ \A k \in 1 .. m : evePosted'[k] = evePosted[k]
  <2>1. [idx |-> x, of |-> u] \in [idx : RingSlots, of : User]  OBVIOUS
  <2>2. evePosted \in Seq([idx : RingSlots, of : User])  BY DEF RingTypes
  <2> QED BY <2>1, <2>2
<1>4. Pos' = Pos /\ \A k : EveAhead(k)' = EveAhead(k)  BY <1>2 DEF Pos, EveAhead
<1> HIDE DEF m
<1>5. PICK c : c = IF nxt = 0 THEN 1 - b ELSE b  OBVIOUS
<1>6. m = e - Back(eve.cycBit, b)  BY DEF EvesOK, Back, m, e, b
<1>7. m + Behind(ringCtl.deqPtr) < EveSz  BY DEF EvesOK, Behind, m
<1>8. /\ nxt \in 0 .. EveSz - 1 /\ c \in {0, 1}
      /\ m + 1 = nxt - Back(eve.cycBit, c)
      /\ (m + 1) + Behind(ringCtl.deqPtr) < EveSz
      /\ EveAhead(m + 1) = e /\ \A k \in 1 .. m : EveAhead(k) \in 0 .. EveSz - 1 /\ EveAhead(k) # e
      /\ \A s \in 0 .. EveSz - 1 : s < nxt /\ c = b <=> s <= e /\ c = b
      /\ c # b => nxt = 0 /\ e = EveSz - 1
  <2>1. nxt = (e + 1) % EveSz  BY DEF e
  <2>2. PICK cb \in {0, 1}, q \in 0 .. EveSz - 1 : cb = eve.cycBit /\ q = ringCtl.deqPtr  BY <1>1
  <2>3. m = e - Back(cb, b)  BY <1>6, <2>2
  <2>4. m + Behind(q) < EveSz  BY <1>7, <2>2
  <2>5. m \in Nat /\ nxt # q  BY <1>1, <2>2 DEF m
  <2>6. /\ nxt \in 0 .. EveSz - 1 /\ c \in {0, 1}
        /\ m + 1 = nxt - Back(cb, c)
        /\ (m + 1) + Behind(q) < EveSz
        /\ EveAhead(m + 1) = e /\ \A k \in 1 .. m : EveAhead(k) \in 0 .. EveSz - 1 /\ EveAhead(k) # e
        /\ \A s \in 0 .. EveSz - 1 : s < nxt /\ c = b <=> s <= e /\ c = b
        /\ c # b => nxt = 0 /\ e = EveSz - 1
    BY <1>1, <1>5, <2>1, <2>3, <2>4, <2>5, EnqIs
  <2> QED BY <2>2, <2>6
<1>9. ringCtl'.enq = nxt /\ ringCtl'.pcs = c  BY <1>5 DEF b
<1>10. ASSUME NEW s \in 0 .. EveSz - 1 PROVE eve'.trbs[s].cyc = IF s < nxt THEN c ELSE 1 - c
  <2>1. eve.trbs[s].cyc = IF s < e THEN b ELSE 1 - b  BY DEF EvesOK, e, b
  <2>2. eve'.trbs[s].cyc = IF s <= e THEN b ELSE 1 - b
    <3>1. CASE s = e  BY <1>1, <1>2, <3>1
    <3>2. CASE s # e  BY <1>1, <1>2, <2>1, <3>2
    <3> QED BY <3>1, <3>2
  <2>3. CASE c = b  BY <1>8, <2>2, <2>3
  <2>4. CASE c # b  BY <1>1, <1>8, <2>2, <2>4
  <2> QED BY <2>3, <2>4
<1>11. ASSUME NEW k \in 1 .. m + 1 PROVE evePosted'[k].idx = eve'.trbs[EveAhead(k)].idx
  <2>1. CASE k = m + 1  BY <1>2, <1>3, <1>8, <2>1
  <2>2. CASE k \in 1 .. m
    <3>1. evePosted[k].idx = eve.trbs[EveAhead(k)].idx  BY <2>2 DEF EvesOK, m
    <3> QED BY <1>2, <1>3, <1>8, <2>2, <3>1
  <2>3. k = m + 1 \/ k \in 1 .. m  BY <1>1 DEF m
  <2> QED BY <2>1, <2>2, <2>3
<1>12. EvesOK'
  <2>1. ringCtl'.deqPtr = ringCtl.deqPtr /\ eve'.cycBit = eve.cycBit  BY <1>2
  <2>2. /\ m + 1 = nxt - (IF eve.cycBit = c THEN Pos ELSE Pos - EveSz)
        /\ (m + 1) + (IF ringCtl.deqPtr <= Pos THEN Pos - ringCtl.deqPtr ELSE Pos - ringCtl.deqPtr + EveSz) < EveSz
    BY <1>8 DEF Back, Behind
  <2> QED BY <1>3, <1>4, <1>9, <1>10, <1>11, <2>1, <2>2 DEF EvesOK
<1> QED BY <1>2, <1>3, <1>8, <1>9, <1>12
\* The first TRB that is due is at the dequeue pointer.
NextDue(f, x) ==
    /\ x \in 1 .. Len(f) /\ x = Len(f) - Len(due) + 1 /\ FlightAt(f, x) = ringCtl.deq /\ f[x].of \in User

\* The places of the requests that are executed, when one more TRB is.
Ends(f, p, x, q) ==
    IF LastTRB(f[x])
    THEN /\ q = Append(p, x)
         /\ evePosted' = Append(evePosted, [idx |-> ringCtl.deq, of |-> f[x].of])
    ELSE q = p /\ evePosted' = evePosted
Executed(f, x) == Len(f) - Len(due') = x

\* They stay in order and complete.
LEMMA EndsGrow ==
    ASSUME NEW f \in Seq(TRBs), NEW p \in Seq(Nat), EndsOK(f, p), NEW x, NextDue(f, x), RingTypes,
           UNCHANGED <<ring, ringIntr, Holder>>, Executed(f, x), NEW q, Ends(f, p, x, q)
    PROVE  q \in Seq(Nat) /\ EndsOK(f, q)'
<1> DEFINE n == Len(f)
           d == Len(due)
           v == Len(evePosted)
<1>0. evePosted \in Seq([idx : RingSlots, of : User]) /\ ringCtl.deq \in RingSlots /\ due \in Seq(TRBs)
      /\ x \in 1 .. n /\ f[x].of \in User /\ FlightAt(f, x) = ringCtl.deq
  BY DEF RingTypes, CtrlRec, NextDue
<1>1. Put' = Put /\ (\A k : FlightAt(f, k)' = FlightAt(f, k)) /\ Looks' = Looks /\ Looks \in {0, 1}
  BY DEF Put, FlightAt, Looks
<1>2. /\ Len(p) = Looks + v /\ v \in Nat /\ Len(p) \in Nat
      /\ \A m \in 1 .. Len(p) : p[m] \in 1 .. n - d /\ LastTRB(f[p[m]])
      /\ \A m, l \in 1 .. Len(p) : m < l => p[m] < p[l]
      /\ \A k \in 1 .. n - d : LastTRB(f[k]) => \E m \in 1 .. Len(p) : p[m] = k
      /\ \A m \in 1 .. v :
            /\ evePosted[m].idx = FlightAt(f, p[Looks + m]) /\ evePosted[m].of = f[p[Looks + m]].of
      /\ Looks = 1 => ringIntr.idx = FlightAt(f, p[1]) /\ ringIntr.of = f[p[1]].of
  BY <1>0, LenProperties DEF EndsOK
<1>3. n \in Nat /\ d \in Nat /\ n - Len(due') = x /\ x = n - d + 1 /\ x \in Nat /\ \A k \in 1 .. x : k \in 1 .. n - d \/ k = x
  <2>1. n \in Nat /\ d \in Nat  BY <1>0, LenProperties
  <2>2. n - Len(due') = x  BY DEF Executed
  <2>3. x = n - d + 1 /\ x \in Nat  BY <1>0, <2>1 DEF NextDue
  <2> HIDE DEF n, d
  <2>4. \A k \in 1 .. x : k \in 1 .. n - d \/ k = x  BY <2>1, <2>3
  <2> QED BY <2>1, <2>2, <2>3, <2>4
<1>4. CASE ~LastTRB(f[x])
  <2>1. q = p /\ evePosted' = evePosted  BY <1>4 DEF Ends
  <2>2. \A m \in 1 .. Len(p) : p[m] \in 1 .. x  BY <1>2, <1>3
  <2>3. \A k \in 1 .. x : LastTRB(f[k]) => \E m \in 1 .. Len(p) : p[m] = k  BY <1>2, <1>3, <1>4
  <2> QED BY <1>1, <1>2, <1>3, <2>1, <2>2, <2>3 DEF EndsOK
<1>5. CASE LastTRB(f[x])
  <2>1. q = Append(p, x) /\ evePosted' = Append(evePosted, [idx |-> ringCtl.deq, of |-> f[x].of])  BY <1>5 DEF Ends
  <2>2. /\ q \in Seq(Nat) /\ Len(q) = Len(p) + 1 /\ q[Len(p) + 1] = x /\ \A m \in 1 .. Len(p) : q[m] = p[m]
    BY <1>3, <2>1
  <2>3. /\ Len(evePosted') = v + 1 /\ evePosted'[v + 1].idx = ringCtl.deq /\ evePosted'[v + 1].of = f[x].of
        /\ \A m \in 1 .. v : evePosted'[m] = evePosted[m]
    BY <1>0, <2>1
  <2> HIDE DEF n, d, v
  <2>0. Len(p) \in Nat /\ v \in Nat  BY <1>2
  <2>4. \A m \in 1 .. Len(p) + 1 : m \in 1 .. Len(p) \/ m = Len(p) + 1  BY <2>0
  <2>5. \A m \in 1 .. v + 1 : m \in 1 .. v \/ m = v + 1  BY <2>0
  <2>6. \A m \in 1 .. Len(q) : q[m] \in 1 .. x /\ LastTRB(f[q[m]])
    <3>0. \A k \in 1 .. n - d : k \in 1 .. x  BY <1>3
    <3>1. ASSUME NEW m \in 1 .. Len(p) PROVE q[m] \in 1 .. x /\ LastTRB(f[q[m]])
      <4>1. q[m] = p[m] /\ p[m] \in 1 .. n - d /\ LastTRB(f[p[m]])  BY <1>2, <2>2
      <4> QED BY <3>0, <4>1
    <3>4. x \in Nat /\ 1 <= x  BY <1>0, <1>3
    <3>5. x \in 1 .. x  BY <3>4
    <3>2. x \in 1 .. x /\ Len(q) = Len(p) + 1 /\ q[Len(p) + 1] = x  BY <2>2, <3>5
    <3>3. ASSUME NEW m \in 1 .. Len(q) PROVE q[m] \in 1 .. x /\ LastTRB(f[q[m]])
      <4>1. m \in 1 .. Len(p) \/ m = Len(p) + 1  BY <2>4, <3>2
      <4> QED BY <1>5, <3>1, <3>2, <4>1
    <3> QED BY <3>3
  <2>7. \A m, l \in 1 .. Len(q) : m < l => q[m] < q[l]
    <3> TAKE m, l \in 1 .. Len(q)
    <3>1. CASE l \in 1 .. Len(p) /\ m < l
      <4>1. m \in 1 .. Len(p)  BY <1>2, <2>2, <3>1
      <4>2. q[m] = p[m] /\ q[l] = p[l] /\ p[m] < p[l]  BY <1>2, <2>2, <3>1, <4>1
      <4> QED BY <4>2
    <3>2. CASE l = Len(p) + 1 /\ m < l
      <4>1. m \in 1 .. Len(p) /\ q[l] = x  BY <1>2, <2>2, <3>2
      <4>2. q[m] \in 1 .. n - d  BY <1>2, <2>2, <4>1
      <4> QED BY <1>3, <4>1, <4>2
    <3> QED BY <2>2, <2>4, <3>1, <3>2
  <2>8. \A k \in 1 .. x : LastTRB(f[k]) => \E m \in 1 .. Len(q) : q[m] = k
    <3> TAKE k \in 1 .. x
    <3>1. CASE k = x  BY <1>2, <2>2, <3>1
    <3>2. CASE k \in 1 .. n - d
      <4>1. LastTRB(f[k]) => \E m \in 1 .. Len(p) : p[m] = k  BY <1>2, <3>2
      <4>2. \A m \in 1 .. Len(p) : m \in 1 .. Len(q) /\ q[m] = p[m]  BY <1>2, <2>2
      <4> QED BY <4>1, <4>2
    <3> QED BY <1>3, <3>1, <3>2
  <2>9. \A m \in 1 .. v + 1 :
           /\ evePosted'[m].idx = FlightAt(f, q[Looks + m]) /\ evePosted'[m].of = f[q[Looks + m]].of
    <3> TAKE m \in 1 .. v + 1
    <3>1. CASE m = v + 1
      <4>1. Looks + m = Len(p) + 1  BY <1>1, <1>2, <3>1
      <4>2. q[Looks + m] = x  BY <2>2, <4>1
      <4>3. /\ evePosted'[m].idx = ringCtl.deq /\ evePosted'[m].of = f[x].of  BY <2>3, <3>1
      <4> QED BY <1>0, <4>2, <4>3
    <3>2. CASE m \in 1 .. v
      <4>1. PICK l \in 1 .. Len(p) : l = Looks + m  BY <1>1, <1>2, <3>2
      <4>2. q[Looks + m] = p[Looks + m]  BY <2>2, <4>1
      <4> QED BY <1>2, <2>3, <3>2, <4>2
    <3> QED BY <2>5, <3>1, <3>2
  <2>10. Looks = 1 => ringIntr.idx = FlightAt(f, q[1]) /\ ringIntr.of = f[q[1]].of
    <3>1. Looks = 1 => 1 \in 1 .. Len(p)  BY <1>2
    <3>2. Looks = 1 => q[1] = p[1]  BY <2>2, <3>1
    <3> QED BY <1>2, <3>2
  <2>11. Len(q) = Looks + Len(evePosted')  BY <1>1, <1>2, <2>2, <2>3
  <2>12. Len(f) - Len(due') = x  BY <1>3 DEF n
  <2>13. (\A m : q[Looks' + m] = q[Looks + m]) /\ ringIntr' = ringIntr  BY <1>1
  <2>14. \A m \in 1 .. Len(evePosted') :
           /\ evePosted'[m].idx = FlightAt(f, q[Looks + m])' /\ evePosted'[m].of = f[q[Looks' + m]].of
    BY <1>1, <2>3, <2>9
  <2> QED BY <1>1, <2>2, <2>6, <2>7, <2>8, <2>10, <2>11, <2>12, <2>13, <2>14 DEF EndsOK
<1> QED BY <1>4, <1>5

\* A TRB is executed, and the last one of a request posts an event.
LEMMA ExecuteStep == ASSUME RingInv, Execute PROVE RingInv'
<1>1. PICK f \in Seq(TRBs), p \in Seq(Nat) : Flight(f, p)  BY DEF RingInv
<1>2. RingTypes /\ LockOK /\ CycOK /\ EvesOK  BY DEF RingInv
<1>3. Laid(f) /\ StoredOK(f) /\ DuesOK(f) /\ EndsOK(f, p) /\ WaitsOK(f)  BY <1>1 DEF Flight
<1> DEFINE s == ringCtl.deq
           nxt == (ringCtl.enq + 1) % EveSz
           n == Len(f)
           d == Len(due)
<1>4. ringCtl.deq # LinkIdx /\ Owns(ringCtl.deq, ringCtl.ccs)  BY DEF Execute
<1>5. PICK x : x = n - d + 1  OBVIOUS
<1>6. /\ d \in Nat \ {0} /\ x \in 1 .. n /\ FlightAt(f, x) = s /\ due[1] = f[x] /\ s \in 0 .. LinkIdx - 1 /\ f[x] \in TRBs
      /\ ring.trbs[s].of = f[x].of /\ ring.trbs[s].i = f[x].i
  BY <1>2, <1>3, <1>4, <1>5, DeqIs
<1>7. /\ f[x].of \in User /\ f[x].of # NoUser /\ LinkIdx \in Nat /\ RingSlots = 0 .. LinkIdx
      /\ s \in RingSlots /\ s + 1 \in RingSlots
  <2>1. f[x].of \in User /\ f[x].of # NoUser  BY <1>6, TRBIs, RingAssumption
  <2>2. LinkIdx \in Nat /\ RingSlots = 0 .. LinkIdx  BY <1>2, HolderIs
  <2> QED BY <1>6, <2>1, <2>2
<1>8. ring.trbs[s].of # NoUser /\ ring.trbs[s].i = InputSz[ring.trbs[s].of] <=> LastTRB(f[x])
  BY <1>6, <1>7 DEF LastTRB
<1>9. /\ due' = (IF due = <<>> THEN due ELSE Tail(due))
      /\ UNCHANGED <<ring, ringWait, ringThd, ringIntr>>
  BY DEF Execute
<1>12. /\ ringCtl'.deq = s + 1 /\ ringCtl'.ccs = ringCtl.ccs /\ ringCtl' \in CtrlRec
       /\ EvesOK' /\ eve' \in EveRec /\ evePosted' \in Seq([idx : RingSlots, of : User])
       /\ \E q : Ends(f, p, x, q)
  <2>1. CASE LastTRB(f[x])
    <3>1. /\ nxt # ringCtl.deqPtr
          /\ ringCtl' = [ringCtl EXCEPT !.deq = @ + 1, !.enq = nxt, !.pcs = IF nxt = 0 THEN 1 - @ ELSE @]
          /\ eve' = [eve EXCEPT !.trbs[ringCtl.enq] = [cyc |-> ringCtl.pcs, idx |-> s]]
          /\ evePosted' = Append(evePosted, [idx |-> s, of |-> f[x].of])
      BY <1>6, <1>8, <2>1 DEF Execute
    <3>2. PICK c : c = IF nxt = 0 THEN 1 - ringCtl.pcs ELSE ringCtl.pcs  OBVIOUS
    <3> HIDE DEF nxt, s
    <3>3. ringCtl \in CtrlRec /\ ringCtl' = [ringCtl EXCEPT !.deq = s + 1, !.enq = nxt, !.pcs = c]
      BY <1>2, <3>1, <3>2 DEF RingTypes, s
    <3>4. /\ ringCtl'.deq = s + 1 /\ ringCtl'.enq = nxt /\ ringCtl'.pcs = c /\ ringCtl'.deqPtr = ringCtl.deqPtr
          /\ ringCtl'.ccs = ringCtl.ccs /\ ringCtl'.bell = ringCtl.bell
          /\ (nxt \in 0 .. EveSz - 1 /\ c \in {0, 1} => ringCtl' \in CtrlRec)
      BY <1>7, <3>3 DEF CtrlRec
    <3>5. /\ EvesOK' /\ eve' \in EveRec /\ evePosted' \in Seq([idx : RingSlots, of : User])
          /\ nxt \in 0 .. EveSz - 1 /\ c \in {0, 1}
      <4>1. nxt = (ringCtl.enq + 1) % EveSz  BY DEF nxt
      <4> QED BY <1>2, <1>7, <3>1, <3>2, <3>4, <4>1, EvePosts
    <3>6. PICK q : q = Append(p, x)  OBVIOUS
    <3>7. Ends(f, p, x, q)  BY <2>1, <3>1, <3>6 DEF Ends, s
    <3> QED BY <3>4, <3>5, <3>7
  <2>2. CASE ~LastTRB(f[x])
    <3>1. ringCtl' = [ringCtl EXCEPT !.deq = @ + 1] /\ UNCHANGED <<eve, evePosted>>
      BY <1>6, <1>8, <2>2 DEF Execute
    <3> HIDE DEF s
    <3>2. ringCtl \in CtrlRec /\ ringCtl' = [ringCtl EXCEPT !.deq = s + 1]  BY <1>2, <3>1 DEF RingTypes, s
    <3>3. /\ ringCtl'.deq = s + 1 /\ ringCtl'.enq = ringCtl.enq /\ ringCtl'.pcs = ringCtl.pcs
          /\ ringCtl'.deqPtr = ringCtl.deqPtr /\ ringCtl'.ccs = ringCtl.ccs /\ ringCtl' \in CtrlRec
      BY <1>7, <3>2 DEF CtrlRec
    <3>4. EvesOK'  BY <1>2, <3>1, <3>3, EvesStay
    <3>5. Ends(f, p, x, p)  BY <2>2, <3>1 DEF Ends
    <3> QED BY <1>2, <3>1, <3>3, <3>4, <3>5 DEF RingTypes
  <2> QED BY <2>1, <2>2
<1>13. PICK q : Ends(f, p, x, q)  BY <1>12
<1>14. /\ due' = Tail(due) /\ due' \in Seq(TRBs) /\ Len(due') = d - 1 /\ \A k \in 1 .. d - 1 : due'[k] = due[k + 1]
  <2>1. due \in Seq(TRBs) /\ due # <<>>  BY <1>2, <1>6 DEF RingTypes
  <2> QED BY <1>9, <2>1
<1>15. UNCHANGED <<Holder, Done, Rest>>  BY <1>9 DEF Holder, Done, Rest
<1>16. RingTypes'  BY <1>2, <1>9, <1>12, <1>14 DEF RingTypes
<1>17. LockOK'  BY <1>2, <1>9, <1>15 DEF LockOK
<1>18. CycOK'  BY <1>2, <1>9, <1>15, CycStays
<1>19. Put' = Put /\ \A k : FlightAt(f, k)' = FlightAt(f, k)  BY <1>9, <1>15 DEF Put, FlightAt
<1>20. StoredOK(f)'  BY <1>3, <1>9, <1>15, <1>19 DEF StoredOK
<1>21. DuesOK(f)'
  <2>1. /\ d <= n /\ \A k \in 1 .. d : due[k] = f[n - d + k]
        /\ Put - d = IF ring.cycBit = ringCtl.ccs THEN s ELSE s - LinkIdx
    BY <1>3 DEF DuesOK
  <2>2. n \in Nat /\ Put \in Int /\ s \in Int
    BY <1>2, <1>6, HolderIs, LenProperties
  <2> HIDE DEF n, d, s
  <2>0. PICK e \in Nat : e = d - 1  BY <1>6
  <2>3. ASSUME NEW k \in 1 .. e PROVE due'[k] = f[n - e + k]
    <3>1. PICK l \in 1 .. d : l = k + 1  BY <1>6, <2>0
    <3>2. n - e + k = n - d + l  BY <1>6, <2>0, <2>2, <3>1
    <3>3. due[l] = f[n - d + l]  BY <2>1
    <3> QED BY <1>14, <2>0, <3>1, <3>2, <3>3
  <2>4. Put - e = IF ring.cycBit = ringCtl.ccs THEN s + 1 ELSE s + 1 - LinkIdx
    <3>1. PICK w \in Int : w = Put - d  BY <1>6, <2>2
    <3>2. Put - e = w + 1  BY <1>6, <2>0, <2>2, <3>1
    <3>3. w = IF ring.cycBit = ringCtl.ccs THEN s ELSE s - LinkIdx  BY <2>1, <3>1
    <3> QED BY <1>7, <2>2, <3>1, <3>2, <3>3
  <2>5. e <= n /\ Len(due') = e  BY <1>6, <1>14, <2>0, <2>1, <2>2
  <2>6. Put' = Put /\ ring' = ring /\ ringCtl'.deq = s + 1 /\ ringCtl'.ccs = ringCtl.ccs  BY <1>9, <1>12, <1>19
  <2>7. Len(due') <= n /\ Put' - Len(due') = IF ring'.cycBit = ringCtl'.ccs THEN ringCtl'.deq ELSE ringCtl'.deq - LinkIdx
    <3>1. ring'.cycBit = ring.cycBit /\ ringCtl'.ccs = ringCtl.ccs  BY <2>6
    <3>2. CASE ring.cycBit = ringCtl.ccs  BY <2>4, <2>5, <2>6, <3>1, <3>2
    <3>3. CASE ring.cycBit # ringCtl.ccs
      <4>1. Put - e = s + 1 - LinkIdx  BY <2>4, <3>3
      <4>2. Put' - Len(due') = s + 1 - LinkIdx  BY <2>5, <2>6, <4>1
      <4>3. ring'.cycBit # ringCtl'.ccs  BY <3>1, <3>3
      <4>4. ringCtl'.deq - LinkIdx = s + 1 - LinkIdx  BY <1>7, <2>2, <2>6
      <4> QED BY <2>5, <4>2, <4>3, <4>4
    <3> QED BY <3>2, <3>3
  <2>8. \A k \in 1 .. Len(due') : due'[k] = f[n - Len(due') + k]  BY <2>3, <2>5
  <2> QED BY <2>7, <2>8 DEF DuesOK, n
<1>22. q \in Seq(Nat) /\ EndsOK(f, q)'
  <2>1. n \in Nat /\ d \in Nat  BY <1>6, LenProperties
  <2>2. x \in 1 .. n /\ x = n - d + 1 /\ Len(due') = d - 1  BY <1>5, <1>6, <1>14
  <2> HIDE DEF n, d
  <2>3. n - Len(due') = x  BY <2>1, <2>2
  <2> QED
    <3>1. NextDue(f, x) /\ Executed(f, x)  BY <1>6, <1>7, <2>2, <2>3 DEF NextDue, Executed, n, d
    <3> QED BY <1>2, <1>3, <1>9, <1>13, <1>15, <3>1, EndsGrow
<1>23. WaitsOK(f)'  BY <1>3, <1>9, WaitsStay
<1>24. Flight(f, q)'  BY <1>3, <1>20, <1>21, <1>22, <1>23 DEF Flight
<1> QED BY <1>12, <1>16, <1>17, <1>18, <1>22, <1>24 DEF RingInv
-----------------------------------------------------------------------------
(* The handler. *)

\* The driver goes on by one event.
LEMMA PosNext ==
    ASSUME EveSz \in Nat \ {0}, Pos \in 0 .. EveSz - 1, Pos' = IF Pos + 1 < EveSz THEN Pos + 1 ELSE 0,
           NEW e \in 0 .. EveSz - 1, NEW b \in {0, 1}, NEW cb \in {0, 1}, NEW q \in 0 .. EveSz - 1, NEW v \in Nat,
           cb = (IF Pos < e THEN b ELSE 1 - b), v = e - Back(cb, b), v + Behind(q) < EveSz,
           NEW c, c = IF Pos + 1 < EveSz THEN cb ELSE 1 - cb
    PROVE  /\ v > 0 /\ EveAhead(1) = Pos
           /\ v - 1 = e - Back(c, b)'
           /\ (v - 1) + Behind(q)' < EveSz
           /\ \A m \in 1 .. v - 1 : EveAhead(m + 1) = EveAhead(m)'
<1>1. v > 0
  <2>1. CASE cb = b  BY <2>1 DEF Back
  <2>2. CASE cb # b  BY <2>2 DEF Back
  <2> QED BY <2>1, <2>2
<1>2. v - 1 = e - Back(c, b)'
  <2>1. CASE Pos + 1 < EveSz  BY <2>1 DEF Back
  <2>2. CASE ~(Pos + 1 < EveSz)  BY <1>1, <2>2 DEF Back
  <2> QED BY <2>1, <2>2
<1>3. v < EveSz /\ (v - 1) + Behind(q)' < EveSz
  <2>1. CASE q <= Pos  BY <1>1, <2>1 DEF Behind
  <2>2. CASE ~(q <= Pos)  BY <1>1, <2>2 DEF Behind
  <2> QED BY <2>1, <2>2
<1>4. \A m \in 1 .. v - 1 : EveAhead(m + 1) = EveAhead(m)'
  <2>1. CASE Pos + 1 < EveSz  BY <2>1 DEF EveAhead
  <2>2. CASE ~(Pos + 1 < EveSz)  BY <1>3, <2>2 DEF EveAhead
  <2> QED BY <2>1, <2>2
<1> QED BY <1>1, <1>2, <1>3, <1>4 DEF EveAhead

\* An event is taken.
LEMMA TakeStep == ASSUME RingInv, TakeEvent PROVE RingInv'
<1>1. PICK f \in Seq(TRBs), p \in Seq(Nat) : Flight(f, p)  BY DEF RingInv
<1>2. RingTypes /\ LockOK /\ CycOK /\ EvesOK  BY DEF RingInv
<1> DEFINE v == Len(evePosted)
<1>3. /\ ringIntr.pc \in {"off", "loop"} /\ eve.trbs[Pos].cyc = eve.cycBit
      /\ ringIntr' = [ringIntr EXCEPT !.pc = "look", !.idx = eve.trbs[Pos].idx, !.of = Head(evePosted).of]
      /\ eve' = NextIdx(eve) /\ evePosted' = Tail(evePosted)
      /\ UNCHANGED <<ring, ringWait, ringThd, ringCtl, due>>
  BY DEF TakeEvent, IsNewEve
<1>4. UNCHANGED <<Holder, Done, Rest>>  BY <1>3 DEF Holder, Done, Rest
<1>5. /\ eve \in EveRec /\ Pos \in 0 .. EveSz - 1 /\ EveSz \in Nat \ {0} /\ v \in Nat
      /\ ringCtl.enq \in 0 .. EveSz - 1 /\ ringCtl.pcs \in {0, 1} /\ eve.cycBit \in {0, 1}
      /\ ringCtl.deqPtr \in 0 .. EveSz - 1
  <2>1. eve \in EveRec  BY <1>2 DEF RingTypes
  <2>2. Pos \in 0 .. EveSz - 1 /\ EveSz \in Nat \ {0}  BY <2>1, PosIs
  <2> QED BY <1>2, <2>1, <2>2, LenProperties DEF RingTypes, CtrlRec, EveRec
<1>6. /\ eve' \in EveRec /\ eve'.trbs = eve.trbs /\ Pos' = (IF Pos + 1 < EveSz THEN Pos + 1 ELSE 0)
      /\ eve'.cycBit = IF Pos + 1 < EveSz THEN eve.cycBit ELSE 1 - eve.cycBit
  <2>1. Pos' = eve'.curRingIdx * RingSz + eve'.curIdx  BY DEF Pos
  <2> QED BY <1>3, <1>5, <2>1, PosIs
<1> HIDE DEF v
<1>7. /\ v > 0 /\ EveAhead(1) = Pos
      /\ v - 1 = ringCtl.enq - (IF eve'.cycBit = ringCtl.pcs THEN Pos' ELSE Pos' - EveSz)
      /\ (v - 1) + (IF ringCtl.deqPtr <= Pos' THEN Pos' - ringCtl.deqPtr ELSE Pos' - ringCtl.deqPtr + EveSz) < EveSz
      /\ \A m \in 1 .. v - 1 : EveAhead(m + 1) = EveAhead(m)'
  <2>1. PICK e \in 0 .. EveSz - 1, b \in {0, 1}, cb \in {0, 1}, q \in 0 .. EveSz - 1 :
           e = ringCtl.enq /\ b = ringCtl.pcs /\ cb = eve.cycBit /\ q = ringCtl.deqPtr
    BY <1>5
  <2>3. cb = IF Pos < e THEN b ELSE 1 - b  BY <1>2, <1>3, <1>5, <2>1 DEF EvesOK
  <2>4. v = e - Back(cb, b)  BY <1>2, <2>1 DEF EvesOK, Back, v
  <2>5. v + Behind(q) < EveSz  BY <1>2, <2>1 DEF EvesOK, Behind, v
  <2>6. PICK c : c = IF Pos + 1 < EveSz THEN cb ELSE 1 - cb  OBVIOUS
  <2>9. /\ EveSz \in Nat \ {0} /\ Pos \in 0 .. EveSz - 1 /\ v \in Nat
        /\ Pos' = IF Pos + 1 < EveSz THEN Pos + 1 ELSE 0
    BY <1>5, <1>6
  <2>7. /\ v > 0 /\ EveAhead(1) = Pos
        /\ v - 1 = e - Back(c, b)' /\ (v - 1) + Behind(q)' < EveSz
        /\ \A m \in 1 .. v - 1 : EveAhead(m + 1) = EveAhead(m)'
    BY <2>3, <2>4, <2>5, <2>6, <2>9, PosNext
  <2>8. eve'.cycBit = c /\ ringCtl' = ringCtl  BY <1>3, <1>6, <2>1, <2>6
  <2> QED BY <2>1, <2>7, <2>8 DEF Back, Behind
<1>8. /\ evePosted' \in Seq([idx : RingSlots, of : User]) /\ Len(evePosted') = v - 1
      /\ Head(evePosted) = evePosted[1] /\ evePosted[1] \in [idx : RingSlots, of : User]
      /\ \A m \in 1 .. v - 1 : evePosted'[m] = evePosted[m + 1]
  <2>1. evePosted \in Seq([idx : RingSlots, of : User])  BY <1>2 DEF RingTypes
  <2>2. evePosted # <<>>  BY <1>7, <2>1 DEF v
  <2>3. 1 \in 1 .. Len(evePosted)  BY <1>5, <1>7 DEF v
  <2>4. evePosted[1] \in [idx : RingSlots, of : User]  BY <2>1, <2>3, ElementOfSeq
  <2>5. /\ Tail(evePosted) \in Seq([idx : RingSlots, of : User]) /\ Len(Tail(evePosted)) = Len(evePosted) - 1
        /\ Head(evePosted) = evePosted[1]
        /\ \A m \in 1 .. Len(evePosted) - 1 : Tail(evePosted)[m] = evePosted[m + 1]
    BY <2>1, <2>2, HeadTailProperties
  <2> QED BY <1>3, <2>4, <2>5 DEF v
<1>9. evePosted[1].idx = eve.trbs[Pos].idx
  <2>1. 1 \in 1 .. v  BY <1>5, <1>7
  <2> QED BY <1>2, <1>7, <2>1 DEF EvesOK, v
<1>10. /\ ringIntr' \in HandlerRec /\ ringIntr'.pc = "look" /\ ringIntr'.idx = evePosted[1].idx
       /\ ringIntr'.of = evePosted[1].of
  <2>1. PICK i \in RingSlots, u \in User : i = evePosted[1].idx /\ u = evePosted[1].of  BY <1>8
  <2>2. ringIntr' = [ringIntr EXCEPT !.pc = "look", !.idx = i, !.of = u] /\ ringIntr \in HandlerRec
    BY <1>2, <1>3, <1>8, <1>9, <2>1 DEF RingTypes
  <2> QED BY <2>1, <2>2 DEF HandlerRec
<1>11. RingTypes'  BY <1>2, <1>3, <1>6, <1>8, <1>10 DEF RingTypes
<1>12. LockOK'  BY <1>2, <1>3, <1>4 DEF LockOK
<1>13. CycOK'  BY <1>2, <1>3, <1>4, CycStays
<1>14. EvesOK'
  <2>1. ASSUME NEW m \in 1 .. v - 1 PROVE evePosted'[m].idx = eve'.trbs[EveAhead(m)'].idx
    <3>1. PICK l \in 1 .. v : l = m + 1  BY <1>5
    <3>2. evePosted[l].idx = eve.trbs[EveAhead(l)].idx  BY <1>2 DEF EvesOK, v
    <3> QED BY <1>6, <1>7, <1>8, <3>1, <3>2
  <2>2. \A s \in 0 .. EveSz - 1 : eve'.trbs[s].cyc = IF s < ringCtl.enq THEN ringCtl.pcs ELSE 1 - ringCtl.pcs
    BY <1>2, <1>6 DEF EvesOK
  <2> QED BY <1>3, <1>7, <1>8, <2>1, <2>2 DEF EvesOK
<1>15. Put' = Put /\ (\A k : FlightAt(f, k)' = FlightAt(f, k)) /\ Looks = 0 /\ Looks' = 1
  BY <1>3, <1>4, <1>10 DEF Put, FlightAt, Looks
<1>16. StoredOK(f)'  BY <1>1, <1>3, <1>4, <1>15 DEF Flight, StoredOK
<1>17. DuesOK(f)'  BY <1>1, <1>3, <1>15 DEF Flight, DuesOK
<1>18. EndsOK(f, p)'
  <2>1. EndsOK(f, p)  BY <1>1 DEF Flight
  <2>2. Len(p) = 1 + Len(evePosted')  BY <1>5, <1>8, <1>15, <2>1 DEF EndsOK, v
  <2>3. \A m \in 1 .. v : evePosted[m].idx = FlightAt(f, p[m]) /\ evePosted[m].of = f[p[m]].of
    <3> TAKE m \in 1 .. v
    <3>1. Looks + m = m  BY <1>5, <1>15
    <3>2. evePosted[m].idx = FlightAt(f, p[Looks + m]) /\ evePosted[m].of = f[p[Looks + m]].of
      BY <2>1 DEF EndsOK, v
    <3> QED BY <3>1, <3>2
  <2>4. ASSUME NEW m \in 1 .. Len(evePosted')
        PROVE  evePosted'[m].idx = FlightAt(f, p[1 + m])' /\ evePosted'[m].of = f[p[1 + m]].of
    <3>1. PICK l \in 1 .. v : l = m + 1 /\ l = 1 + m  BY <1>5, <1>8
    <3>2. evePosted'[m] = evePosted[l]  BY <1>8, <3>1
    <3>3. evePosted[l].idx = FlightAt(f, p[l]) /\ evePosted[l].of = f[p[l]].of  BY <2>3
    <3> QED BY <1>15, <3>1, <3>2, <3>3
  <2>5. ringIntr'.idx = FlightAt(f, p[1])' /\ ringIntr'.of = f[p[1]].of
    <3>1. 1 \in 1 .. v  BY <1>5, <1>7
    <3> QED BY <1>10, <1>15, <2>3, <3>1
  <2>6. \A m : p[Looks' + m] = p[1 + m]  BY <1>15
  <2>7. /\ \A m \in 1 .. Len(p) : p[m] \in 1 .. Len(f) - Len(due') /\ LastTRB(f[p[m]])
        /\ \A m, n \in 1 .. Len(p) : m < n => p[m] < p[n]
        /\ \A k \in 1 .. Len(f) - Len(due') : LastTRB(f[k]) => \E m \in 1 .. Len(p) : p[m] = k
    BY <1>3, <2>1 DEF EndsOK
  <2>8. \A m \in 1 .. Len(evePosted') :
           evePosted'[m].idx = FlightAt(f, p[Looks + m])' /\ evePosted'[m].of = f[p[Looks' + m]].of
    BY <1>15, <2>4
  <2> QED BY <1>15, <2>2, <2>5, <2>7, <2>8 DEF EndsOK
<1>19. WaitsOK(f)'  BY <1>1, <1>3, <1>10, WaitsStay DEF Flight
<1>20. Flight(f, p)'  BY <1>1, <1>16, <1>17, <1>18, <1>19 DEF Flight
<1> QED BY <1>11, <1>12, <1>13, <1>14, <1>20 DEF RingInv
\* The places of the requests behind the first one, when that leaves.
Later(p) == [m \in 1 .. Len(p) - 1 |-> p[m + 1] - p[1]]

\* Their number, and the entries.
LEMMA RestOf ==
    ASSUME NEW S, NEW s \in Seq(S), NEW n \in 1 .. Len(s)
    PROVE  Len(BehindOf(s, n)) = Len(s) - n /\ \A k \in 1 .. Len(s) - n : BehindOf(s, n)[k] = s[n + k]
BY DEF BehindOf

\* They are the places in what stays.
LEMMA EndsDrop ==
    ASSUME NEW f \in Seq(TRBs), NEW p \in Seq(Nat), EndsOK(f, p), RingTypes, Looks = 1, DuesOK(f), Len(f) <= LinkIdx,
           LinkIdx \in Nat, Put \in 0 .. LinkIdx, UNCHANGED <<due, evePosted>>, Put' = Put, Looks' = 0,
           NEW g, g = BehindOf(f, p[1])
    PROVE  /\ p[1] \in 1 .. Len(f) /\ LastTRB(f[p[1]]) /\ \A k \in 1 .. p[1] - 1 : ~LastTRB(f[k])
           /\ \A k \in 1 .. Len(g) : g[k] = f[p[1] + k] /\ FlightAt(g, k)' = FlightAt(f, p[1] + k) /\ p[1] + k \in 1 .. Len(f)
           /\ Len(g) = Len(f) - p[1] /\ Len(due) <= Len(g)
           /\ Later(p) \in Seq(Nat) /\ EndsOK(g, Later(p))'
<1> DEFINE n == Len(f)
           d == Len(due)
           v == Len(evePosted)
           z == p[1]
           q == Later(p)
<1>1. n \in Nat /\ d \in Nat /\ v \in Nat /\ d <= n /\ Len(p) \in Nat
  BY LenProperties DEF RingTypes, DuesOK
<1>2. /\ Len(p) = 1 + v
      /\ \A m \in 1 .. Len(p) : p[m] \in 1 .. n - d /\ LastTRB(f[p[m]])
      /\ \A m, l \in 1 .. Len(p) : m < l => p[m] < p[l]
      /\ \A k \in 1 .. n - d : LastTRB(f[k]) => \E m \in 1 .. Len(p) : p[m] = k
      /\ \A m \in 1 .. v : evePosted[m].idx = FlightAt(f, p[1 + m]) /\ evePosted[m].of = f[p[1 + m]].of
  BY DEF EndsOK
<1> HIDE DEF n, d, v, z, q
<1>3. 1 \in 1 .. Len(p) /\ z \in 1 .. n - d /\ z \in Nat /\ LastTRB(f[z])  BY <1>1, <1>2 DEF z
<1>4. z \in 1 .. n  BY <1>1, <1>3
<1>5. ASSUME NEW k \in 1 .. z - 1 PROVE ~LastTRB(f[k])
  <2>1. SUFFICES ASSUME LastTRB(f[k]) PROVE FALSE  OBVIOUS
  <2>2. k \in 1 .. n - d /\ k < z  BY <1>1, <1>3
  <2>3. PICK m \in 1 .. Len(p) : p[m] = k  BY <1>2, <2>1, <2>2
  <2>4. m = 1 \/ 1 < m  OBVIOUS
  <2>5. m # 1  BY <2>2, <2>3 DEF z
  <2>6. z < p[m]  BY <1>2, <1>3, <2>4, <2>5 DEF z
  <2> QED BY <1>3, <2>2, <2>3, <2>6
<1>6. Len(g) = n - z /\ \A k \in 1 .. n - z : g[k] = f[z + k]
  <2>1. z \in 1 .. Len(f) /\ g = BehindOf(f, z)  BY <1>4 DEF n, z
  <2> QED BY <2>1, RestOf DEF n
<1>7. \A k \in 1 .. n - z : z + k \in 1 .. n  BY <1>1, <1>3
<1>8. \A k \in 1 .. n - z : FlightAt(g, k)' = FlightAt(f, z + k)
  <2>1. z \in 0 .. n /\ n \in 0 .. LinkIdx  BY <1>1, <1>4 DEF n
  <2>2. \A k \in 1 .. n - z : SlotAt(Put, n - z, k) = SlotAt(Put, n, z + k)  BY <2>1, SlotsDiffer
  <2> QED BY <1>6, <2>2 DEF FlightAt, n
<1>9. /\ q \in Seq(Nat) /\ Len(q) = v /\ \A m \in 1 .. v : q[m] = p[m + 1] - z
  <2>1. Len(p) - 1 = v  BY <1>1, <1>2
  <2>2. ASSUME NEW m \in 1 .. v PROVE p[m + 1] - z \in Nat
    <3>1. PICK l \in 1 .. Len(p) : l = m + 1 /\ 1 < l  BY <1>1, <1>2
    <3>2. z < p[l] /\ p[l] \in 1 .. n - d  BY <1>2, <1>3, <3>1 DEF z
    <3> QED BY <1>1, <1>3, <3>1, <3>2
  <2>3. q = [m \in 1 .. v |-> p[m + 1] - z]  BY <2>1 DEF q, z, Later
  <2> QED BY <1>1, <2>2, <2>3
<1>10. \A m \in 1 .. v : q[m] \in 1 .. (n - z) - d /\ z + q[m] = p[m + 1] /\ p[m + 1] \in 1 .. n - d
  <2> TAKE m \in 1 .. v
  <2>1. PICK l \in 1 .. Len(p) : l = m + 1 /\ 1 < l  BY <1>1, <1>2
  <2>2. z < p[l] /\ p[l] \in 1 .. n - d  BY <1>2, <1>3, <2>1 DEF z
  <2>3. PICK y \in Int : y = p[l]  BY <2>2
  <2>4. q[m] = y - z /\ z < y /\ y \in 1 .. n - d  BY <1>9, <2>1, <2>2, <2>3
  <2>5. q[m] \in 1 .. (n - z) - d /\ z + q[m] = y  BY <1>1, <1>3, <2>4
  <2> QED BY <2>1, <2>3, <2>4, <2>5
<1>11. \A k \in 1 .. (n - z) - d : k \in 1 .. n - z  BY <1>1, <1>3
<1>12. \A m \in 1 .. v : q[m] \in 1 .. (n - z) - d /\ LastTRB(g[q[m]])
  <2> TAKE m \in 1 .. v
  <2>1. g[q[m]] = f[p[m + 1]]  BY <1>6, <1>10, <1>11
  <2>2. m + 1 \in 1 .. Len(p)  BY <1>1, <1>2
  <2> QED BY <1>2, <1>10, <2>1, <2>2
<1>13. \A m, l \in 1 .. v : m < l => q[m] < q[l]
  <2> TAKE m, l \in 1 .. v
  <2>1. SUFFICES ASSUME m < l PROVE q[m] < q[l]  OBVIOUS
  <2>0. Len(p) = 1 + v  BY <1>2
  <2>2. m + 1 \in 1 .. Len(p) /\ l + 1 \in 1 .. Len(p) /\ m + 1 < l + 1  BY <1>1, <2>0, <2>1
  <2>3. p[m + 1] < p[l + 1]  BY <1>2, <2>2
  <2>4. z + q[m] = p[m + 1] /\ z + q[l] = p[l + 1] /\ q[m] \in 1 .. (n - z) - d /\ q[l] \in 1 .. (n - z) - d  BY <1>10
  <2>5. PICK a \in Int, b \in Int : a = q[m] /\ b = q[l]  BY <2>4
  <2>6. z + a < z + b  BY <2>3, <2>4, <2>5
  <2> QED BY <1>3, <2>5, <2>6
<1>14. \A k \in 1 .. (n - z) - d : LastTRB(g[k]) => \E m \in 1 .. v : q[m] = k
  <2> TAKE k \in 1 .. (n - z) - d
  <2>1. SUFFICES ASSUME LastTRB(g[k]) PROVE \E m \in 1 .. v : q[m] = k  OBVIOUS
  <2>2. PICK y \in 1 .. n - d : y = z + k  BY <1>1, <1>3
  <2>3. g[k] = f[y] /\ z < y  BY <1>3, <1>6, <1>11, <2>2
  <2>4. PICK l \in 1 .. Len(p) : p[l] = y  BY <1>2, <2>1, <2>3
  <2>5. l # 1  BY <1>3, <2>3, <2>4 DEF z
  <2>6. PICK m \in 1 .. v : m + 1 = l
    <3>1. l - 1 \in 1 .. v /\ (l - 1) + 1 = l  BY <1>1, <1>2, <2>5
    <3> QED BY <3>1
  <2>7. z + q[m] = y /\ q[m] \in 1 .. (n - z) - d  BY <1>10, <2>4, <2>6
  <2>8. q[m] = k  BY <1>3, <2>2, <2>7
  <2> QED BY <2>8
<1>15. \A m \in 1 .. v : evePosted[m].idx = FlightAt(g, q[m])' /\ evePosted[m].of = g[q[m]].of
  <2> TAKE m \in 1 .. v
  <2>1. 1 + m = m + 1  OBVIOUS
  <2>2. evePosted[m].idx = FlightAt(f, p[m + 1]) /\ evePosted[m].of = f[p[m + 1]].of  BY <1>2, <2>1
  <2>3. PICK k \in 1 .. n - z : k = q[m]  BY <1>10, <1>11
  <2>4. z + k = p[m + 1]  BY <1>10, <2>3
  <2>5. g[k] = f[p[m + 1]] /\ FlightAt(g, k)' = FlightAt(f, p[m + 1])  BY <1>6, <1>8, <2>4
  <2> QED BY <2>2, <2>3, <2>5
<1>16. EndsOK(g, q)'
  <2>1. \A m \in 1 .. v : Looks' + m = m  BY <1>1
  <2>2. \A m \in 1 .. v : evePosted'[m].idx = FlightAt(g, q[Looks + m])' /\ evePosted'[m].of = g[q[Looks' + m]].of
    BY <1>15, <2>1
  <2>4. Len(evePosted') = v /\ Len(due') = d  BY DEF d, v
  <2>5. Len(q) = Looks' + Len(evePosted')  BY <1>1, <1>9, <2>4
  <2>6. Len(g) - Len(due') = (n - z) - d  BY <1>6, <2>4
  <2>7. /\ \A m \in 1 .. Len(q) : q[m] \in 1 .. Len(g) - Len(due') /\ LastTRB(g[q[m]])
        /\ \A m, l \in 1 .. Len(q) : m < l => q[m] < q[l]
        /\ \A k \in 1 .. Len(g) - Len(due') : LastTRB(g[k]) => \E m \in 1 .. Len(q) : q[m] = k
    BY <1>9, <1>12, <1>13, <1>14, <2>6
  <2>8. \A m \in 1 .. Len(evePosted') :
           evePosted'[m].idx = FlightAt(g, q[Looks + m])' /\ evePosted'[m].of = g[q[Looks' + m]].of
    BY <2>2, <2>4
  <2>9. Looks' # 1  OBVIOUS
  <2> QED BY <2>5, <2>7, <2>8, <2>9 DEF EndsOK
<1>17. d <= n - z  BY <1>1, <1>3
<1> QED BY <1>3, <1>4, <1>5, <1>6, <1>7, <1>8, <1>9, <1>16, <1>17 DEF n, d, z, q
\* The request of an event is found, and its entries are free.
LEMMA LookStep == ASSUME RingInv, Look PROVE RingInv'
<1>1. PICK f \in Seq(TRBs), p \in Seq(Nat) : Flight(f, p)  BY DEF RingInv
<1>2. RingTypes /\ LockOK /\ CycOK /\ EvesOK  BY DEF RingInv
<1>3. Laid(f) /\ StoredOK(f) /\ DuesOK(f) /\ EndsOK(f, p) /\ WaitsOK(f)  BY <1>1 DEF Flight
<1>4. ringIntr.pc = "look" /\ ring.lck = NoUser /\ UNCHANGED <<ringWait, ringThd, ringCtl, eve, due, evePosted>>
  BY DEF Look, Unlocked
<1>5. /\ Holder = "none" /\ Done = 0 /\ Rest = 0 /\ Put = ring.curIdx /\ Turned = ring.curIdx /\ Looks = 1
      /\ LinkIdx \in Nat /\ RingSlots = 0 .. LinkIdx /\ Put \in 0 .. LinkIdx
  BY <1>2, <1>4, HolderIs DEF Put, Turned, Looks
<1> DEFINE n == Len(f)
           z == p[1]
           u == f[z].of
<1>6. n \in 0 .. LinkIdx /\ ring.load = n /\ Len(p) \in Nat /\ Len(due) \in Nat
  <2>1. n \in 0 .. LinkIdx  BY <1>3, LaidFits
  <2>2. ring.load = n + 0  BY <1>3, <1>5 DEF StoredOK
  <2>3. ring.load = n  BY <2>1, <2>2
  <2>4. Len(p) \in Nat /\ Len(due) \in Nat  BY <1>2, LenProperties DEF RingTypes
  <2> QED BY <2>1, <2>3, <2>4
<1>7. z \in 1 .. n /\ ringIntr.idx = FlightAt(f, z) /\ ringIntr.of = u
  <2>1. Len(p) = 1 + Len(evePosted) /\ Len(evePosted) \in Nat  BY <1>2, <1>3, <1>5, LenProperties DEF EndsOK, RingTypes
  <2>2. 1 \in 1 .. Len(p)  BY <2>1
  <2>3. z \in 1 .. n - Len(due)  BY <1>3, <2>2 DEF EndsOK
  <2>4. z \in 1 .. n  BY <1>6, <2>3
  <2> QED BY <1>3, <1>5, <2>4 DEF EndsOK
<1>8. f[z] \in TRBs /\ u \in User /\ ring.reqs[ringIntr.idx] = u
  <2>1. f[z] \in TRBs  BY <1>7, ElementOfSeq
  <2>2. ring.reqs[FlightAt(f, z)] = u  BY <1>3, <1>5, <1>7 DEF StoredOK
  <2> QED BY <1>7, <2>1, <2>2, TRBIs
<1> HIDE DEF n, z, u
<1>9. /\ ringIntr' = [ringIntr EXCEPT !.pc = "answer", !.idx = 0, !.req = u]
      /\ ring' = [ring EXCEPT !.load = @ - InputSz[u]]
  <2>1. ring.load # 0  BY <1>6, <1>7
  <2> QED BY <1>8, <2>1 DEF Look
<1>10. PICK g : g = BehindOf(f, z)  OBVIOUS
<1>11. /\ ringIntr' \in HandlerRec /\ ringIntr'.pc = "answer" /\ ringIntr'.req = u /\ ringIntr'.of = u
  <2>1. ringIntr \in HandlerRec /\ 0 \in RingSlots /\ u \in User  BY <1>2, <1>5, <1>8 DEF RingTypes
  <2>2. ringIntr' \in HandlerRec /\ ringIntr'.pc = "answer" /\ ringIntr'.req = u /\ ringIntr'.of = ringIntr.of
    BY <1>9, <2>1 DEF HandlerRec
  <2> QED BY <1>7, <2>2
<1>12. PICK y \in Int : y = n - InputSz[u]  BY <1>6, <1>8, TRBIs
<1>13. /\ ring'.load = y /\ ring'.lck = NoUser /\ ring'.curIdx = ring.curIdx /\ ring'.cycBit = ring.cycBit
       /\ ring'.trbs = ring.trbs /\ ring'.reqs = ring.reqs /\ (y \in Nat => ring' \in RingRec)
  <2>1. ring' = [ring EXCEPT !.load = y] /\ ring \in RingRec  BY <1>2, <1>6, <1>9, <1>12 DEF RingTypes
  <2> QED BY <1>4, <2>1 DEF RingRec
<1>14. /\ Holder' = "none" /\ Done' = 0 /\ Rest' = 0 /\ Put' = Put /\ Turned' = Turned /\ Looks' = 0
  <2>1. Holder' = "none"  BY <1>13 DEF Holder
  <2> QED BY <1>5, <1>11, <1>13, <2>1 DEF Done, Rest, Put, Turned, Looks
<1> DEFINE q == Later(p)
<1>15. /\ LastTRB(f[z]) /\ \A k \in 1 .. z - 1 : ~LastTRB(f[k])
       /\ \A k \in 1 .. Len(g) : g[k] = f[z + k] /\ FlightAt(g, k)' = FlightAt(f, z + k) /\ z + k \in 1 .. n
       /\ Len(g) = n - z /\ Len(due) <= Len(g)
       /\ q \in Seq(Nat) /\ EndsOK(g, q)'
  <2>1. UNCHANGED <<due, evePosted>>  BY <1>4
  <2>2. Len(f) <= LinkIdx /\ g = BehindOf(f, p[1])  BY <1>6, <1>10 DEF n, z
  <2> HIDE DEF q
  <2>3. q = Later(p)  BY DEF q
  <2>4. EndsOK(f, p) /\ DuesOK(f) /\ RingTypes /\ Looks = 1  BY <1>2, <1>3, <1>5
  <2>5. LinkIdx \in Nat /\ Put \in 0 .. LinkIdx /\ Put' = Put /\ Looks' = 0  BY <1>2, <1>14, HolderIs
  <2>6. /\ LastTRB(f[p[1]]) /\ \A k \in 1 .. p[1] - 1 : ~LastTRB(f[k])
        /\ \A k \in 1 .. Len(g) : /\ g[k] = f[p[1] + k] /\ FlightAt(g, k)' = FlightAt(f, p[1] + k)
                                 /\ p[1] + k \in 1 .. Len(f)
        /\ Len(g) = Len(f) - p[1] /\ Len(due) <= Len(g)
        /\ Later(p) \in Seq(Nat) /\ EndsOK(g, Later(p))'
    BY <2>1, <2>2, <2>4, <2>5, EndsDrop
  <2> QED BY <2>3, <2>6 DEF n, z
<1> HIDE DEF q
<1>16. /\ z = InputSz[u] /\ g \in Seq(TRBs) /\ Laid(g)
       /\ \A k \in 1 .. Len(g) : g[k].of # u
       /\ \A k \in 1 .. z : f[k].of = u
  <2>1. z \in 1 .. Len(f)  BY <1>7 DEF n
  <2>2. LastTRB(f[z]) /\ \A k \in 1 .. z - 1 : ~LastTRB(f[k])  BY <1>15
  <2>3. Laid(f)  BY <1>3
  <2>4. /\ z = InputSz[f[z].of] /\ g \in Seq(TRBs) /\ Laid(g)
        /\ \A k \in 1 .. Len(g) : g[k] = f[z + k] /\ g[k].of # f[z].of
        /\ \A k \in 1 .. z : f[k].of = f[z].of
    BY <1>10, <2>1, <2>2, <2>3, LaidDrop
  <2> QED BY <2>4 DEF u
<1>17. y = n - z /\ y \in Nat /\ Len(g) = y  BY <1>6, <1>7, <1>12, <1>15, <1>16
<1>18. RingTypes'
  <2>1. ring'.load <= Size
    <3>1. ring.load <= Size /\ Size \in Nat  BY <1>2, RingAssumption DEF RingTypes
    <3> QED BY <1>6, <1>7, <1>13, <1>17, <3>1
  <2> QED BY <1>2, <1>4, <1>11, <1>13, <1>17, <2>1 DEF RingTypes
<1>19. LockOK'  BY <1>2, <1>4, <1>13, <1>14 DEF LockOK
<1>20. CycOK'  BY <1>2, <1>13, <1>14 DEF CycOK
<1>21. EvesOK'  BY <1>2, <1>4, EvesStay
<1>22. StoredOK(g)'
  <2>1. ring'.load = Len(g) + Rest'  BY <1>13, <1>14, <1>17
  <2>2. \A k \in 1 .. n : f[k].of \in User /\ f[k].of # NoUser
    <3>1. \A k \in 1 .. n : f[k] \in TRBs  BY ElementOfSeq DEF n
    <3> QED BY <3>1, TRBIs, RingAssumption
  <2>3. Len(g) > 0 => LastTRB(g[Len(g)])
    <3>1. SUFFICES ASSUME Len(g) > 0 PROVE LastTRB(g[Len(g)])  OBVIOUS
    <3>2. Len(g) \in 1 .. Len(g) /\ z + Len(g) = n /\ n > 0  BY <1>6, <1>7, <1>17, <3>1
    <3>3. g[Len(g)] = f[n]  BY <1>15, <3>2
    <3>4. LastTRB(f[n])  BY <1>3, <1>5, <3>2 DEF StoredOK, n
    <3> QED BY <3>3, <3>4
  <2>4. ASSUME NEW k \in 1 .. Len(g)
        PROVE  /\ g[k].of # NoUser
               /\ ring'.trbs[FlightAt(g, k)'].of = g[k].of /\ ring'.trbs[FlightAt(g, k)'].i = g[k].i
               /\ ring'.reqs[FlightAt(g, k)'] = g[k].of
    <3>1. PICK l \in 1 .. n : l = z + k  BY <1>15
    <3>2. g[k] = f[l] /\ FlightAt(g, k)' = FlightAt(f, l)  BY <1>15, <3>1
    <3>3. /\ ring.trbs[FlightAt(f, l)].of = f[l].of /\ ring.trbs[FlightAt(f, l)].i = f[l].i
          /\ ring.reqs[FlightAt(f, l)] = f[l].of
      BY <1>3, <1>5, <3>1 DEF StoredOK, n
    <3> QED BY <1>13, <2>2, <3>2, <3>3
  <2>5. ~(Done' > 0)  BY <1>14
  <2> QED BY <1>13, <2>1, <2>3, <2>4, <2>5 DEF StoredOK
<1>23. DuesOK(g)'
  <2>1. due' = due /\ ringCtl' = ringCtl  BY <1>4
  <2>2. ASSUME NEW k \in 1 .. Len(due) PROVE due[k] = g[Len(g) - Len(due) + k]
    <3>1. PICK l \in 1 .. Len(g) : l = Len(g) - Len(due) + k
      <4>1. Len(g) \in Nat /\ Len(due) \in Nat /\ Len(due) <= Len(g)  BY <1>6, <1>15, <1>17
      <4>2. Len(g) - Len(due) + k \in 1 .. Len(g)  BY <4>1
      <4> QED BY <4>2
    <3>2. n - Len(due) + k = z + l  BY <1>6, <1>7, <1>17, <3>1
    <3>3. due[k] = f[n - Len(due) + k]  BY <1>3 DEF DuesOK, n
    <3> QED BY <1>15, <3>1, <3>2, <3>3
  <2>3. Put' - Len(due) = IF ring'.cycBit = ringCtl.ccs THEN ringCtl.deq ELSE ringCtl.deq - LinkIdx
    BY <1>3, <1>13, <1>14 DEF DuesOK
  <2> QED BY <1>15, <2>1, <2>2, <2>3 DEF DuesOK
<1>24. WaitsOK(g)'
  <2>1. Answered(u)' /\ (\A w \in User \ {u} : ~Answered(w)') /\ \A w \in User : ~Answered(w)
    BY <1>4, <1>11 DEF Answered
  <2>2. InFlight(f, u) /\ ~InFlight(g, u)'
    <3>1. z \in 1 .. Len(f) /\ f[z].of = u  BY <1>7 DEF n, u
    <3> QED BY <1>16, <3>1 DEF InFlight
  <2>3. ASSUME NEW w \in User \ {u} PROVE InFlight(g, w)' <=> InFlight(f, w)
    <3>1. ASSUME InFlight(f, w) PROVE InFlight(g, w)
      <4>1. PICK k \in 1 .. n : f[k].of = w  BY <3>1 DEF InFlight, n
      <4>2. k \notin 1 .. z  BY <1>16, <4>1
      <4>3. PICK l \in 1 .. Len(g) : z + l = k
        <5>1. k - z \in 1 .. Len(g) /\ z + (k - z) = k  BY <1>6, <1>7, <1>17, <4>2
        <5> QED BY <5>1
      <4>4. g[l] = f[k]  BY <1>15, <4>3
      <4> QED BY <4>1, <4>4 DEF InFlight
    <3>2. ASSUME InFlight(g, w) PROVE InFlight(f, w)  BY <1>15, <3>2 DEF InFlight, n
    <3> QED BY <3>1, <3>2 DEF InFlight
  <2>4. WaitOK(g, u)'
    <3>1. WaitOK(f, u) /\ ringThd[u].pc \notin Inserting  BY <1>2, <1>3, <1>4, <1>8, RingAssumption DEF WaitsOK, LockOK
    <3>2. ringThd[u].pc # "idle"  BY <2>2, <3>1 DEF WaitOK
    <3>3. ringThd[u].pc \in {"bell", "wait"} => ringWait[u] = (IF ringThd[u].pc = "wait" THEN 1 ELSE 0) - 0
      BY <2>2, <3>1 DEF WaitOK
    <3> QED BY <1>4, <2>1, <2>2, <3>1, <3>2, <3>3 DEF WaitOK
  <2>5. ASSUME NEW w \in User \ {u} PROVE WaitOK(g, w)'
    <3>1. WaitOK(f, w)  BY <1>3 DEF WaitsOK
    <3> QED BY <1>4, <2>1, <2>3, <3>1 DEF WaitOK
  <2> QED BY <1>8, <1>11, <2>4, <2>5 DEF WaitsOK
<1>25. Flight(g, q)'  BY <1>15, <1>16, <1>22, <1>23, <1>24 DEF Flight
<1> QED BY <1>15, <1>16, <1>18, <1>19, <1>20, <1>21, <1>25 DEF RingInv
-----------------------------------------------------------------------------
(* The invariant holds. *)

\* A ring that is set up is empty.
LEMMA RingStart == RingInit => RingInv
<1> SUFFICES ASSUME RingInit PROVE RingInv  OBVIOUS
<1>1. /\ ring = [curIdx |-> 0, cycBit |-> 1, load |-> 0, lck |-> NoUser,
                 trbs |-> [s \in RingSlots |-> NoTRB], reqs |-> [s \in RingSlots |-> NoUser]]
      /\ ringWait = [t \in User |-> 0] /\ ringThd = [t \in User |-> [pc |-> "idle", i |-> 1]]
      /\ ringCtl = [bell |-> FALSE, deq |-> 0, ccs |-> 1, enq |-> 0, pcs |-> 1, deqPtr |-> 0]
      /\ eve = [trbs |-> [e \in 0 .. EveSz - 1 |-> NoEvent], curRingIdx |-> 0, curIdx |-> 0, cycBit |-> 1]
      /\ ringIntr = [pc |-> "off", idx |-> 0, of |-> NoUser, req |-> NoUser]
      /\ due = <<>> /\ evePosted = <<>>
  BY DEF RingInit
<1>2. LinkIdx \in Nat /\ RingSlots = 0 .. LinkIdx /\ 0 \in RingSlots /\ Size \in Nat
  <2>1. Size \in Nat /\ Size > 0  BY TRBsFinite, RingAssumption
  <2> QED BY <2>1 DEF LinkIdx, RingSlots
<1>3. ring \in RingRec
  <2>1. NoTRB \in [cyc : {0, 1}, of : User \union {NoUser}, i : Nat]  BY DEF NoTRB
  <2> QED BY <1>1, <1>2, <2>1 DEF RingRec
<1>4. eve \in EveRec
  <2>1. NoEvent \in [cyc : {0, 1}, idx : RingSlots]  BY <1>2 DEF NoEvent
  <2>2. 0 \in 0 .. RingNum - 1 /\ 0 \in 0 .. RingSz - 1  BY RingAssumption
  <2> QED BY <1>1, <2>1, <2>2 DEF EveRec
<1>5. Pos = 0 /\ EveSz \in Nat \ {0} /\ 0 \in 0 .. EveSz - 1
  <2>1. RingSz \in Nat /\ 0 * RingSz + 0 = 0  BY RingAssumption
  <2>2. EveSz \in Nat \ {0}  BY <1>4, PosIs
  <2> QED BY <1>1, <2>1, <2>2 DEF Pos
<1>6. Holder = "none" /\ Done = 0 /\ Rest = 0 /\ Put = 0 /\ Turned = 0 /\ Looks = 0
  BY <1>1 DEF Holder, Done, Rest, Put, Turned, Looks
<1>7. RingTypes
  <2>1. ringThd \in [User -> UserRec]  BY <1>1 DEF UserRec
  <2>2. ringCtl \in CtrlRec  BY <1>1, <1>2, <1>5 DEF CtrlRec
  <2>3. ringIntr \in HandlerRec  BY <1>1, <1>2 DEF HandlerRec
  <2>4. ring.load <= Size  BY <1>1, <1>2
  <2>5. ringWait \in [User -> Int] /\ due \in Seq(TRBs) /\ evePosted \in Seq([idx : RingSlots, of : User])  BY <1>1
  <2> QED BY <1>3, <1>4, <2>1, <2>2, <2>3, <2>4, <2>5 DEF RingTypes
<1>8. LockOK
  <2>1. \A t \in User : 1 <= InputSz[t] /\ t # NoUser  BY RingAssumption
  <2> QED BY <1>1, <1>6, <2>1 DEF LockOK, Inserting
<1>9. CycOK  BY <1>1, <1>2, <1>6 DEF CycOK, NoTRB
<1>10. EvesOK
  <2>1. Len(evePosted) = 0  BY <1>1
  <2> QED BY <1>1, <1>5, <2>1 DEF EvesOK, NoEvent
<1>11. Flight(<<>>, <<>>)
  <2>1. Len(<<>>) = 0 /\ Len(due) = 0 /\ Len(evePosted) = 0 /\ 1 .. 0 = {}  BY <1>1
  <2>2. Laid(<<>>)
    <3>1. 0 - 1 = -1 /\ 1 .. (-1) = {}  OBVIOUS
    <3> QED BY <2>1, <3>1 DEF Laid
  <2>3. StoredOK(<<>>)  BY <1>1, <1>6, <2>1 DEF StoredOK
  <2>4. DuesOK(<<>>)
    <3>1. ring.cycBit = ringCtl.ccs /\ ringCtl.deq = 0  BY <1>1
    <3>2. Put - Len(due) = 0  BY <1>6, <2>1
    <3>3. \A k \in 1 .. Len(due) : due[k] = <<>>[0 - 0 + k]  BY <2>1
    <3> QED BY <2>1, <3>1, <3>2, <3>3 DEF DuesOK
  <2>5. EndsOK(<<>>, <<>>)
    <3>1. 0 - 0 = 0 /\ 0 + 0 = 0  OBVIOUS
    <3> QED BY <1>6, <2>1, <3>1 DEF EndsOK
  <2>6. WaitsOK(<<>>)  BY <1>1, <2>1 DEF WaitsOK, WaitOK, InFlight, Answered, Inserting
  <2> QED BY <2>2, <2>3, <2>4, <2>5, <2>6 DEF Flight
<1>12. <<>> \in Seq(TRBs) /\ <<>> \in Seq(Nat)  OBVIOUS
<1> QED BY <1>7, <1>8, <1>9, <1>10, <1>11, <1>12 DEF RingInv

\* A step that changes nothing.
LEMMA RingStutters == ASSUME RingInv, UNCHANGED ringVars PROVE RingInv'
<1>1. PICK f \in Seq(TRBs), p \in Seq(Nat) : Flight(f, p)  BY DEF RingInv
<1>2. RingTypes /\ LockOK /\ CycOK /\ EvesOK  BY DEF RingInv
<1>3. UNCHANGED <<ring, ringWait, ringThd, ringCtl, eve, ringIntr, due, evePosted>>  BY DEF ringVars
<1>4. UNCHANGED <<Holder, Done, Rest>> /\ Looks' = Looks  BY <1>3 DEF Holder, Done, Rest, Looks
<1>5. RingTypes'  BY <1>2, <1>3 DEF RingTypes
<1>6. LockOK'  BY <1>2, <1>3, <1>4 DEF LockOK
<1>7. CycOK'  BY <1>2, <1>3, <1>4, CycStays
<1>8. EvesOK'  BY <1>2, <1>3, EvesStay
<1>9. StoredOK(f)' /\ DuesOK(f)' /\ EndsOK(f, p)'  BY <1>1, <1>3, <1>4, FlightStays DEF Flight
<1>10. WaitsOK(f)'  BY <1>1, <1>3, WaitsStay DEF Flight
<1>11. Flight(f, p)'  BY <1>1, <1>9, <1>10 DEF Flight
<1> QED BY <1>5, <1>6, <1>7, <1>8, <1>11 DEF RingInv

\* Every step keeps it.
LEMMA RingKeeps == ASSUME RingInv, [RingNext]_ringVars PROVE RingInv'
<1>1. ASSUME NEW t \in User, UserStep(t) PROVE RingInv'
  <2>1. CASE Begin(t)  BY <2>1, BeginStep
  <2>2. CASE Link(t)  BY <2>2, LinkStep
  <2>3. CASE Copy(t)  BY <2>3, CopyStep
  <2>4. CASE SetCycBit(t)  BY <2>4, SetCycBitStep
  <2>5. CASE SetReqs(t)  BY <2>5, SetReqsStep
  <2>6. CASE Bell(t)  BY <2>6, BellStep
  <2>7. CASE RingReturns(t)  BY <2>7, ReturnsStep
  <2> QED BY <1>1, <2>1, <2>2, <2>3, <2>4, <2>5, <2>6, <2>7 DEF UserStep, Insert
<1>2. CASE Controller
  <2>1. CASE Execute  BY <2>1, ExecuteStep
  <2>2. CASE FollowLink  BY <2>2, FollowStep
  <2>3. CASE Stop  BY <2>3, StopStep
  <2> QED BY <1>2, <2>1, <2>2, <2>3 DEF Controller
<1>3. CASE Handler
  <2>1. CASE TakeEvent  BY <2>1, TakeStep
  <2>2. CASE Look  BY <2>2, LookStep
  <2>3. CASE Response  BY <2>3, ResponseStep
  <2>4. CASE LeaveEves  BY <2>4, LeaveStep
  <2> QED BY <1>3, <2>1, <2>2, <2>3, <2>4 DEF Handler
<1>4. CASE UNCHANGED ringVars  BY <1>4, RingStutters
<1> QED BY <1>1, <1>2, <1>3, <1>4 DEF RingNext

\* The invariant of a ring and of the event ring its answers come by.
THEOREM RingKept == RingSpec => []RingInv
<1>1. RingInit => RingInv  BY RingStart
<1>2. RingInv /\ [RingNext]_ringVars => RingInv'  BY RingKeeps
<1> QED BY <1>1, <1>2, PTL DEF RingSpec

\* The places in both rings stay inside them, and the load inside the ring.
THEOREM RingTyped == RingSpec => []RingTypeOK
<1>1. RingInv => RingTypeOK
  <2> SUFFICES ASSUME RingInv PROVE RingTypeOK  OBVIOUS
  <2>1. RingTypes /\ LockOK  BY DEF RingInv
  <2>2. ring.load \in 0 .. Size
    <3>1. ring.load \in Nat /\ ring.load <= Size /\ Size \in Nat
      BY <2>1, RingAssumption DEF RingTypes, RingRec
    <3> QED BY <3>1
  <2> QED
    BY <2>1, <2>2 DEF RingTypeOK, RingTypes, RingRec, UserRec, CtrlRec, EveRec, HandlerRec, Inserting
<1> QED BY <1>1, RingKept, PTL
-----------------------------------------------------------------------------
(* What the invariant says of both rings. *)

\* The driver reads the events that were posted and not taken, and no other.
LEMMA EvesRead == ASSUME RingInv PROVE UnreadEves = [i \in DOMAIN evePosted |-> evePosted[i].idx]
<1> DEFINE v == Len(evePosted)
           S == {i \in 0 .. EveSz : i = EveSz \/ EveAt(i).cyc # EveCyc(i)}
<1>1. EvesOK /\ eve \in EveRec /\ ringCtl \in CtrlRec /\ v \in Nat
  BY LenProperties DEF RingInv, RingTypes
<1>2. Pos \in 0 .. EveSz - 1 /\ EveSz \in Nat \ {0}  BY <1>1, PosIs
<1>3. /\ ringCtl.enq \in 0 .. EveSz - 1 /\ ringCtl.pcs \in {0, 1} /\ ringCtl.deqPtr \in 0 .. EveSz - 1
      /\ eve.cycBit \in {0, 1}
  BY <1>1 DEF CtrlRec, EveRec
<1>4. v < EveSz /\ v = ringCtl.enq - (IF eve.cycBit = ringCtl.pcs THEN Pos ELSE Pos - EveSz)
  <2>1. /\ v = ringCtl.enq - (IF eve.cycBit = ringCtl.pcs THEN Pos ELSE Pos - EveSz)
        /\ v + (IF ringCtl.deqPtr <= Pos THEN Pos - ringCtl.deqPtr ELSE Pos - ringCtl.deqPtr + EveSz) < EveSz
    BY <1>1 DEF EvesOK
  <2> HIDE DEF v
  <2> QED BY <1>1, <1>2, <1>3, <2>1
<1> HIDE DEF v
<1>5. ASSUME NEW i \in 0 .. EveSz - 1
      PROVE  /\ EveAt(i) = eve.trbs[EveAhead(i + 1)] /\ EveAhead(i + 1) \in 0 .. EveSz - 1
             /\ EveAt(i).cyc = EveCyc(i) <=> i < v
  <2>1. (Pos + i) % EveSz = IF Pos + i < EveSz THEN Pos + i ELSE Pos + i - EveSz  BY <1>2
  <2>2. EveAhead(i + 1) = IF Pos + i < EveSz THEN Pos + i ELSE Pos + i - EveSz
    <3>1. Pos + (i + 1) - 1 = Pos + i  BY <1>2
    <3> QED BY <3>1 DEF EveAhead
  <2>3. PICK e \in 0 .. EveSz - 1 : e = IF Pos + i < EveSz THEN Pos + i ELSE Pos + i - EveSz  BY <1>2
  <2>4. EveAt(i) = eve.trbs[e] /\ EveAhead(i + 1) = e  BY <2>1, <2>2, <2>3 DEF EveAt
  <2>5. eve.trbs[e].cyc = IF e < ringCtl.enq THEN ringCtl.pcs ELSE 1 - ringCtl.pcs  BY <1>1 DEF EvesOK
  <2>6. EveCyc(i) = IF Pos + i < EveSz THEN eve.cycBit ELSE 1 - eve.cycBit  BY DEF EveCyc
  <2>7. PICK c \in {0, 1} : c = IF e < ringCtl.enq THEN ringCtl.pcs ELSE 1 - ringCtl.pcs  BY <1>3
  <2>8. PICK y \in {0, 1} : y = IF Pos + i < EveSz THEN eve.cycBit ELSE 1 - eve.cycBit  BY <1>3
  <2>9. c = y <=> i < v  BY ONLY <1>1, <1>2, <1>3, <1>4, <2>3, <2>7, <2>8
  <2>10. EveAt(i).cyc = c /\ EveCyc(i) = y  BY <2>4, <2>5, <2>6, <2>7, <2>8
  <2> QED BY <2>4, <2>9, <2>10
<1>6. v \in S
  <2>1. v \in 0 .. EveSz - 1 /\ v \in 0 .. EveSz  BY <1>1, <1>2, <1>4
  <2>2. EveAt(v).cyc # EveCyc(v)  BY <1>1, <1>5, <2>1
  <2> QED BY <2>1, <2>2
<1>7. ASSUME NEW i \in S PROVE v <= i /\ i \in Nat
  <2>1. CASE i = EveSz  BY <1>1, <1>2, <1>4, <2>1
  <2>2. CASE i # EveSz
    <3>1. i \in 0 .. EveSz - 1 /\ EveAt(i).cyc # EveCyc(i)  BY <1>2, <2>2
    <3> QED BY <1>1, <1>5, <3>1
  <2> QED BY <2>1, <2>2
<1>8. Min(S) = v
  <2>1. S \in SUBSET Nat /\ S # {}  BY <1>6, <1>7
  <2> HIDE DEF S
  <2>2. Min(S) \in S /\ Min(S) <= v  BY <1>6, <2>1, MinLeast
  <2>3. v <= Min(S) /\ Min(S) \in Nat  BY <1>7, <2>2
  <2> QED BY <1>1, <2>2, <2>3
<1>9. UnreadEves = [i \in 1 .. v |-> EveAt(i - 1).idx]  BY <1>8 DEF UnreadEves
<1>10. DOMAIN evePosted = 1 .. v  BY <1>1 DEF v, RingInv, RingTypes
<1>11. ASSUME NEW i \in 1 .. v PROVE EveAt(i - 1).idx = evePosted[i].idx
  <2>1. PICK k \in 0 .. EveSz - 1 : k = i - 1  BY <1>1, <1>2, <1>4
  <2>2. k + 1 = i  BY <2>1
  <2>3. EveAt(k) = eve.trbs[EveAhead(i)]  BY <1>5, <2>2
  <2>4. evePosted[i].idx = eve.trbs[EveAhead(i)].idx  BY <1>1 DEF EvesOK, v
  <2> QED BY <2>1, <2>3, <2>4
<1> QED BY <1>9, <1>10, <1>11
\* The entries of the ring in the order the controller comes to them.
LEMMA RingAtIs ==
    ASSUME RingTypes, LockOK, CycOK
    PROVE  \A j \in 0 .. Size - 1 :
             /\ RingAt(j) = IF ringCtl.deq + j <= LinkIdx THEN ringCtl.deq + j ELSE ringCtl.deq + j - LinkIdx - 1
             /\ RingAt(j) \in 0 .. LinkIdx
             /\ Owns(RingAt(j), CcsAt(j)) <=> IF ringCtl.deq + j <= LinkIdx
                                              THEN RingAt(j) < Turned <=> ring.cycBit = ringCtl.ccs
                                              ELSE RingAt(j) < Turned <=> ring.cycBit # ringCtl.ccs
<1> DEFINE q == ringCtl.deq
<1>1. /\ LinkIdx \in Nat /\ RingSlots = 0 .. LinkIdx /\ Size = LinkIdx + 1 /\ q \in 0 .. LinkIdx
      /\ Turned \in 0 .. LinkIdx /\ ring.cycBit \in {0, 1} /\ ringCtl.ccs \in {0, 1}
  <2>1. LinkIdx \in Nat /\ RingSlots = 0 .. LinkIdx /\ Size = LinkIdx + 1 /\ Turned \in 0 .. LinkIdx
    BY HolderIs
  <2> QED BY <2>1 DEF RingTypes, RingRec, CtrlRec
<1> SUFFICES ASSUME NEW j \in 0 .. Size - 1
             PROVE  /\ RingAt(j) = IF q + j <= LinkIdx THEN q + j ELSE q + j - LinkIdx - 1
                    /\ RingAt(j) \in 0 .. LinkIdx
                    /\ Owns(RingAt(j), CcsAt(j)) <=> IF q + j <= LinkIdx
                                                     THEN RingAt(j) < Turned <=> ring.cycBit = ringCtl.ccs
                                                     ELSE RingAt(j) < Turned <=> ring.cycBit # ringCtl.ccs
    OBVIOUS
<1>2. RingAt(j) = (q + j) % Size  BY DEF RingAt
<1>3. CcsAt(j) = IF q + j < Size THEN ringCtl.ccs ELSE 1 - ringCtl.ccs  BY DEF CcsAt
<1> HIDE DEF q
<1>4. (q + j) % Size = IF q + j <= LinkIdx THEN q + j ELSE q + j - LinkIdx - 1  BY <1>1
<1>5. PICK s \in 0 .. LinkIdx : s = IF q + j <= LinkIdx THEN q + j ELSE q + j - LinkIdx - 1
  <2>1. CASE q + j <= LinkIdx
    <3>1. q + j \in 0 .. LinkIdx  BY <1>1, <2>1
    <3> QED BY <2>1, <3>1
  <2>2. CASE ~(q + j <= LinkIdx)
    <3>1. q + j - LinkIdx - 1 \in 0 .. LinkIdx  BY <1>1, <2>2
    <3> QED BY <2>2, <3>1
  <2> QED BY <2>1, <2>2
<1>6. RingAt(j) = s  BY <1>2, <1>4, <1>5
<1>7. ring.trbs[s].cyc = IF s < Turned THEN ring.cycBit ELSE 1 - ring.cycBit  BY <1>1 DEF CycOK
<1>8. PICK c \in {0, 1} : c = IF s < Turned THEN ring.cycBit ELSE 1 - ring.cycBit  BY <1>1
<1>9. PICK y \in {0, 1} : y = IF q + j <= LinkIdx THEN ringCtl.ccs ELSE 1 - ringCtl.ccs  BY <1>1
<1>10. CcsAt(j) = y  BY <1>1, <1>3, <1>9
<1>11. Owns(RingAt(j), CcsAt(j)) <=> c = y  BY <1>6, <1>7, <1>8, <1>10 DEF Owns
<1>12. c = y <=> IF q + j <= LinkIdx THEN s < Turned <=> ring.cycBit = ringCtl.ccs
                 ELSE s < Turned <=> ring.cycBit # ringCtl.ccs
  BY ONLY <1>1, <1>8, <1>9
<1> QED BY <1>5, <1>6, <1>11, <1>12

\* What the controller owns ends where the first entry does that it does not own.
LEMMA OwnedUpTo ==
    ASSUME Size \in Nat, NEW M \in 0 .. Size, \A j \in 0 .. M - 1 : Owns(RingAt(j), CcsAt(j)),
           M < Size => ~Owns(RingAt(M), CcsAt(M))
    PROVE  OwnedSlots = 0 .. M - 1
<1>1. ASSUME NEW i \in OwnedSlots PROVE i \in 0 .. M - 1
  <2>1. i \in 0 .. Size - 1 /\ \A j \in 0 .. i : Owns(RingAt(j), CcsAt(j))  BY DEF OwnedSlots
  <2>2. ~(M <= i)
    <3> SUFFICES ASSUME M <= i PROVE FALSE  OBVIOUS
    <3>1. M \in 0 .. i /\ M < Size  BY <2>1
    <3> QED BY <2>1, <3>1
  <2> QED BY <2>1, <2>2
<1>2. ASSUME NEW i \in 0 .. M - 1 PROVE i \in OwnedSlots
  <2>1. i \in 0 .. Size - 1 /\ \A j \in 0 .. i : j \in 0 .. M - 1  OBVIOUS
  <2> QED BY <2>1 DEF OwnedSlots
<1> QED BY <1>1, <1>2

\* Those it owns are the TRBs that were not executed, the one being inserted apart.
LEMMA OwnedAre ==
    ASSUME RingTypes, LockOK, CycOK, NEW f \in Seq(TRBs), Laid(f), StoredOK(f), DuesOK(f), NEW m,
           m = IF Turned = Put \/ Len(due) = 0 THEN Len(due) ELSE Len(due) - 1
    PROVE  /\ Cardinality({i \in OwnedSlots : RingAt(i) # LinkIdx}) = m
           /\ \A k \in 1 .. m : TRBAt(k) = FlightAt(f, Len(f) - Len(due) + k)
<1> DEFINE d == Len(due)
           n == Len(f)
           q == ringCtl.deq
           S == {i \in OwnedSlots : RingAt(i) # LinkIdx}
<1>1. /\ LinkIdx \in Nat /\ Size = LinkIdx + 1 /\ q \in 0 .. LinkIdx
      /\ Put \in 0 .. LinkIdx /\ Turned \in 0 .. LinkIdx /\ (Turned = Put \/ Turned = Put - 1)
      /\ d \in Nat /\ n \in 0 .. LinkIdx /\ Size \in Nat
  <2>1. q \in RingSlots /\ d \in Nat  BY LenProperties DEF RingTypes, CtrlRec
  <2>2. /\ LinkIdx \in Nat /\ RingSlots = 0 .. LinkIdx /\ Size = LinkIdx + 1
        /\ Put \in 0 .. LinkIdx /\ Turned \in 0 .. LinkIdx /\ (Turned = Put \/ Turned = Put - 1)
    BY HolderIs
  <2>3. n \in 0 .. LinkIdx  BY LaidFits
  <2> QED BY <2>1, <2>2, <2>3
<1>2. d <= n /\ Put - d = IF ring.cycBit = ringCtl.ccs THEN q ELSE q - LinkIdx  BY DEF DuesOK
<1>3. \A j \in 0 .. Size - 1 :
        /\ RingAt(j) = IF q + j <= LinkIdx THEN q + j ELSE q + j - LinkIdx - 1
        /\ RingAt(j) \in 0 .. LinkIdx
        /\ Owns(RingAt(j), CcsAt(j)) <=> IF q + j <= LinkIdx
                                         THEN RingAt(j) < Turned <=> ring.cycBit = ringCtl.ccs
                                         ELSE RingAt(j) < Turned <=> ring.cycBit # ringCtl.ccs
  BY RingAtIs
<1>4. \A k : TRBAt(k) = IF q + k - 1 < LinkIdx THEN RingAt(k - 1) ELSE RingAt(k)  BY DEF TRBAt
<1>5. m = IF Turned = Put \/ d = 0 THEN d ELSE d - 1  OBVIOUS
<1> HIDE DEF d, n, q, S
<1>6. m \in Nat /\ m <= d  BY <1>1, <1>5
<1>7. CASE ring.cycBit = ringCtl.ccs
  <2>1. Put - d = q /\ (Turned >= q => m = Turned - q) /\ (Turned < q => m = 0) /\ m <= LinkIdx
    <3>1. Put - d = q  BY <1>2, <1>7
    <3>2. CASE Turned = Put  BY <1>1, <1>5, <3>1, <3>2
    <3>3. CASE Turned # Put /\ d = 0  BY <1>1, <1>5, <3>1, <3>3
    <3>4. CASE Turned # Put /\ d # 0  BY <1>1, <1>5, <3>1, <3>4
    <3> QED BY <3>1, <3>2, <3>3, <3>4
  <2>2. ASSUME NEW j \in 0 .. m - 1 PROVE Owns(RingAt(j), CcsAt(j)) /\ RingAt(j) # LinkIdx
    <3>1. j \in 0 .. Size - 1 /\ q + j < Turned /\ q + j <= LinkIdx /\ q + j # LinkIdx  BY <1>1, <1>6, <2>1
    <3>2. RingAt(j) = q + j  BY <1>3, <3>1
    <3> QED BY <1>3, <1>7, <3>1, <3>2
  <2>3. ~Owns(RingAt(m), CcsAt(m))
    <3>1. m \in 0 .. Size - 1 /\ q + m <= LinkIdx /\ ~(q + m < Turned)  BY <1>1, <1>6, <2>1
    <3>2. RingAt(m) = q + m  BY <1>3, <3>1
    <3> QED BY <1>3, <1>7, <3>1, <3>2
  <2>4. OwnedSlots = 0 .. m - 1
    <3>1. m \in 0 .. Size  BY <1>1, <1>6, <2>1
    <3> QED BY <1>1, <2>2, <2>3, <3>1, OwnedUpTo
  <2>5. S = 0 .. m - 1  BY <2>2, <2>4 DEF S
  <2>6. Cardinality(S) = m
    <3>1. 0 \in Int /\ m - 1 \in Int  BY <1>6
    <3>2. Cardinality(0 .. m - 1) = IF 0 > m - 1 THEN 0 ELSE (m - 1) - 0 + 1  BY <3>1, FS_Interval
    <3> QED BY <1>6, <2>5, <3>2
  <2>7. ASSUME NEW k \in 1 .. m PROVE TRBAt(k) = FlightAt(f, n - d + k)
    <3>1. /\ k - 1 \in 0 .. Size - 1 /\ q + (k - 1) <= LinkIdx /\ q + k - 1 < LinkIdx
          /\ q + (k - 1) = q + k - 1
      BY <1>1, <1>6, <2>1
    <3>2. TRBAt(k) = q + k - 1  BY <1>3, <1>4, <3>1
    <3>3. Put - n + (n - d + k) - 1 = q + k - 1 /\ q + k - 1 >= 0  BY <1>1, <1>6, <2>1
    <3>4. FlightAt(f, n - d + k) = q + k - 1  BY <3>3 DEF FlightAt, SlotAt, n
    <3> QED BY <3>2, <3>4
  <2> QED BY <2>6, <2>7 DEF S, d, n
<1>8. CASE ring.cycBit # ringCtl.ccs
  <2>1. PICK M \in Int : M = m + 1  BY <1>6
  <2>2. /\ Put - d = q - LinkIdx /\ Put <= q /\ Turned <= q /\ m = LinkIdx - q + Turned
        /\ M = Size - q + Turned /\ M \in 0 .. Size
    BY <1>1, <1>2, <1>5, <1>8, <2>1
  <2>3. ASSUME NEW j \in 0 .. M - 1 PROVE Owns(RingAt(j), CcsAt(j)) /\ (RingAt(j) = LinkIdx <=> j = LinkIdx - q)
    <3>1. j \in 0 .. Size - 1  BY <1>1, <2>2
    <3>2. CASE q + j <= LinkIdx
      <4>1. RingAt(j) = q + j  BY <1>3, <3>1, <3>2
      <4>2. ~(q + j < Turned) /\ (q + j = LinkIdx <=> j = LinkIdx - q)  BY <1>1, <2>2, <3>1
      <4> QED BY <1>3, <1>8, <3>1, <3>2, <4>1, <4>2
    <3>3. CASE ~(q + j <= LinkIdx)
      <4>1. RingAt(j) = q + j - LinkIdx - 1  BY <1>3, <3>1, <3>3
      <4>2. q + j - LinkIdx - 1 < Turned /\ j # LinkIdx - q /\ q + j - LinkIdx - 1 # LinkIdx
        BY <1>1, <2>2, <3>1, <3>3
      <4> QED BY <1>3, <1>8, <3>1, <3>3, <4>1, <4>2
    <3> QED BY <3>2, <3>3
  <2>4. M < Size => ~Owns(RingAt(M), CcsAt(M))
    <3> SUFFICES ASSUME M < Size PROVE ~Owns(RingAt(M), CcsAt(M))  OBVIOUS
    <3>1. M \in 0 .. Size - 1 /\ ~(q + M <= LinkIdx) /\ q + M - LinkIdx - 1 = Turned  BY <1>1, <2>2
    <3>2. RingAt(M) = Turned  BY <1>3, <3>1
    <3>3. ~(Turned < Turned)  BY <1>1
    <3> QED BY <1>3, <1>8, <3>1, <3>2, <3>3
  <2>5. OwnedSlots = 0 .. M - 1  BY <1>1, <2>2, <2>3, <2>4, OwnedUpTo
  <2>6. PICK b \in 0 .. M - 1 : b = LinkIdx - q  BY <1>1, <2>2
  <2>7. S = (0 .. M - 1) \ {b}
    <3>1. \A j \in 0 .. M - 1 : RingAt(j) = LinkIdx <=> j = b  BY <2>3, <2>6
    <3> QED BY <2>5, <3>1 DEF S
  <2>8. Cardinality(S) = m
    <3>1. 0 \in Int /\ M - 1 \in Int  BY <2>1
    <3>2. IsFiniteSet(0 .. M - 1) /\ Cardinality(0 .. M - 1) = IF 0 > M - 1 THEN 0 ELSE (M - 1) - 0 + 1
      BY <3>1, FS_Interval
    <3>3. Cardinality((0 .. M - 1) \ {b}) = Cardinality(0 .. M - 1) - 1  BY <3>2, FS_RemoveElement
    <3>4. Cardinality(0 .. M - 1) = m + 1  BY <1>6, <2>1, <3>2
    <3> QED BY <1>6, <2>7, <3>3, <3>4
  <2>9. ASSUME NEW k \in 1 .. m PROVE TRBAt(k) = FlightAt(f, n - d + k)
    <3>1. k \in 0 .. Size - 1 /\ k - 1 \in 0 .. Size - 1 /\ q + (k - 1) = q + k - 1  BY <1>1, <2>2
    <3>2. PICK y \in Int : y = q + k - 1 - LinkIdx  BY <1>1
    <3>3. Put - n + (n - d + k) - 1 = y  BY <1>1, <1>6, <2>2, <3>2
    <3>4. FlightAt(f, n - d + k) = IF y >= 0 THEN y ELSE y + LinkIdx  BY <3>3 DEF FlightAt, SlotAt, n
    <3>5. CASE q + k - 1 < LinkIdx
      <4>1. y < 0 /\ y + LinkIdx = q + k - 1 /\ q + (k - 1) <= LinkIdx  BY <1>1, <3>2, <3>5
      <4>2. TRBAt(k) = q + (k - 1)  BY <1>3, <1>4, <3>1, <3>5, <4>1
      <4> QED BY <3>1, <3>2, <3>4, <4>1, <4>2
    <3>6. CASE ~(q + k - 1 < LinkIdx)
      <4>1. y >= 0 /\ q + k - LinkIdx - 1 = y /\ ~(q + k <= LinkIdx)  BY <1>1, <3>2, <3>6
      <4>2. TRBAt(k) = q + k - LinkIdx - 1  BY <1>3, <1>4, <3>1, <3>6, <4>1
      <4> QED BY <3>4, <4>1, <4>2
    <3> QED BY <3>5, <3>6
  <2> QED BY <2>8, <2>9 DEF S, d, n
<1> QED BY <1>7, <1>8
\* The TRBs the controller owns, apart from the one whose cycle bit is to be set.
LEMMA OwnedDue ==
    ASSUME RingInv
    PROVE  \/ OwnedTRBs = due
           \/ (\E t \in User : ringThd[t].pc = "cyc") /\ OwnedTRBs = Front(due)
<1> DEFINE d == Len(due)
<1>1. RingTypes /\ LockOK /\ CycOK /\ due \in Seq(TRBs) /\ d \in Nat
  BY LenProperties DEF RingInv, RingTypes
<1>2. PICK f \in Seq(TRBs), p \in Seq(Nat) : Laid(f) /\ StoredOK(f) /\ DuesOK(f)  BY DEF RingInv, Flight
<1>3. PICK m \in Nat : m = IF Turned = Put \/ d = 0 THEN d ELSE d - 1
  <2>1. CASE Turned = Put \/ d = 0  BY <1>1, <2>1
  <2>2. CASE ~(Turned = Put \/ d = 0)
    <3>1. d - 1 \in Nat  BY <1>1, <2>2
    <3> QED BY <2>2, <3>1
  <2> QED BY <2>1, <2>2
<1>4. /\ Cardinality({i \in OwnedSlots : RingAt(i) # LinkIdx}) = m
      /\ \A k \in 1 .. m : TRBAt(k) = FlightAt(f, Len(f) - Len(due) + k)
  BY <1>1, <1>2, <1>3, OwnedAre
<1>5. ASSUME NEW k \in 1 .. m
      PROVE  [of |-> ring.trbs[TRBAt(k)].of, i |-> ring.trbs[TRBAt(k)].i] = due[k]
  <2>1. Len(f) \in Nat /\ d <= Len(f) /\ \A l \in 1 .. d : due[l] = f[Len(f) - d + l]
    BY <1>2, LenProperties DEF DuesOK
  <2>2. PICK x \in 1 .. Len(f) : x = Len(f) - d + k  BY <1>1, <1>3, <2>1
  <2>3. k \in 1 .. d  BY <1>1, <1>3
  <2>4. due[k] = f[x] /\ TRBAt(k) = FlightAt(f, x)  BY <1>4, <2>1, <2>2, <2>3
  <2>5. ring.trbs[FlightAt(f, x)].of = f[x].of /\ ring.trbs[FlightAt(f, x)].i = f[x].i
    BY <1>2 DEF StoredOK
  <2>6. f[x] \in TRBs  BY ElementOfSeq
  <2>7. f[x] = [of |-> f[x].of, i |-> f[x].i]  BY <2>6, TRBIs
  <2>8. /\ ring.trbs[TRBAt(k)].of = f[x].of /\ ring.trbs[TRBAt(k)].i = f[x].i
    BY <2>4, <2>5
  <2> QED BY <2>4, <2>7, <2>8
<1>6. OwnedTRBs = [k \in 1 .. m |-> due[k]]  BY <1>4, <1>5 DEF OwnedTRBs
<1>7. CASE m = d
  <2>1. due = [k \in 1 .. d |-> due[k]]  BY <1>1
  <2> QED BY <1>6, <1>7, <2>1
<1>8. CASE m # d
  <2>1. Turned # Put /\ d # 0 /\ m = d - 1  BY <1>3, <1>8
  <2>2. Holder = "cyc"  BY <2>1 DEF Turned, Put
  <2>3. ring.lck \in User /\ ringThd[ring.lck].pc = "cyc"  BY <1>1, <2>2, HolderIs
  <2>4. Front(due) = [k \in 1 .. m |-> due[k]]
    <3>1. Front(due) = SubSeq(due, 1, m)  BY <2>1 DEF Front
    <3>2. 1 \in Int /\ m \in Int /\ 1 - 1 = 0 /\ 1 + m - 1 = m  OBVIOUS
    <3>3. SubSeq(due, 1, m) = [k \in 1 .. m |-> due[k]]
      <4>1. SubSeq(due, 1, m) \in Seq(TRBs) /\ Len(SubSeq(due, 1, m)) = m
        BY <1>1, <1>3, <2>1, SubSeqProperties
      <4>2. \A k \in 1 .. m : SubSeq(due, 1, m)[k] = due[k]  BY <1>1, <2>1
      <4>3. SubSeq(due, 1, m) = [k \in 1 .. m |-> SubSeq(due, 1, m)[k]]  BY <4>1
      <4> QED BY <4>2, <4>3
    <3> QED BY <3>1, <3>3
  <2> QED BY <1>6, <2>3, <2>4
<1> QED BY <1>7, <1>8

\* The controller owns just the TRBs that were inserted and not executed, the
\* driver reads just the events that were posted and not taken, and an event
\* answers the request whose last TRB it reports.
THEOREM RingsKept == RingSpec => []RingsInStep
<1>1. RingInv => RingsInStep
  <2> SUFFICES ASSUME RingInv PROVE RingsInStep  OBVIOUS
  <2>1. ringIntr.pc = "answer" => ringIntr.req = ringIntr.of  BY DEF RingInv, Flight, WaitsOK
  <2> QED BY <2>1, EvesRead, OwnedDue DEF RingsInStep
<1> QED BY <1>1, RingKept, PTL
=============================================================================
