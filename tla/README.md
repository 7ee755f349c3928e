# TLA+ models of the JRMOS kernel

JRMOS is a 64-bit SMP kernel in C (`src/kernel`): one kernel image, kernel
threads only (user mode is not started by this revision), one run queue per CPU,
drivers for NVMe and xHCI that block their threads on requests, buddy and slab
allocators, FAT32 behind a small VFS.  This directory holds TLA+ models of it,
the TLC configurations that check them and proofs for TLAPS.

    tlc -workers 4 -config sche_cross.cfg Scheduler.tla     # model checking
    tlc -workers 4 -config mem_buddy.cfg MCBuddy.tla
    tlc -workers 4 -config resources.cfg MCResources.tla
    tlc -workers 4 -config fs_fat.cfg MCFat.tla
    tlapm SchedulerProof.tla                                # proofs; also SchedulerPlaceProof,
                                                            # BuddyProof, SlabProof, ResourceProof,
                                                            # HardwareProof, FatProof, DataLemmas

## 1. Inventory

Paths are below `src/kernel`.

| Component | State | Operations | Talks to |
|---|---|---|---|
| Thread scheduler `task/schedule.c`, `hal/x86_64/task/*`, `hal/x86_64/interrupt/entry.S` | per CPU: run tree `task_sche_thds`, lists `rdyPreemptThds`, `sleepThds`, `freeThds`, request list `task_sche_reqs`, pause counter `task_sche_msk`; per thread: `state`, `vRuntime`, `reqWait` | `launch`, `wake`, `preempt`, `yield`, `waitReq`, `finishReq`, `pause`/`resume`, `handleReq` (idle thread), tick, `trySche` (interrupt exit) | everything that runs |
| Blocking requests `task/request.c` | `stage` of a request, the caller's `reqWait` | `init`, `send`, `response`, `giveUp` | drivers call `send`, their interrupt handlers `response` |
| Signals `task/signal.c` | bit set, handlers, `workingSignal` of a thread | `send`, `setHandler`, `scan` (interrupt exit), `kill` | xHCI port interrupts, scheduler (`wake`) |
| Thread management `task/mgr.c` | `task_thdCnt`, process' thread lists | `newThd`, `newProc`, `exit`, `freeThd` | scheduler, slab |
| Semaphore `task/semaphore.c` | counter, waiting list | `wait`, `tryWait`, `signal` | scheduler; no caller yet |
| System calls `task/syscall.c` | table | dispatch | - |
| Red-black tree `lib/rbtree.c` | nodes, `root`, `left` | `ins`, `del`, `find`, `getNext` | scheduler, `mm/mgr.c`, FAT32, buffers |
| Lists, spin locks `lib/list.c`, `lib/spinlock.c` | links, lock word | `SafeList_*`, `lockMask` (pauses the CPU's scheduler, leaves interrupts on) | everywhere |
| Buddy allocator `mm/buddy.c` | free lists by order, one bit per pair, descriptor of each page | `allocPages`, `freePages`, `divPageGrp` | slab, page tables |
| Slab `mm/slab.c` | blocks by size, bitmap and counters, record of a process' objects | `kmalloc`, `kfree`, `slab_clear` | buddy |
| Maps `mm/map.c`, `mm/mgr.c`, `hal/x86_64/mm/map.c` | page tables, stack of free tables, regions of a process | `map`, `unmap`, `allocTbl`, `freeTbl`, `mmap`, `munmap` | buddy, slab |
| Interrupt vectors `interrupt/intr.c`, `hardware/pci/intr.c` | bitmap and counters per CPU | `alloc`, `free` | drivers |
| Soft interrupts, timer `softirq/api.c`, `timer/timer.c` | flags per CPU | `alloc`, `send`, `scan` | - |
| NVMe `hardware/nvme` | submission and completion queues, `req[]` by slot | `request`, `tryInsReq`, `msiHandler` | requests, disks |
| xHCI `hardware/usb/xhci` | transfer, command and event rings; devices by port and slot | `request`, `response`, port change, `newDev`, `uninstallDev` | requests, signals, threads |
| HID `hardware/hid`, `hardware/usb/hid` | parse tree of a report descriptor | parse, read reports | xHCI |
| Byte buffer `hardware/buf.c` | ring of bytes, tree of buffers | `push`, `pop`, `getBuf` | - |
| Disks, GPT `hardware/diskdev.c`, `fs/gpt` | disks, partitions | read, write, scan | NVMe, FAT32 |
| FAT32 `fs/fat32` | caches of clusters, FAT sectors, entries; open files | `lookup`, `open`, `read`, `write`, `seek`, `close`, `allocClus` | disks, VFS |
| VFS `fs/vfs`, `fs/api.c` | partitions, open files of a process | `lookup`, `openFile`, ... | FAT32 |
| CPU start `hal/x86_64/cpu`, `hal/x86_64/init`, `cpu/mgr.c` | records of the CPUs, the page and the map they start through, idle threads | `cpu_init`, `enableAP`, `initAP` | scheduler, interrupt vectors |
| APIC, HPET, PCI set-up; screen; libraries | registers | straight-line | - |

What is hard here, and what makes each component correct:

* **Scheduler.**  A thread is moved between five containers with one list node and
  one tree node, by its own CPU's threads, by interrupt handlers that stop them
  anywhere, and by requests of other CPUs that only the idle thread executes.
  Correct: every live thread is in exactly the container its state names; the run
  tree is ordered by the present `vRuntime`; the pause counter is the current
  thread's own; no wake-up is lost; a launched thread runs.
* **Requests.**  `reqWait` is incremented by the waiter and decremented by an
  interrupt on any CPU, in either order.  Correct: the call returns after, and only
  after, the response of its request.
* **Signals.**  Sent from an interrupt handler, delivered on the exit of an
  interrupt of the target's CPU, before the pause counter is looked at.  Correct: a
  signalled thread that sleeps is woken; a handler that does not return (`uninstallDev`)
  keeps no section of its thread open.  The second is not so: see section 3.
* **Locks.**  `SpinLock_lockMask` does not mask interrupts although handlers take
  the same locks.  Correct: no lock is requested by a handler on the CPU that holds it.
* **Buddy, slab, page-table cache, interrupt vectors.**  Correct: what is handed out
  is disjoint, what is returned comes back, counters equal what they count.
* **Rings (NVMe, xHCI, byte buffer).**  Correct: an entry is not overwritten before
  it is completed, a completion finds the request it belongs to, `load` is the number
  of busy entries, doorbells do not go backwards.
* **Device life cycle.**  Plug and unplug race with the requests of the device and
  with each other.  Correct: a port's `portDev` is its present device, a device is
  freed once and not while its ring has requests.
* **CPU start.**  All CPUs pass through one page and one identity map, which the boot CPU
  takes away.  Correct: neither goes while a CPU needs it, one CPU at a time uses the page's
  stack, and no thread is scheduled before each CPU has its idle thread.
* **FAT32 caches.**  Several threads share cached clusters by a use lock and a wait
  counter.  Correct: a node in use is not evicted, one node per cluster, what was
  modified reaches the disk, a lock is released on every path.

Every hazard is listed at its line in `PROJECT.json`, with the property that covers
it or the reason why none does.

## 2. Plan

| Order | Module | Models | Abstract specification | Run |
|---|---|---|---|---|
| 1 (done) | `BlockingRequest` | contract of a blocking request | is one | `sche_cross` |
| 2 (done) | `Scheduler` | scheduler, requests, signals, exit, interrupts | `BlockingRequest` | `sche_*` |
| 3 (done) | `PageAllocator`, `Buddy` | disjoint groups; free lists, pair bits, merging, the stock of page tables | `PageAllocator` | `mem_buddy` |
| 4 (done) | `Slab` | blocks, bitmaps, counters, block return, private objects | - | `resources` |
| 5 (done) | `XhciRing`, `XhciDevice`, `XhciInit` | transfer and event ring; plug to unplug; bring-up | - | `resources` |
| 6 (done) | `Nvme`, `NvmeInit` | queues, doorbells, completions; bring-up | - | `resources`, `nvme_slots` |
| 7 (done) | `FatCache`, `FatFile`, `FatEntry` | the three caches, file pointers, open files and directories | - | `fs_fat`, `fs_seek`, `fs_end` |
| 8 (done) | `MemMap` | regions of a process | - | `resources` |
| 9 (done) | `IntrVec`, `PciMsi` | vectors, MSI and MSI-X set-up | - | `resources` |
| 10 (done) | `RBTree`, `OrderedList` | insertion, deletion, rotation, cached leftmost node | `OrderedList` | `resources` |
| 11 (done) | `HidParser` | parser of report descriptors | - | `resources` |
| 12 (done) | `SmpBoot` | start of the CPUs | - | `resources` |
| 13 (done) | `List`, `DataLemmas` | `List_del`; lemmas about lists, least numbers, powers of two | - | all that use them |
| 14 (done) | `BringUp` | the bring-ups of both controllers beside each other | - | `resources` |
| 15 (done) | `SchedulerProof`, `SchedulerPlaceProof`, `BuddyProof`, `SlabProof`, `FatProof` | proofs about the modules they are named for | `BlockingRequest`, `PageAllocator` | |
| 16 (done) | `ResourceProof`, `HardwareProof` | proofs about `MemMap`, `IntrVec`, `XhciDevice`, `HidParser`; about `SmpBoot`, `BringUp`, `Nvme`, `XhciRing` | - | |
| 17 (open) | proofs | the order of the run tree (section 12) | | |

Planned once and dropped: the semaphore, the byte buffer and the soft interrupts, which
nothing in the tree uses (section 14), and a model of locks against interrupts, which would
have to know for each lock which handlers take it; that a handler can want a lock of the
thread it stopped is a listed hazard.

## 3. `Scheduler`

### State and code

Variables have the names of the code; per-CPU variables are functions on `CPU`,
fields of `task_Thread` functions on `Thread` (a thread is its pid).  What is not a
variable of the code:

* `thds[c]`, `left[c]`: the run tree by its in-order sequence of nodes and its cached
  leftmost node.  `RBTree_ins` finds its place by comparing along a path, so in a
  tree that is sorted there is one place; in a tree whose keys were changed in place
  every gap whose two neighbours compare right is allowed (`Gaps`), the one taken
  being a matter of the shape.  `RBTree_del` works on links and needs no comparison.
* `sleepThds` is a set: nothing depends on the order of that list.
* `hand[c]`: the operation a thread is about to execute under `task_sche_pause`, and
  `irq[c]`: the point an interrupt handler of `c` has reached.
* `ipi[c]`: the schedule interrupt is pending in the local APIC of `c`.
* `pc[t]`: the point of thread `t` in the functions of `task/`.  `run` stands for the
  thread's own code.
* `req[t][k]`: the stage of the request that `t` made in its main code or in its
  signal handler.
* `vRuntime`: all threads have the same priority (nothing sets another), so every
  tick adds the same amount and is counted as 1.

### Atomicity

A thread's action is a piece of code between two points at which what an interrupt
handler or another CPU does could matter: `waitReq` is four actions (increment, test,
state, IPI), `task_exit` three, `finishReq` three (decrement, second read,
preempt), sending a request for another CPU one.  `_launchThd`, `_wakeThd`,
`_preemptThd` run under `task_sche_pause` and are one action each.  An
interrupt handler excludes its CPU's thread, not the other CPUs.

*Sections.*  `SpinLock_lockMask` is `task_sche_pause` and then the lock, with interrupts on.
`Submit` enters the section of a ring's lock so (`_tryInsReq`), `Insert` is what is done under
the lock, `Resume` the pause's end.  An interrupt in between delivers signals, because
`hal_intr_retFromIntr` scans them before it tests `task_sche_msk` (`entry.S:59`), and a handler
that never returns then keeps the section for ever: `msk` stays above 0, and the CPU runs that
thread and no other (`Cut`).  The same holds of each section between `task_sche_pause` and
`task_sche_resume` (`Paused`), and of the other sections of `SpinLock_lockMask` (slab, lists,
NVMe), which are of the same kind and are not modelled.  What is not modelled either is the lock word: a handler whose
request wants the lock that the section under it holds would spin for ever
(hazard `lib/spinlock.c:5`), as would an interrupt handler that takes it.

| Action | Code |
|---|---|
| `Launch`, `Operate`, `Resume` | `task_newThd` and `task_sche_launch`; the operation under pause; `task_sche_resume` |
| `Submit`, `Insert` | `hw_*_request`: the pause of the ring's lock; the request goes into the ring, or there is no room |
| `WaitReqInc`, `WaitReqYield`, `SendIpi`, `WaitReqReturn` | `task_Request_send` and `task_sche_waitReq` |
| `Yield` | `task_sche_yield` in a driver's retry loop |
| `Exit`, `ExitResume`, `ExitYield` | `task_exit` |
| `SetHandler`, `GiveUp` | a device manager: `hw_usb_xhci_devMgrTsk`, `uninstallDev` |
| `TakeReq`, `StartReap`, `Reap`, `EndReap` | the idle thread: `task_sche_handleReq`, `hlt` |
| `TimerIntr`, `ScheIntr` | HPET interrupt, schedule IPI: `task_sche_updCurThdState` |
| `RespIntr`, `FinishReqTest`, `IntrOp` | completion interrupt: `task_Request_response`, `task_sche_finishReq` |
| `ConnectIntr`, `DisconnectIntr` | xHCI port change: `portConnect`, `portDisconnect` |
| `RunHandler`, `Restore`, `TrySche` | `hal_intr_retFromIntr`: signals, then the switch |

### Properties

| Property | Says | Hazard |
|---|---|---|
| `TypeOK` | types; no state word or handler point that the code does not know | `schedule.c:72` |
| `OnePlace` | each live thread is current, in the run tree, on the preempt list, asleep or to be freed exactly as its state says, once | `schedule.c:108` |
| `TreeSorted` | the run tree is ordered by the present `vRuntime`, `left` is its first node | `schedule.c:89` |
| `NoLostWakeup` | a sleeping thread waits for a response or its preempt is under way | `schedule.c:34` |
| `NoLostSignal` | the same for a pending signal | `signal.c:14` |
| `PauseCounts` | the pause counter counts the sections of the current thread: the one it is in, and one that its handler was entered in and that has no end; no thread is switched away from either | `mgr.c:101` |
| `BlockingSafety` | refinement: the call of a thread that gets no signal returns after its response | `schedule.c:28` |
| `BlockingSpec` | ... and does return, under fairness | `schedule.c:28`, `:34`, `:136` |
| `LaunchedRuns` | a launched thread runs, under fairness | `schedule.c:136` |

### Runs

| Run | CPUs, threads | What it shows |
|---|---|---|
| `sche_cross` | 2, 3; a device manager on CPU 0, interrupts on CPU 1 | the handler launches the manager on the other CPU, responses are taken there: launch, preempts and wake-ups pass through the request list and the idle thread of CPU 0; safety and liveness; 88 000 states |
| `sche_local` | 1, 3 | ticks, yields, exits, preempts of threads that share a tree; 355 000 states |
| `sche_signal` | 2, 3; one device manager, unplugged | connect, responses, disconnect on one CPU, the manager on the other, in its sections too; 1.2 million states |
| `sche_exit` | 1, 3 | **violated**: `task_exit` is undone (finding 1) |
| `sche_strand` | 1, 4; one device manager | **violated**: run tree without leftmost node (finding 2) |
| `sche_reply` | 1, 2; one device manager | **violated**: a late response ends another request's wait (finding 3) |

`sche_local` has no device manager on purpose: with a signal the tree loses its order
(finding 2), so that `TreeSorted` holds for a CPU whose threads get no signals.  `sche_cross` has a manager that is
not unplugged (`Unplug` is empty): with a signal that cuts a section the CPU runs one thread only,
so that neither the liveness properties nor the contract of a request hold there.

### Bounds, and why they are enough

* `NCpu` 1 and 2.  CPUs interact pairwise (sender and owner of a request list).
* `NThd` 3 or 4, of which `NCpu` are idle threads.  Three nodes suffice for a tree
  whose leftmost node, neighbours and gaps differ; four are needed for finding 2.
* `VWindow` (1 to 3; 1 with liveness, where all states must fit).  Only differences of `vRuntime` within a CPU are compared, so
  values slide; a thread `VWindow` or more ticks behind counts as `VWindow` behind,
  which is behind all the same.  With three threads three ticks tell apart all orders
  with ties.
* `ReqMax` (1 or 2).  The code has no limit; the bound keeps interrupts away while a
  list is full.  Two requests of one CPU can be of one thread or of two.
* A device is plugged in once and unplugged at most once (`Unplug`: those that are), and a thread has one request at a
  time in its main code and one in its handler, as all drivers do.

### Fairness

`Spec` assumes: a handler that has started ends (`WF` of `IrqStep`); the timer and a
pending IPI are taken again and again (`SF`: the local APIC keeps the request while
interrupts are masked); a current thread that is again and again able to take its
next step takes it (`SF`: interrupts leave time for instructions; it is disabled only
while a handler runs or another thread is current).  A thread need not submit, yield,
launch or exit, and a device need not answer.  All follow from hardware, none from the
scheduler: that a thread becomes current again is what is checked.

## 4. `Buddy`

The page allocator (`mm/buddy.c`, `mm_divPageGrp` of `mm/mm.c`) with the client that
also divides groups itself, the stock of page tables (`mm/map.c`).

| Model | Code |
|---|---|
| `page[p]` | descriptor `mm_Page`: `ord`, `buddyId`, three bits of `attr` |
| `revBit` | `_buddy.revBit`; the set of `<<order, number>>` whose bit is 1 |
| `freeLst[o]` | `_buddy.freeLst[o]`, in the list's order: division appends, freeing prepends, allocation takes the first |
| `tblGrpCache`, `nrTbl` | the stack `_tblGrpCache[0 .. _nrTblGrp - 1]` and the tables in it |
| `held`, `tables`, `mine[c]` | what callers have; what CPU `c` has taken and not yet marked |
| `hung[l]` | the CPU that is in `while (1)` with lock `l` |
| `Alloc`, `AllocHang`, `Mark` | `mm_allocPages` up to its unlock; its `Fail` path; `attr` after the unlock (also `map.c:60`) |
| `Free` | `mm_freePages` |
| `AllocTbl`, `AllocTblHang`, `FreeTbl` | `mm_map_allocTbl` with `_initCache`, `mm_map_freeTbl` |

*Atomicity.*  A section under `_buddyLck` or `_cacheLck`, interrupts masked, is one
step.  `_initCache` nests the two locks; the rest of `mm_map_allocTbl` touches only
groups of the stock, which no other CPU can reach while `_cacheLck` is held, so the
nested sections are one step too.  `mm_map_freeTbl` calls `mm_freePages` after its
unlock: the table is then a held group, freed by a later `Free`.  A caller frees
what it holds, once, after `mm_allocPages` has returned.

| Property | Says |
|---|---|
| `Partition` | every page is in one group, and the group in one place: no page is lost or has two owners |
| `PairBits` | a pair's bit is set exactly when one half is on the free list of its order, and never are both |
| `Coalesced` | a block without pages in use lies in one free group: an allocation hangs only when no block of its size is free |
| `Accounts` | `totUsage` and `_nrTbl` equal what they count; the stock respects its limit |
| `Allocates` | refinement of `PageAllocator`: aligned, disjoint groups that keep their order until freed |

*Bounds* (`mem_buddy`, 185 000 states).  Two CPUs.  Zones of 4 and 2 pages that
touch: one group has order 2, the other order 1, so groups are divided twice and merged
up again, and the border shows that groups of different zones do not merge.  `MaxOrd` is 3, above both, so that
`mm_buddy_init` has to shrink a group to its zone.  Requests of orders 0, 1, 2 and 4
(too large).  The constants are as general as the code: any finite set of zones that do not
overlap (`ZoneAssumption`), a stock of groups no larger than the largest order
(`OrderAssumption`), and at boot one group from which the stock can be filled
(`BootAssumption`; without it `mm_map_init` would hang).  The stock holds two tables, so it is emptied, refilled, and full with
tables still outside.  The two CPUs are symmetric; no liveness is checked.  The
system really stops when a lock is never released, so deadlock is not checked.

## 5. Running several modules at once

The parts of sections 6 to 11 do not share state with each other, except as named there.
`MCResources` and `MCFat` check each of them for itself in one run: a variable `part`
is chosen at the start and says which module makes the steps; the variables of the others
keep their initial value.  The state space is the sum, not the product, of the parts', and
a property speaks about its own part.  `MCResources` extends `Slab`, `MemMap`, `SmpBoot`, `IntrVec`,
`XhciRing`, `XhciDevice`, `HidParser`, `Nvme` and `BringUp`, and `MCFat` extends `FatCache`, `FatFile` and
`FatEntry`, so that these runs check the very definitions that
the theorems of section 12 are about; the other parts are instances.  None of the parts assumes fairness and none has a
liveness property: what they wait for (a device, a user) need not come.  Deadlock is not
checked in either run, as most parts may stop: a hung allocator, a bring-up that has ended,
devices that have all been used.

## 6. Memory: `Slab`, `MemMap`

| Model | Code |
|---|---|
| `heap` | `_slab[]` and its blocks: page, columns, bitmap, two counters each; the list of a class in its order |
| `heap.blk[p].struct` | for a large block the object that holds its `SlabBlk`; a small block keeps it in its own page |
| `slabRecord` | the process' tree of private objects, each with its record (itself an object) |
| `op[t]` | the point of a thread between the locks of `mm_kmalloc` and `mm_kfree` |
| `AllocShared`, `FreeShared` | `_kmalloc`, `_kfree` with the nested calls, under `_SlabLck` |
| `AllocPrivate`, `AllocRecord`, `InsRecord` | a private `mm_kmalloc`: object, record, insertion |
| `Walk`, `Missed`, `DelRecord`, `FreeRecord`, `FreeObject` | a private `mm_kfree`: `_delRecord` walks the tree without its lock |
| `StartClear`, `ClearObject`, `ClearRecord` | `mm_slab_clear` |
| `Hang` | `mm_allocPages` without memory, called under `_SlabLck` |

`Counters`: the counters of classes and blocks equal what the bitmaps hold (a class whose
counter is too high would send `_kmalloc` into its endless loop).  `Owned`: every column in
use has one owner, also the blocks' own structures and what a missed walk leaves behind.
`OneSpare`: at most one empty block of a class stays.

*Bounds.*  Two threads.  Two classes stand for sixteen because the code has two forms of
blocks.  Four pages: the two of boot, and two more, so that a large block that finds no
small column takes two pages and the next one hangs.  Two columns in a block of boot and in
a large one, one in a small one (its structure takes the room of the other), make every
allocation reach the edge of a block; three large and two private objects with their
records fill all of them.  That a freed column is used through an old pointer is not modelled, and
callers free what they own, once.  One caller does not: `io.c:99` frees the address of a local variable (section 13).

`MemMap` is `mm_mmap` (its search from a hint, upwards through the ends of the regions),
`mm_munmap` and `mm_mgr_free` over a set of regions; the tree they are in is checked in
`RBTree`.  `Disjoint`: regions do not overlap, lie below the end, and a request gets the
first gap from its hint on.  Five pages, sizes 1 to 3, large pages of 2: three regions with
gaps between them, alignments that skip a page.

## 7. `RBTree`

`lib/rbtree.c` link by link: parent, children, colour, root and the cached leftmost node;
`Insert` and `Delete` are whole calls, since every tree is changed under a lock.  The two
mirror images of each case in the code are one case with a direction.  `Balanced` (colours,
black heights, parent links), `FindsGreatest` (what the `find` of the macros returns) and
`IsOrderedList`, the refinement of `OrderedList`: the in-order sequence of the tree changes
by exactly the node inserted, behind its equals, or deleted, and `left` is its first node.
`Scheduler` (`Gaps`) and `FatEntry` use trees whose order is *not* sound and do not rely on it.

*Bounds.*  Six nodes: the smallest number with which deletion meets a red sibling and a
red far and near child; two keys give ties and insertions at the front, in the middle and at
the end, and deletions between them the other shapes.

## 8. Interrupt vectors: `IntrVec`, `PciMsi`

`IntrVec`: `intr_alloc` for drivers that `hw_pci_chk` sets up one after the other, in any
order: MSI asks for a run of vectors, MSI-X for one after the other and undoes them when
one is missing.  `VecAssumption` says that there is a CPU, that the usable vectors lie below
`Top`, and that each driver asks for one or more.
`VectorOwned`: masks, counters and owners agree, and an interrupt of a driver that is set
up reaches that driver's descriptor.  Two CPUs with four vectors, drivers that ask for 2, 4,
4 and 2: one must fail and give back vectors of both CPUs, which a later one gets with the
failed one's descriptors still in the handler tables.  `PciMsi` has two operators, what
the capability is programmed with and what the device makes of it; `setVecNum` writes the
place of the lowest bit that is set, so that three vectors become one.

## 9. Drivers

**`Nvme`** (`nvme/api.c`, the handler in `init.c`).  A submission queue with tail, head,
`load` and the request of each slot; a completion queue with position and phase; threads
from `_getSpareReq` to `_releaseReq`; the controller, which fetches in order and completes in
any.  Locked sections are one action; what the code reads and writes outside of locks (the
doorbell of the tail, the bitmap of requests, the loads of queues) is two.
`PhaseInStep`: what the handler will read by its phase is what was posted and not taken, on
every lap.  `AnswersOwn`, in `nvme_slots`: violated (finding 5).
*Bounds.*  Two threads and two requests; queues of 2 and 3 in `resources`, so that two completions
are posted and unread, in either order, and one doorbell returns both; 3 and 4 in `nvme_slots`: the smallest in which the head passes a running
command and comes back to it.

**`NvmeInit`, `XhciInit`** (`init.c` of both).  The steps of the bring-up with the failure of
each, in `BringUp` the two beside each other, over CPUs 1 to 5, 1, 2 or 4 interrupters and vectors, and the kind of messages.  `Armed`: while the controller
runs, every queue or interrupter the driver may use exists, has its ring and a vector
with a descriptor.  It says so of MSI only for powers of two, as the definition of the
capability asks and the code does not test (section 8), and of NVMe only with two vectors.

**`XhciRing`** (`xhci/api.c`, `mgr.c`).  A ring whose last entry is the link, its lock, load,
and requests by entry; the copy of a TRB and the store of its cycle bit are two actions, as
the input's cycle bit gives the entry to the controller early on every second lap.
The controller executes what its cycle bit owns; the event ring has two segments.
`RingsInStep`: what the controller owns is what was inserted and not executed, what the
handler will read is what was posted, and an event answers its own request.
*Bounds.*  Requests of one and of two TRBs, a ring of three entries and the link, so a
request crosses the link; an event ring of 2 x 2, so its segments change at other times.
*Assumption.*  `RingAssumption`: the requests of all threads together leave the link entry out.  A
thread waits in `task_Request_send` before it makes another request, and a ring has 2048 entries or
more, so the few threads that share one stay far below it; the code's own test, `load + inputSz > size` (`xhci/api.c:120`), counts the link
entry as room and would not keep a fuller ring right.  Requests that are given up and stay in the
ring (finding 3) are not part of this module.

**`XhciDevice`** (`mgr.c`, `init.c`, `hid/init.c` of usb).  A port with its events, the handler
that makes devices and signals them, their manager threads (`devInit`, the HID driver's
requests, `uninstallDev`), the controller that answers or refuses each command.
`PortDevLive`: a port never has a device that was freed, although the manager may fail and
free it before the handler has stored it.  `SlotsReturned`: an enabled slot belongs to a
living device or is about to be disabled.
*Bounds.*  Two devices in turn on one port with one slot, two plugs, two events that wait: a second device
meets the remains of the first.  `Desc` and `Input` each stand for a series of like requests.
Two outcomes of the code end a behaviour (`down`): a signal or a transfer event that
follows the pointer of a freed device.  `DevAssumption` only says that NULL is no device and no slot.

**`HidParser`** (`hid/parse.c`).  Items of a report descriptor as actions; the stack, the
collections, the reports with the fields they get; a refused item deletes the parser, and
the next device at the address goes on with one that was not deleted.  `FieldsApart`:
fields of a report share no bit, lie within its size, and have a usage for each value.
Four items for each of two devices: size, count, usage and field, then the same again; all limits of
the parser are 1 or 2 and are reached.

## 10. The start of the CPUs: `SmpBoot`

From the MADT, which is read entry by entry, to the launch of the first thread.  `bsp` is the step `hal_init_init` is at on
the CPU that boots, `ap[a]` where the CPU with APIC id `a` is: without INIT, waiting for the
start-up message, in the trampoline (`low`), in `head.S` (`head`), in `hal_init_initAP`.  A
step of another CPU takes any time; one that never starts leaves the boot CPU in its wait
without a limit, as in the code.  `BootOrder`: while a CPU is in the trampoline it is the only
one and the page is there; the identity map outlasts all of them; pids of idle threads and
task registers are distinct, although `task_initIdleThd` reads and increments `task_thdCnt`
in two steps; scheduling starts when each CPU has its idle thread; the first thread has a
pid of its own and a CPU that runs.  All of it rests on the wait for `cpu_state`.

*Bounds.*  Up to four CPUs, the boot CPU in any place of the table or not in it or not to be
enabled.  Tables of type 0 only: see section 13 for those of type 9.  `BootAssumption` says that
a table lists no processor twice, as the ACPI specification has it and the code relies on.

## 11. FAT32: `FatCache`, `FatFile`, `FatEntry`

`FatCache` is the cluster cache of `fs/fat32/io.c`, with its two limits as constants
(`CacheAssumption`: at least one modification is allowed before a write).  A hit or miss is one action under the
lock of the tree; the use lock is taken after it (`Use`), the waiting counter is lowered
under it (`StopWaiting`), and `Release` is the whole of `fs_fat32_releaseClusCacheNd`.  `CacheShared`: a
node somebody uses or waits for is not evicted, a cluster has one node, one thread uses
it.  `CacheBounded`: the cache keeps its size although its counter never falls, and what
differs from the disk has modifications that lead to a write.  Three threads, three clusters, four nodes,
one free node: one uses, one waits, one evicts.

`FatFile` is `read`, `write` and `seek` of open files, as the loops over clusters that they
are, with the cached sectors of the FAT and `allocClus`.  The file's lock is held for a
whole call, so only the FAT is shared.

*Behind the end of a chain.*  `_jmpToPtr` keeps a cluster in an `int`, so the end of a chain becomes
-1 in the `u64` of the file (`Lost`), which is not the `~0u` that the tests look for: not in
`FileAPI_read`, not in `getClusCacheNd` (`io.c:33`).  The file goes on with it: a read or write
makes a node of sectors three clusters in front of the first data cluster, a write changes them,
`getNxtClus`, whose parameter is a `u32`, sees the end again, and an allocation stores its cluster as the
entry of `0xffffffff`.  The model follows all of this:

* `Under` are the sectors of FAT1 that lie there, any set of them but the first, which is `{}` when a second FAT lies between.
  Such a sector on the disk gets any content of `Data` when a cluster of `Outer` (0, 1 or
  -1) is released (`Stray`): its old one, which may be older than the cache, or a file's bytes.
* `Far` is the one sector that stands for all behind the FAT.  It may be behind the end of the disk, so that
  `_crtFatCache` fails, or is read as any `Data`, and then is a sector of `fatTr` like any
  other, from which `allocClus` may give a number that is no cluster.  A cluster there is a null node (`Fault`), which ends the file's behaviour.
* That sector 0 is not in `Under` says that FAT1 is longer than the three clusters in front of the data area,
  or has another FAT behind it; a disk that is smaller is not modelled.

`FatCoherent`: cache and disk together have every entry that was stored, of the sectors that are not `Under`, through any
evictions and whatever goes on behind chains.  `AllocOnce`: a cluster is given to one
file only, until a scan of the disk has stopped the FAT; also said of the sectors that are not `Under`.  `AtPtr`, in `fs_seek`, and
`LeadsToEnd`, in `fs_end`: violated (findings 4 and 6).  *Bounds.*  Two files that grow, three sectors of five entries of which the
cache holds two and has to evict, one of them `Under`; one free cluster, and one more in what `Data` looks like; a file of one cluster and
one of two, of two bytes each, with pointers up to 5: reads behind the ends of both chains, allocations after them.
`fs_seek` and `fs_end` have a file of three clusters and one of one.

`FatEntry` is path lookup, opening, reading of directories, closing and the end of a
process, as they count the entries' references.  Any thread may use an open directory, as the threads of a process may,
under the lock each has.  `DirAPI_nxt` is its steps: with the lock the entry of the call before is released
(`DirNxt`), the next name is found and the lock given back (`DirUnlock`), its entry is found or made and the lock given back once more, whoever has it
(`DirNxtEnt`, `api.c:711`), and `curEnt` is stored without it (`DirStore`, `api.c:716`).
At the end of the directory the call returns with the lock (`DirNxtEnd`).  `held` is the entry whose reference
the directory has; `curEnt` still names it after its release.  A slot is closed, or its process ends, when no call of it goes on.

`EntryLive`: `ref` is the number of
holders, an entry somebody holds is in memory and off the free list.  `LookupMiss` may miss
what is cached, because the comparison of entries compares one with itself
(`fat32/init.c:70`).  Three things break the counts, and a behaviour ends with the first of them (`miscount`), because what
follows is the use of freed memory: the root's unlocked increment (two actions) loses an update; a second call of `nxt`
between the first one's unlock and its store releases `curEnt` again; or it stores over an entry that still has its reference.  That nothing
else does is the property.  Two threads, a directory, a file in the root and
one in the directory, five nodes, one open file or directory: walks of two steps that meet, calls of `nxt` that overlap, entries
that are evicted and made again.

### Runs of sections 6 to 11

| Run | States | What it shows |
|---|---|---|
| `resources` | 1.6 million | eleven parts one at a time: slab, tree, regions, vectors, HID parser, NVMe queue, xHCI ring, xHCI devices, both bring-ups, CPU start |
| `fs_fat` | 576 000 | cluster cache, two files on one FAT and behind their chains, entries |
| `fs_seek` | | **violated**: a seek leaves a file at a wrong cluster (finding 4) |
| `fs_end` | | **violated**: a read behind the chain does not see its end (finding 6) |
| `nvme_slots` | | **violated**: a completion answers another request (finding 5) |

Both use symmetry of their model values only where no property or `CHOOSE` tells them apart.

## 12. Proofs

Every theorem is about the specification of a module of this project, for every value of the
constants that its named assumptions allow.  A safety proof has the same three parts everywhere: an
inductive invariant that holds initially, that each action keeps (one lemma or step per action),
and that implies the property; the last step combines them with `PTL`.  Each invariant was first
checked by TLC on a small instance.

| Module | Theorem | States | Inductive invariant |
|---|---|---|---|
| `SchedulerProof` | `TypeCorrect` | `TypeOK` | itself |
| | `RequestBalance` | `RequestInv` | itself, with `TypeOK`, `HandlerInv` |
| | `ImplementsBlocking` | `BlockingSafety` (refinement of `BlockingRequest`) | the two above |
| `SchedulerPlaceProof` | `PausesBalanced` | `PauseCounts` | `PauseInv`, with `LocalInv`, `SignalInv` |
| | `ThreadsInOnePlace` | `OnePlace` | `PlaceInv` and the above |
| | `WakeupsArrive`, `SignalsArrive` | `NoLostWakeup`, `NoLostSignal` | `WakeInv` and all the above |
| `BuddyProof` | `BuddyTypes`, `EveryPageOnce`, `BitsTell`, `FreeIsCoalesced`, `CountersCount` | `TypeOK`, `Partition`, `PairBits`, `Coalesced`, `Accounts` | `BuddyInv` |
| | `AllocatesAlways` | `Allocates` (refinement of `PageAllocator`) | `BuddyInv` |
| `SlabProof` | `SlabTyped`, `CountersAgree`, `ColumnsOwned`, `HoardsOne` | `SlabTypeOK`, `Counters`, `Owned`, `OneSpare` | `SlabInv` |
| `ResourceProof` | `MapTypes`, `MapsDisjoint` | `TypeOK`, `Disjoint` | `MapInv` |
| | `VectorTypes`, `VectorsOwned` | `IntrTypeOK`, `VectorOwned` | `VecInv` |
| | `DevicesTyped`, `PortHasLiveDevice`, `SlotsComeBack` | `DevTypeOK`, `PortDevLive`, `SlotsReturned` | `DevInv` |
| | `HidTyped`, `FieldsStayApart` | `HidTypeOK`, `FieldsApart` | `ParserInv` |
| `HardwareProof` | `QueuesTyped`, `CompletionsInStep` | `IOTypeOK`, `PhaseInStep` | `IOInv` |
| | `BootInOrder` | `BootOrder` | `BootInv` |
| | `RingTyped`, `RingsKept` | `RingTypeOK`, `RingsInStep` | `RingInv` |
| | `BringUpTyped`, `ControllersArmed` | `UpTypeOK`, `Armed` | `XInv`, `NInv` |
| `FatProof` | `CacheTyped`, `NodesShared`, `NodesBounded` | `TypeOK`, `CacheShared`, `CacheBounded` | `CacheInv` |
| | `FatNeverStale`, `ClustersGivenOnce` | `FatCoherent`, `AllocOnce` | `FileInv` |
| | `EntriesTyped`, `EntriesLive` | `EntTypeOK`, `EntryLive` | `EntInv` |

`DataLemmas` has what the proofs share and no theorem of its own: elements and order of lists after
`Append`, `Tail`, `List_del` and a new head; the least and the greatest number of a set; products;
powers of two (that `2^n` is positive, doubles, adds up, and when an address is aligned).

### The scheduler

* `RequestInv`.  For a thread outside of a handler, `reqWait` is 1 if its request is counted, minus
  1 if it is answered; `answered` occurs only from `Submit` to `WaitReqReturn`.  It is needed because
  the refinement alone is not inductive: that `reqWait <= 0` means *answered* in `WaitReqReturn`
  depends on the two possible orders of increment and decrement.  `HandlerInv`: a thread whose
  device is not unplugged gets no signal, hence is never inside a handler.
* A step either leaves everything a request depends on alone (`Quiet`) or is one of six actions
  (`QuietOrRequest`), which keeps the case analysis of both proofs in one place.  Each step is then a
  `Send`, `Answer` or `Return` of `BlockingRequest`, or changes no phase.
* `LocalInv`: what is current, queued, in hand or sent to a CPU is that CPU's own, so that a step of
  one CPU disturbs no other.  `SignalInv`: where handlers run, and
  that a device manager executes no operation and reaps nothing, so that the sections a signal can cut are
  those of requests.  `PauseInv` adds to `PauseCounts` that an
  operation is in hand exactly while the current thread is about to do it.
* `PlaceInv` says for each thread which place its state names (`Placed`), that it is launched at most
  once (`LaunchOnce`) and what holds of it before that (`Fresh`); for each queue, that nothing is in
  it twice.  `OnePlace` follows, but is not inductive: it does not say *where* a thread of a given
  state is, nor that no second launch or wake-up of it is still under way between two CPUs.
* `WakeInv`: a thread sleeps only inside its call (`AsleepInv`).  The completion that finds it hanging
  leaves a wake-up under way (`Pending`) to the CPU that holds it, in a queue or in hand, and a
  `NeedPreempt` is never overwritten; this needs `RequestInv` (the counter tells whether the answer
  came) and `PlaceInv` (the thread is where the wake-up looks).

### Memory

* `BuddyInv` says that memory, as the descriptors, lists, bits and counters have it, is `Good` for what
  is held, and that the CPUs' locals have their types.  `Good` is stated for *a* memory, not only for
  the current one: `mm_allocPages`, `mm_freePages` and the stock are compositions of splits and
  merges, each of which maps a good memory to a good one (a lemma each), so that a loop of merges
  is handled by the invariant of the loop.  It contains, beyond the properties, that the heads of
  groups are aligned to their order within their zone (`Nodes`), that a list of order `o` holds
  exactly the free groups of that order, once (`Lists`), and that `revBit` is the exclusive or of the
  two halves (`Bits`), from which `mm_freePages` learns that the buddy is free without looking.
* `Allocates`: an action maps to `Alloc`, `Free` or a stutter of `PageAllocator`; the freshness and
  alignment that the abstract allocator asks for come from `Nodes`.
* `SlabInv` says that the heap is `Good`, again stated for *a* heap, since `Kmalloc` and `Kfree` of a
  large class call themselves for the structure of a block: a page is in one list of one class or
  free (`Lists`; while a new block waits for its structure its page is in neither, the second
  parameter of `Good`), the counters count (`Counted`), two blocks of a class are not both empty
  (`Lone`), and a structure is a used column of a small block, of one large block (`Linked`).  What is
  in use and no structure (`Given`) is divided among shared objects, private objects, their records
  and what threads and `mm_slab_clear` are about to give back (`Parted`), which is more than `Owned`
  says: the parts are disjoint sets.  That one thread frees an object while another
  walks past it, or that a walk is overtaken, needs `Apart` and `OpsOK` (a thread that only walks has
  nothing yet).  `Counters` was written as a sum over blocks at first; as the number of columns
  of all blocks of a class it means the same and needs no induction: a block adds and takes
  away a set of columns, and that a positive `freeCnt` leads `_kmalloc` to a block is
  that a set which is not empty has an element.  `Lone` is kept because `_kfree` returns an empty
  block once `freeCnt >= colCnt * 3 / 2`: were another one empty, the class would have the columns of both free, and the
  other one has at least half as many as this one, since a block of boot has at most twice the
  columns of the others.
* `MapInv` is `Disjoint` with the results' types: the region `mm_mmap` chooses begins at the user's
  start or at the end of a region and fits before the next; `FirstFit` is proved of the search
  once, for every set of regions that are apart.

### Devices

* `VecInv`: besides `VectorOwned`, at which call each driver is (`StageOf`), that the vectors a CPU
  counts are those of the descriptors (`Counted`), and that an interrupt reaches a descriptor only
  when its entry was stored (`Reached`), which is not the case between two entries of a table.
* `DevInv`: per device, its `First` event, what is true `Later` and its `Life` (freed only by its own
  manager, after its slot was given up); the slot table and the port point to each other's device
  (`SlotOf`, `PortOf`); and `Owner`, the device that answers for a slot is the one in `host->dev`.
  `SlotsReturned` alone says that *some* device has the slot, which a manager that fails for another
  device of the same number would break.
* `BootInv`: the list of CPUs as far as the table is read (`ListInv`), how far each CPU that was sent
  the message may be (`StartInv`), which maps exist (`ShareInv`), and that the pid counter is above
  all pids but the one that is taken and not counted yet (`PidInv`).

### FAT32

* `CacheInv`: who has passed the use lock holds it and `waitCnt` counts the others (`UserInv`); the free
  list is exactly the nodes without users (`FreeInv`); modifications are counted below the limit
  (`ModiInv`).  That the evicted node is nobody's depends on both: it is the head of a list to which
  the released node was just added.

* `FileInv`: of the cached FAT, that cache and disk together are the FAT as it was written
  (`FatOK`), which holds for every eviction because a sector is written back before its place is
  given away, and for what goes on behind chains because that touches sectors of `Under` on the disk alone; and of the
  clusters, that none in use has
  a free entry as long as the FAT is not left locked (`NoneFree`), which is what an allocation looks at.
  `AllocOnce` is not inductive without it: it says nothing of what the scan will find free.  Nothing is assumed of where a file's
  cluster and pointer are: a file that left its chain may have any cluster.
* `EntInv`: which entries a thread holds at each of its points (`WalkOf`, `SlotOf`), that the
  directory that is being read stays open (`ReadsOf`), and that only a call of `nxt` that goes on has given `curEnt` back and left it there
  (`InCall`), which is why the destructor does not release it twice.  `EntryLive` speaks of the number of
  holders, a cardinality: one thread or one slot changes at a time, and what it had and has is
  counted by lemmas that are stated once (`ThdHas`, `SlotHas`), so that each action is a gain or a
  loss of one entry (`Gains`, `Loses`), or neither.

### The HID parser

`ParserInv`: types, `AllLaid` and `ColInv`.  `AllLaid` is `FieldsApart` of every report at every point of
the parser, also of those that a parser which outlived its device still has; `ColInv` (an open
collection is in the array, the array is not longer than what was allocated) is what the doubling
of `_collection` keeps.

### NVMe, xHCI rings and the bring-ups

* `IOInv`: what a thread has read outside of the lock belongs to a queue and a request that exist
  (`Reads`), and `QueInStep` for each completion queue: the entries from the handler's position to
  the controller's tail are the posted ones, each with the phase of its lap; all others have the
  opposite one; and the posted entries together with those taken since the last doorbell are fewer than
  the queue has entries.  `PhaseInStep` says nothing of the entries behind the unread ones, which the
  handler will meet on the next lap, nor of the room that the doorbell has not returned yet.
* `RingInv`: the code counts TRBs (`load`) and keeps no order of requests, so the invariant says that
  there *is* a list of the TRBs in flight, from the oldest that is not answered to the last one inserted,
  which explains ring and counter.  No TRB is in it twice and those of a request are together, in
  order (`Laid`), so it is not longer than all requests and never reaches the link entry; it lies
  in the entries behind the one to be written, each with its request stored but perhaps the newest,
  and `load` is its length and what its holder of the lock has yet to insert (`StoredOK`); its last part is what
  was not executed (`DuesOK`), and the last TRBs of the requests in the other part are, in order, what
  events are posted or taken of (`EndsOK`); a thread's `reqWait` follows from whether it has a TRB in it or an answer
  under way (`WaitsOK`).  `CycOK` and `EvesOK` give the cycle bit of every entry of both rings,
  as the controller and the handler will read it on this lap and the next.  That an event answers its own request although
  it is looked up by entry is then that entries in flight differ (`SlotsDiffer`) and
  that the handler takes the lock, before which the newest request is stored.
* `XInv`, `NInv`: for each step, what is counted, allocated and programmed by then.  The number that
  the vectors leave is not the one the queues were allocated for; that it is not larger, and that
  the capability (`Programmed`) is told no more than a power of two below it, gives `Armed`.

### Assumptions

`CpuAssumption`, `ThreadAssumption`, `BoundAssumption` (at least one CPU and one thread that is not an
idle thread; bounds positive); `ZoneAssumption`, `OrderAssumption` and `BootAssumption` of `Buddy`
(section 4); `SlabAssumption` (pages are finitely many, the two classes begin with a block each, and a
block of boot has at least as many columns as another one and at most twice as many: the structure at
the end of a small block's page takes less than a hundredth of it); `MemMapAssumption` (sizes are positive); `VecAssumption`, `DevAssumption`; `BootAssumption` of
`SmpBoot` (section 10: no processor twice in the table); `CacheAssumption`; `FatAssumption` (sizes
positive, `End` is no other number, the first sector of the FAT does not lie under a cluster), `ChainAssumption` (when the behaviour begins no
cluster is in two chains, as a file system that was unmounted has it); `EntryAssumption` (finitely
many threads and open files); `HidAssumption` (limits are numbers); `IOAssumption` (a queue pair at
least, lengths of 16 bits); `RingAssumption` (finitely many threads, whose requests
together are smaller than the ring: section 9); `BringUpAssumption` (a CPU, an interrupter and a vector at least).  TLC
evaluates each of them in the runs that extend its module.

### Only model-checked

* Liveness: `BlockingSpec` and `LaunchedRuns`.  Fairness and `ENABLED` are out of the prover's reach.
* `TreeSorted`.  It needs the gaps between the threads' `vRuntime`s and where each of them lags behind
  (`sche_local` has no signals; with them a thread's time may run past its place in the tree), and a
  proof of it is not yet written.
* `RBTree` (`Balanced`, `FindsGreatest`, `IsOrderedList`) is written with `RECURSIVE` operators, for
  which the prover has no SMT backend, and what they compute needs induction over data.
* `Types` of `MCResources` and `MCFat` is the conjunction of the parts' type invariants.  No theorem states it
  as such: the table has the type invariant of each part, except the red-black tree's, and those of
  `SmpBoot` and `FatFile`, whose types (not every bound) are in `BootTypes` of `BootInv` and in `FileInv`.
* Whatever is a matter of the whole tree of a cache or list (which node a search finds), for the
  same reason as `RBTree`.

## 13. Findings

1. **`task/schedule.c:234`** (`sche_exit`).  `trySche` stores `Running` into the
   current thread when it finds no other one, also when `task_exit` has stored
   `NeedFree`: such a thread is later hung as `Idle` and is never freed.
2. **`task/schedule.c:89`** (`sche_strand`).  `_wakeThd` and `_preemptThd` assign
   `vRuntime` before they look at the state.  For a thread linked in the run tree this
   changes the key of a node in place; afterwards the leftmost pointer can become NULL
   while the tree holds threads, which are then not found until the next insertion.
3. **`hardware/usb/xhci/mgr.c:81`** (`sche_reply`).  `uninstallDev` gives up the
   requests of its thread, but they stay in the device's ring; a response that still
   comes is counted for the handler's own request, whose wait ends without a response.

4. **`fs/fat32/api.c:516`** (`fs_seek`).  The rounds of `FileAPI_seek` are limited by
   `curPtr + (bytesPerClus - curClusOff)` instead of what is left of the cluster: from the
   second cluster on, offset and cluster are not those of the pointer, and `_jmpToPtr`,
   finding `curPtr == ptr`, goes on from there.
5. **`hardware/nvme/api.c:102`** (`nvme_slots`).  `load` falls when the controller has *fetched*
   commands; a slot is then reused while its first command is still running, and its
   completion answers the new request.
6. **`fs/fat32/api.c:458`** (`fs_end`).  "Jumping out of allocated cluster leads to
   `fat32File->curClusId == fs_fat32_ClusEnd`", says `api.c:602`; the `int` of `_jmpToPtr` makes it
   `~0ull`, which neither `api.c:611` nor `io.c:33` takes for the end.  The read goes on over sectors
   below the data area, and later writes of the file change them (section 11).

The models contain more of what the code does and its authors may not want.  These are
modelled as they are where nothing else is said:

* FAT32.  `setNxtClus` writes the entry at a quarter of the index (`io.c:170`).
  `allocClus` returns with the lock of the FAT taken after it has scanned the disk.  An eviction writes the node
  that is released, not the one that is evicted, so the evicted one's modifications are lost; it frees the evicted node, keeps its buffer, and then
  frees the address of its own local variable `freeNd` (`io.c:99`), which is an address in the running
  thread's `task_Union`; that last call is left out.  A write
  after a read that met the end of the chain exactly follows a null pointer.  `fs_vfs_closeFile`
  frees a file without its destructor.  `DirAPI_nxt` returns with the lock of a directory that was read to its end (`api.c:646`),
  stores `curEnt` after it gave the lock back (`api.c:716`) and gives it back twice (`api.c:711`).
* Scheduler.  A signal's handler that does not return can be entered in a section of `SpinLock_lockMask`
  or of `task_sche_pause`; the CPU's scheduler then stays off for every other thread (`entry.S:59`).
* Slab.  Without memory a caller stays in a loop that holds `_SlabLck`.
* MSI.  A number of vectors that is no power of two is programmed as a smaller one, and
  vectors are not given back by a bring-up that fails.
* NVMe.  The request's status holds the phase, so on every second lap a success is taken for a failure;
  `load` may equal the size, and a full queue looks empty to the controller; the bitmap of
  requests is changed without the lock (`api.c:203`).
* xHCI.  The slot's `host->dev` is never cleared; `portDev` is cleared whatever it
  is, so a device that has come back may lose its port; the answer to the first
  descriptor is read from the request before it (`init.c:486`).
* A HID parser outlives its device.
* CPU start.  With entries of type 9 the records of the CPUs are numbered from 1
  (`cpu/init.c:80`), so record 0 stays empty and the last lies behind the array.

## 14. Not modelled

* Of the scheduler: `task_sche_disable`, `task_sche_pauseCpu` (no callers); register
  save, segments and the switch of address spaces; reuse of a freed thread's memory
  (a freed thread keeps its last state); several signals, a second disconnect while
  the first one's handler runs; the default action of `task_Signal_kill` (never sent);
  two creations that read `task_thdCnt` at the same time; processes.
* Of memory management: the reading of the firmware's memory map and the placement of
  the descriptor arrays (boot, one CPU), `ref` and the other attributes of pages.
* Semaphore, byte buffer, soft interrupts and timer, system calls: nothing in the tree
  calls them (`softirq_alloc` fails on every path; user mode is not started).
* Locks and lists themselves: taken as critical sections, sequences and sets (`List` has the
  one operation that sequences lack).  That
  `SpinLock_lockMask` pauses and leaves interrupts on is in `Scheduler`; that a handler may want a lock its CPU's
  thread holds is a hazard without a property.
* Exceptions and page faults: handlers that print and stop; a page fault is served for
  regions that no code of the tree maps.  The walk of the page tables, TLBs.
* Disks, GPT, partitions and their letters: a scan at start, by one thread.
* The contents of things: bytes of files, names, directory records and their checksums,
  identify data, contexts, reports of a mouse or keyboard; their handling is sequential.
* Of xHCI: hubs, the scan of ports that QEMU needs.  Of NVMe: installing and removing a
  namespace.  Errors of a disk, but for a sector behind its end.
* What a program does with memory it has freed or through a null pointer: a behaviour ends there.
* The set-up of the APICs, the HPET and the other devices, screen and string routines:
  straight-line code.
