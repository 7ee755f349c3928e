------------------------------- MODULE XhciRing ------------------------------
(***************************************************************************)
(* A ring of the xHCI driver and the event ring its answers come by        *)
(* (hardware/usb/xhci/api.c: _tryInsReq, request, response; mgr.c: the     *)
(* interrupt handler), with the controller's side of both.                 *)
(***************************************************************************)
EXTENDS Integers, Sequences, SequencesExt, FiniteSets, FiniteSetsExt

CONSTANTS
    User,                   \* the threads that use the ring
    InputSz,                \* thread -> the TRBs of its request
    Size,                   \* entries of the ring, the link entry the last
    RingNum, RingSz,        \* segments of the event ring and their entries
    NoUser

\* The TRBs of one request of each thread.
TRBs == UNION {[of : {t}, i : 1 .. InputSz[t]] : t \in User}

\* A thread waits for its request before it makes another.  The requests of
\* all together leave the link entry out: rings have 2048 entries and more.
ASSUME RingAssumption ==
    /\ IsFiniteSet(User) /\ NoUser \notin User /\ InputSz \in [User -> Nat \ {0}]
    /\ Size \in Nat /\ Cardinality(TRBs) < Size
    /\ RingNum \in Nat \ {0} /\ RingSz \in Nat \ {0}

VARIABLES
    ring,                   \* curIdx, cycBit, load, lck, TRBs and requests
    ringWait,               \* thread -> requests sent and not answered
    ringThd,                \* thread -> point of the code, TRBs inserted
    ringCtl,                \* the controller: its place in both rings
    eve,                    \* the event ring as memory and the driver's place
    ringIntr,               \* the handler of the ring's interrupter
    due, evePosted          \* TRBs inserted and not executed, events not read

ringVars == <<ring, ringWait, ringThd, ringCtl, eve, ringIntr, due, evePosted>>

RingSlots == 0 .. Size - 1
LinkIdx == Size - 1
EveSz == RingNum * RingSz
NoTRB == [cyc |-> 0, of |-> NoUser, i |-> 0]
NoEvent == [cyc |-> 0, idx |-> 0]

\* hw_usb_xhci_allocRing, hw_usb_xhci_allocEveRing, crCtrl or the context.
RingInit ==
    /\ ring = [curIdx |-> 0, cycBit |-> 1, load |-> 0, lck |-> NoUser,
               trbs |-> [s \in RingSlots |-> NoTRB], reqs |-> [s \in RingSlots |-> NoUser]]
    /\ ringWait = [t \in User |-> 0]
    /\ ringThd = [t \in User |-> [pc |-> "idle", i |-> 1]]
    /\ ringCtl = [bell |-> FALSE, deq |-> 0, ccs |-> 1, enq |-> 0, pcs |-> 1, deqPtr |-> 0]
    /\ eve = [trbs |-> [e \in 0 .. EveSz - 1 |-> NoEvent],
              curRingIdx |-> 0, curIdx |-> 0, cycBit |-> 1]
    /\ ringIntr = [pc |-> "off", idx |-> 0, of |-> NoUser, req |-> NoUser]
    /\ due = <<>> /\ evePosted = <<>>

-----------------------------------------------------------------------------
\* _tryInsReq: the lock and the test for room; without it the thread yields.
Begin(t) ==
    /\ ringThd[t].pc = "idle" /\ ring.lck = NoUser
    /\ ring.load + InputSz[t] <= Size
    /\ ring' = [ring EXCEPT !.lck = t, !.load = @ + InputSz[t]]
    /\ ringThd' = [ringThd EXCEPT ![t].pc = "copy"]
    /\ UNCHANGED <<ringWait, ringCtl, eve, ringIntr, due, evePosted>>

\* Mutant: the cycle bit is not turned round at the link entry.
LinkedOnly(r) == [r EXCEPT !.trbs[LinkIdx].cyc = r.cycBit, !.curIdx = 0]
Linked(r) == [r EXCEPT !.trbs[LinkIdx].cyc = r.cycBit, !.curIdx = 0, !.cycBit = 1 - @]

\* The link entry is given to the controller when a TRB is to follow it.
Link(t) ==
    /\ ringThd[t].pc = "copy" /\ ring.curIdx = LinkIdx
    /\ ring' = Linked(ring)
    /\ UNCHANGED <<ringWait, ringThd, ringCtl, eve, ringIntr, due, evePosted>>

\* hw_usb_xhci_TRB_copy: the input has the cycle bit 0, which on every
\* second lap is the one that gives the entry to the controller.
Copy(t) ==
    LET trb == [cyc |-> 0, of |-> t, i |-> ringThd[t].i] IN
    /\ ringThd[t].pc = "copy" /\ ring.curIdx < LinkIdx
    /\ ring' = [ring EXCEPT !.trbs[ring.curIdx] = trb]
    /\ due' = Append(due, [of |-> t, i |-> ringThd[t].i])
    /\ ringThd' = [ringThd EXCEPT ![t].pc = "cyc"]
    /\ UNCHANGED <<ringWait, ringCtl, eve, ringIntr, evePosted>>

SetCycBit(t) ==
    /\ ringThd[t].pc = "cyc"
    /\ ring' = [ring EXCEPT !.trbs[ring.curIdx].cyc = ring.cycBit]
    /\ ringThd' = [ringThd EXCEPT ![t].pc = "reqs"]
    /\ UNCHANGED <<ringWait, ringCtl, eve, ringIntr, due, evePosted>>

\* The last TRB ends the loop, and with it the lock.
SetReqs(t) ==
    LET end == ringThd[t].i = InputSz[t] IN
    /\ ringThd[t].pc = "reqs"
    /\ ring' = [ring EXCEPT !.reqs[ring.curIdx] = t, !.curIdx = @ + 1,
                            !.lck = IF end THEN NoUser ELSE @]
    /\ ringThd' = [ringThd EXCEPT ![t] = IF end THEN [pc |-> "bell", i |-> 1]
                                 ELSE [pc |-> "copy", i |-> @.i + 1]]
    /\ UNCHANGED <<ringWait, ringCtl, eve, ringIntr, due, evePosted>>

\* hw_usb_xhci_DbReg_write, then task_Request_send.
Bell(t) ==
    /\ ringThd[t].pc = "bell"
    /\ ringCtl' = [ringCtl EXCEPT !.bell = TRUE]
    /\ ringThd' = [ringThd EXCEPT ![t].pc = "wait"]
    /\ ringWait' = [ringWait EXCEPT ![t] = @ + 1]
    /\ UNCHANGED <<ring, eve, ringIntr, due, evePosted>>

RingReturns(t) ==
    /\ ringThd[t].pc = "wait" /\ ringWait[t] <= 0
    /\ ringThd' = [ringThd EXCEPT ![t].pc = "idle"]
    /\ UNCHANGED <<ring, ringWait, ringCtl, eve, ringIntr, due, evePosted>>

-----------------------------------------------------------------------------
Owns(deq, ccs) == ring.trbs[deq].cyc = ccs

\* The controller executes the TRB at its dequeue pointer; the last one of
\* a request has the IOC bit, and its event goes to the event ring unless
\* that is full.
Execute ==
    LET trb == ring.trbs[ringCtl.deq]
        ioc == trb.of # NoUser /\ trb.i = InputSz[trb.of]
        nxt == (ringCtl.enq + 1) % EveSz
        event == [cyc |-> ringCtl.pcs, idx |-> ringCtl.deq] IN
    /\ ringCtl.bell /\ ringCtl.deq # LinkIdx /\ Owns(ringCtl.deq, ringCtl.ccs)
    /\ due' = IF due = <<>> THEN due ELSE Tail(due)
    /\ IF ioc
       THEN /\ nxt # ringCtl.deqPtr
            /\ ringCtl' = [ringCtl EXCEPT !.deq = @ + 1, !.enq = nxt, !.pcs = IF nxt = 0 THEN 1 - @ ELSE @]
            /\ eve' = [eve EXCEPT !.trbs[ringCtl.enq] = event]
            /\ evePosted' = Append(evePosted, [idx |-> ringCtl.deq, of |-> trb.of])
       ELSE /\ ringCtl' = [ringCtl EXCEPT !.deq = @ + 1]
            /\ UNCHANGED <<eve, evePosted>>
    /\ UNCHANGED <<ring, ringWait, ringThd, ringIntr>>

\* The link entry has the toggle bit.
FollowLink ==
    /\ ringCtl.bell /\ ringCtl.deq = LinkIdx /\ Owns(LinkIdx, ringCtl.ccs)
    /\ ringCtl' = [ringCtl EXCEPT !.deq = 0, !.ccs = 1 - @]
    /\ UNCHANGED <<ring, ringWait, ringThd, eve, ringIntr, due, evePosted>>

\* An entry that is the driver's: the controller waits for the doorbell.
Stop ==
    /\ ringCtl.bell /\ ~Owns(ringCtl.deq, ringCtl.ccs)
    /\ ringCtl' = [ringCtl EXCEPT !.bell = FALSE]
    /\ UNCHANGED <<ring, ringWait, ringThd, eve, ringIntr, due, evePosted>>

-----------------------------------------------------------------------------
\* hw_usb_xhci_msiHandler; it does not nest.
Pos == eve.curRingIdx * RingSz + eve.curIdx
IsNewEve == eve.trbs[Pos].cyc = eve.cycBit

\* The cycle bit turns round behind the last segment only.
NextIdx(e) ==
    IF e.curIdx + 1 < RingSz THEN [e EXCEPT !.curIdx = @ + 1]
    ELSE IF e.curRingIdx + 1 < RingNum
    THEN [e EXCEPT !.curIdx = 0, !.curRingIdx = @ + 1]
    ELSE [e EXCEPT !.curIdx = 0, !.curRingIdx = 0, !.cycBit = 1 - @]

\* An event that is not read has the interrupt pending.
TakeEvent ==
    /\ ringIntr.pc \in {"off", "loop"} /\ IsNewEve
    /\ ringIntr' = [ringIntr EXCEPT !.pc = "look", !.idx = eve.trbs[Pos].idx, !.of = Head(evePosted).of]
    /\ eve' = NextIdx(eve)
    /\ evePosted' = Tail(evePosted)
    /\ UNCHANGED <<ring, ringWait, ringThd, ringCtl, due>>

\* hw_usb_xhci_response: the request, under the lock of the ring, ...
Unlocked == ring.lck = NoUser
Look ==
    /\ ringIntr.pc = "look" /\ Unlocked
    /\ IF ring.load = 0
       THEN ringIntr' = [ringIntr EXCEPT !.pc = "loop", !.idx = 0, !.of = NoUser] /\ UNCHANGED ring
       ELSE LET r == ring.reqs[ringIntr.idx] IN
            /\ ringIntr' = [ringIntr EXCEPT !.pc = "answer", !.idx = 0, !.req = r]
            /\ ring' = [ring EXCEPT !.load = @ - InputSz[r]]
    /\ UNCHANGED <<ringWait, ringThd, ringCtl, eve, due, evePosted>>

\* ... and its thread, after the unlock.
Response ==
    /\ ringIntr.pc = "answer"
    /\ ringWait' = [ringWait EXCEPT ![ringIntr.req] = @ - 1]
    /\ ringIntr' = [ringIntr EXCEPT !.pc = "loop", !.of = NoUser, !.req = NoUser]
    /\ UNCHANGED <<ring, ringThd, ringCtl, eve, due, evePosted>>

\* The dequeue pointer is written once, at the end.
LeaveEves ==
    /\ ringIntr.pc = "loop" /\ ~IsNewEve
    /\ ringCtl' = [ringCtl EXCEPT !.deqPtr = Pos]
    /\ ringIntr' = [ringIntr EXCEPT !.pc = "off"]
    /\ UNCHANGED <<ring, ringWait, ringThd, eve, due, evePosted>>

Insert(t) == Begin(t) \/ Link(t) \/ Copy(t) \/ SetCycBit(t) \/ SetReqs(t)
UserStep(t) == Insert(t) \/ Bell(t) \/ RingReturns(t)
Controller == Execute \/ FollowLink \/ Stop
Handler == TakeEvent \/ Look \/ Response \/ LeaveEves

RingNext == (\E t \in User : UserStep(t)) \/ Controller \/ Handler

RingSpec == RingInit /\ [][RingNext]_ringVars

-----------------------------------------------------------------------------
RingTypeOK ==
    /\ ring.curIdx \in RingSlots /\ ring.cycBit \in {0, 1} /\ ring.load \in 0 .. Size
    /\ ring.lck \in User \union {NoUser}
    /\ \A t \in User : ringThd[t].pc \in {"idle", "copy", "cyc", "reqs", "bell", "wait"}
    /\ ringCtl.deq \in RingSlots /\ ringCtl.enq \in 0 .. EveSz - 1
    /\ eve.curRingIdx \in 0 .. RingNum - 1 /\ eve.curIdx \in 0 .. RingSz - 1
    /\ ringIntr.pc \in {"off", "loop", "look", "answer"}

(***************************************************************************)
(* What the controller owns, read from its dequeue pointer by the cycle    *)
(* bits across the link entry, is exactly what was inserted and not yet    *)
(* executed, the entry being inserted apart: nothing is executed twice or  *)
(* before it is written, on any lap.  The event ring is read the same way  *)
(* across its segments, and the request an event answers is the one whose  *)
(* last TRB it reports, although the entry is given to the controller      *)
(* before its request is stored (_tryInsReq, hw_usb_xhci_response,         *)
(* hw_usb_xhci_msiHandler).                                                *)
(***************************************************************************)
RingAt(i) == (ringCtl.deq + i) % Size
CcsAt(i) == IF ringCtl.deq + i < Size THEN ringCtl.ccs ELSE 1 - ringCtl.ccs
OwnedSlots ==
    {i \in 0 .. Size - 1 : \A j \in 0 .. i : Owns(RingAt(j), CcsAt(j))}
\* The entry the controller comes to as its k-th, the link entry not counted
TRBAt(k) == IF ringCtl.deq + k - 1 < LinkIdx THEN RingAt(k - 1) ELSE RingAt(k)
OwnedTRBs ==
    [k \in 1 .. Cardinality({i \in OwnedSlots : RingAt(i) # LinkIdx}) |->
        [of |-> ring.trbs[TRBAt(k)].of, i |-> ring.trbs[TRBAt(k)].i]]

EveAt(i) == eve.trbs[(Pos + i) % EveSz]
EveCyc(i) == IF Pos + i < EveSz THEN eve.cycBit ELSE 1 - eve.cycBit
UnreadEves ==
    LET n == Min({i \in 0 .. EveSz : i = EveSz \/ EveAt(i).cyc # EveCyc(i)})
    IN  [i \in 1 .. n |-> EveAt(i - 1).idx]

RingsInStep ==
    /\ \/ OwnedTRBs = due
       \/ (\E t \in User : ringThd[t].pc = "cyc") /\ OwnedTRBs = Front(due)
    /\ UnreadEves = [i \in DOMAIN evePosted |-> evePosted[i].idx]
    /\ ringIntr.pc = "answer" => ringIntr.req = ringIntr.of
=============================================================================
