-------------------------------- MODULE Nvme ---------------------------------
(***************************************************************************)
(* Reading and writing of an NVMe namespace: the threads in                *)
(* hw_nvme_devRead and hw_nvme_devWrite (hardware/nvme/api.c), the         *)
(* completion interrupt (init.c) and the controller's side of the queues,  *)
(* with the commands completed in any order.                               *)
(***************************************************************************)
EXTENDS Integers, Sequences, SequencesExt, FiniteSets, FiniteSetsExt

CONSTANTS
    Thread,
    Que,                \* the I/O queues that are registered: 1 .. n
    SubSz, CmplSz,      \* entries of a submission and of a completion queue
    Req,                \* nvmeDev->reqs: 1 .. n
    MaxBlk,             \* blocks of one read
    Unset               \* no request, no thread

ASSUME IOAssumption ==
    /\ Que \subseteq Nat /\ Que # {} /\ Req \subseteq Nat
    /\ SubSz \in 1 .. 2 ^ 16 - 1 /\ CmplSz \in Nat \ {0} /\ MaxBlk \in Nat

VARIABLES
    subQue,             \* queue -> tail, head, load, entries and requests
    cmplQue,            \* queue -> pos, phase and entries
    reqBitmap,
    req,                \* request -> its thread, and the phase tag of its answer
    reqWait,            \* thread -> requests sent and not answered
    thd,                \* thread -> point of the code and its locals
    intr,               \* queue -> the handler of its vector
    ctlr,               \* queue -> the controller's registers and commands
    posted              \* queue -> what was posted and is not yet taken

nvmeVars == <<subQue, cmplQue, reqBitmap, req, reqWait, thd, intr, ctlr, posted>>

Slots == 0 .. SubSz - 1
Entries == 0 .. CmplSz - 1
NoCmd == [cmdIden |-> 0, of |-> Unset]
NoEntry == [phase |-> 0, subQueHdrPtr |-> 0, cmdIden |-> 0, of |-> Unset]
Begun == [pc |-> "idle", req |-> Unset, que |-> Unset, left |-> 0, val |-> {}]

\* hw_nvme_allocSubQue, hw_nvme_allocCmplQue, hw_nvme_devInstall.
IOInit ==
    /\ subQue = [q \in Que |-> [tail |-> 0, head |-> 0, load |-> 0,
                                entries |-> [s \in Slots |-> NoCmd],
                                req |-> [s \in Slots |-> Unset]]]
    /\ cmplQue = [q \in Que |-> [pos |-> 0, phase |-> 1, entries |-> [e \in Entries |-> NoEntry]]]
    /\ reqBitmap = {}
    /\ req = [r \in Req |-> [src |-> Unset, status |-> 0]]
    /\ reqWait = [t \in Thread |-> 0]
    /\ thd = [t \in Thread |-> Begun]
    /\ intr = [q \in Que |-> [pc |-> "off", pending |-> FALSE, entry |-> NoEntry, req |-> Unset]]
    /\ ctlr = [q \in Que |-> [tail |-> 0, head |-> 0, out |-> {},
                              cmplTail |-> 0, cmplHead |-> 0, phase |-> 1,
                              late |-> FALSE]]
    /\ posted = [q \in Que |-> <<>>]

-----------------------------------------------------------------------------
\* _getSpareReq, under the device's lock.
GetSpareReq(t) ==
    /\ thd[t].pc = "idle" /\ reqBitmap # Req
    /\ LET r == Min(Req \ reqBitmap) IN
          /\ reqBitmap' = reqBitmap \union {r}
          /\ \E n \in 1 .. MaxBlk :
                thd' = [thd EXCEPT ![t] = [Begun EXCEPT !.pc = "next", !.req = r, !.left = n]]
    /\ UNCHANGED <<subQue, cmplQue, req, reqWait, intr, ctlr, posted>>

\* _findIOSubQue: the first of the least loaded, read without a lock.
FindIOSubQue ==
    CHOOSE q \in Que : \A o \in Que : \/ subQue[q].load < subQue[o].load
                                      \/ subQue[q].load = subQue[o].load /\ q <= o

\* One turn of the loop over the blocks, up to task_Request_init.
NextBlock(t) ==
    /\ thd[t].pc = "next"
    /\ thd' = [thd EXCEPT ![t].pc = "insert", ![t].que = FindIOSubQue]
    /\ req' = [req EXCEPT ![thd[t].req].src = t]
    /\ UNCHANGED <<subQue, cmplQue, reqBitmap, reqWait, intr, ctlr, posted>>

\* hw_nvme_tryInsReq when there is room; otherwise it is called again.
InsReq(t) ==
    LET q == thd[t].que
        s == subQue[q].tail IN
    /\ thd[t].pc = "insert" /\ subQue[q].load + 1 <= SubSz
    /\ subQue' = [subQue EXCEPT ![q] = [subQue[q] EXCEPT
                      !.load = @ + 1, !.tail = (s + 1) % SubSz, !.req[s] = thd[t].req,
                      !.entries[s] = [cmdIden |-> s, of |-> thd[t].req]]]
    /\ thd' = [thd EXCEPT ![t].pc = "bell"]
    /\ UNCHANGED <<cmplQue, reqBitmap, req, reqWait, intr, ctlr, posted>>

\* hw_nvme_writeSubDb, after the unlock: the tail is read, then written;
\* then task_Request_send counts the request.  late remembers a doorbell
\* that was written with an old tail.
ReadTail(t) ==
    /\ thd[t].pc = "bell"
    /\ thd' = [thd EXCEPT ![t].pc = "ring", ![t].val = {subQue[thd[t].que].tail}]
    /\ UNCHANGED <<subQue, cmplQue, reqBitmap, req, reqWait, intr, ctlr, posted>>

WriteSubDb(t) ==
    /\ thd[t].pc = "ring"
    /\ LET q == thd[t].que
           v == CHOOSE x \in thd[t].val : TRUE IN
       ctlr' = [ctlr EXCEPT ![q].tail = v, ![q].late = @ \/ v # subQue[q].tail]
    /\ thd' = [thd EXCEPT ![t].pc = "wait", ![t].val = {}]
    /\ reqWait' = [reqWait EXCEPT ![t] = @ + 1]
    /\ UNCHANGED <<subQue, cmplQue, reqBitmap, req, intr, posted>>

\* task_Request_send returns.  The status word holds the phase tag: only 1
\* is taken for success, so the loop ends early when the tag is 0.
SendReturns(t) ==
    /\ thd[t].pc = "wait" /\ reqWait[t] <= 0
    /\ thd' = [thd EXCEPT ![t].left = @ - 1,
                   ![t].pc = IF req[thd[t].req].status = 1 /\ thd[t].left > 1 THEN "next" ELSE "end"]
    /\ UNCHANGED <<subQue, cmplQue, reqBitmap, req, reqWait, intr, ctlr, posted>>

\* _releaseReq: bit_set0 reads, changes and writes the bitmap without the
\* lock ("no need to lock") and without a locked instruction.
ReadBitmap(t) ==
    /\ thd[t].pc = "end"
    /\ thd' = [thd EXCEPT ![t].pc = "release", ![t].val = reqBitmap \ {thd[t].req}]
    /\ UNCHANGED <<subQue, cmplQue, reqBitmap, req, reqWait, intr, ctlr, posted>>

WriteBitmap(t) ==
    /\ thd[t].pc = "release"
    /\ reqBitmap' = thd[t].val
    /\ thd' = [thd EXCEPT ![t] = Begun]
    /\ UNCHANGED <<subQue, cmplQue, req, reqWait, intr, ctlr, posted>>

-----------------------------------------------------------------------------
\* The controller fetches the command at its head; head = tail is empty.
Fetch(q) ==
    /\ ctlr[q].head # ctlr[q].tail
    /\ ctlr' = [ctlr EXCEPT ![q].head = (@ + 1) % SubSz,
                          ![q].out = @ \union {subQue[q].entries[ctlr[q].head]}]
    /\ UNCHANGED <<subQue, cmplQue, reqBitmap, req, reqWait, thd, intr, posted>>

\* It completes any of them when the completion queue has room.
Post(q) ==
    LET d == ctlr[q]
        nxt == (d.cmplTail + 1) % CmplSz IN
    /\ nxt # d.cmplHead
    /\ \E c \in d.out :
          LET e == [phase |-> d.phase, subQueHdrPtr |-> d.head,
                    cmdIden |-> c.cmdIden, of |-> c.of] IN
          /\ cmplQue' = [cmplQue EXCEPT ![q].entries[d.cmplTail] = e]
          /\ posted' = [posted EXCEPT ![q] = Append(@, e)]
          /\ ctlr' = [ctlr EXCEPT ![q] = [d EXCEPT
                         !.out = @ \ {c}, !.cmplTail = nxt,
                         !.phase = IF nxt = 0 THEN 1 - @ ELSE @]]
    /\ intr' = [intr EXCEPT ![q].pending = TRUE]
    /\ UNCHANGED <<subQue, reqBitmap, req, reqWait, thd>>

-----------------------------------------------------------------------------
\* hw_nvme_msiHandler.  Its vector belongs to one CPU: it does not nest.
Enter(q) ==
    /\ intr[q].pc = "off" /\ intr[q].pending
    /\ intr' = [intr EXCEPT ![q].pc = "loop", ![q].pending = FALSE]
    /\ UNCHANGED <<subQue, cmplQue, reqBitmap, req, reqWait, thd, ctlr, posted>>

Cur(q) == cmplQue[q].entries[cmplQue[q].pos]
IsNew(q) == Cur(q).phase = cmplQue[q].phase

\* Mutant: the phase is not turned round at the end of the queue.
AdvanceOnly(c) == [c EXCEPT !.pos = (@ + 1) % CmplSz]
Advance(c) == [c EXCEPT !.pos = (@ + 1) % CmplSz,
                        !.phase = IF c.pos + 1 = CmplSz THEN 1 - @ ELSE @]

\* load is a u16.
Fetched(s, hdr) ==
    IF s.head > hdr THEN SubSz - s.head + hdr ELSE hdr - s.head

TakeEntry(q) ==
    /\ intr[q].pc = "loop" /\ IsNew(q)
    /\ intr' = [intr EXCEPT ![q] = [@ EXCEPT !.pc = "answer", !.entry = Cur(q),
                                             !.req = subQue[q].req[Cur(q).cmdIden]]]
    /\ cmplQue' = [cmplQue EXCEPT ![q] = Advance(@)]
    /\ subQue' = [subQue EXCEPT ![q] = [subQue[q] EXCEPT
                      !.load = (@ - Fetched(subQue[q], Cur(q).subQueHdrPtr)) % 2 ^ 16,
                      !.head = Cur(q).subQueHdrPtr]]
    /\ posted' = [posted EXCEPT ![q] = Tail(@)]
    /\ UNCHANGED <<reqBitmap, req, reqWait, thd, ctlr>>

\* hw_nvme_respone.
Respond(q) ==
    /\ intr[q].pc = "answer"
    /\ req' = [req EXCEPT ![intr[q].req].status = intr[q].entry.phase]
    /\ reqWait' = [reqWait EXCEPT ![req[intr[q].req].src] = @ - 1]
    /\ intr' = [intr EXCEPT ![q] = [@ EXCEPT !.pc = "loop", !.entry = NoEntry, !.req = Unset]]
    /\ UNCHANGED <<subQue, cmplQue, reqBitmap, thd, ctlr, posted>>

\* hw_nvme_writeCmplDb.
Leave(q) ==
    /\ intr[q].pc = "loop" /\ ~IsNew(q)
    /\ ctlr' = [ctlr EXCEPT ![q].cmplHead = cmplQue[q].pos]
    /\ intr' = [intr EXCEPT ![q].pc = "off"]
    /\ UNCHANGED <<subQue, cmplQue, reqBitmap, req, reqWait, thd, posted>>

ThreadStep(t) ==
    \/ GetSpareReq(t) \/ NextBlock(t) \/ InsReq(t) \/ ReadTail(t) \/ WriteSubDb(t)
    \/ SendReturns(t) \/ ReadBitmap(t) \/ WriteBitmap(t)

QueueStep(q) == Fetch(q) \/ Post(q) \/ Enter(q) \/ TakeEntry(q) \/ Respond(q) \/ Leave(q)

IONext == (\E t \in Thread : ThreadStep(t)) \/ (\E q \in Que : QueueStep(q))

IOSpec == IOInit /\ [][IONext]_nvmeVars

-----------------------------------------------------------------------------
IOTypeOK ==
    /\ \A q \in Que :
          /\ subQue[q].tail \in Slots /\ subQue[q].head \in Slots
          /\ subQue[q].load \in 0 .. 2 ^ 16 - 1
          /\ cmplQue[q].pos \in Entries /\ cmplQue[q].phase \in {0, 1}
          /\ \A e \in Entries : /\ cmplQue[q].entries[e].cmdIden \in Slots
                                /\ cmplQue[q].entries[e].subQueHdrPtr \in Slots
          /\ \A s \in Slots : /\ subQue[q].entries[s].cmdIden \in Slots
                              /\ subQue[q].req[s] \in Req \union {Unset}
          /\ intr[q].pc \in {"off", "loop", "answer"}
    /\ reqBitmap \subseteq Req
    /\ \A t \in Thread : thd[t].pc \in {"idle", "next", "insert", "bell", "ring", "wait", "end", "release"}

(***************************************************************************)
(* What the handler will read from its position on, by the phase tags, is  *)
(* exactly what the controller posted and the handler has not yet taken,   *)
(* in that order, on every lap of the queue and whenever the head doorbell *)
(* is written: no completion is lost, none is read twice                   *)
(* (hw_nvme_msiHandler, hw_nvme_allocCmplQue).                             *)
(***************************************************************************)
EntryAt(q, i) == cmplQue[q].entries[(cmplQue[q].pos + i) % CmplSz]
PhaseAt(q, i) == IF cmplQue[q].pos + i < CmplSz THEN cmplQue[q].phase ELSE 1 - cmplQue[q].phase
Unread(q) ==
    LET n == Min({i \in 0 .. CmplSz : i = CmplSz \/ EntryAt(q, i).phase # PhaseAt(q, i)})
    IN  [i \in 1 .. n |-> EntryAt(q, i - 1)]

PhaseInStep == \A q \in Que : Unread(q) = posted[q]

(***************************************************************************)
(* The request that a completion answers is the one whose command it       *)
(* completes, at least where no doorbell was written late: "set identifier *)
(* of each input to the idx in queue" (hw_nvme_tryInsReq,                  *)
(* hw_nvme_msiHandler).                                                    *)
(***************************************************************************)
AnswersOwn ==
    \A q \in Que : intr[q].pc = "answer" /\ ~ctlr[q].late => intr[q].req = intr[q].entry.of
=============================================================================
