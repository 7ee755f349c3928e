------------------------- MODULE SchedulerPlaceProof -------------------------
(***************************************************************************)
(* Proofs that Scheduler loses no thread: where threads, pending           *)
(* operations and pauses are, for any number of CPUs, threads and devices. *)
(***************************************************************************)
EXTENDS SchedulerProof

-----------------------------------------------------------------------------
(* The inductive invariant, in layers.                                     *)

\* A CPU and its queues hold threads of that CPU only.
Own(c) == {t \in Thread : CpuOf(t) = c}
LocalQueues(c) ==
    /\ ToSet(thds[c]) \subseteq Own(c)
    /\ left[c] \in Own(c) \union {None}
    /\ ToSet(rdyPreemptThds[c]) \subseteq Own(c)
LocalOps(c) ==
    /\ \A i \in DOMAIN reqs[c] : CpuOf(reqs[c][i].thd) = c
    /\ hand[c] # NoHand => CpuOf(hand[c].thd) = c
LocalInv == \A c \in CPU : cur[c] \in Own(c) /\ LocalQueues(c) /\ LocalOps(c)

\* Who may be where: a device manager that exits is in its handler or has none,
\* and none of them works on the queues of its CPU.  So a signal cuts no section
\* but one around a ring.
SignalInv ==
    \A t \in Thread :
        /\ handler[t] => t \in Device
        /\ working[t] => signal[t] \in {"handled", "handledPaused"}
        /\ t \in Device => pc[t] \notin {"boot", "loop", "op", "reap", "hlt"}
        /\ pc[t] \in {"boot", "loop", "reap", "hlt"} => IsIdle(t)
        /\ pc[t] = "exiting" /\ handler[t] => working[t]

\* An operation is in hand exactly while the current thread is about to do it.
PauseInv ==
    /\ PauseCounts
    /\ \A c \in CPU : hand[c] # NoHand <=> pc[cur[c]] = "op"

\* An operation on t is under way: a handler is about to do it, the current
\* thread of its CPU has it in hand, or it is queued there.
Op(t, op) == [thd |-> t, op |-> op]
InIrq(c, t, op) == irq[c] = [at |-> op, thd |-> t]
Pending(t, op) ==
    \/ \E c \in CPU : InIrq(c, t, op)
    \/ hand[CpuOf(t)] = Op(t, op)
    \/ Contains(reqs[CpuOf(t)], Op(t, op))

\* A launch is under way in one place only.
AtMostOnce(s, r) == \A i, j \in DOMAIN s : s[i] = r /\ s[j] = r => i = j
LaunchOnce(t) ==
    LET r == Op(t, "launch")  d == CpuOf(t) IN
    /\ \A c, e \in CPU : InIrq(c, t, "launch") /\ InIrq(e, t, "launch") => c = e
    /\ \A c \in CPU : InIrq(c, t, "launch") => hand[d] # r /\ ~Contains(reqs[d], r)
    /\ hand[d] = r => ~Contains(reqs[d], r)
    /\ AtMostOnce(reqs[d], r)

\* A thread that does not exist or is being launched has made no request.
Fresh(t) ==
    ~Exists(t) \/ Launching(t) => ~PreemptPending(t) /\ \A k \in Ctx : req[t][k] = "none"

\* A thread is where its state says, before it exists too.
Placed(t) ==
    /\ cur[CpuOf(t)] = t <=> state[t] \in {Running, NeedSchedule, NeedFree}
    /\ InTree(t) \/ Launching(t) \/ ~Exists(t) <=> state[t] = Idle
    /\ ~(InTree(t) /\ Launching(t))
    /\ ~Exists(t) => ~InTree(t) /\ ~Launching(t)
    /\ InPreempt(t) <=> state[t] = NeedPreempt
    /\ t \in sleepThds[CpuOf(t)] <=> state[t] = Sleep
    /\ Contains(freeThds[CpuOf(t)], t) => state[t] = Free

PlaceInv ==
    /\ \A t \in Thread : Placed(t) /\ LaunchOnce(t) /\ Fresh(t)
    /\ \A c \in CPU : /\ NoRepeat(thds[c]) /\ left[c] \in ToSet(thds[c]) \union {None}
                      /\ NoRepeat(rdyPreemptThds[c])

\* A sleeping thread is inside its call and not in its handler.
AsleepInv == \A t \in Client : state[t] = Sleep => ~working[t] /\ pc[t] \in {"test", "testIpi"}
WakeInv == AsleepInv /\ NoLostWakeup /\ NoLostSignal
-----------------------------------------------------------------------------
(* Sequences as the sets of their elements. *)

\* The elements after an append, and no repetition if the element is new.
LEMMA AppendElems ==
    ASSUME NEW S, NEW s \in Seq(S), NEW e \in S
    PROVE  /\ Append(s, e) \in Seq(S)
           /\ ToSet(Append(s, e)) = ToSet(s) \union {e}
           /\ NoRepeat(s) /\ e \notin ToSet(s) => NoRepeat(Append(s, e))
<1> DEFINE a == Append(s, e)
<1>1. /\ a \in Seq(S) /\ DOMAIN a = 1 .. Len(s) + 1 /\ DOMAIN s = 1 .. Len(s) /\ Len(s) \in Nat
      /\ \A i \in 1 .. Len(s) : a[i] = s[i]
      /\ a[Len(s) + 1] = e
  BY AppendProperties, LenProperties
<1> HIDE DEF a
<1>2. \A i \in DOMAIN a : (i \in DOMAIN s /\ a[i] = s[i]) \/ (i = Len(s) + 1 /\ a[i] = e)
  BY <1>1
<1>3. ToSet(a) = ToSet(s) \union {e}
  BY <1>1, <1>2 DEF ToSet
<1>4. ASSUME NoRepeat(s), e \notin ToSet(s) PROVE NoRepeat(a)
  BY <1>1, <1>2, <1>4 DEF NoRepeat, ToSet
<1> QED BY <1>1, <1>3, <1>4 DEF a

\* The elements after the head was taken, and that it is not among them if
\* nothing is twice in the sequence.
LEMMA TailElems ==
    ASSUME NEW S, NEW s \in Seq(S), s # <<>>
    PROVE  /\ Head(s) \in S /\ Tail(s) \in Seq(S)
           /\ ToSet(s) = ToSet(Tail(s)) \union {Head(s)}
           /\ NoRepeat(s) => NoRepeat(Tail(s)) /\ Head(s) \notin ToSet(Tail(s))
<1> DEFINE r == Tail(s)
<1>1. /\ Head(s) \in S /\ r \in Seq(S) /\ Head(s) = s[1] /\ Len(s) \in Nat \ {0}
      /\ DOMAIN s = 1 .. Len(s) /\ DOMAIN r = 1 .. Len(s) - 1
      /\ \A i \in 1 .. Len(s) - 1 : r[i] = s[i + 1]
  BY HeadTailProperties, LenProperties, EmptySeq
<1> HIDE DEF r
<1>2. \A i \in DOMAIN s : s[i] = Head(s) \/ (i - 1 \in DOMAIN r /\ s[i] = r[i - 1])
  BY <1>1
<1>3. \A i \in DOMAIN r : i + 1 \in DOMAIN s /\ r[i] = s[i + 1]
  BY <1>1
<1>4. 1 \in DOMAIN s
  BY <1>1
<1>5. ToSet(s) = ToSet(r) \union {Head(s)}
  BY <1>1, <1>2, <1>3, <1>4 DEF ToSet
<1>6. ASSUME NoRepeat(s) PROVE NoRepeat(r) /\ Head(s) \notin ToSet(r)
  BY <1>1, <1>3, <1>4, <1>6 DEF NoRepeat, ToSet
<1> QED BY <1>1, <1>5, <1>6 DEF r

\* The elements after an insertion anywhere.
LEMMA InsertElems ==
    ASSUME NEW S, NEW s \in Seq(S), NEW e \in S, NEW i \in 1 .. Len(s) + 1
    PROVE  /\ InsertAt(s, i, e) \in Seq(S)
           /\ ToSet(InsertAt(s, i, e)) = ToSet(s) \union {e}
           /\ NoRepeat(s) /\ e \notin ToSet(s) => NoRepeat(InsertAt(s, i, e))
<1> DEFINE n == Len(s)  a == SubSeq(s, 1, i-1)  b == SubSeq(s, i, n)  r == InsertAt(s, i, e)
<1>1. n \in Nat /\ DOMAIN s = 1 .. n /\ \A j \in 1 .. n : s[j] \in S
  BY LenProperties, ElementOfSeq
<1>2. a \in Seq(S) /\ Len(a) = i - 1 /\ \A j \in 1 .. i-1 : a[j] = s[j]
  BY <1>1, SubSeqProperties
<1>3. b \in Seq(S) /\ Len(b) = n - i + 1 /\ \A j \in 1 .. n-i+1 : b[j] = s[i + j - 1]
  BY <1>1, SubSeqProperties
<1>4. <<e>> \in Seq(S) /\ Len(<<e>>) = 1 /\ <<e>>[1] = e
  OBVIOUS
<1> HIDE DEF a, b
<1>5. /\ a \o <<e>> \in Seq(S) /\ Len(a \o <<e>>) = i
      /\ \A j \in 1 .. i : (a \o <<e>>)[j] = IF j < i THEN s[j] ELSE e
  BY <1>2, <1>4, ConcatProperties
<1>6. /\ (a \o <<e>>) \o b \in Seq(S) /\ Len((a \o <<e>>) \o b) = n + 1
      /\ \A j \in 1 .. n + 1 :
            ((a \o <<e>>) \o b)[j] = IF j < i THEN s[j] ELSE IF j = i THEN e ELSE s[j-1]
  <2> DEFINE p == a \o <<e>>
  <2>0. p \in Seq(S) /\ Len(p) = i
    BY <1>5
  <2>1. /\ p \o b \in Seq(S) /\ Len(p \o b) = n + 1
        /\ \A j \in 1 .. n + 1 : (p \o b)[j] = IF j <= i THEN p[j] ELSE b[j-i]
    <3> HIDE DEF p
    <3>1. Len(p) + Len(b) = n + 1
      BY <1>1, <1>3, <2>0
    <3>2. /\ p \o b \in Seq(S) /\ Len(p \o b) = Len(p) + Len(b)
          /\ \A j \in 1 .. Len(p) + Len(b) :
                (p \o b)[j] = IF j <= Len(p) THEN p[j] ELSE b[j - Len(p)]
      BY <1>3, <2>0, ConcatProperties
    <3> QED BY <2>0, <3>1, <3>2
  <2>2. \A j \in 1 .. n + 1 : j > i => b[j-i] = s[j-1]
    BY <1>1, <1>3
  <2> QED BY <1>1, <1>5, <2>1, <2>2
<1>7. /\ r \in Seq(S) /\ DOMAIN r = 1 .. n + 1
      /\ \A j \in 1 .. n + 1 : r[j] = IF j < i THEN s[j] ELSE IF j = i THEN e ELSE s[j-1]
  BY <1>1, <1>6, LenProperties DEF InsertAt, a, b
<1> HIDE DEF r
<1>8. \A j \in DOMAIN r : j = i \/ (IF j < i THEN j ELSE j - 1) \in DOMAIN s
  BY <1>1, <1>7
<1>9. \A j \in DOMAIN s : /\ (IF j < i THEN j ELSE j + 1) \in DOMAIN r
                          /\ r[IF j < i THEN j ELSE j + 1] = s[j]
  BY <1>1, <1>7
<1>10. i \in DOMAIN r /\ r[i] = e
  BY <1>1, <1>7
<1>11. ToSet(r) = ToSet(s) \union {e}
  <2>1. ToSet(r) \subseteq ToSet(s) \union {e}
    BY <1>1, <1>7, <1>8 DEF ToSet
  <2>2. ToSet(s) \subseteq ToSet(r)
    BY <1>9 DEF ToSet
  <2>3. e \in ToSet(r)
    BY <1>10 DEF ToSet
  <2> QED BY <2>1, <2>2, <2>3
<1>12. ASSUME NoRepeat(s), e \notin ToSet(s), NEW j \in DOMAIN r, NEW k \in DOMAIN r, r[j] = r[k]
       PROVE  j = k
  <2>1. \A m \in DOMAIN s : s[m] # e
    BY <1>12 DEF ToSet
  <2>2. \A l, m \in DOMAIN s : s[l] = s[m] => l = m
    BY <1>12 DEF NoRepeat
  <2>3. ASSUME NEW x \in DOMAIN r, NEW y \in DOMAIN r, r[x] = r[y], x < y
        PROVE  FALSE
    <3>1. CASE x = i \/ y = i
      BY <1>1, <1>7, <1>8, <2>1, <2>3, <3>1
    <3>2. CASE x # i /\ y # i
      <4> DEFINE l == IF x < i THEN x ELSE x - 1   m == IF y < i THEN y ELSE y - 1
      <4>1. l \in DOMAIN s /\ m \in DOMAIN s /\ l < m /\ s[l] = s[m]
        BY <1>1, <1>7, <2>3, <3>2
      <4> QED BY <1>1, <2>2, <4>1
    <3> QED BY <3>1, <3>2
  <2> QED BY <1>7, <1>12, <2>3
<1> QED BY <1>7, <1>11, <1>12 DEF r, NoRepeat

\* The elements after the removal of one.
LEMMA RemoveElems ==
    ASSUME NEW S, NEW s \in Seq(S), NEW i \in 1 .. Len(s)
    PROVE  /\ RemoveAt(s, i) \in Seq(S)
           /\ DOMAIN RemoveAt(s, i) = 1 .. Len(s) - 1
           /\ \A j \in 1 .. Len(s) - 1 : RemoveAt(s, i)[j] = IF j < i THEN s[j] ELSE s[j+1]
           /\ ToSet(s) = ToSet(RemoveAt(s, i)) \union {s[i]}
           /\ NoRepeat(s) => NoRepeat(RemoveAt(s, i)) /\ s[i] \notin ToSet(RemoveAt(s, i))
<1> DEFINE n == Len(s)  a == SubSeq(s, 1, i-1)  b == SubSeq(s, i+1, n)  r == RemoveAt(s, i)
<1>1. n \in Nat /\ DOMAIN s = 1 .. n /\ \A j \in 1 .. n : s[j] \in S
  BY LenProperties, ElementOfSeq
<1>2. a \in Seq(S) /\ Len(a) = i - 1 /\ \A j \in 1 .. i-1 : a[j] = s[j]
  BY <1>1, SubSeqProperties
<1>3. b \in Seq(S) /\ Len(b) = n - i /\ \A j \in 1 .. n-i : b[j] = s[i + j]
  <2>1. \A j \in i+1 .. n : s[j] \in S
    BY <1>1
  <2>2. /\ b \in Seq(S) /\ Len(b) = IF i+1 <= n THEN n-(i+1)+1 ELSE 0
        /\ \A j \in 1 .. n-(i+1)+1 : b[j] = s[(i+1)+j-1]
    <3>1. i + 1 \in Int /\ n \in Int  BY <1>1
    <3> HIDE DEF n
    <3> QED BY <3>1, <2>1, SubSeqProperties
  <2>a. i \in 1 .. n /\ n \in Nat  BY <1>1
  <2> HIDE DEF b, n
  <2>3. n-(i+1)+1 = n - i /\ (i+1 <= n \/ n - i = 0) /\ \A j \in 1 .. n-i : (i+1)+j-1 = i + j
    BY <2>a
  <2>4. Len(b) = n - i  BY <2>2, <2>3
  <2>5. \A j \in 1 .. n-i : b[j] = s[i + j]  BY <2>2, <2>3
  <2> QED BY <2>2, <2>4, <2>5
<1> HIDE DEF a, b
<1>4. /\ a \o b \in Seq(S) /\ Len(a \o b) = n - 1
      /\ \A j \in 1 .. n - 1 : (a \o b)[j] = IF j < i THEN s[j] ELSE s[j+1]
  <2>1. /\ a \o b \in Seq(S) /\ Len(a \o b) = n - 1
        /\ \A j \in 1 .. n - 1 : (a \o b)[j] = IF j <= i - 1 THEN a[j] ELSE b[j - (i-1)]
    <3>1. Len(a) + Len(b) = n - 1
      BY <1>1, <1>2, <1>3
    <3>2. /\ a \o b \in Seq(S) /\ Len(a \o b) = Len(a) + Len(b)
          /\ \A j \in 1 .. Len(a) + Len(b) :
                (a \o b)[j] = IF j <= Len(a) THEN a[j] ELSE b[j - Len(a)]
      BY <1>2, <1>3, ConcatProperties
    <3> QED BY <1>2, <3>1, <3>2
  <2>2. \A j \in 1 .. n - 1 : j > i - 1 => b[j - (i-1)] = s[j+1]
    <3> SUFFICES ASSUME NEW j \in 1 .. n - 1, j > i - 1 PROVE b[j - (i-1)] = s[j+1]
      OBVIOUS
    <3>1. j - (i-1) \in 1 .. n-i /\ i + (j - (i-1)) = j + 1
      BY <1>1
    <3> QED BY <1>3, <3>1
  <2>3. \A j \in 1 .. n - 1 : j <= i - 1 <=> j < i
    BY <1>1
  <2>4. \A j \in 1 .. n - 1 : j < i => a[j] = s[j]
    BY <1>1, <1>2
  <2>5. \A j \in 1 .. n - 1 : ~(j < i) => b[j - (i-1)] = s[j+1]
    BY <1>1, <2>2
  <2> QED BY <2>1, <2>3, <2>4, <2>5
<1>5. /\ r \in Seq(S) /\ DOMAIN r = 1 .. n - 1
      /\ \A j \in 1 .. n - 1 : r[j] = IF j < i THEN s[j] ELSE s[j+1]
  BY <1>1, <1>4, LenProperties DEF RemoveAt, a, b
<1> HIDE DEF r
<1>6. \A j \in DOMAIN r : LET l == IF j < i THEN j ELSE j + 1
                         IN  l \in DOMAIN s /\ l # i /\ r[j] = s[l]
  BY <1>1, <1>5
<1>7. \A j \in DOMAIN s : s[j] # s[i] => \E l \in DOMAIN r : r[l] = s[j]
  <2> SUFFICES ASSUME NEW j \in DOMAIN s, s[j] # s[i] PROVE \E l \in DOMAIN r : r[l] = s[j]
    OBVIOUS
  <2>1. CASE j < i
    <3>1. j \in DOMAIN r /\ r[j] = s[j]  BY <1>1, <1>5, <2>1
    <3> QED BY <3>1
  <2>2. CASE j > i
    <3>1. j - 1 \in DOMAIN r /\ r[j - 1] = s[j]  BY <1>1, <1>5, <2>2
    <3> QED BY <3>1
  <2> QED BY <1>1, <2>1, <2>2
<1>8. ToSet(s) = ToSet(r) \union {s[i]}
  <2>1. ToSet(r) \subseteq ToSet(s)
    BY <1>6 DEF ToSet
  <2>2. s[i] \in ToSet(s)
    BY <1>1 DEF ToSet
  <2>3. ToSet(s) \subseteq ToSet(r) \union {s[i]}
    BY <1>7 DEF ToSet
  <2> QED BY <2>1, <2>2, <2>3
<1>9. ASSUME NoRepeat(s) PROVE NoRepeat(r) /\ s[i] \notin ToSet(r)
  <2>1. \A l, m \in DOMAIN s : s[l] = s[m] => l = m
    BY <1>9 DEF NoRepeat
  <2>2. s[i] \notin ToSet(r)
    BY <1>1, <1>6, <2>1 DEF ToSet
  <2>3. ASSUME NEW j \in DOMAIN r, NEW k \in DOMAIN r, r[j] = r[k], j < k
        PROVE  FALSE
    <3> DEFINE l == IF j < i THEN j ELSE j + 1   m == IF k < i THEN k ELSE k + 1
    <3>1. l \in DOMAIN s /\ m \in DOMAIN s /\ l < m /\ s[l] = s[m]
      BY <1>1, <1>5, <2>3
    <3> QED BY <1>1, <2>1, <3>1
  <2> QED BY <1>5, <2>2, <2>3 DEF NoRepeat
<1> QED BY <1>5, <1>8, <1>9 DEF r

-----------------------------------------------------------------------------
(* The run tree as the set of its threads. *)

\* An insertion adds the thread; the cached leftmost node is it or the old one.
LEMMA TreeInsElems ==
    ASSUME NEW tree \in Trees, NEW vr, NEW t \in Thread, NEW new \in TreeIns(tree, vr, t)
    PROVE  /\ ToSet(new.order) = ToSet(tree.order) \union {t}
           /\ new.left \in {t, tree.left}
           /\ NoRepeat(tree.order) /\ t \notin ToSet(tree.order) => NoRepeat(new.order)
<1> DEFINE s == tree.order
<1>1. s \in Seq(Thread)  BY DEF Trees
<1>2. PICK i \in 1 .. Len(s) + 1 :
          new = [order |-> InsertAt(s, i, t),
                 left  |-> IF s = <<>> \/ tree.left = None \/ Less(vr, t, tree.left)
                           THEN t ELSE tree.left]
  BY DEF TreeIns, Gaps
<1>3. /\ ToSet(InsertAt(s, i, t)) = ToSet(s) \union {t}
      /\ NoRepeat(s) /\ t \notin ToSet(s) => NoRepeat(InsertAt(s, i, t))
  BY <1>1, InsertElems
<1> QED BY <1>2, <1>3

\* A deletion removes the thread; the cached leftmost node stays in the tree.
LEMMA TreeDelElems ==
    ASSUME NEW tree \in Trees, NEW t \in Thread
    PROVE  LET new == TreeDel(tree, t) IN
           /\ ToSet(new.order) \subseteq ToSet(tree.order)
           /\ ToSet(new.order) \union {t} = ToSet(tree.order) \union {t}
           /\ new.left \in {tree.left, None} \union ToSet(new.order)
           /\ NoRepeat(tree.order) => /\ NoRepeat(new.order) /\ t \notin ToSet(new.order)
                                      /\ new.left # t \/ t \notin ToSet(tree.order)
<1> DEFINE s == tree.order
           i == CHOOSE j \in DOMAIN s : s[j] = t
           r == RemoveAt(s, i)
           l == IF tree.left # t THEN tree.left ELSE IF i < Len(s) THEN s[i + 1] ELSE None
<1>1. s \in Seq(Thread) /\ DOMAIN s = 1 .. Len(s) /\ Len(s) \in Nat
  BY LenProperties DEF Trees
<1>2. CASE ~Contains(s, t)
  <2>1. t \notin ToSet(s)  BY <1>1, <1>2 DEF Contains, ToSet
  <2> QED BY <1>2, <2>1 DEF TreeDel
<1>3. CASE Contains(s, t)
  <2>1. i \in 1 .. Len(s) /\ s[i] = t  BY <1>1, <1>3 DEF Contains
  <2>2. TreeDel(tree, t) = [order |-> r, left |-> l]
    BY <1>3 DEF TreeDel
  <2> HIDE DEF i
  <2>3. /\ DOMAIN r = 1 .. Len(s) - 1
        /\ \A j \in 1 .. Len(s) - 1 : r[j] = IF j < i THEN s[j] ELSE s[j+1]
        /\ ToSet(s) = ToSet(r) \union {t}
        /\ NoRepeat(s) => NoRepeat(r) /\ t \notin ToSet(r)
    BY <1>1, <2>1, RemoveElems
  <2>4. CASE tree.left # t
    BY <2>2, <2>3, <2>4
  <2>5. CASE tree.left = t /\ i < Len(s)
    <3>1. i \in DOMAIN r /\ r[i] = s[i + 1]
      BY <1>1, <2>1, <2>3, <2>5
    <3>2. s[i + 1] \in ToSet(r)
      BY <3>1 DEF ToSet
    <3> QED BY <2>2, <2>3, <2>5, <3>2
  <2>6. CASE tree.left = t /\ ~(i < Len(s))
    <3>1. None # t  BY DEF None, Thread
    <3> QED BY <2>2, <2>3, <2>6, <3>1
  <2> QED BY <2>4, <2>5, <2>6
<1> QED BY <1>2, <1>3
-----------------------------------------------------------------------------
(* What a step moves between the queues of one CPU.                        *)

\* A tree without repetition whose cached leftmost node is in it.
Sound(tree) == NoRepeat(tree.order) /\ tree.left \in ToSet(tree.order) \union {None}

\* The threads of out left the tree and those of in, not there before, came.
TreeMoved(old, new, out, in) ==
    /\ ToSet(new.order) \subseteq ToSet(old.order) \union in
    /\ new.left \in {old.left, None} \union ToSet(old.order) \union in
    /\ Sound(old) /\ in \cap ToSet(old.order) = {} =>
          Sound(new) /\ ToSet(new.order) = (ToSet(old.order) \ out) \union in

\* The same of a list.
ListMoved(old, new, out, in) ==
    /\ ToSet(new) \subseteq ToSet(old) \union in
    /\ NoRepeat(old) /\ in \cap ToSet(old) = {} =>
          NoRepeat(new) /\ ToSet(new) = (ToSet(old) \ out) \union in

\* Queues of CPUs other than c stay.
Elsewhere(c) ==
    \A d \in CPU \ {c} : /\ TreeOf(d)' = TreeOf(d)
                         /\ rdyPreemptThds'[d] = rdyPreemptThds[d]
                         /\ sleepThds'[d] = sleepThds[d]

\* Nothing moves in what stays.
LEMMA Unmoved == \A x : TreeMoved(x, x, {}, {}) /\ ListMoved(x, x, {}, {})
BY DEF TreeMoved, ListMoved

\* RBTree_ins and RBTree_del as moves.
LEMMA InsMoved ==
    ASSUME NEW tree \in Trees, NEW vr, NEW t \in Thread, NEW new \in TreeIns(tree, vr, t)
    PROVE  TreeMoved(tree, new, {}, {t})
<1>1. /\ ToSet(new.order) = ToSet(tree.order) \union {t}
      /\ new.left \in {t, tree.left}
      /\ NoRepeat(tree.order) /\ t \notin ToSet(tree.order) => NoRepeat(new.order)
  BY TreeInsElems
<1> QED BY <1>1 DEF TreeMoved, Sound

\* What TreeDel moves.
LEMMA DelMoved ==
    ASSUME NEW tree \in Trees, NEW t \in Thread
    PROVE  TreeMoved(tree, TreeDel(tree, t), {t}, {})
<1> DEFINE new == TreeDel(tree, t)
<1>1. /\ ToSet(new.order) \subseteq ToSet(tree.order)
      /\ ToSet(new.order) \union {t} = ToSet(tree.order) \union {t}
      /\ new.left \in {tree.left, None} \union ToSet(new.order)
      /\ NoRepeat(tree.order) => /\ NoRepeat(new.order) /\ t \notin ToSet(new.order)
                                 /\ new.left # t \/ t \notin ToSet(tree.order)
  BY TreeDelElems
<1> HIDE DEF new
<1>2. ASSUME Sound(tree)
      PROVE  Sound(new) /\ ToSet(new.order) = ToSet(tree.order) \ {t}
  <2>1. ToSet(new.order) = ToSet(tree.order) \ {t}
    BY <1>1, <1>2 DEF Sound
  <2> QED BY <1>1, <1>2, <2>1 DEF Sound
<1> QED BY <1>1, <1>2 DEF TreeMoved, new
\* A thread in and another out, one after the other.
LEMMA SwapMoved ==
    ASSUME NEW a, NEW b, NEW d, NEW n \in Thread, NEW t \in Thread,
           TreeMoved(a, b, {n}, {}), TreeMoved(b, d, {}, {t})
    PROVE  TreeMoved(a, d, {n}, {t})
<1>1. /\ ToSet(b.order) \subseteq ToSet(a.order)
      /\ b.left \in {a.left, None} \union ToSet(a.order)
      /\ Sound(a) => Sound(b) /\ ToSet(b.order) = ToSet(a.order) \ {n}
  BY DEF TreeMoved
<1>2. /\ ToSet(d.order) \subseteq ToSet(b.order) \union {t}
      /\ d.left \in {b.left, None} \union ToSet(b.order) \union {t}
      /\ Sound(b) /\ t \notin ToSet(b.order) =>
            Sound(d) /\ ToSet(d.order) = ToSet(b.order) \union {t}
  BY DEF TreeMoved
<1> QED BY <1>1, <1>2 DEF TreeMoved
\* A thread in and none out.
LEMMA PassMoved ==
    ASSUME NEW a, NEW b, NEW d, NEW t \in Thread,
           TreeMoved(a, b, {}, {}), TreeMoved(b, d, {}, {t})
    PROVE  TreeMoved(a, d, {}, {t})
<1>1. /\ ToSet(b.order) \subseteq ToSet(a.order)
      /\ b.left \in {a.left, None} \union ToSet(a.order)
      /\ Sound(a) => Sound(b) /\ ToSet(b.order) = ToSet(a.order)
  BY DEF TreeMoved
<1>2. /\ ToSet(d.order) \subseteq ToSet(b.order) \union {t}
      /\ d.left \in {b.left, None} \union ToSet(b.order) \union {t}
      /\ Sound(b) /\ t \notin ToSet(b.order) =>
            Sound(d) /\ ToSet(d.order) = ToSet(b.order) \union {t}
  BY DEF TreeMoved
<1> QED BY <1>1, <1>2 DEF TreeMoved

\* Linking at the end of a list and taking its head, as moves.
LEMMA AppendMoved ==
    ASSUME NEW s \in Seq(Thread), NEW t \in Thread
    PROVE  ListMoved(s, Append(s, t), {}, {t})
BY AppendElems DEF ListMoved

\* The first of a list taken.
LEMMA TailMoved ==
    ASSUME NEW s \in Seq(Thread), s # <<>>
    PROVE  ListMoved(s, Tail(s), {Head(s)}, {})
<1>1. /\ ToSet(s) = ToSet(Tail(s)) \union {Head(s)}
      /\ NoRepeat(s) => NoRepeat(Tail(s)) /\ Head(s) \notin ToSet(Tail(s))
  BY TailElems
<1> QED BY <1>1 DEF ListMoved

\* Storing a tree.
LEMMA SetTreeMoved ==
    ASSUME TypeOK, NEW c \in CPU, NEW tree \in Trees, SetTree(c, tree)
    PROVE  TreeOf(c)' = tree /\ \A d \in CPU \ {c} : TreeOf(d)' = TreeOf(d)
BY DEF TypeOK, SetTree, TreeOf, Trees

\* What an operation on t moves: nothing; a launched or woken thread into the
\* tree; a preempting one to the list, out of the tree or of its sleep.
DoMoved(c, t, op) ==
    LET tree(out, in) == TreeMoved(TreeOf(c), TreeOf(c)', out, in)
        list(in) == ListMoved(rdyPreemptThds[c], rdyPreemptThds'[c], {}, in)
    IN
    /\ Elsewhere(c)
    /\ \/ /\ op # "launch" /\ (op = "wake" => state[t] # Sleep)
          /\ op = "preempt" => state[t] \notin {Idle, Sleep}
          /\ tree({}, {}) /\ list({})
          /\ UNCHANGED <<state, sleepThds>>
       \/ /\ op = "launch"
          /\ tree({}, {t}) /\ list({})
          /\ UNCHANGED <<state, sleepThds>>
       \/ /\ op = "wake" /\ state[t] = Sleep
          /\ state' = [state EXCEPT ![t] = Idle]
          /\ tree({}, {t}) /\ list({})
          /\ sleepThds' = [sleepThds EXCEPT ![c] = @ \ {t}]
       \/ /\ op = "preempt" /\ state[t] = Idle
          /\ state' = [state EXCEPT ![t] = NeedPreempt]
          /\ tree({t}, {}) /\ list({t})
          /\ UNCHANGED sleepThds
       \/ /\ op = "preempt" /\ state[t] = Sleep
          /\ state' = [state EXCEPT ![t] = NeedPreempt]
          /\ tree({}, {}) /\ list({t})
          /\ sleepThds' = [sleepThds EXCEPT ![c] = @ \ {t}]

\* Each operation under pause moves the thread as DoMoved says.
LEMMA DoMoves ==
    ASSUME TypeOK, NEW c \in CPU, NEW r \in WaitReq, Do(c, r)
    PROVE  DoMoved(c, r.thd, r.op)
<1> DEFINE t == r.thd
<1>1. t \in Thread /\ r.op \in Ops  BY DEF WaitReq
<1>2. TreeOf(c) \in Trees  BY TreeOfType
<1>3. rdyPreemptThds[c] \in Seq(Thread) /\ DOMAIN rdyPreemptThds = CPU /\ DOMAIN sleepThds = CPU
  BY DEF TypeOK
<1>4. ASSUME NEW tree \in TreeIns(TreeOf(c), vRuntime', t), SetTree(c, tree)
      PROVE  /\ TreeMoved(TreeOf(c), TreeOf(c)', {}, {t})
             /\ \A d \in CPU \ {c} : TreeOf(d)' = TreeOf(d)
  <2>1. tree \in Trees  BY <1>1, <1>2, <1>4, TreeInsType
  <2> QED BY <1>1, <1>2, <1>4, <2>1, SetTreeMoved, InsMoved
<1>5. UNCHANGED <<thds, left>>
        => TreeMoved(TreeOf(c), TreeOf(c)', {}, {}) /\ \A d \in CPU : TreeOf(d)' = TreeOf(d)
  BY Unmoved DEF TreeOf
<1>6. ListMoved(rdyPreemptThds[c], rdyPreemptThds[c], {}, {})
  BY Unmoved
<1>7. rdyPreemptThds' = [rdyPreemptThds EXCEPT ![c] = Append(@, t)]
        => /\ ListMoved(rdyPreemptThds[c], rdyPreemptThds'[c], {}, {t})
           /\ \A d \in CPU \ {c} : rdyPreemptThds'[d] = rdyPreemptThds[d]
  BY <1>1, <1>3, AppendMoved
<1>8. CASE r.op = "launch" /\ LaunchThd(c, t)
  BY <1>4, <1>6, <1>8 DEF LaunchThd, DoMoved, Elsewhere
<1>9. CASE r.op = "wake" /\ WakeThd(c, t)
  <2>1. CASE state[t] = Sleep
    <3>1. /\ \E tree \in TreeIns(TreeOf(c), vRuntime', t) : SetTree(c, tree)
          /\ state' = [state EXCEPT ![t] = Idle]
          /\ sleepThds' = [sleepThds EXCEPT ![c] = @ \ {t}]
          /\ UNCHANGED rdyPreemptThds
      BY <1>9, <2>1 DEF WakeThd
    <3>2. /\ TreeMoved(TreeOf(c), TreeOf(c)', {}, {t})
          /\ \A d \in CPU \ {c} : TreeOf(d)' = TreeOf(d)
      BY <1>4, <3>1
    <3> QED BY <1>3, <1>6, <1>9, <2>1, <3>1, <3>2 DEF DoMoved, Elsewhere
  <2>2. CASE state[t] # Sleep
    <3>1. UNCHANGED <<state, sleepThds, thds, left, rdyPreemptThds>>
      BY <1>9, <2>2 DEF WakeThd
    <3> QED BY <1>5, <1>6, <1>9, <2>2, <3>1 DEF DoMoved, Elsewhere
  <2> QED BY <2>1, <2>2
<1>10. CASE r.op = "preempt" /\ PreemptThd(c, t)
  <2>1. Idle # Sleep  BY DEF Idle, Sleep
  <2>2. CASE state[t] = Idle
    <3>1. /\ SetTree(c, TreeDel(TreeOf(c), t))
          /\ UNCHANGED sleepThds
          /\ state' = [state EXCEPT ![t] = NeedPreempt]
          /\ rdyPreemptThds' = [rdyPreemptThds EXCEPT ![c] = Append(@, t)]
      BY <1>10, <2>1, <2>2 DEF PreemptThd
    <3>2. TreeDel(TreeOf(c), t) \in Trees  BY <1>1, <1>2, TreeDelType
    <3>3. /\ TreeMoved(TreeOf(c), TreeOf(c)', {t}, {})
          /\ \A d \in CPU \ {c} : TreeOf(d)' = TreeOf(d)
      BY <1>1, <1>2, <3>1, <3>2, SetTreeMoved, DelMoved
    <3> QED BY <1>7, <1>10, <2>2, <3>1, <3>3 DEF DoMoved, Elsewhere
  <2>3. CASE state[t] = Sleep
    <3>1. /\ UNCHANGED <<thds, left>>
          /\ sleepThds' = [sleepThds EXCEPT ![c] = @ \ {t}]
          /\ state' = [state EXCEPT ![t] = NeedPreempt]
          /\ rdyPreemptThds' = [rdyPreemptThds EXCEPT ![c] = Append(@, t)]
      BY <1>10, <2>1, <2>3 DEF PreemptThd
    <3> QED BY <1>3, <1>5, <1>7, <1>10, <2>3, <3>1 DEF DoMoved, Elsewhere
  <2>4. CASE state[t] \notin {Idle, Sleep}
    <3>1. UNCHANGED <<state, sleepThds, thds, left, rdyPreemptThds>>
      BY <1>10, <2>4 DEF PreemptThd
    <3> QED BY <1>5, <1>6, <1>10, <2>4, <3>1 DEF DoMoved, Elsewhere
  <2> QED BY <2>2, <2>3, <2>4
<1> QED BY <1>8, <1>9, <1>10 DEF Do
\* What task_sche_trySche moves: nothing, or the next thread n out of its list
\* or tree and the current one to sleep, to be freed or into the tree.
Picked(c, n, out, list) ==
    \/ /\ n \in ToSet(rdyPreemptThds[c]) /\ out = {} /\ list = {n}
    \/ /\ n = left[c] /\ out = {n} /\ list = {}
TryMoved(c) ==
    LET t == cur[c] IN
    \/ /\ state' = [state EXCEPT ![t] = Running]
       /\ UNCHANGED <<cur, queues, freeThds>>
    \/ \E n \in Thread, out, list \in SUBSET Thread :
          /\ Picked(c, n, out, list)
          /\ cur' = [cur EXCEPT ![c] = n]
          /\ Elsewhere(c)
          /\ ListMoved(rdyPreemptThds[c], rdyPreemptThds'[c], list, {})
          /\ \/ /\ reqWait[t] > 0 /\ ~working[t]
                /\ state' = [state EXCEPT ![n] = Running, ![t] = Sleep]
                /\ sleepThds' = [sleepThds EXCEPT ![c] = @ \union {t}]
                /\ TreeMoved(TreeOf(c), TreeOf(c)', out, {})
                /\ UNCHANGED freeThds
             \/ /\ state[t] = NeedFree
                /\ state' = [state EXCEPT ![n] = Running, ![t] = Free]
                /\ freeThds' = [freeThds EXCEPT ![c] = Append(@, t)]
                /\ TreeMoved(TreeOf(c), TreeOf(c)', out, {})
                /\ UNCHANGED sleepThds
             \/ /\ state' = [state EXCEPT ![n] = Running, ![t] = Idle]
                /\ TreeMoved(TreeOf(c), TreeOf(c)', out, {t})
                /\ UNCHANGED <<sleepThds, freeThds>>

\* A schedule moves the current thread and the next as TryMoved says.
LEMMA TryMoves ==
    ASSUME TypeOK, NEW c \in CPU, TrySche(c)
    PROVE  TryMoved(c)
<1> DEFINE t == cur[c]  first == left[c]
<1>1. t \in Thread /\ TreeOf(c) \in Trees
  BY TreeOfType DEF TypeOK
<1>2. rdyPreemptThds \in [CPU -> Seq(Thread)] /\ DOMAIN sleepThds = CPU
  BY DEF TypeOK
<1>3. ASSUME NEW n \in Thread, NEW out \in SUBSET Thread, NEW list \in SUBSET Thread,
             NEW tree \in Trees, SwitchTo(c, n, tree), Picked(c, n, out, list),
             out \in SUBSET {n}, TreeMoved(TreeOf(c), tree, out, {}),
             \A d \in CPU \ {c} : rdyPreemptThds'[d] = rdyPreemptThds[d],
             ListMoved(rdyPreemptThds[c], rdyPreemptThds'[c], list, {})
      PROVE  TryMoved(c)
  <2>1. ASSUME SetTree(c, tree)
        PROVE  /\ TreeMoved(TreeOf(c), TreeOf(c)', out, {})
               /\ \A d \in CPU \ {c} : TreeOf(d)' = TreeOf(d)
    BY <1>3, <2>1, SetTreeMoved
  <2>2. ASSUME NEW new \in TreeIns(tree, vRuntime, t), SetTree(c, new)
        PROVE  /\ TreeMoved(TreeOf(c), TreeOf(c)', out, {t})
               /\ \A d \in CPU \ {c} : TreeOf(d)' = TreeOf(d)
    <3>1. new \in Trees /\ TreeMoved(tree, new, {}, {t})
      BY <1>1, <2>2, TreeInsType, InsMoved
    <3>2. TreeMoved(TreeOf(c), new, out, {t})
      <4>1. CASE out = {n}
        <5>1. TreeMoved(TreeOf(c), tree, {n}, {})
          BY <1>3, <4>1
        <5>2. TreeMoved(TreeOf(c), new, {n}, {t})
          BY <1>1, <3>1, <5>1, SwapMoved
        <5> QED BY <4>1, <5>2
      <4>2. CASE out = {}
        <5>1. TreeMoved(TreeOf(c), tree, {}, {})
          BY <1>3, <4>2
        <5>2. TreeMoved(TreeOf(c), new, {}, {t})
          BY <1>1, <3>1, <5>1, PassMoved
        <5> QED BY <4>2, <5>2
      <4> QED BY <1>3, <4>1, <4>2
    <3> QED BY <2>2, <3>1, <3>2, SetTreeMoved
  <2>3. CASE /\ reqWait[t] > 0 /\ ~working[t]
             /\ state' = [state EXCEPT ![n] = Running, ![t] = Sleep]
             /\ sleepThds' = [sleepThds EXCEPT ![c] = @ \union {t}]
             /\ SetTree(c, tree)
             /\ UNCHANGED freeThds
    <3>1. Elsewhere(c)
      BY <1>2, <1>3, <2>1, <2>3 DEF Elsewhere
    <3> QED BY <1>3, <2>1, <2>3, <3>1 DEF TryMoved, SwitchTo
  <2>4. CASE /\ state[t] = NeedFree
             /\ state' = [state EXCEPT ![n] = Running, ![t] = Free]
             /\ freeThds' = [freeThds EXCEPT ![c] = Append(@, t)]
             /\ SetTree(c, tree)
             /\ UNCHANGED sleepThds
    <3>1. Elsewhere(c)
      BY <1>2, <1>3, <2>1, <2>4 DEF Elsewhere
    <3> QED BY <1>3, <2>1, <2>4, <3>1 DEF TryMoved, SwitchTo
  <2>5. CASE /\ state' = [state EXCEPT ![n] = Running, ![t] = Idle]
             /\ \E new \in TreeIns(tree, vRuntime, t) : SetTree(c, new)
             /\ UNCHANGED <<sleepThds, freeThds>>
    <3>1. /\ TreeMoved(TreeOf(c), TreeOf(c)', out, {t})
          /\ \A d \in CPU \ {c} : TreeOf(d)' = TreeOf(d)
      BY <2>2, <2>5
    <3>2. Elsewhere(c)
      BY <1>2, <1>3, <2>5, <3>1 DEF Elsewhere
    <3> QED BY <1>3, <2>5, <3>1, <3>2 DEF TryMoved, SwitchTo
  <2> QED BY <1>3, <2>3, <2>4, <2>5 DEF SwitchTo
<1>4. CASE /\ rdyPreemptThds[c] # <<>>
           /\ rdyPreemptThds' = [rdyPreemptThds EXCEPT ![c] = Tail(@)]
           /\ SwitchTo(c, Head(rdyPreemptThds[c]), TreeOf(c))
  <2> DEFINE n == Head(rdyPreemptThds[c])
  <2>1. n \in Thread /\ n \in ToSet(rdyPreemptThds[c])
    BY <1>2, <1>4, TailElems
  <2>2. /\ \A d \in CPU \ {c} : rdyPreemptThds'[d] = rdyPreemptThds[d]
        /\ ListMoved(rdyPreemptThds[c], rdyPreemptThds'[c], {n}, {})
    BY <1>2, <1>4, TailMoved
  <2>3. TreeMoved(TreeOf(c), TreeOf(c), {}, {})
    BY Unmoved
  <2>4. Picked(c, n, {}, {n})
    BY <2>1 DEF Picked
  <2> HIDE DEF n
  <2>5. SwitchTo(c, n, TreeOf(c))
    BY <1>4 DEF n
  <2> QED BY <1>1, <1>3, <2>1, <2>2, <2>3, <2>4, <2>5
<1>5. CASE /\ first # None
           /\ SwitchTo(c, first, TreeDel(TreeOf(c), first))
           /\ UNCHANGED rdyPreemptThds
  <2>1. first \in Thread
    BY <1>5 DEF TypeOK
  <2>2. /\ TreeDel(TreeOf(c), first) \in Trees
        /\ TreeMoved(TreeOf(c), TreeDel(TreeOf(c), first), {first}, {})
    BY <1>1, <2>1, TreeDelType, DelMoved
  <2>3. ListMoved(rdyPreemptThds[c], rdyPreemptThds'[c], {}, {})
    BY <1>5, Unmoved
  <2>4. Picked(c, first, {first}, {})
    BY DEF Picked
  <2> QED BY <1>3, <1>5, <2>1, <2>2, <2>3, <2>4
<1>6. CASE /\ state' = [state EXCEPT ![t] = Running]
           /\ UNCHANGED <<cur, queues, freeThds>>
  BY <1>6 DEF TryMoved
<1> QED BY <1>4, <1>5, <1>6 DEF TrySche
-----------------------------------------------------------------------------
(* Threads stay on their CPU. *)

\* Idle threads start on their own CPU and the queues are empty.
LEMMA LocalInit == Init => LocalInv
<1> SUFFICES ASSUME Init, NEW c \in CPU
             PROVE  cur[c] \in Own(c) /\ LocalQueues(c) /\ LocalOps(c)
  BY DEF LocalInv
<1>1. c \in Thread /\ CpuOf(c) = c
  BY CpuAssumption, ThreadAssumption DEF CPU, Thread, CpuOf
<1>2. cur[c] \in Own(c)
  BY <1>1 DEF Init, Own
<1>3. thds[c] = <<>> /\ left[c] = None /\ rdyPreemptThds[c] = <<>> /\ reqs[c] = <<>>
        /\ hand[c] = NoHand
  BY DEF Init
<1>4. ToSet(<<>>) = {} /\ DOMAIN <<>> = {}
  BY DEF ToSet
<1> QED BY <1>2, <1>3, <1>4 DEF LocalQueues, LocalOps

\* Moves of threads of one CPU into its queues keep the queues local.
LEMMA LocalMoved ==
    ASSUME TypeOK, LocalInv, NEW c \in CPU, Elsewhere(c),
           NEW out, NEW in \in SUBSET Own(c), NEW from, NEW to \in SUBSET Own(c),
           TreeMoved(TreeOf(c), TreeOf(c)', out, in),
           ListMoved(rdyPreemptThds[c], rdyPreemptThds'[c], from, to)
    PROVE  \A d \in CPU : LocalQueues(d)'
<1> SUFFICES ASSUME NEW d \in CPU PROVE LocalQueues(d)'
  OBVIOUS
<1>1. LocalQueues(d) /\ LocalQueues(c)
  BY DEF LocalInv
<1>2. CASE d # c
  BY <1>1, <1>2 DEF Elsewhere, LocalQueues, TreeOf
<1>3. CASE d = c
  BY <1>1, <1>3 DEF TreeMoved, ListMoved, LocalQueues, TreeOf
<1> QED BY <1>2, <1>3

\* An operation on a thread of c keeps its queues local.
LEMMA LocalDo ==
    ASSUME TypeOK, LocalInv, NEW c \in CPU, NEW r \in WaitReq, CpuOf(r.thd) = c, Do(c, r)
    PROVE  \A d \in CPU : LocalQueues(d)'
<1> DEFINE t == r.thd
<1>1. t \in Own(c)  BY DEF WaitReq, Own
<1>2. {t} \subseteq Own(c) /\ {} \subseteq Own(c)  BY <1>1
<1>3. DoMoved(c, t, r.op)  BY DoMoves
<1> QED BY <1>2, <1>3, LocalMoved DEF DoMoved

\* A request queue gets requests for threads of its CPU only.
LEMMA LocalSend ==
    ASSUME TypeOK, LocalInv, NEW t \in Thread, NEW op \in Ops, SendReq(t, op), UNCHANGED hand
    PROVE  \A d \in CPU : LocalOps(d)'
<1> SUFFICES ASSUME NEW d \in CPU PROVE LocalOps(d)'
  OBVIOUS
<1> DEFINE r == [thd |-> t, op |-> op]
<1>1. LocalOps(d) /\ reqs \in [CPU -> Seq(WaitReq)] /\ r \in WaitReq /\ CpuOf(t) \in CPU
  BY CpuOfType DEF LocalInv, TypeOK, WaitReq
<1>2. CASE d # CpuOf(t)
  BY <1>1, <1>2 DEF SendReq, LocalOps
<1>3. CASE d = CpuOf(t)
  <2>1. reqs'[d] = Append(reqs[d], r) /\ reqs[d] \in Seq(WaitReq)
    BY <1>1, <1>3 DEF SendReq
  <2>2. DOMAIN reqs'[d] = DOMAIN reqs[d] \union {Len(reqs[d]) + 1}
          /\ reqs'[d][Len(reqs[d]) + 1] = r
          /\ \A i \in DOMAIN reqs[d] : reqs'[d][i] = reqs[d][i]
    BY <1>1, <2>1, AppendProperties, LenProperties
  <2> QED BY <1>1, <1>3, <2>2 DEF LocalOps
<1> QED BY <1>2, <1>3

\* Threads are queued, switched to and operated on only by their own CPU.
LEMMA LocalStep == TypeOK /\ LocalInv /\ [Next]_vars => LocalInv'
<1> SUFFICES ASSUME TypeOK, LocalInv, [Next]_vars PROVE LocalInv'
  OBVIOUS
<1> USE DEF queues
<1>0. CASE UNCHANGED <<cur, queues, reqs, hand>>
  BY <1>0 DEF LocalInv, LocalQueues, LocalOps
<1>1. ASSUME UNCHANGED <<cur, queues>>, \A d \in CPU : LocalOps(d)'
      PROVE  LocalInv'
  BY <1>1 DEF LocalInv, LocalQueues
<1>2. ASSUME UNCHANGED cur, \A d \in CPU : LocalQueues(d)', \A d \in CPU : LocalOps(d)'
      PROVE  LocalInv'
  BY <1>2 DEF LocalInv
<1>3. ASSUME NEW c \in CPU, NEW t \in Thread, Launch(c, t)
      PROVE  LocalInv'
  <2> DEFINE u == thdCnt
  <2>1. u \in Thread
    BY <1>3, CpuAssumption, ThreadAssumption DEF Launch, TypeOK, Thread
  <2>2. CASE CpuOf(u) = c
    <3>1. hand' = [hand EXCEPT ![c] = [thd |-> u, op |-> "launch"]] /\ UNCHANGED reqs
      BY <1>3, <2>2 DEF Launch
    <3>2. \A d \in CPU : LocalOps(d)'
      BY <2>2, <3>1 DEF LocalInv, LocalOps, TypeOK
    <3> QED BY <1>1, <1>3, <3>2 DEF Launch
  <2>3. CASE CpuOf(u) # c
    <3>1. SendReq(u, "launch") /\ UNCHANGED hand
      BY <1>3, <2>3 DEF Launch
    <3>2. \A d \in CPU : LocalOps(d)'
      BY <2>1, <3>1, LocalSend DEF Ops
    <3> QED BY <1>1, <1>3, <3>2 DEF Launch
  <2> QED BY <2>2, <2>3
<1>4. ASSUME NEW c \in CPU, NEW t \in Thread, Operate(c, t)
      PROVE  LocalInv'
  <2>1. hand[c] \in WaitReq
    BY <1>4 DEF Operate, Do, NoHand, TypeOK, Here
  <2>2. CpuOf(hand[c].thd) = c
    <3>1. hand[c] # NoHand
      BY <1>4 DEF Operate, Do, NoHand
    <3> QED BY <3>1 DEF LocalInv, LocalOps
  <2>3. \A d \in CPU : LocalQueues(d)'
    BY <1>4, <2>1, <2>2, LocalDo DEF Operate
  <2>4. \A d \in CPU : LocalOps(d)'
    BY <1>4 DEF Operate, LocalInv, LocalOps, TypeOK
  <2> QED BY <1>2, <1>4, <2>3, <2>4 DEF Operate
<1>5. ASSUME NEW c \in CPU, TakeReq(c)
      PROVE  LocalInv'
  <2>1. reqs[c] \in Seq(WaitReq) /\ reqs[c] # <<>>
    BY <1>5 DEF TakeReq, TypeOK
  <2>2. /\ Head(reqs[c]) = reqs[c][1] /\ 1 \in DOMAIN reqs[c]
        /\ \A i \in DOMAIN Tail(reqs[c]) : i + 1 \in DOMAIN reqs[c] /\ Tail(reqs[c])[i] = reqs[c][i + 1]
    BY <2>1, HeadTailProperties, LenProperties, EmptySeq
  <2>3. hand' = [hand EXCEPT ![c] = Head(reqs[c])] /\ reqs' = [reqs EXCEPT ![c] = Tail(@)]
    BY <1>5 DEF TakeReq
  <2>4. LocalOps(c)'
    BY <2>2, <2>3 DEF LocalInv, LocalOps, TypeOK
  <2>5. \A d \in CPU \ {c} : LocalOps(d)'
    BY <2>3 DEF LocalInv, LocalOps, TypeOK
  <2> QED BY <1>1, <1>5, <2>4, <2>5 DEF TakeReq
<1>6. ASSUME NEW c \in CPU, IntrOp(c)
      PROVE  LocalInv'
  <2> DEFINE t == irq[c].thd  op == irq[c].at  r == [thd |-> t, op |-> op]
  <2>1. t \in Thread /\ op \in Ops /\ r \in WaitReq
    <3>1. op \in Ops /\ irq[c] \in Irqs
      BY <1>6 DEF IntrOp, TypeOK
    <3>2. "ret" \notin Ops /\ "none" \notin Ops
      BY DEF Ops
    <3> QED BY <3>1, <3>2 DEF Irqs, Ret, NoIrq, WaitReq
  <2>2. CASE CpuOf(t) = c
    <3>1. Do(c, r) /\ UNCHANGED <<cur, reqs, hand>>
      BY <1>6, <2>2 DEF IntrOp
    <3>2. \A d \in CPU : LocalQueues(d)'
      BY <2>1, <2>2, <3>1, LocalDo
    <3> QED BY <1>2, <3>1, <3>2 DEF LocalInv, LocalOps
  <2>3. CASE CpuOf(t) # c
    <3>1. SendReq(t, op) /\ UNCHANGED <<cur, queues, hand>>
      BY <1>6, <2>3 DEF IntrOp
    <3>2. \A d \in CPU : LocalOps(d)'
      BY <2>1, <3>1, LocalSend
    <3> QED BY <1>1, <3>1, <3>2
  <2> QED BY <2>2, <2>3
<1>7. ASSUME NEW c \in CPU, TrySche(c)
      PROVE  LocalInv'
  <2>1. TryMoved(c)
    BY <1>7, TryMoves
  <2>2. UNCHANGED <<reqs, hand>>
    BY <1>7 DEF TrySche
  <2>3. CASE UNCHANGED <<cur, queues>>
    BY <1>0, <2>2, <2>3
  <2>4. ASSUME NEW n \in Thread, NEW out \in SUBSET Thread, NEW list \in SUBSET Thread,
               Picked(c, n, out, list), cur' = [cur EXCEPT ![c] = n],
               Elsewhere(c),
               ListMoved(rdyPreemptThds[c], rdyPreemptThds'[c], list, {}),
               \/ TreeMoved(TreeOf(c), TreeOf(c)', out, {})
               \/ TreeMoved(TreeOf(c), TreeOf(c)', out, {cur[c]})
        PROVE  LocalInv'
    <3>1. {} \in SUBSET Own(c) /\ {cur[c]} \in SUBSET Own(c)
      BY DEF LocalInv
    <3>2. \A d \in CPU : LocalQueues(d)'
      <4>1. CASE TreeMoved(TreeOf(c), TreeOf(c)', out, {})
        BY <2>4, <3>1, <4>1, LocalMoved
      <4>2. CASE TreeMoved(TreeOf(c), TreeOf(c)', out, {cur[c]})
        BY <2>4, <3>1, <4>2, LocalMoved
      <4> QED BY <2>4, <4>1, <4>2
    <3>3. n \in Own(c)
      <4>1. n \in Own(c) \union {None}
        BY <2>4 DEF Picked, LocalInv, LocalQueues
      <4>2. None \notin Thread
        BY DEF None, Thread
      <4> QED BY <2>4, <4>1, <4>2
    <3>4. \A d \in CPU : cur'[d] \in Own(d)
      BY <2>4, <3>3 DEF LocalInv, TypeOK
    <3> QED BY <2>2, <3>2, <3>4 DEF LocalInv, LocalOps
  <2> QED BY <2>1, <2>3, <2>4 DEF TryMoved
<1>8. ASSUME NEW c \in CPU, NEW t \in Thread, ThreadStep(c, t), ~Launch(c, t), ~Operate(c, t)
      PROVE  UNCHANGED <<cur, queues, reqs, hand>>
  BY <1>8 DEF ThreadStep, Resume, Submit, Insert, WaitReqInc, WaitReqYield, WaitReqReturn, Yield,
              SendIpi, Exit, ExitResume, ExitYield, SetHandler, GiveUp
<1>9. ASSUME NEW c \in CPU, IdleStep(c) \/ IrqStep(c), ~TakeReq(c), ~IntrOp(c), ~TrySche(c)
      PROVE  UNCHANGED <<cur, queues, reqs, hand>>
  BY <1>9 DEF IdleStep, IrqStep, StartReap, Reap, EndReap, FinishReqTest, RunHandler, Restore
<1>10. ASSUME NEW c, NEW t, NEW k,
              ScheIntr(c) \/ TimerIntr \/ RespIntr(c, t, k) \/ ConnectIntr(c) \/ DisconnectIntr(c, t)
       PROVE  UNCHANGED <<cur, queues, reqs, hand>>
  BY <1>10 DEF ScheIntr, TimerIntr, RespIntr, ConnectIntr, DisconnectIntr
<1>11. CASE UNCHANGED vars
  BY <1>0, <1>11 DEF vars
<1> QED BY <1>0, <1>3, <1>4, <1>5, <1>6, <1>7, <1>8, <1>9, <1>10, <1>11 DEF Next

\* No thread ever leaves its CPU.
LEMMA StaysLocal == Safety => []LocalInv
<1>1. TypeOK /\ LocalInv /\ [Next]_vars => LocalInv'
  BY LocalStep
<1> QED BY <1>1, LocalInit, TypeCorrect, PTL DEF Safety
-----------------------------------------------------------------------------
(* Who pauses the scheduler. *)

\* No thread starts with a handler.
LEMMA SignalInit == Init => SignalInv
<1> SUFFICES ASSUME Init, NEW t \in Thread
             PROVE  /\ ~handler[t] /\ ~working[t]
                    /\ t \in Device => pc[t] = "run"
                    /\ pc[t] \in {"boot", "loop", "run"} /\ (pc[t] # "run" => IsIdle(t))
  BY DEF SignalInv
<1>1. t \in Device => ~IsIdle(t) /\ t # 0
  BY CpuAssumption, ThreadAssumption DEF Client, IsIdle
<1>2. 0 < NCpu
  BY CpuAssumption
<1> QED BY <1>1, <1>2 DEF Init, IsIdle

\* A jump of one thread under the rules for signals keeps them.
LEMMA SignalGoto ==
    ASSUME TypeOK, SignalInv, NEW t \in Thread, NEW l, Goto(t, l),
           UNCHANGED <<handler, working>>,
           \A u \in Thread : signal'[u] = signal[u] \/ (signal[u] = "none"),
           t \in Device => l \notin {"boot", "loop", "op", "reap", "hlt"},
           l \in {"boot", "loop", "reap", "hlt"} => IsIdle(t),
           l = "exiting" /\ handler[t] => working[t]
    PROVE  SignalInv'
<1> SUFFICES ASSUME NEW u \in Thread
             PROVE  /\ handler[u] => u \in Device
                    /\ working[u] => signal'[u] \in {"handled", "handledPaused"}
                    /\ u \in Device => pc'[u] \notin {"boot", "loop", "op", "reap", "hlt"}
                    /\ pc'[u] \in {"boot", "loop", "reap", "hlt"} => IsIdle(u)
                    /\ pc'[u] = "exiting" /\ handler[u] => working[u]
  BY DEF SignalInv
<1>1. pc'[u] = IF u = t THEN l ELSE pc[u]
  BY DEF Goto, TypeOK
<1>2. signal'[u] = signal[u] \/ signal[u] = "none"
  OBVIOUS
<1> QED BY <1>1, <1>2 DEF SignalInv

\* Every step keeps what is known of signals and handlers.
LEMMA SignalStep == TypeOK /\ SignalInv /\ [Next]_vars => SignalInv'
<1> SUFFICES ASSUME TypeOK, SignalInv, [Next]_vars PROVE SignalInv'
  OBVIOUS
<1>0. CASE UNCHANGED <<pc, signal, handler, working>>
  BY <1>0 DEF SignalInv
<1>1. ASSUME NEW c \in CPU, NEW t \in Thread, ThreadStep(c, t)
      PROVE  SignalInv'
  <2>0. ASSUME NEW l, Goto(t, l), UNCHANGED <<signal, handler, working>>,
               l \notin {"boot", "loop", "op", "reap", "hlt", "exiting"}
        PROVE  SignalInv'
    BY <2>0, SignalGoto
  <2>1. CASE Launch(c, t)
    <3>1. CASE UNCHANGED pc
      BY <1>0, <2>1, <3>1 DEF Launch
    <3>2. CASE Goto(t, "op")
      <4>1. t \notin Device
        BY <2>1 DEF Launch, SignalInv
      <4> QED BY <2>1, <3>2, <4>1, SignalGoto DEF Launch
    <3> QED BY <2>1, <3>1, <3>2 DEF Launch
  <2>2. CASE Operate(c, t)
    <3>1. Goto(t, "resume") /\ UNCHANGED <<signal, handler, working>> /\ t \notin Device
      BY <2>2 DEF Operate, SignalInv
    <3> QED BY <3>1, SignalGoto
  <2>3. CASE Resume(c, t)
    <3>1. UNCHANGED <<signal, handler, working>>
      BY <2>3 DEF Resume
    <3>2. CASE Goto(t, "wait") \/ Goto(t, "run")
      BY <2>0, <3>1, <3>2
    <3>3. CASE IsIdle(t) /\ Goto(t, "loop")
      <4>1. t \notin Device
        BY <3>3, CpuAssumption, ThreadAssumption DEF Client, IsIdle, Thread
      <4> QED BY <3>1, <3>3, <4>1, SignalGoto
    <3> QED BY <2>3, <3>2, <3>3 DEF Resume
  <2>4. CASE Exit(c, t)
    <3>1. /\ Goto(t, "exiting") /\ UNCHANGED <<signal, handler, working>>
          /\ handler[t] => working[t]
      BY <2>4 DEF Exit, SignalInv
    <3> QED BY <3>1, SignalGoto
  <2>5. CASE SetHandler(c, t)
    <3>1. /\ pc[t] = "run" /\ t \in Device /\ handler' = [handler EXCEPT ![t] = TRUE]
          /\ UNCHANGED <<pc, signal, working>>
      BY <2>5 DEF SetHandler
    <3>2. \A u \in Thread : handler'[u] => handler[u] \/ u = t
      BY <3>1 DEF TypeOK
    <3> QED BY <3>1, <3>2 DEF SignalInv
  <2>6. CASE \/ Submit(c, t) \/ Insert(c, t) \/ WaitReqInc(c, t) \/ WaitReqYield(c, t)
             \/ WaitReqReturn(c, t) \/ Yield(c, t) \/ SendIpi(c, t) \/ ExitResume(c, t)
             \/ ExitYield(c, t) \/ GiveUp(c, t)
    BY <2>0, <2>6 DEF Submit, Insert, WaitReqInc, WaitReqYield, WaitReqReturn, Yield, SendIpi,
                      ExitResume, ExitYield, GiveUp
  <2> QED BY <1>1, <2>1, <2>2, <2>3, <2>4, <2>5, <2>6 DEF ThreadStep
<1>2. ASSUME NEW c \in CPU, IdleStep(c)
      PROVE  SignalInv'
  <2>1. c \in Thread /\ IsIdle(c) /\ c \notin Device
    BY CpuAssumption, ThreadAssumption DEF CPU, Thread, IsIdle, Client
  <2>2. CASE UNCHANGED pc
    BY <1>0, <1>2, <2>2 DEF IdleStep, TakeReq, StartReap, Reap, EndReap
  <2>3. ASSUME NEW l \in {"op", "reap", "hlt"}, Goto(c, l), UNCHANGED <<signal, handler, working>>
        PROVE  SignalInv'
    BY <2>1, <2>3, SignalGoto
  <2> QED BY <1>2, <2>2, <2>3 DEF IdleStep, TakeReq, StartReap, Reap, EndReap
<1>3. ASSUME NEW c \in CPU, NEW h, Taken(c, h), UNCHANGED <<handler, working>>,
             \A u \in Thread : signal'[u] = signal[u] \/ (signal[u] = "none")
      PROVE  SignalInv'
  <2> DEFINE t == cur[c]  l == IF pc[t] = "hlt" THEN "loop" ELSE pc[t]
  <2>1. t \in Thread
    BY DEF TypeOK
  <2>2. Goto(t, l)
    BY <1>3, <2>1 DEF Taken, Goto, TypeOK
  <2>3. /\ t \in Device => l \notin {"boot", "loop", "op", "reap", "hlt"}
        /\ l \in {"boot", "loop", "reap", "hlt"} => IsIdle(t)
        /\ l = "exiting" /\ handler[t] => working[t]
    BY <2>1 DEF SignalInv
  <2> HIDE DEF l, t
  <2> QED BY <1>3, <2>1, <2>2, <2>3, SignalGoto
<1>4. ASSUME NEW c \in CPU, RunHandler(c)
      PROVE  SignalInv'
  <2> DEFINE t == cur[c]
  <2>1. /\ t \in Thread /\ handler[t] /\ UNCHANGED handler
        /\ \E s \in {"handled", "handledPaused"} : signal' = [signal EXCEPT ![t] = s]
        /\ working' = [working EXCEPT ![t] = TRUE]
        /\ pc' = [pc EXCEPT ![t] = "giveUp"]
    BY <1>4 DEF RunHandler, Signalled, Goto, TypeOK
  <2> SUFFICES ASSUME NEW u \in Thread
               PROVE  /\ handler[u] => u \in Device
                      /\ working'[u] => signal'[u] \in {"handled", "handledPaused"}
                      /\ u \in Device => pc'[u] \notin {"boot", "loop", "op", "reap", "hlt"}
                      /\ pc'[u] \in {"boot", "loop", "reap", "hlt"} => IsIdle(u)
                      /\ pc'[u] = "exiting" /\ handler[u] => working'[u]
    BY <2>1 DEF SignalInv
  <2>2. CASE u = t
    BY <2>1, <2>2 DEF SignalInv, TypeOK
  <2>3. CASE u # t
    <3>1. working'[u] = working[u] /\ signal'[u] = signal[u] /\ pc'[u] = pc[u]
      BY <2>1, <2>3 DEF TypeOK
    <3> QED BY <3>1 DEF SignalInv
  <2> QED BY <2>2, <2>3
<1>5. ASSUME NEW c \in CPU, IrqStep(c)
      PROVE  SignalInv'
  BY <1>0, <1>4, <1>5 DEF IrqStep, FinishReqTest, IntrOp, Restore, TrySche
<1>6. ASSUME NEW c \in CPU, ScheIntr(c) PROVE SignalInv'
  BY <1>3, <1>6 DEF ScheIntr
<1>7. CASE TimerIntr
  <2>1. 0 \in CPU  BY CpuAssumption DEF CPU
  <2> QED BY <1>3, <1>7, <2>1 DEF TimerIntr
<1>8. ASSUME NEW c \in CPU, NEW t \in Client, NEW k \in Ctx, RespIntr(c, t, k) PROVE SignalInv'
  BY <1>3, <1>8 DEF RespIntr
<1>9. ASSUME NEW c \in CPU, ConnectIntr(c) PROVE SignalInv'
  BY <1>3, <1>9 DEF ConnectIntr
<1>10. ASSUME NEW c \in CPU, NEW t \in Unplug, DisconnectIntr(c, t) PROVE SignalInv'
  <2>1. \A u \in Thread : signal'[u] = signal[u] \/ signal[u] = "none"
    BY <1>10 DEF DisconnectIntr, TypeOK
  <2> QED BY <1>3, <1>10, <2>1 DEF DisconnectIntr
<1>11. CASE UNCHANGED vars
  BY <1>0, <1>11 DEF vars
<1>12. IrqCpu \subseteq CPU
  BY CpuAssumption
<1> QED BY <1>1, <1>2, <1>5, <1>6, <1>7, <1>8, <1>9, <1>10, <1>11, <1>12 DEF Next

\* So it holds always.
LEMMA SignalsRuled == Safety => []SignalInv
<1>1. TypeOK /\ SignalInv /\ [Next]_vars => SignalInv'
  BY SignalStep
<1> QED BY <1>1, SignalInit, TypeCorrect, PTL DEF Safety

\* The scheduler is running on every CPU at first.
LEMMA PauseInit == Init => PauseInv
<1> SUFFICES ASSUME Init PROVE PauseInv
  OBVIOUS
<1>1. CPU \subseteq Thread
  BY CpuAssumption, ThreadAssumption DEF CPU, Thread
<1>2. \A t \in Thread : pc[t] \in {"boot", "loop", "run"}
  BY DEF Init
<1>3. \A t \in Thread : ~Paused(t) /\ ~Cut(t)
  BY <1>2 DEF Init, Paused, Cut
<1>4. \A c \in CPU : cur[c] \in Thread /\ msk[c] = 0 /\ hand[c] = NoHand
  BY <1>1 DEF Init
<1> QED BY <1>2, <1>3, <1>4 DEF PauseInv, PauseCounts

PausePcs == {"op", "resume", "reap", "exiting", "insert", "inserted"}

\* A thread's pauses: of the section it is in, and of one that its signal cut.
Held(l) == IF l \in PausePcs THEN 1 ELSE 0
Lost(g) == IF g = "handledPaused" THEN 1 ELSE 0

\* PauseInv after a step, from the values it left.
LEMMA PauseShape ==
    ASSUME \A d \in CPU : msk'[d] = Held(pc'[cur'[d]]) + Lost(signal'[cur'[d]]),
           \A u \in Thread : pc'[u] \in PausePcs \/ Lost(signal'[u]) = 1 => cur'[CpuOf(u)] = u,
           \A d \in CPU : hand'[d] # NoHand <=> pc'[cur'[d]] = "op"
    PROVE  PauseInv'
<1>1. \A d \in CPU : msk'[d] = (IF pc'[cur'[d]] \in PausePcs THEN 1 ELSE 0)
                                + (IF signal'[cur'[d]] = "handledPaused" THEN 1 ELSE 0)
  BY DEF Held, Lost
<1>2. \A u \in Thread : pc'[u] \in PausePcs \/ signal'[u] = "handledPaused" => cur'[CpuOf(u)] = u
  BY DEF Lost
<1> QED BY <1>1, <1>2 DEF PauseInv, PauseCounts, Paused, Cut, PausePcs

\* The current thread of c jumps, and task_sche_msk and the operation in hand
\* are what its new place asks for.
LEMMA PauseGoto ==
    ASSUME TypeOK, LocalInv, PauseInv, NEW c \in CPU, NEW t \in Thread, NEW l,
           cur[c] = t, Goto(t, l), UNCHANGED cur,
           \A u \in Thread : Lost(signal'[u]) = Lost(signal[u]),
           \A d \in CPU \ {c} : msk'[d] = msk[d] /\ hand'[d] = hand[d],
           msk'[c] = Held(l) + Lost(signal[t]),
           hand'[c] # NoHand <=> l = "op"
    PROVE  PauseInv'
<1>1. CpuOf(t) = c
  BY DEF LocalInv, Own
<1>2. \A u \in Thread : pc'[u] = IF u = t THEN l ELSE pc[u]
  BY DEF Goto, TypeOK
<1>3. \A d \in CPU \ {c} : cur[d] # t /\ cur[d] \in Thread
  BY <1>1 DEF LocalInv, Own
<1>4. \A d \in CPU : cur'[d] = cur[d] /\ cur[d] \in Thread
  BY DEF TypeOK
<1>5. \A d \in CPU : msk'[d] = Held(pc'[cur'[d]]) + Lost(signal'[cur'[d]])
  BY <1>2, <1>3, <1>4 DEF PauseInv, PauseCounts, Paused, Cut, PausePcs, Held, Lost
<1>6. \A d \in CPU : hand'[d] # NoHand <=> pc'[cur'[d]] = "op"
  BY <1>2, <1>3, <1>4 DEF PauseInv
<1>7. \A u \in Thread : Lost(signal'[u]) = 1 <=> Cut(u)
  BY DEF Lost, Cut
<1>8. \A u \in Thread : pc'[u] \in PausePcs \/ Lost(signal'[u]) = 1 => cur'[CpuOf(u)] = u
  BY <1>1, <1>2, <1>7 DEF PauseInv, PauseCounts, Paused, PausePcs
<1> QED BY <1>5, <1>6, <1>8, PauseShape

\* What the current thread's place says of its CPU.
LEMMA PauseCur ==
    ASSUME TypeOK, PauseInv, NEW c \in CPU
    PROVE  /\ msk[c] = Held(pc[cur[c]]) + Lost(signal[cur[c]])
           /\ hand[c] # NoHand <=> pc[cur[c]] = "op"
BY DEF PauseInv, PauseCounts, Paused, Cut, PausePcs, Held, Lost

\* Every step pauses and resumes as its place asks; a thread is switched away
\* or to only where the scheduler is not paused.
LEMMA PauseStep == TypeOK /\ LocalInv /\ SignalInv /\ PauseInv /\ [Next]_vars /\ LocalInv' => PauseInv'
<1> SUFFICES ASSUME TypeOK, LocalInv, SignalInv, PauseInv, [Next]_vars, LocalInv' PROVE PauseInv'
  OBVIOUS
<1>0. CASE UNCHANGED <<cur, hand, msk, pc, signal>>
  BY <1>0 DEF PauseInv, PauseCounts, Paused, Cut
<1>a. ASSUME NEW c \in CPU, NEW t \in Thread, NEW l, cur[c] = t, Goto(t, l),
             UNCHANGED <<cur, hand, msk, signal>>, pc[t] # "op", l # "op", Held(l) = Held(pc[t])
      PROVE  PauseInv'
  <2>1. msk'[c] = Held(l) + Lost(signal[t]) /\ ~(hand'[c] # NoHand)
    BY <1>a, PauseCur
  <2> QED BY <1>a, <2>1, PauseGoto
<1>b. ASSUME NEW c \in CPU, NEW t \in Thread, NEW l, cur[c] = t, Goto(t, l),
             UNCHANGED <<cur, signal>>, msk' = [msk EXCEPT ![c] = @ + 1],
             \A d \in CPU \ {c} : hand'[d] = hand[d], hand'[c] # NoHand <=> l = "op",
             pc[t] \notin PausePcs, l \in PausePcs
      PROVE  PauseInv'
  <2>1. /\ \A d \in CPU \ {c} : msk'[d] = msk[d] /\ hand'[d] = hand[d]
        /\ msk'[c] = msk[c] + 1
    BY <1>b DEF TypeOK
  <2>2. Held(l) = 1 /\ Held(pc[t]) = 0 /\ Lost(signal[t]) \in Int
    BY <1>b DEF Held, Lost
  <2>3. msk'[c] = Held(l) + Lost(signal[t])
    BY <1>b, <2>1, <2>2, PauseCur
  <2> QED BY <1>b, <2>1, <2>3, PauseGoto
<1>c. ASSUME NEW c \in CPU, NEW t \in Thread, NEW l, cur[c] = t, Goto(t, l),
             UNCHANGED <<cur, hand, signal>>, msk' = [msk EXCEPT ![c] = @ - 1],
             pc[t] \in PausePcs, pc[t] # "op", l \notin PausePcs
      PROVE  PauseInv'
  <2>1. /\ \A d \in CPU \ {c} : msk'[d] = msk[d] /\ hand'[d] = hand[d]
        /\ msk'[c] = msk[c] - 1
    BY <1>c DEF TypeOK
  <2>2. Held(l) = 0 /\ Held(pc[t]) = 1 /\ Lost(signal[t]) \in Int /\ l # "op"
    BY <1>c DEF Held, Lost, PausePcs
  <2>3. msk'[c] = Held(l) + Lost(signal[t]) /\ ~(hand'[c] # NoHand)
    BY <1>c, <2>1, <2>2, PauseCur
  <2> QED BY <1>c, <2>1, <2>2, <2>3, PauseGoto
<1>1. ASSUME NEW c \in CPU, NEW t \in Thread, ThreadStep(c, t)
      PROVE  PauseInv'
  <2>0. cur[c] = t /\ UNCHANGED <<cur, signal>>
    BY <1>1 DEF ThreadStep, Launch, Operate, Resume, Submit, Insert, WaitReqInc, WaitReqYield,
        WaitReqReturn, Yield, SendIpi, Exit, ExitResume, ExitYield, SetHandler, GiveUp, Here, queues
  <2>1. CASE Launch(c, t)
    <3>1. CASE CpuOf(thdCnt) = c
      <4>1. /\ Goto(t, "op") /\ pc[t] \notin PausePcs
            /\ msk' = [msk EXCEPT ![c] = @ + 1]
            /\ hand' = [hand EXCEPT ![c] = [thd |-> thdCnt, op |-> "launch"]]
        BY <2>1, <3>1 DEF Launch, PausePcs
      <4>2. [thd |-> thdCnt, op |-> "launch"] # NoHand
        BY DEF NoHand
      <4>3. hand'[c] # NoHand /\ \A d \in CPU \ {c} : hand'[d] = hand[d]
        BY <4>1, <4>2 DEF TypeOK
      <4> QED BY <2>0, <4>1, <4>3, <1>b DEF PausePcs
    <3>2. CASE CpuOf(thdCnt) # c
      BY <1>0, <2>1, <3>2 DEF Launch
    <3> QED BY <3>1, <3>2
  <2>2. CASE Operate(c, t)
    <3>1. /\ Goto(t, "resume") /\ pc[t] \in PausePcs /\ UNCHANGED msk
          /\ hand' = [hand EXCEPT ![c] = NoHand]
      BY <2>2 DEF Operate, PausePcs
    <3>2. /\ ~(hand'[c] # NoHand)
          /\ \A d \in CPU \ {c} : msk'[d] = msk[d] /\ hand'[d] = hand[d]
      BY <3>1 DEF TypeOK
    <3>3. msk'[c] = Held("resume") + Lost(signal[t])
      BY <2>0, <3>1, PauseCur DEF Held, PausePcs
    <3> QED BY <2>0, <3>1, <3>2, <3>3, PauseGoto
  <2>3. CASE Resume(c, t) \/ ExitResume(c, t)
    <3>1. PICK l \in {"wait", "loop", "run", "exit"} : Goto(t, l)
      BY <2>3 DEF Resume, ExitResume
    <3>2. /\ pc[t] \in PausePcs /\ pc[t] # "op" /\ UNCHANGED hand
          /\ msk' = [msk EXCEPT ![c] = @ - 1]
      BY <2>3 DEF Resume, ExitResume, PausePcs
    <3>3. l \notin PausePcs
      BY <3>1 DEF PausePcs
    <3> QED BY <2>0, <3>1, <3>2, <3>3, <1>c
  <2>4. CASE Exit(c, t) \/ Submit(c, t)
    <3>1. PICK l \in {"exiting", "insert"} : Goto(t, l)
      BY <2>4 DEF Exit, Submit
    <3>2. /\ pc[t] = "run" /\ UNCHANGED hand /\ msk' = [msk EXCEPT ![c] = @ + 1]
      BY <2>4 DEF Exit, Submit
    <3>3. ~(hand'[c] # NoHand) /\ \A d \in CPU \ {c} : hand'[d] = hand[d]
      BY <2>0, <3>2, PauseCur
    <3>4. pc[t] \notin PausePcs /\ l \in PausePcs /\ l # "op"
      BY <3>1, <3>2 DEF PausePcs
    <3> QED BY <2>0, <3>1, <3>2, <3>3, <3>4, <1>b
  <2>5. CASE SetHandler(c, t)
    BY <1>0, <2>5 DEF SetHandler
  <2>6. CASE \/ WaitReqInc(c, t) \/ WaitReqYield(c, t) \/ WaitReqReturn(c, t)
             \/ Yield(c, t) \/ SendIpi(c, t) \/ ExitYield(c, t) \/ GiveUp(c, t)
    <3>1. PICK l \in PcSet \ PausePcs : Goto(t, l)
      BY <2>6 DEF WaitReqInc, WaitReqYield, WaitReqReturn, Yield, SendIpi, ExitYield,
                  GiveUp, PausePcs, PcSet
    <3>2. pc[t] \notin PausePcs /\ UNCHANGED <<hand, msk>>
      BY <2>6 DEF WaitReqInc, WaitReqYield, WaitReqReturn, Yield, SendIpi, ExitYield,
                  GiveUp, PausePcs
    <3>3. Held(l) = Held(pc[t]) /\ l # "op" /\ pc[t] # "op"
      BY <3>1, <3>2 DEF Held, PausePcs
    <3> QED BY <1>a, <2>0, <3>1, <3>2, <3>3
  <2>7. CASE Insert(c, t)
    <3>1. PICK l \in {"inserted", "resume"} : Goto(t, l)
      BY <2>7 DEF Insert
    <3>2. pc[t] = "insert" /\ UNCHANGED <<hand, msk>>
      BY <2>7 DEF Insert
    <3>3. Held(l) = Held(pc[t]) /\ l # "op" /\ pc[t] # "op"
      BY <3>1, <3>2 DEF Held, PausePcs
    <3> QED BY <1>a, <2>0, <3>1, <3>2, <3>3
  <2> QED BY <1>1, <2>1, <2>2, <2>3, <2>4, <2>5, <2>6, <2>7 DEF ThreadStep
<1>2. ASSUME NEW c \in CPU, IdleStep(c)
      PROVE  PauseInv'
  <2>0. c \in Thread
    BY CpuAssumption, ThreadAssumption DEF CPU, Thread
  <2>1. CASE TakeReq(c)
    <3>1. /\ cur[c] = c /\ UNCHANGED <<cur, signal>> /\ Goto(c, "op") /\ pc[c] \notin PausePcs
          /\ msk' = [msk EXCEPT ![c] = @ + 1]
          /\ hand' = [hand EXCEPT ![c] = Head(reqs[c])]
      BY <2>1 DEF TakeReq, Here, PausePcs
    <3>2. Head(reqs[c]) # NoHand
      <4>1. Head(reqs[c]) \in WaitReq
        BY <2>1, HeadTailProperties DEF TakeReq, TypeOK
      <4> QED BY <4>1 DEF WaitReq, Thread, NoHand, None
    <3>3. hand'[c] # NoHand /\ \A d \in CPU \ {c} : hand'[d] = hand[d]
      BY <3>1, <3>2 DEF TypeOK
    <3> QED BY <2>0, <3>1, <3>3, <1>b DEF PausePcs
  <2>2. CASE StartReap(c)
    <3>1. /\ cur[c] = c /\ UNCHANGED <<cur, hand, signal>> /\ Goto(c, "reap") /\ pc[c] = "loop"
          /\ msk' = [msk EXCEPT ![c] = @ + 1]
      BY <2>2 DEF StartReap, Here
    <3>2. ~(hand'[c] # NoHand) /\ \A d \in CPU \ {c} : hand'[d] = hand[d]
      BY <3>1, PauseCur
    <3> QED BY <2>0, <3>1, <3>2, <1>b DEF PausePcs
  <2>3. CASE Reap(c)
    BY <1>0, <2>3 DEF Reap
  <2>4. CASE EndReap(c)
    <3>1. /\ cur[c] = c /\ UNCHANGED <<cur, hand, signal>> /\ Goto(c, "hlt") /\ pc[c] = "reap"
          /\ msk' = [msk EXCEPT ![c] = @ - 1]
      BY <2>4 DEF EndReap, Here
    <3> QED BY <2>0, <3>1, <1>c DEF PausePcs
  <2> QED BY <1>2, <2>1, <2>2, <2>3, <2>4 DEF IdleStep
<1>3. ASSUME NEW c \in CPU, NEW h, Taken(c, h), UNCHANGED <<cur, hand, msk>>,
             \A u \in Thread : Lost(signal'[u]) = Lost(signal[u])
      PROVE  PauseInv'
  <2> DEFINE t == cur[c]  l == IF pc[t] = "hlt" THEN "loop" ELSE pc[t]
  <2>1. t \in Thread
    BY DEF TypeOK
  <2>2. Goto(t, l)
    BY <1>3, <2>1 DEF Taken, Goto, TypeOK
  <2>3. /\ msk'[c] = Held(l) + Lost(signal[t])
        /\ hand'[c] # NoHand <=> l = "op"
    BY <1>3, PauseCur DEF Held, PausePcs
  <2> HIDE DEF l
  <2> QED BY <1>3, <2>1, <2>2, <2>3, PauseGoto
<1>4. ASSUME NEW c \in CPU, RunHandler(c)
      PROVE  PauseInv'
  <2> DEFINE t == cur[c]
  <2>1. /\ t \in Thread /\ t \in Device /\ signal[t] = "pending" /\ ~Cut(t)
        /\ Goto(t, "giveUp") /\ UNCHANGED <<cur, hand, msk>>
        /\ signal' = [signal EXCEPT ![t] = IF Paused(t) THEN "handledPaused" ELSE "handled"]
    BY <1>4 DEF RunHandler, Signalled, TypeOK, SignalInv, Cut
  <2>2. pc[t] # "op" /\ CpuOf(t) = c
    BY <2>1 DEF SignalInv, LocalInv, Own
  <2>3. \A u \in Thread : pc'[u] = IF u = t THEN "giveUp" ELSE pc[u]
    BY <2>1 DEF Goto, TypeOK
  <2>4. \A u \in Thread \ {t} : signal'[u] = signal[u]
    BY <2>1 DEF TypeOK
  <2>5. \A d \in CPU \ {c} : cur[d] \in Thread \ {t}
    BY <2>2 DEF LocalInv, Own
  <2>6. Lost(signal'[t]) = Held(pc[t]) /\ Lost(signal[t]) = 0 /\ Held("giveUp") = 0
    BY <2>1 DEF Lost, Held, Paused, PausePcs, TypeOK
  <2>7. msk[c] = Held(pc[t]) + Lost(signal[t])
    BY PauseCur
  <2>8. msk'[c] = Held(pc'[cur'[c]]) + Lost(signal'[cur'[c]])
    <3>1. Held(pc[t]) \in {0, 1}  BY DEF Held
    <3> QED BY <2>1, <2>3, <2>6, <2>7, <3>1
  <2>9. \A d \in CPU : msk'[d] = Held(pc'[cur'[d]]) + Lost(signal'[cur'[d]])
    BY <2>1, <2>3, <2>4, <2>5, <2>8, PauseCur
  <2>10. \A u \in Thread : pc'[u] \in PausePcs \/ Lost(signal'[u]) = 1 => cur'[CpuOf(u)] = u
    BY <2>1, <2>2, <2>3, <2>4 DEF PauseInv, PauseCounts, Paused, Cut, Lost, PausePcs
  <2>11. \A d \in CPU : hand'[d] # NoHand <=> pc'[cur'[d]] = "op"
    BY <2>1, <2>2, <2>3, <2>5 DEF PauseInv
  <2> QED BY <2>9, <2>10, <2>11, PauseShape
<1>5. ASSUME NEW c \in CPU, TrySche(c)
      PROVE  PauseInv'
  <2>1. UNCHANGED <<hand, msk, pc, signal>> /\ \A d \in CPU \ {c} : cur'[d] = cur[d]
    <3>1. TryMoved(c)
      BY <1>5, TryMoves
    <3>2. \A d \in CPU \ {c} : cur'[d] = cur[d]
      BY <3>1 DEF TryMoved, TypeOK
    <3> QED BY <1>5, <3>2 DEF TrySche
  <2>2. msk[c] = 0
    BY <1>5 DEF TrySche, WantsSchedule
  <2>3. ~Paused(cur[c]) /\ ~Cut(cur[c])
    BY <2>2 DEF PauseInv, PauseCounts
  <2>4. \A t \in Own(c) : pc[t] \notin PausePcs /\ Lost(signal[t]) = 0
    BY <2>3 DEF PauseInv, PauseCounts, Own, Paused, PausePcs, Cut, Lost
  <2>5. cur'[c] \in Own(c)
    BY DEF LocalInv
  <2>6. Held(pc[cur'[c]]) + Lost(signal[cur'[c]]) = 0 /\ pc[cur'[c]] # "op"
    BY <2>4, <2>5 DEF Held, PausePcs
  <2>7. \A d \in CPU : msk'[d] = Held(pc'[cur'[d]]) + Lost(signal'[cur'[d]])
    BY <2>1, <2>2, <2>6, PauseCur
  <2>8. pc[cur[c]] # "op" /\ ~(hand[c] # NoHand)
    BY <2>3, PauseCur DEF Paused
  <2>9. \A d \in CPU : hand'[d] # NoHand <=> pc'[cur'[d]] = "op"
    BY <2>1, <2>6, <2>8, PauseCur
  <2>10. ASSUME NEW t \in Thread, pc'[t] \in PausePcs \/ Lost(signal'[t]) = 1
         PROVE  cur'[CpuOf(t)] = t
    <3>1. CpuOf(t) # c
      BY <2>1, <2>4, <2>10 DEF Own
    <3>2. cur[CpuOf(t)] = t
      BY <2>1, <2>10 DEF PauseInv, PauseCounts, Paused, PausePcs, Cut, Lost
    <3> QED BY <2>1, <3>1, <3>2, CpuOfType
  <2> QED BY <2>7, <2>9, <2>10, PauseShape
<1>6. ASSUME NEW c \in CPU, IrqStep(c)
      PROVE  PauseInv'
  BY <1>0, <1>4, <1>5, <1>6 DEF IrqStep, FinishReqTest, IntrOp, Restore
<1>7. ASSUME NEW c \in CPU, ScheIntr(c) PROVE PauseInv'
  BY <1>3, <1>7 DEF ScheIntr
<1>8. CASE TimerIntr
  <2>1. 0 \in CPU  BY CpuAssumption DEF CPU
  <2> QED BY <1>3, <1>8, <2>1 DEF TimerIntr
<1>9. ASSUME NEW c \in CPU, NEW t, NEW k, RespIntr(c, t, k) \/ ConnectIntr(c)
      PROVE  PauseInv'
  BY <1>3, <1>9 DEF RespIntr, ConnectIntr
<1>12. ASSUME NEW c \in CPU, NEW t \in Unplug, DisconnectIntr(c, t)
      PROVE  PauseInv'
  <2>1. \A u \in Thread : signal'[u] = signal[u] \/ (signal[u] = "none" /\ signal'[u] = "pending")
    BY <1>12 DEF DisconnectIntr, TypeOK
  <2>2. \A u \in Thread : Lost(signal'[u]) = Lost(signal[u])
    BY <2>1 DEF Lost
  <2> QED BY <1>3, <1>12, <2>2 DEF DisconnectIntr
<1>10. CASE UNCHANGED vars
  BY <1>0, <1>10 DEF vars
<1>11. IrqCpu \subseteq CPU
  BY CpuAssumption
<1> QED BY <1>1, <1>2, <1>6, <1>7, <1>8, <1>9, <1>10, <1>11, <1>12 DEF Next

\* In every reachable state an operation in hand goes with a pause.
LEMMA PausesHeld == Safety => []PauseInv
<1>1. TypeOK /\ LocalInv /\ SignalInv /\ PauseInv /\ [Next]_vars /\ LocalInv' => PauseInv'
  BY PauseStep
<1> QED BY <1>1, PauseInit, TypeCorrect, StaysLocal, SignalsRuled, PTL DEF Safety

\* Pauses on every CPU: task_sche_msk counts the section the current thread is in
\* and the one its signal handler cut, whatever ticks, IPIs, completions and
\* signals come in between.  No thread loses its CPU inside a section, and one
\* whose section was cut never does.
THEOREM PausesBalanced == Safety => []PauseCounts
<1>1. PauseInv => PauseCounts
  BY DEF PauseInv
<1> QED BY <1>1, PausesHeld, PTL
-----------------------------------------------------------------------------
(* Operations under way. *)

\* What a request queue holds after one was added, or taken from its head.
LEMMA ContainsAppend ==
    ASSUME NEW S, NEW s \in Seq(S), NEW r \in S, NEW x
    PROVE  /\ Contains(Append(s, r), x) <=> Contains(s, x) \/ x = r
           /\ AtMostOnce(s, x) /\ (x = r => ~Contains(s, r)) => AtMostOnce(Append(s, r), x)
<1> DEFINE a == Append(s, r)
<1>1. /\ Len(s) \in Nat /\ DOMAIN s = 1 .. Len(s)
      /\ Len(a) = Len(s) + 1 /\ DOMAIN a = 1 .. Len(s) + 1
      /\ \A i \in 1 .. Len(s) : a[i] = s[i]
      /\ a[Len(s) + 1] = r
  BY AppendProperties, LenProperties
<1> HIDE DEF a
<1>2. Contains(a, x) <=> Contains(s, x) \/ x = r
  BY <1>1 DEF Contains
<1>3. ASSUME AtMostOnce(s, x), x = r => ~Contains(s, r) PROVE AtMostOnce(a, x)
  BY <1>1, <1>3 DEF AtMostOnce, Contains
<1> QED BY <1>2, <1>3 DEF a

\* What a queue holds after its first request was taken.
LEMMA ContainsTail ==
    ASSUME NEW S, NEW s \in Seq(S), s # <<>>, NEW x
    PROVE  /\ Contains(s, x) <=> Contains(Tail(s), x) \/ x = Head(s)
           /\ AtMostOnce(s, x) => AtMostOnce(Tail(s), x)
           /\ AtMostOnce(s, x) /\ x = Head(s) => ~Contains(Tail(s), x)
<1> DEFINE r == Tail(s)
<1>1. /\ Head(s) = s[1] /\ Len(s) \in Nat \ {0} /\ DOMAIN s = 1 .. Len(s)
      /\ Len(r) = Len(s) - 1 /\ DOMAIN r = 1 .. Len(s) - 1
      /\ \A i \in 1 .. Len(s) - 1 : r[i] = s[i + 1]
  BY HeadTailProperties, LenProperties, EmptySeq
<1> HIDE DEF r
<1>2. \A i \in DOMAIN s : i = 1 \/ (i - 1 \in DOMAIN r /\ s[i] = r[i - 1])
  BY <1>1
<1>3. \A i \in DOMAIN r : i + 1 \in DOMAIN s /\ i + 1 # 1 /\ r[i] = s[i + 1]
  BY <1>1
<1>4. Contains(s, x) <=> Contains(r, x) \/ x = Head(s)
  <2>1. ASSUME Contains(s, x) PROVE Contains(r, x) \/ x = Head(s)
    BY <1>1, <1>2, <2>1 DEF Contains
  <2>2. ASSUME Contains(r, x) PROVE Contains(s, x)
    BY <1>1, <1>3, <2>2 DEF Contains
  <2>3. 1 \in DOMAIN s
    BY <1>1
  <2> QED BY <1>1, <2>1, <2>2, <2>3 DEF Contains
<1>5. ASSUME AtMostOnce(s, x) PROVE AtMostOnce(r, x)
  <2> SUFFICES ASSUME NEW i \in DOMAIN r, NEW j \in DOMAIN r, r[i] = x, r[j] = x PROVE i = j
    BY DEF AtMostOnce
  <2>1. i + 1 = j + 1
    BY <1>3, <1>5 DEF AtMostOnce
  <2> QED BY <1>1, <2>1
<1>6. ASSUME AtMostOnce(s, x), x = Head(s) PROVE ~Contains(r, x)
  <2>1. 1 \in DOMAIN s
    BY <1>1
  <2> QED BY <1>1, <1>3, <1>6, <2>1 DEF AtMostOnce, Contains
<1> QED BY <1>4, <1>5, <1>6 DEF r

\* The operations under way stay the same, and launches are in one place.
OpsKept == \A t \in Thread : /\ \A op \in Ops : Pending(t, op)' <=> Pending(t, op)
                             /\ LaunchOnce(t)'

\* One more operation is under way.
OpsAdded(u, op) ==
    \A t \in Thread :
        /\ \A p \in Ops : Pending(t, p)' <=> Pending(t, p) \/ (t = u /\ p = op)
        /\ LaunchOnce(t)'

\* The operation op on u was done; a launch is not under way any more.
OpsDone(u, op) ==
    \A t \in Thread :
        /\ \A p \in Ops : /\ Pending(t, p)' => Pending(t, p)
                          /\ Pending(t, p) => Pending(t, p)' \/ (t = u /\ p = op)
        /\ op = "launch" => ~Pending(u, "launch")'
        /\ LaunchOnce(t)'

\* Launching and the pending operations of the model in these terms.
LEMMA LaunchingPending == \A t : Launching(t) <=> Pending(t, "launch")
BY DEF Launching, Pending, InIrq, Op

\* A preempt that is still to be decided on, or under way.
LEMMA PreemptPendingPending ==
    \A t : PreemptPending(t) <=> \/ \E c \in CPU : irq[c] = [at |-> "test", thd |-> t]
                                 \/ Pending(t, "preempt")
BY DEF PreemptPending, Pending, InIrq, Op

\* A wake-up under way.
LEMMA WakePendingPending == \A t : WakePending(t) <=> Pending(t, "wake")
BY DEF WakePending, Pending, InIrq, Op

\* A step that changes none of the three places.
LEMMA OpsStill ==
    ASSUME \A t \in Thread : LaunchOnce(t), UNCHANGED <<irq, hand, reqs>>
    PROVE  OpsKept
BY DEF OpsKept, Pending, LaunchOnce, InIrq, Op

\* A handler goes from one point that is no operation to another.
LEMMA OpsIrq ==
    ASSUME TypeOK, \A t \in Thread : LaunchOnce(t), UNCHANGED <<hand, reqs>>,
           NEW c \in CPU, NEW h, irq' = [irq EXCEPT ![c] = h],
           irq[c].at \notin Ops, h.at \notin Ops
    PROVE  OpsKept
<1>1. \A e \in CPU, t \in Thread, op \in Ops : InIrq(e, t, op)' <=> InIrq(e, t, op)
  <2> SUFFICES ASSUME NEW e \in CPU, NEW t \in Thread, NEW op \in Ops
               PROVE  InIrq(e, t, op)' <=> InIrq(e, t, op)
    OBVIOUS
  <2>1. CASE e # c  BY <2>1 DEF InIrq, TypeOK
  <2>2. CASE e = c  BY <2>2 DEF InIrq, TypeOK
  <2> QED BY <2>1, <2>2
<1>2. "launch" \in Ops  BY DEF Ops
<1> QED BY <1>1, <1>2 DEF OpsKept, Pending, LaunchOnce, Op
\* Requests are told apart by thread and operation.
LEMMA OpEqual == \A t, u, p, q : Op(t, p) = Op(u, q) <=> t = u /\ p = q
BY DEF Op

\* An operation in hand is not the empty hand.
LEMMA NoHandNoOp == \A t \in Thread : \A p : Op(t, p) # NoHand
BY DEF Op, NoHand, None, Thread

\* A handler that is at an operation now.
LEMMA OpsAddIrq ==
    ASSUME TypeOK, \A t \in Thread : LaunchOnce(t), UNCHANGED <<hand, reqs>>,
           NEW c \in CPU, NEW u \in Thread, NEW op \in Ops, irq[c].at \notin Ops,
           irq' = [irq EXCEPT ![c] = [at |-> op, thd |-> u]],
           op = "launch" => ~Pending(u, "launch")
    PROVE  OpsAdded(u, op)
<1>1. \A e \in CPU, t \in Thread, p \in Ops :
          InIrq(e, t, p)' <=> InIrq(e, t, p) \/ (e = c /\ t = u /\ p = op)
  <2> SUFFICES ASSUME NEW e \in CPU, NEW t \in Thread, NEW p \in Ops
               PROVE  InIrq(e, t, p)' <=> InIrq(e, t, p) \/ (e = c /\ t = u /\ p = op)
    OBVIOUS
  <2>1. CASE e # c  BY <2>1 DEF InIrq, TypeOK
  <2>2. CASE e = c  BY <2>2 DEF InIrq, TypeOK
  <2> QED BY <2>1, <2>2
<1>2. "launch" \in Ops  BY DEF Ops
<1>3. \A t \in Thread, p \in Ops : Pending(t, p)' <=> Pending(t, p) \/ (t = u /\ p = op)
  BY <1>1 DEF Pending, Op
<1>4. ASSUME NEW t \in Thread PROVE LaunchOnce(t)'
  <2>1. CASE t # u \/ op # "launch"
    <3>1. \A e \in CPU : InIrq(e, t, "launch")' <=> InIrq(e, t, "launch")
      BY <1>1, <1>2, <2>1
    <3> QED BY <3>1 DEF LaunchOnce, Op
  <2>2. CASE t = u /\ op = "launch"
    <3>1. ~Pending(t, "launch")
      BY <2>2
    <3>2. \A e \in CPU : InIrq(e, t, "launch")' <=> e = c
      BY <1>1, <1>2, <2>2, <3>1 DEF Pending
    <3> QED BY <3>1, <3>2 DEF LaunchOnce, Op, Pending
  <2> QED BY <2>1, <2>2
<1> QED BY <1>3, <1>4 DEF OpsAdded

\* The current thread is about to launch u itself.
LEMMA OpsAddHand ==
    ASSUME TypeOK, \A t \in Thread : LaunchOnce(t), UNCHANGED <<irq, reqs>>,
           NEW c \in CPU, NEW u \in Thread, NEW op \in Ops, hand[c] = NoHand,
           hand' = [hand EXCEPT ![c] = Op(u, op)], CpuOf(u) = c,
           op = "launch" => ~Pending(u, "launch")
    PROVE  OpsAdded(u, op)
<1>1. \A e \in CPU : hand'[e] = IF e = c THEN Op(u, op) ELSE hand[e]
  BY DEF TypeOK
<1>2. \A t \in Thread, p \in Ops :
          hand'[CpuOf(t)] = Op(t, p) <=> hand[CpuOf(t)] = Op(t, p) \/ (t = u /\ p = op)
  BY <1>1, OpEqual, NoHandNoOp, CpuOfType
<1>3. "launch" \in Ops  BY DEF Ops
<1>4. \A t \in Thread, p \in Ops : Pending(t, p)' <=> Pending(t, p) \/ (t = u /\ p = op)
  BY <1>2 DEF Pending, InIrq, Op
<1>5. ASSUME NEW t \in Thread PROVE LaunchOnce(t)'
  <2>1. CASE t # u \/ op # "launch"
    <3>1. hand'[CpuOf(t)] = Op(t, "launch") <=> hand[CpuOf(t)] = Op(t, "launch")
      BY <1>2, <1>3, <2>1
    <3> QED BY <3>1 DEF LaunchOnce, Op, InIrq
  <2>2. CASE t = u /\ op = "launch"
    BY <2>2 DEF LaunchOnce, Op, Pending, InIrq
  <2> QED BY <2>1, <2>2
<1> QED BY <1>4, <1>5 DEF OpsAdded

\* A request was queued: what the queues hold then.
LEMMA SendContains ==
    ASSUME TypeOK, NEW u \in Thread, NEW op \in Ops, SendReq(u, op), NEW t \in Thread, NEW p \in Ops
    PROVE  LET d == CpuOf(t) IN
           /\ Contains(reqs'[d], Op(t, p)) <=> Contains(reqs[d], Op(t, p)) \/ (t = u /\ p = op)
           /\ AtMostOnce(reqs[d], Op(t, p)) /\ (t = u /\ p = op => ~Contains(reqs[d], Op(t, p)))
                => AtMostOnce(reqs'[d], Op(t, p))
<1> DEFINE d == CpuOf(t)
<1>1. /\ reqs \in [CPU -> Seq(WaitReq)] /\ Op(u, op) \in WaitReq
      /\ d \in CPU /\ CpuOf(u) \in CPU
      /\ reqs' = [reqs EXCEPT ![CpuOf(u)] = Append(@, Op(u, op))]
  BY CpuOfType DEF TypeOK, WaitReq, Op, SendReq
<1>2. CASE CpuOf(u) = d
  <2>1. reqs'[d] = Append(reqs[d], Op(u, op)) /\ reqs[d] \in Seq(WaitReq)
    BY <1>1, <1>2
  <2> QED BY <1>1, <2>1, ContainsAppend, OpEqual
<1>3. CASE CpuOf(u) # d
  BY <1>1, <1>3
<1> QED BY <1>2, <1>3

\* A request for another CPU is queued there.
LEMMA OpsAddReq ==
    ASSUME TypeOK, \A t \in Thread : LaunchOnce(t), UNCHANGED <<irq, hand>>,
           NEW u \in Thread, NEW op \in Ops, SendReq(u, op),
           op = "launch" => ~Pending(u, "launch")
    PROVE  OpsAdded(u, op)
<1>1. "launch" \in Ops  BY DEF Ops
<1>2. ASSUME NEW t \in Thread, NEW p \in Ops
      PROVE  Pending(t, p)' <=> Pending(t, p) \/ (t = u /\ p = op)
  <2>1. Contains(reqs'[CpuOf(t)], Op(t, p))
          <=> Contains(reqs[CpuOf(t)], Op(t, p)) \/ (t = u /\ p = op)
    BY <1>2, SendContains
  <2> QED BY <2>1 DEF Pending, InIrq, Op
<1>3. ASSUME NEW t \in Thread PROVE LaunchOnce(t)'
  <2> DEFINE d == CpuOf(t)  r == Op(t, "launch")
  <2>1. /\ Contains(reqs'[d], r) <=> Contains(reqs[d], r) \/ (t = u /\ op = "launch")
        /\ AtMostOnce(reqs[d], r) /\ (t = u /\ op = "launch" => ~Contains(reqs[d], r))
             => AtMostOnce(reqs'[d], r)
    BY <1>1, SendContains
  <2>2. /\ t = u /\ op = "launch" => ~Contains(reqs[d], r)
        /\ t = u /\ op = "launch" => hand[d] # r /\ \A c \in CPU : ~InIrq(c, t, "launch")
    BY DEF Pending
  <2>3. AtMostOnce(reqs[d], r)
    BY DEF LaunchOnce
  <2> QED BY <2>1, <2>2, <2>3 DEF LaunchOnce, Op, InIrq
<1> QED BY <1>2, <1>3 DEF OpsAdded

\* A handler sends its operation to the CPU of the thread.
LEMMA OpsSend ==
    ASSUME TypeOK, \A t \in Thread : LaunchOnce(t), UNCHANGED hand,
           NEW c \in CPU, NEW u \in Thread, NEW op \in Ops, SendReq(u, op),
           InIrq(c, u, op), irq' = [irq EXCEPT ![c] = Ret]
    PROVE  OpsKept
<1>1. "launch" \in Ops /\ "ret" \notin Ops  BY DEF Ops
<1>2. \A e \in CPU, t \in Thread, p \in Ops : InIrq(e, t, p)' <=> InIrq(e, t, p) /\ e # c
  <2> SUFFICES ASSUME NEW e \in CPU, NEW t \in Thread, NEW p \in Ops
               PROVE  InIrq(e, t, p)' <=> InIrq(e, t, p) /\ e # c
    OBVIOUS
  <2>1. CASE e # c  BY <2>1 DEF InIrq, TypeOK
  <2>2. CASE e = c  BY <1>1, <2>2 DEF InIrq, TypeOK, Ret
  <2> QED BY <2>1, <2>2
<1>3. \A t \in Thread, p \in Ops : InIrq(c, t, p) <=> t = u /\ p = op
  BY DEF InIrq
<1>4. ASSUME NEW t \in Thread, NEW p \in Ops
      PROVE  Pending(t, p)' <=> Pending(t, p)
  <2>1. Contains(reqs'[CpuOf(t)], Op(t, p))
          <=> Contains(reqs[CpuOf(t)], Op(t, p)) \/ (t = u /\ p = op)
    BY <1>4, SendContains
  <2> QED BY <1>2, <1>3, <2>1 DEF Pending, Op
<1>5. ASSUME NEW t \in Thread PROVE LaunchOnce(t)'
  <2> DEFINE d == CpuOf(t)  r == Op(t, "launch")
  <2>1. /\ Contains(reqs'[d], r) <=> Contains(reqs[d], r) \/ (t = u /\ op = "launch")
        /\ AtMostOnce(reqs[d], r) /\ (t = u /\ op = "launch" => ~Contains(reqs[d], r))
             => AtMostOnce(reqs'[d], r)
    BY <1>1, SendContains
  <2>2. LaunchOnce(t)
    OBVIOUS
  <2>3. t = u /\ op = "launch" => /\ ~Contains(reqs[d], r) /\ hand[d] # r
                                  /\ \A e \in CPU : ~InIrq(e, t, "launch")'
    BY <1>1, <1>2, <1>3, <2>2 DEF LaunchOnce
  <2>4. \A e \in CPU : InIrq(e, t, "launch")' => InIrq(e, t, "launch")
    BY <1>1, <1>2
  <2> QED BY <2>1, <2>2, <2>3, <2>4 DEF LaunchOnce, Op
<1> QED BY <1>4, <1>5 DEF OpsKept

\* The idle thread takes the first request of its queue.
LEMMA OpsTake ==
    ASSUME TypeOK, \A t \in Thread : LaunchOnce(t), NEW c \in CPU, TakeReq(c), hand[c] = NoHand
    PROVE  OpsKept
<1> DEFINE h == Head(reqs[c])
<1>1. /\ reqs \in [CPU -> Seq(WaitReq)] /\ reqs[c] \in Seq(WaitReq) /\ reqs[c] # <<>>
      /\ reqs' = [reqs EXCEPT ![c] = Tail(@)]
      /\ hand' = [hand EXCEPT ![c] = h] /\ DOMAIN hand = CPU /\ UNCHANGED irq
  BY DEF TakeReq, TypeOK
<1> HIDE DEF h
<1>2. ASSUME NEW t \in Thread, NEW p \in Ops, CpuOf(t) = c
      PROVE  /\ Contains(reqs[c], Op(t, p)) <=> Contains(reqs'[c], Op(t, p)) \/ hand'[c] = Op(t, p)
             /\ AtMostOnce(reqs[c], Op(t, p)) =>
                  /\ AtMostOnce(reqs'[c], Op(t, p))
                  /\ hand'[c] = Op(t, p) => ~Contains(reqs'[c], Op(t, p))
  <2>1. reqs'[c] = Tail(reqs[c]) /\ hand'[c] = h
    BY <1>1
  <2> QED BY <1>1, <2>1, ContainsTail DEF h
<1>3. \A t \in Thread : CpuOf(t) # c => /\ reqs'[CpuOf(t)] = reqs[CpuOf(t)]
                                       /\ hand'[CpuOf(t)] = hand[CpuOf(t)]
  BY <1>1, CpuOfType
<1>4. \A t \in Thread : \A p : hand[c] # Op(t, p)
  BY NoHandNoOp
<1>5. ASSUME NEW t \in Thread, NEW p \in Ops
      PROVE  Pending(t, p)' <=> Pending(t, p)
  <2>1. CASE CpuOf(t) = c
    BY <1>1, <1>2, <1>4, <2>1 DEF Pending, InIrq, Op
  <2>2. CASE CpuOf(t) # c
    BY <1>1, <1>3, <2>2 DEF Pending, InIrq, Op
  <2> QED BY <2>1, <2>2
<1>6. ASSUME NEW t \in Thread PROVE LaunchOnce(t)'
  <2>1. LaunchOnce(t) /\ "launch" \in Ops
    BY DEF Ops
  <2>2. CASE CpuOf(t) = c
    BY <1>1, <1>2, <1>4, <2>1, <2>2 DEF LaunchOnce, InIrq, Op
  <2>3. CASE CpuOf(t) # c
    BY <1>1, <1>3, <2>1, <2>3 DEF LaunchOnce, InIrq, Op
  <2> QED BY <2>2, <2>3
<1> QED BY <1>5, <1>6 DEF OpsKept

\* The operation in hand was done.
LEMMA OpsDoneHand ==
    ASSUME TypeOK, \A t \in Thread : LaunchOnce(t), UNCHANGED <<irq, reqs>>,
           NEW c \in CPU, NEW u \in Thread, NEW op \in Ops, CpuOf(u) = c,
           hand[c] = Op(u, op), hand' = [hand EXCEPT ![c] = NoHand]
    PROVE  OpsDone(u, op)
<1>1. \A t \in Thread : hand'[CpuOf(t)] = IF CpuOf(t) = c THEN NoHand ELSE hand[CpuOf(t)]
  BY CpuOfType DEF TypeOK
<1>2. \A t \in Thread, p \in Ops :
          hand'[CpuOf(t)] = Op(t, p) <=> hand[CpuOf(t)] = Op(t, p) /\ ~(t = u /\ p = op)
  <2> SUFFICES ASSUME NEW t \in Thread, NEW p \in Ops
               PROVE  hand'[CpuOf(t)] = Op(t, p) <=> hand[CpuOf(t)] = Op(t, p) /\ ~(t = u /\ p = op)
    OBVIOUS
  <2>1. CASE CpuOf(t) = c  BY <1>1, <2>1, OpEqual, NoHandNoOp
  <2>2. CASE CpuOf(t) # c  BY <1>1, <2>2
  <2> QED BY <2>1, <2>2
<1>3. "launch" \in Ops  BY DEF Ops
<1>4. ASSUME NEW t \in Thread, NEW p \in Ops
      PROVE  /\ Pending(t, p)' => Pending(t, p)
             /\ Pending(t, p) => Pending(t, p)' \/ (t = u /\ p = op)
  BY <1>2 DEF Pending, InIrq, Op
<1>5. op = "launch" => ~Pending(u, "launch")'
  <2>1. LaunchOnce(u)
    OBVIOUS
  <2> QED BY <1>2, <1>3, <2>1 DEF LaunchOnce, Pending, InIrq, Op
<1>6. ASSUME NEW t \in Thread PROVE LaunchOnce(t)'
  <2>1. LaunchOnce(t) /\ (hand'[CpuOf(t)] = Op(t, "launch") => hand[CpuOf(t)] = Op(t, "launch"))
    BY <1>2, <1>3
  <2> QED BY <2>1 DEF LaunchOnce, InIrq, Op
<1> QED BY <1>4, <1>5, <1>6 DEF OpsDone

\* The operation of a handler was done.
LEMMA OpsDoneIrq ==
    ASSUME TypeOK, \A t \in Thread : LaunchOnce(t), UNCHANGED <<hand, reqs>>,
           NEW c \in CPU, NEW u \in Thread, NEW op \in Ops,
           InIrq(c, u, op), irq' = [irq EXCEPT ![c] = Ret]
    PROVE  OpsDone(u, op)
<1>1. "launch" \in Ops /\ "ret" \notin Ops  BY DEF Ops
<1>2. \A e \in CPU, t \in Thread, p \in Ops : InIrq(e, t, p)' <=> InIrq(e, t, p) /\ e # c
  <2> SUFFICES ASSUME NEW e \in CPU, NEW t \in Thread, NEW p \in Ops
               PROVE  InIrq(e, t, p)' <=> InIrq(e, t, p) /\ e # c
    OBVIOUS
  <2>1. CASE e # c  BY <2>1 DEF InIrq, TypeOK
  <2>2. CASE e = c  BY <1>1, <2>2 DEF InIrq, TypeOK, Ret
  <2> QED BY <2>1, <2>2
<1>3. \A t \in Thread, p \in Ops : InIrq(c, t, p) <=> t = u /\ p = op
  BY DEF InIrq
<1>4. ASSUME NEW t \in Thread, NEW p \in Ops
      PROVE  /\ Pending(t, p)' => Pending(t, p)
             /\ Pending(t, p) => Pending(t, p)' \/ (t = u /\ p = op)
  BY <1>2, <1>3 DEF Pending, Op
<1>5. op = "launch" => ~Pending(u, "launch")'
  <2>1. LaunchOnce(u)
    OBVIOUS
  <2> QED BY <1>1, <1>2, <1>3, <2>1 DEF LaunchOnce, Pending, Op
<1>6. ASSUME NEW t \in Thread PROVE LaunchOnce(t)'
  <2>1. LaunchOnce(t) /\ \A e \in CPU : InIrq(e, t, "launch")' => InIrq(e, t, "launch")
    BY <1>1, <1>2
  <2> QED BY <2>1 DEF LaunchOnce, Op
<1> QED BY <1>4, <1>5, <1>6 DEF OpsDone
-----------------------------------------------------------------------------
(* Where the threads are. *)

\* Queues as the sets of their elements.
LEMMA InSets ==
    ASSUME NEW t
    PROVE  /\ InTree(t) <=> t \in ToSet(thds[CpuOf(t)])
           /\ InPreempt(t) <=> t \in ToSet(rdyPreemptThds[CpuOf(t)])
           /\ InTree(t)' <=> t \in ToSet(thds'[CpuOf(t)])
           /\ InPreempt(t)' <=> t \in ToSet(rdyPreemptThds'[CpuOf(t)])
BY DEF InTree, InPreempt, ToSet

\* The same of the operations after a step.
LEMMA PendingNext ==
    \A t : /\ Launching(t)' <=> Pending(t, "launch")'
           /\ PreemptPending(t)' <=> \/ \E c \in CPU : irq'[c] = [at |-> "test", thd |-> t]
                                     \/ Pending(t, "preempt")'
BY DEF Launching, PreemptPending, Pending, InIrq, Op

\* At first all threads but the idle ones wait to be created.
LEMMA PlaceInit == Init => PlaceInv
<1> SUFFICES ASSUME Init PROVE PlaceInv
  OBVIOUS
<1>1. /\ \A c \in CPU : thds[c] = <<>> /\ left[c] = None /\ rdyPreemptThds[c] = <<>>
      /\ \A c \in CPU : sleepThds[c] = {} /\ freeThds[c] = <<>> /\ reqs[c] = <<>>
      /\ \A c \in CPU : hand[c] = NoHand /\ irq[c] = NoIrq
  BY DEF Init
<1>2. ASSUME NEW t \in Thread
      PROVE  /\ CpuOf(t) \in CPU
             /\ cur[CpuOf(t)] = t <=> IsIdle(t)
             /\ state[t] = IF IsIdle(t) THEN Running ELSE Idle
             /\ Exists(t) <=> IsIdle(t)
             /\ \A k \in Ctx : req[t][k] = "none"
  <2>1. CpuOf(t) \in CPU  BY CpuOfType
  <2>2. CpuOf(t) = t <=> t < NCpu
    BY <2>1, CpuAssumption DEF CpuOf, CPU, Thread
  <2> QED BY <2>1, <2>2 DEF Init, IsIdle, Exists
<1>3. ASSUME NEW t \in Thread
      PROVE  /\ ~InTree(t) /\ ~InPreempt(t) /\ t \notin sleepThds[CpuOf(t)]
             /\ ~Contains(freeThds[CpuOf(t)], t)
             /\ \A op \in Ops \union {"test"} : ~Pending(t, op)
  <2>1. \A c \in CPU, op \in Ops \union {"test"} : ~InIrq(c, t, op)
    BY <1>1 DEF InIrq, NoIrq, Ops
  <2>2. \A c \in CPU : \A op : ~Contains(reqs[c], Op(t, op)) /\ hand[c] # Op(t, op)
    BY <1>1, NoHandNoOp DEF Contains
  <2>3. \A op \in Ops \union {"test"} : ~Pending(t, op)
    BY <1>2, <2>1, <2>2 DEF Pending
  <2> QED BY <1>1, <1>2, <2>3 DEF InTree, InPreempt, Contains
<1>4. ASSUME NEW t \in Thread PROVE ~Launching(t) /\ ~PreemptPending(t)
  <2>1. ~Pending(t, "launch") /\ ~Pending(t, "preempt")
    BY <1>3 DEF Ops
  <2>2. \A c \in CPU : irq[c] # [at |-> "test", thd |-> t]
    BY <1>1 DEF NoIrq
  <2> QED BY <2>1, <2>2, LaunchingPending, PreemptPendingPending
<1>5. ASSUME NEW t \in Thread PROVE Placed(t) /\ Fresh(t)
  BY <1>2, <1>3, <1>4 DEF Placed, Fresh, Running, NeedSchedule, NeedFree, NeedPreempt, Idle, Sleep
<1>6. ASSUME NEW t \in Thread PROVE LaunchOnce(t)
  <2>1. \A e \in CPU : ~InIrq(e, t, "launch")
    BY <1>1 DEF InIrq, NoIrq
  <2>2. reqs[CpuOf(t)] = <<>> /\ hand[CpuOf(t)] # Op(t, "launch")
    BY <1>1, <1>2, NoHandNoOp
  <2> QED BY <2>1, <2>2 DEF LaunchOnce, AtMostOnce
<1>7. \A c \in CPU : /\ NoRepeat(thds[c]) /\ NoRepeat(rdyPreemptThds[c])
                     /\ left[c] \in ToSet(thds[c]) \union {None}
  BY <1>1 DEF NoRepeat
<1> QED BY <1>5, <1>6, <1>7 DEF PlaceInv

\* A thread that is current or has been launched stays so where nothing moves.
LEMMA FreshStays ==
    ASSUME TypeOK, PlaceInv,
           \A t \in Thread : Launching(t)' \/ ~Exists(t)' => Launching(t) \/ ~Exists(t),
           \A t \in Thread : req'[t] = req[t] \/ cur[CpuOf(t)] = t,
           \A t \in Thread : PreemptPending(t)' => PreemptPending(t) \/ (Exists(t) /\ ~Launching(t))
    PROVE  \A t \in Thread : Fresh(t)'
<1> SUFFICES ASSUME NEW t \in Thread PROVE Fresh(t)'
  OBVIOUS
<1>1. Placed(t) /\ Fresh(t)
  BY DEF PlaceInv
<1>2. CASE Launching(t) \/ ~Exists(t)
  <2>1. cur[CpuOf(t)] # t
    BY <1>1, <1>2 DEF Placed, Idle, Running, NeedSchedule, NeedFree
  <2> QED BY <1>1, <1>2, <2>1 DEF Fresh
<1>3. CASE ~(Launching(t) \/ ~Exists(t))
  BY <1>3 DEF Fresh
<1> QED BY <1>2, <1>3

\* A step that moves no thread between queues: only the state of a current
\* thread changes, a thread is created, or one is reaped.
LEMMA PlaceStays ==
    ASSUME TypeOK, PlaceInv, UNCHANGED <<cur, queues>>,
           \A t \in Thread : \/ state'[t] = state[t]
                             \/ cur[CpuOf(t)] = t /\ state'[t] \in {Running, NeedSchedule, NeedFree},
           \A t \in Thread : Contains(freeThds'[CpuOf(t)], t) => Contains(freeThds[CpuOf(t)], t),
           \A t \in Thread : Launching(t)' \/ ~Exists(t)' <=> Launching(t) \/ ~Exists(t),
           \A t \in Thread : ~Exists(t)' => ~Launching(t)',
           \A t \in Thread : Launching(t)' /\ Exists(t) => Launching(t),
           \A t \in Thread : ~Exists(t)' => ~Exists(t),
           \A t \in Thread : LaunchOnce(t)' /\ Fresh(t)'
    PROVE  PlaceInv'
<1>1. ASSUME NEW t \in Thread PROVE Placed(t)'
  <2>1. Placed(t)
    BY DEF PlaceInv
  <2>2. (InTree(t)' <=> InTree(t)) /\ (InPreempt(t)' <=> InPreempt(t))
    BY DEF InTree, InPreempt, queues
  <2>3. UNCHANGED <<cur, sleepThds>>
    BY DEF queues
  <2>4. CASE state'[t] = state[t]
    BY <2>1, <2>2, <2>3, <2>4 DEF Placed
  <2>5. CASE cur[CpuOf(t)] = t /\ state'[t] \in {Running, NeedSchedule, NeedFree}
    <3>1. state[t] \in {Running, NeedSchedule, NeedFree}
      BY <2>1, <2>5 DEF Placed
    <3>2. /\ state[t] \notin {Idle, NeedPreempt, Sleep, Free}
          /\ state'[t] \notin {Idle, NeedPreempt, Sleep, Free}
      BY <2>5, <3>1 DEF Running, NeedSchedule, NeedFree, NeedPreempt, Idle, Sleep, Free
    <3> QED BY <2>1, <2>2, <2>3, <2>5, <3>1, <3>2 DEF Placed
  <2> QED BY <2>4, <2>5
<1> QED BY <1>1 DEF PlaceInv, queues
\* An operation on t moves t between the queues of its CPU.
LEMMA PlaceDo ==
    ASSUME TypeOK, LocalInv, PlaceInv, NEW c \in CPU, NEW t \in Thread, NEW op \in Ops,
           CpuOf(t) = c, DoMoved(c, t, op), Pending(t, op), OpsDone(t, op),
           UNCHANGED <<cur, freeThds, thdCnt, req>>,
           \A d \in CPU : \A u : irq'[d] = [at |-> "test", thd |-> u] => irq[d] = irq'[d]
    PROVE  PlaceInv'
<1>1. \A u \in Thread : Launching(u)' <=> Launching(u) /\ ~(u = t /\ op = "launch")
  BY LaunchingPending, PendingNext DEF OpsDone, Ops
<1>2. \A u \in Thread : PreemptPending(u)' => PreemptPending(u)
  BY PreemptPendingPending, PendingNext DEF OpsDone, Ops
<1>3. \A u \in Thread : Fresh(u)'
  BY <1>1, <1>2 DEF PlaceInv, Fresh, Exists
<1>4. \A u \in Thread : LaunchOnce(u)'
  BY DEF OpsDone
<1>5. \A u \in Thread : Exists(u)' <=> Exists(u)
  BY DEF Exists
<1>6. Placed(t) /\ Fresh(t)
  BY DEF PlaceInv
<1>7. /\ op = "launch" => Launching(t)
      /\ op = "preempt" => Exists(t) /\ ~Launching(t)
  BY <1>6, LaunchingPending, PreemptPendingPending DEF Fresh
<1> DEFINE tree == ToSet(thds[c])  treeN == ToSet(thds'[c])
           list == ToSet(rdyPreemptThds[c])  listN == ToSet(rdyPreemptThds'[c])
<1>8. /\ InTree(t) <=> t \in tree
      /\ InPreempt(t) <=> t \in list
  BY InSets
<1>9. Sound(TreeOf(c)) /\ NoRepeat(rdyPreemptThds[c]) /\ TreeOf(c).order = thds[c]
  BY DEF PlaceInv, Sound, TreeOf
<1>10. TreeOf(c)'.order = thds'[c] /\ TreeOf(c)'.left = left'[c]
  BY DEF TreeOf
\* The moved sets, once the side conditions of the moves hold.
<1>11. ASSUME NEW out, NEW in, NEW to, in \cap tree = {}, to \cap list = {},
              TreeMoved(TreeOf(c), TreeOf(c)', out, in),
              ListMoved(rdyPreemptThds[c], rdyPreemptThds'[c], {}, to)
       PROVE  /\ treeN = (tree \ out) \union in /\ listN = list \union to
              /\ NoRepeat(thds'[c]) /\ NoRepeat(rdyPreemptThds'[c])
              /\ left'[c] \in treeN \union {None}
  BY <1>9, <1>10, <1>11 DEF TreeMoved, ListMoved, Sound
<1> HIDE DEF tree, treeN, list, listN
\* What such a move means for every thread.
<1>12. ASSUME NEW s \in States, state' = [state EXCEPT ![t] = s],
              treeN \ {t} = tree \ {t}, listN \ {t} = list \ {t},
              sleepThds'[c] \ {t} = sleepThds[c] \ {t}, Elsewhere(c),
              s # Free => state[t] # Free,
              cur[c] = t <=> s \in {Running, NeedSchedule, NeedFree},
              t \in treeN \/ Launching(t)' \/ ~Exists(t) <=> s = Idle,
              ~(t \in treeN /\ Launching(t)'),
              ~Exists(t) => t \notin treeN,
              t \in listN <=> s = NeedPreempt,
              t \in sleepThds'[c] <=> s = Sleep,
              NoRepeat(thds'[c]), NoRepeat(rdyPreemptThds'[c]),
              left'[c] \in treeN \union {None}
       PROVE  PlaceInv'
  <2>1. ASSUME NEW u \in Thread, u # t PROVE Placed(u)'
    <3>1. Placed(u) /\ state'[u] = state[u]
      BY <1>12, <2>1 DEF PlaceInv, TypeOK
    <3>2. CASE CpuOf(u) = c
      <4>1. /\ InTree(u)' <=> InTree(u)
            /\ InPreempt(u)' <=> InPreempt(u)
            /\ u \in sleepThds'[c] <=> u \in sleepThds[c]
        BY <1>12, <2>1, <3>2, InSets DEF tree, treeN, list, listN
      <4> QED BY <1>1, <1>5, <2>1, <3>1, <3>2, <4>1 DEF Placed
    <3>3. CASE CpuOf(u) # c
      <4>1. /\ InTree(u)' <=> InTree(u)
            /\ InPreempt(u)' <=> InPreempt(u)
            /\ u \in sleepThds'[CpuOf(u)] <=> u \in sleepThds[CpuOf(u)]
        BY <1>12, <3>3, InSets, CpuOfType DEF Elsewhere, TreeOf
      <4> QED BY <1>1, <1>5, <2>1, <3>1, <4>1 DEF Placed
    <3> QED BY <3>2, <3>3
  <2>2. Placed(t)'
    <3>1. (InTree(t)' <=> t \in treeN) /\ (InPreempt(t)' <=> t \in listN)
      BY InSets DEF treeN, listN
    <3>2. state'[t] = s
      BY <1>12 DEF TypeOK
    <3>3. ~Exists(t) => ~Launching(t)'
      BY <1>1, <1>6 DEF Placed
    <3> QED BY <1>5, <1>6, <1>12, <3>1, <3>2, <3>3 DEF Placed
  <2>3. ASSUME NEW d \in CPU
        PROVE  /\ NoRepeat(thds'[d]) /\ left'[d] \in ToSet(thds'[d]) \union {None}
               /\ NoRepeat(rdyPreemptThds'[d])
    <3>1. CASE d = c  BY <1>12, <3>1 DEF treeN
    <3>2. CASE d # c  BY <1>12, <3>2 DEF Elsewhere, TreeOf, PlaceInv
    <3> QED BY <3>1, <3>2
  <2> QED BY <1>3, <1>4, <2>1, <2>2, <2>3 DEF PlaceInv
<1>13. state \in [Thread -> States] /\ DOMAIN sleepThds = CPU /\ state[t] \in States
  BY DEF TypeOK
<1>14. Elsewhere(c)
  BY DEF DoMoved
<1>15. CASE /\ op # "launch" /\ (op = "wake" => state[t] # Sleep)
            /\ op = "preempt" => state[t] \notin {Idle, Sleep}
            /\ TreeMoved(TreeOf(c), TreeOf(c)', {}, {})
            /\ ListMoved(rdyPreemptThds[c], rdyPreemptThds'[c], {}, {})
            /\ UNCHANGED <<state, sleepThds>>
  <2>1. /\ treeN = tree /\ listN = list
        /\ NoRepeat(thds'[c]) /\ NoRepeat(rdyPreemptThds'[c])
        /\ left'[c] \in treeN \union {None}
    BY <1>11, <1>15
  <2>2. state' = [state EXCEPT ![t] = state[t]]
    BY <1>13, <1>15
  <2>3. Launching(t)' <=> Launching(t)
    <3>1. op # "launch"
      BY <1>15
    <3> QED BY <1>1, <3>1
  <2> QED BY <1>6, <1>8, <1>12, <1>13, <1>14, <1>15, <2>1, <2>2, <2>3 DEF Placed
<1>16. CASE /\ op = "launch"
            /\ TreeMoved(TreeOf(c), TreeOf(c)', {}, {t})
            /\ ListMoved(rdyPreemptThds[c], rdyPreemptThds'[c], {}, {})
            /\ UNCHANGED <<state, sleepThds>>
  <2>0. Launching(t) /\ t \notin tree /\ Exists(t) /\ state[t] = Idle
    BY <1>6, <1>7, <1>8, <1>16 DEF Placed
  <2>1. /\ treeN = tree \union {t} /\ listN = list
        /\ NoRepeat(thds'[c]) /\ NoRepeat(rdyPreemptThds'[c])
        /\ left'[c] \in treeN \union {None}
    <3>1. {t} \cap tree = {} /\ {} \cap list = {}
      BY <2>0
    <3>2. /\ treeN = (tree \ {}) \union {t} /\ listN = list \union {}
          /\ NoRepeat(thds'[c]) /\ NoRepeat(rdyPreemptThds'[c])
          /\ left'[c] \in treeN \union {None}
      BY <1>11, <1>16, <3>1, Zenon
    <3> QED BY <3>2
  <2>2. state' = [state EXCEPT ![t] = Idle] /\ ~Launching(t)'
    BY <1>1, <1>13, <1>16, <2>0
  <2> QED BY <1>6, <1>8, <1>12, <1>13, <1>14, <1>16, <2>0, <2>1, <2>2 DEF Placed
<1>17. CASE /\ op = "wake" /\ state[t] = Sleep
            /\ state' = [state EXCEPT ![t] = Idle]
            /\ TreeMoved(TreeOf(c), TreeOf(c)', {}, {t})
            /\ ListMoved(rdyPreemptThds[c], rdyPreemptThds'[c], {}, {})
            /\ sleepThds' = [sleepThds EXCEPT ![c] = @ \ {t}]
  <2>0. ~Launching(t) /\ t \notin tree /\ Exists(t) /\ t \notin list /\ cur[c] # t
    BY <1>6, <1>8, <1>17 DEF Placed, Sleep, Idle, NeedPreempt, Running, NeedSchedule, NeedFree
  <2>1. /\ treeN = tree \union {t} /\ listN = list
        /\ NoRepeat(thds'[c]) /\ NoRepeat(rdyPreemptThds'[c])
        /\ left'[c] \in treeN \union {None}
    <3>1. {t} \cap tree = {} /\ {} \cap list = {}
      BY <2>0
    <3>2. /\ treeN = (tree \ {}) \union {t} /\ listN = list \union {}
          /\ NoRepeat(thds'[c]) /\ NoRepeat(rdyPreemptThds'[c])
          /\ left'[c] \in treeN \union {None}
      BY <1>11, <1>17, <3>1, Zenon
    <3> QED BY <3>2
  <2>2. ~Launching(t)'
    BY <1>1, <2>0
  <2>3. Idle \in States /\ Idle \notin {Running, NeedSchedule, NeedFree, NeedPreempt, Sleep, Free}
    BY DEF States, Idle, Running, NeedSchedule, NeedFree, NeedPreempt, Sleep, Free
  <2>4. state[t] # Free
    BY <1>17 DEF Sleep, Free
  <2>5. sleepThds'[c] = sleepThds[c] \ {t}
    BY <1>13, <1>17
  <2> QED BY <1>12, <1>14, <1>17, <2>0, <2>1, <2>2, <2>3, <2>4, <2>5
<1>18. CASE /\ op = "preempt" /\ state[t] = Idle
            /\ state' = [state EXCEPT ![t] = NeedPreempt]
            /\ TreeMoved(TreeOf(c), TreeOf(c)', {t}, {})
            /\ ListMoved(rdyPreemptThds[c], rdyPreemptThds'[c], {}, {t})
            /\ UNCHANGED sleepThds
  <2>0. ~Launching(t) /\ t \in tree /\ Exists(t) /\ t \notin list /\ cur[c] # t
          /\ t \notin sleepThds[c]
    BY <1>6, <1>7, <1>8, <1>18 DEF Placed, Sleep, Idle, NeedPreempt, Running, NeedSchedule, NeedFree
  <2>1. /\ treeN = tree \ {t} /\ listN = list \union {t}
        /\ NoRepeat(thds'[c]) /\ NoRepeat(rdyPreemptThds'[c])
        /\ left'[c] \in treeN \union {None}
    BY <1>11, <1>18, <2>0
  <2>2. ~Launching(t)'
    BY <1>1, <2>0
  <2>3. /\ NeedPreempt \in States
        /\ NeedPreempt \notin {Running, NeedSchedule, NeedFree, Idle, Sleep, Free}
    BY DEF States, Idle, Running, NeedSchedule, NeedFree, NeedPreempt, Sleep, Free
  <2>4. state[t] # Free
    BY <1>18 DEF Idle, Free
  <2> QED BY <1>12, <1>14, <1>18, <2>0, <2>1, <2>2, <2>3, <2>4
<1>19. CASE /\ op = "preempt" /\ state[t] = Sleep
            /\ state' = [state EXCEPT ![t] = NeedPreempt]
            /\ TreeMoved(TreeOf(c), TreeOf(c)', {}, {})
            /\ ListMoved(rdyPreemptThds[c], rdyPreemptThds'[c], {}, {t})
            /\ sleepThds' = [sleepThds EXCEPT ![c] = @ \ {t}]
  <2>0. ~Launching(t) /\ t \notin tree /\ Exists(t) /\ t \notin list /\ cur[c] # t
    BY <1>6, <1>8, <1>19 DEF Placed, Sleep, Idle, NeedPreempt, Running, NeedSchedule, NeedFree
  <2>1. /\ treeN = tree /\ listN = list \union {t}
        /\ NoRepeat(thds'[c]) /\ NoRepeat(rdyPreemptThds'[c])
        /\ left'[c] \in treeN \union {None}
    <3>1. {} \cap tree = {} /\ {t} \cap list = {}
      BY <2>0
    <3>2. /\ treeN = (tree \ {}) \union {} /\ listN = list \union {t}
          /\ NoRepeat(thds'[c]) /\ NoRepeat(rdyPreemptThds'[c])
          /\ left'[c] \in treeN \union {None}
      BY <1>11, <1>19, <3>1, Zenon
    <3> QED BY <3>2
  <2>2. ~Launching(t)'
    BY <1>1, <2>0
  <2>3. /\ NeedPreempt \in States
        /\ NeedPreempt \notin {Running, NeedSchedule, NeedFree, Idle, Sleep, Free}
    BY DEF States, Idle, Running, NeedSchedule, NeedFree, NeedPreempt, Sleep, Free
  <2>4. state[t] # Free
    BY <1>19 DEF Sleep, Free
  <2>5. sleepThds'[c] = sleepThds[c] \ {t}
    BY <1>13, <1>19
  <2> QED BY <1>12, <1>14, <1>19, <2>0, <2>1, <2>2, <2>3, <2>4, <2>5
<1> QED BY <1>15, <1>16, <1>17, <1>18, <1>19 DEF DoMoved
\* A switch takes one thread out of the ready ones and puts the current one
\* where its state says.
LEMMA PlaceTry ==
    ASSUME TypeOK, LocalInv, PlaceInv, NEW c \in CPU, NEW t \in Thread, t = cur[c],
           TryMoved(c), OpsKept,
           MustSchedule(state[cur[c]]), UNCHANGED <<thdCnt, req>>,
           \A d \in CPU : \A u : irq'[d] = [at |-> "test", thd |-> u] => irq[d] = irq'[d]
    PROVE  PlaceInv'
<1>1. \A u \in Thread : /\ Launching(u)' <=> Launching(u)
                        /\ PreemptPending(u)' => PreemptPending(u)
                        /\ Exists(u)' <=> Exists(u)
  BY LaunchingPending, PreemptPendingPending, PendingNext DEF OpsKept, Ops, Exists
<1>2. \A u \in Thread : Fresh(u)' /\ LaunchOnce(u)'
  BY <1>1 DEF PlaceInv, Fresh, OpsKept
<1>3. /\ t \in Thread /\ CpuOf(t) = c /\ t \in Own(c)
      /\ state \in [Thread -> States] /\ DOMAIN sleepThds = CPU /\ DOMAIN cur = CPU
      /\ freeThds \in [CPU -> Seq(Thread)]
  BY DEF LocalInv, Own, TypeOK
<1>4. state[t] \in {Running, NeedSchedule, NeedFree}
  BY <1>3 DEF PlaceInv, Placed
<1>5. CASE state' = [state EXCEPT ![t] = Running] /\ UNCHANGED <<cur, queues, freeThds>>
  <2>1. \A u \in Thread : \/ state'[u] = state[u]
                          \/ cur[CpuOf(u)] = u /\ state'[u] \in {Running, NeedSchedule, NeedFree}
    BY <1>3, <1>5
  <2>2. \A u \in Thread : ~Exists(u) => ~Launching(u)
    BY DEF PlaceInv, Placed
  <2> QED BY <1>1, <1>2, <1>5, <2>1, <2>2, PlaceStays
<1>6. ASSUME NEW n \in Thread, NEW out \in SUBSET Thread, NEW list \in SUBSET Thread,
             NEW in \in SUBSET {t}, NEW s \in {Sleep, Free, Idle},
             Picked(c, n, out, list), cur' = [cur EXCEPT ![c] = n], Elsewhere(c),
             ListMoved(rdyPreemptThds[c], rdyPreemptThds'[c], list, {}),
             TreeMoved(TreeOf(c), TreeOf(c)', out, in),
             state' = [state EXCEPT ![n] = Running, ![t] = s],
             in = IF s = Idle THEN {t} ELSE {},
             sleepThds' = IF s = Sleep THEN [sleepThds EXCEPT ![c] = @ \union {t}] ELSE sleepThds,
             freeThds' = IF s = Free THEN [freeThds EXCEPT ![c] = Append(@, t)] ELSE freeThds
      PROVE  PlaceInv'
  <2> DEFINE tree == ToSet(thds[c])  treeN == ToSet(thds'[c])
             rdy == ToSet(rdyPreemptThds[c])  rdyN == ToSet(rdyPreemptThds'[c])
  <2>1. CpuOf(n) = c
    <3>1. n \in Own(c) \union {None}
      BY <1>6 DEF Picked, LocalInv, LocalQueues
    <3> QED BY <1>6, <3>1 DEF Own, None, Thread
  <2>2. /\ \A u \in Thread : CpuOf(u) = c => (InTree(u) <=> u \in tree) /\ (InPreempt(u) <=> u \in rdy)
        /\ \A u \in Thread : CpuOf(u) = c => (InTree(u)' <=> u \in treeN) /\ (InPreempt(u)' <=> u \in rdyN)
    BY InSets
  <2>3. Sound(TreeOf(c)) /\ NoRepeat(rdyPreemptThds[c]) /\ TreeOf(c).order = thds[c]
    BY DEF PlaceInv, Sound, TreeOf
  <2>4. TreeOf(c)'.order = thds'[c] /\ TreeOf(c)'.left = left'[c]
    BY DEF TreeOf
  <2>5. Placed(t) /\ Placed(n)
    BY <1>3, <1>6 DEF PlaceInv
  <2>6. t \notin tree /\ t \notin rdy /\ t \notin sleepThds[c] /\ ~Launching(t) /\ Exists(t)
    BY <1>3, <1>4, <2>2, <2>5 DEF Placed, Sleep, Idle, NeedPreempt, Running, NeedSchedule, NeedFree
  <2>7. /\ treeN = (tree \ out) \union in /\ rdyN = rdy \ list
        /\ NoRepeat(thds'[c]) /\ NoRepeat(rdyPreemptThds'[c])
        /\ left'[c] \in treeN \union {None}
    <3>1. in \cap tree = {} /\ {} \cap rdy = {}
      BY <1>6, <2>6
    <3>2. /\ Sound(TreeOf(c)') /\ treeN = (tree \ out) \union in
      BY <1>6, <2>3, <2>4, <3>1 DEF TreeMoved
    <3>3. NoRepeat(rdyPreemptThds'[c]) /\ rdyN = (rdy \ list) \union {}
      BY <1>6, <2>3, <3>1 DEF ListMoved
    <3> QED BY <2>4, <3>2, <3>3 DEF Sound
  <2>8. \/ n \in rdy /\ out = {} /\ list = {n}
        \/ n \in tree /\ out = {n} /\ list = {}
    <3>1. left[c] \in tree \union {None}
      BY DEF PlaceInv
    <3> QED BY <1>6, <3>1 DEF Picked, None, Thread
  <2> HIDE DEF tree, treeN, rdy, rdyN
  <2>9. n # t
    BY <2>6, <2>8
  <2>10. /\ (n \in tree <=> state[n] = Idle) /\ (n \in rdy <=> state[n] = NeedPreempt)
         /\ ~Launching(n) /\ Exists(n) /\ n \notin sleepThds[c] /\ ~Contains(freeThds[c], n)
    <3>1. CASE n \in tree
      BY <2>1, <2>2, <2>5, <3>1 DEF Placed, Idle, NeedPreempt, Sleep, Free
    <3>2. CASE n \in rdy
      BY <2>1, <2>2, <2>5, <3>2 DEF Placed, Idle, NeedPreempt, Sleep, Free
    <3> QED BY <2>8, <3>1, <3>2
  <2>11. n \notin treeN /\ n \notin rdyN
    <3>1. ~(n \in tree /\ n \in rdy)
      BY <2>10 DEF Idle, NeedPreempt
    <3> QED BY <1>6, <2>7, <2>8, <2>9, <3>1
  <2>12. \A u \in Thread \ {n, t} : /\ u \in treeN <=> u \in tree
                                    /\ u \in rdyN <=> u \in rdy
                                    /\ state'[u] = state[u]
    BY <1>3, <1>6, <2>7, <2>8
  <2>13. state'[n] = Running /\ state'[t] = s
    BY <1>3, <1>6, <2>9
  <2>14. cur'[c] = n /\ \A d \in CPU \ {c} : cur'[d] = cur[d]
    BY <1>3, <1>6
  <2>15. \A u : u \in sleepThds'[c] <=> u \in sleepThds[c] \/ (u = t /\ s = Sleep)
    BY <1>3, <1>6
  <2>16. \A d \in CPU : \A u : Contains(freeThds'[d], u) <=>
             Contains(freeThds[d], u) \/ (d = c /\ u = t /\ s = Free)
    <3> SUFFICES ASSUME NEW d \in CPU, NEW u
                 PROVE  Contains(freeThds'[d], u) <=>
                          Contains(freeThds[d], u) \/ (d = c /\ u = t /\ s = Free)
      OBVIOUS
    <3>1. CASE s = Free /\ d = c
      <4>1. freeThds'[d] = Append(freeThds[d], t) /\ freeThds[d] \in Seq(Thread)
        BY <1>3, <1>6, <3>1
      <4> QED BY <3>1, <4>1, ContainsAppend
    <3>2. CASE ~(s = Free /\ d = c)
      <4>1. freeThds'[d] = freeThds[d]
        BY <1>3, <1>6, <3>2
      <4> QED BY <3>2, <4>1
    <3> QED BY <3>1, <3>2
  <2>17. Placed(n)'
    <3>1. Running \notin {Idle, NeedPreempt, Sleep, Free}
      BY DEF Running, Idle, NeedPreempt, Sleep, Free
    <3> QED BY <1>1, <2>1, <2>2, <2>9, <2>10, <2>11, <2>13, <2>14, <2>15, <2>16, <3>1 DEF Placed
  <2>18. Placed(t)'
    <3>1. s \notin {Running, NeedSchedule, NeedFree, NeedPreempt}
      BY DEF Running, NeedSchedule, NeedFree, NeedPreempt, Idle, Sleep, Free
    <3>2. t \in treeN <=> s = Idle
      BY <1>6, <2>6, <2>7
    <3>3. t \notin rdyN
      BY <2>6, <2>7
    <3>4. Idle # Sleep /\ Idle # Free /\ Sleep # Free
      BY DEF Idle, Sleep, Free
    <3>5. ~Contains(freeThds[c], t)
      BY <1>3, <1>4, <2>5 DEF Placed, Running, NeedSchedule, NeedFree, Free
    <3> QED BY <1>1, <1>3, <2>2, <2>6, <2>9, <2>13, <2>14, <2>15, <2>16, <3>1, <3>2, <3>3, <3>4, <3>5
            DEF Placed
  <2>19. ASSUME NEW u \in Thread \ {n, t} PROVE Placed(u)'
    <3>1. Placed(u) /\ u \in Thread
      BY DEF PlaceInv
    <3>2. CASE CpuOf(u) = c
      BY <1>1, <2>2, <2>12, <2>14, <2>15, <2>16, <3>1, <3>2 DEF Placed
    <3>3. CASE CpuOf(u) # c
      <4>1. /\ InTree(u)' <=> InTree(u)
            /\ InPreempt(u)' <=> InPreempt(u)
            /\ sleepThds'[CpuOf(u)] = sleepThds[CpuOf(u)]
            /\ cur'[CpuOf(u)] = cur[CpuOf(u)] /\ CpuOf(u) \in CPU
        BY <1>6, <2>14, <3>1, <3>3, InSets, CpuOfType DEF Elsewhere, TreeOf
      <4> QED BY <1>1, <2>12, <2>16, <3>1, <3>3, <4>1 DEF Placed
    <3> QED BY <3>2, <3>3
  <2>20. ASSUME NEW d \in CPU
         PROVE  /\ NoRepeat(thds'[d]) /\ left'[d] \in ToSet(thds'[d]) \union {None}
                /\ NoRepeat(rdyPreemptThds'[d])
    <3>1. CASE d = c  BY <2>7, <3>1 DEF treeN
    <3>2. CASE d # c  BY <1>6, <3>2 DEF Elsewhere, TreeOf, PlaceInv
    <3> QED BY <3>1, <3>2
  <2> QED BY <1>2, <2>17, <2>18, <2>19, <2>20 DEF PlaceInv
<1>7. ASSUME NEW n \in Thread, NEW out \in SUBSET Thread, NEW list \in SUBSET Thread,
             Picked(c, n, out, list), cur' = [cur EXCEPT ![c] = n], Elsewhere(c),
             ListMoved(rdyPreemptThds[c], rdyPreemptThds'[c], list, {}),
             \/ /\ reqWait[t] > 0 /\ ~working[t]
                /\ state' = [state EXCEPT ![n] = Running, ![t] = Sleep]
                /\ sleepThds' = [sleepThds EXCEPT ![c] = @ \union {t}]
                /\ TreeMoved(TreeOf(c), TreeOf(c)', out, {})
                /\ UNCHANGED freeThds
             \/ /\ state[t] = NeedFree
                /\ state' = [state EXCEPT ![n] = Running, ![t] = Free]
                /\ freeThds' = [freeThds EXCEPT ![c] = Append(@, t)]
                /\ TreeMoved(TreeOf(c), TreeOf(c)', out, {})
                /\ UNCHANGED sleepThds
             \/ /\ state' = [state EXCEPT ![n] = Running, ![t] = Idle]
                /\ TreeMoved(TreeOf(c), TreeOf(c)', out, {t})
                /\ UNCHANGED <<sleepThds, freeThds>>
      PROVE  PlaceInv'
  <2>1. Idle # Sleep /\ Idle # Free /\ Sleep # Free /\ {} \in SUBSET {t} /\ {t} \in SUBSET {t}
    BY DEF Idle, Sleep, Free
  <2>2. CASE /\ state' = [state EXCEPT ![n] = Running, ![t] = Sleep]
             /\ sleepThds' = [sleepThds EXCEPT ![c] = @ \union {t}]
             /\ TreeMoved(TreeOf(c), TreeOf(c)', out, {})
             /\ UNCHANGED freeThds
    BY <1>6, <1>7, <2>1, <2>2
  <2>3. CASE /\ state' = [state EXCEPT ![n] = Running, ![t] = Free]
             /\ freeThds' = [freeThds EXCEPT ![c] = Append(@, t)]
             /\ TreeMoved(TreeOf(c), TreeOf(c)', out, {})
             /\ UNCHANGED sleepThds
    BY <1>6, <1>7, <2>1, <2>3
  <2>4. CASE /\ state' = [state EXCEPT ![n] = Running, ![t] = Idle]
             /\ TreeMoved(TreeOf(c), TreeOf(c)', out, {t})
             /\ UNCHANGED <<sleepThds, freeThds>>
    BY <1>6, <1>7, <2>1, <2>4
  <2> QED BY <1>7, <2>2, <2>3, <2>4
<1> QED BY <1>5, <1>7 DEF TryMoved
\* A step that moves no thread and creates none.
LEMMA PlaceQuiet ==
    ASSUME TypeOK, PlaceInv, UNCHANGED <<cur, queues, thdCnt>>,
           \A t \in Thread : \/ state'[t] = state[t]
                             \/ cur[CpuOf(t)] = t /\ state'[t] \in {Running, NeedSchedule, NeedFree},
           \A t \in Thread : Contains(freeThds'[CpuOf(t)], t) => Contains(freeThds[CpuOf(t)], t),
           \A t \in Thread : (Launching(t)' <=> Launching(t)) /\ LaunchOnce(t)',
           \A t \in Thread : req'[t] = req[t] \/ cur[CpuOf(t)] = t,
           \A t \in Thread : PreemptPending(t)' => PreemptPending(t) \/ (Exists(t) /\ ~Launching(t))
    PROVE  PlaceInv'
<1>1. \A t \in Thread : Exists(t)' <=> Exists(t)
  BY DEF Exists
<1>2. \A t \in Thread : Fresh(t)'
  BY <1>1, FreshStays
<1>3. \A t \in Thread : ~Exists(t) => ~Launching(t)
  BY DEF PlaceInv, Placed
<1> QED BY <1>1, <1>2, <1>3, PlaceStays

\* The operations that OpsKept and OpsAdded speak of, as the invariant has them.
LEMMA KeptLaunching ==
    ASSUME OpsKept
    PROVE  \A t \in Thread : /\ Launching(t)' <=> Launching(t)
                             /\ Pending(t, "preempt")' <=> Pending(t, "preempt")
                             /\ LaunchOnce(t)'
BY LaunchingPending, PendingNext DEF OpsKept, Ops

\* A launch or a preempt is under way after it has been added, or was before.
LEMMA AddedLaunching ==
    ASSUME NEW u, NEW op, OpsAdded(u, op)
    PROVE  \A t \in Thread :
               /\ Launching(t)' <=> Launching(t) \/ (t = u /\ op = "launch")
               /\ Pending(t, "preempt")' <=> Pending(t, "preempt") \/ (t = u /\ op = "preempt")
               /\ LaunchOnce(t)'
BY LaunchingPending, PendingNext DEF OpsAdded, Ops

\* The next pid is created and its launch is under way.
LEMMA PlaceCreate ==
    ASSUME TypeOK, PlaceInv, UNCHANGED <<cur, queues, state, freeThds, req>>,
           thdCnt' = thdCnt + 1, OpsAdded(thdCnt, "launch"),
           \A c \in CPU : \A t : irq'[c] = [at |-> "test", thd |-> t] => irq'[c] = irq[c]
    PROVE  PlaceInv'
<1>1. \A t \in Thread : Exists(t)' <=> Exists(t) \/ t = thdCnt
  BY CpuAssumption, ThreadAssumption DEF Exists, TypeOK, Thread
<1>2. \A t \in Thread : t = thdCnt => ~Exists(t)
  BY CpuAssumption, ThreadAssumption DEF Exists, TypeOK, Thread
<1>3. \A t \in Thread : /\ Launching(t)' <=> Launching(t) \/ t = thdCnt
                        /\ PreemptPending(t)' => PreemptPending(t)
                        /\ LaunchOnce(t)'
  <2>1. \A t \in Thread : /\ Launching(t)' <=> Launching(t) \/ t = thdCnt
                          /\ Pending(t, "preempt")' <=> Pending(t, "preempt")
                          /\ LaunchOnce(t)'
    BY AddedLaunching
  <2> QED BY <2>1, PendingNext, PreemptPendingPending
<1>4. \A t \in Thread : Launching(t) => Exists(t)
  BY DEF PlaceInv, Placed
<1>5. \A t \in Thread : Fresh(t)'
  BY <1>1, <1>2, <1>3, FreshStays
<1> QED BY <1>1, <1>2, <1>3, <1>4, <1>5, PlaceStays

\* Setting bit 0 of the current thread's state.
LEMMA NeedScheduleSet ==
    ASSUME TypeOK, PlaceInv, LocalInv, NEW c \in CPU, UpdCurThdState(c)
    PROVE  \A t \in Thread : \/ state'[t] = state[t]
                             \/ cur[CpuOf(t)] = t /\ state'[t] \in {Running, NeedSchedule, NeedFree}
<1>1. cur[c] \in Thread /\ CpuOf(cur[c]) = c
  BY DEF LocalInv, Own
<1>2. state[cur[c]] \in {Running, NeedSchedule, NeedFree}
  BY <1>1 DEF PlaceInv, Placed
<1>3. SetNeedSchedule(state[cur[c]]) \in {Running, NeedSchedule, NeedFree}
  BY <1>2 DEF SetNeedSchedule, MustSchedule, Running, NeedSchedule, NeedFree
<1> QED BY <1>1, <1>3 DEF UpdCurThdState, TypeOK
\* Every step keeps every thread in the one place that its state tells.
LEMMA PlaceStep == TypeOK /\ LocalInv /\ PauseInv /\ PlaceInv /\ [Next]_vars => PlaceInv'
<1> SUFFICES ASSUME TypeOK, LocalInv, PauseInv, PlaceInv, [Next]_vars PROVE PlaceInv'
  OBVIOUS
<1>0. /\ \A t \in Thread : LaunchOnce(t) /\ Fresh(t) /\ Placed(t)
      /\ \A c \in CPU : cur[c] \in Thread /\ CpuOf(cur[c]) = c
      /\ IrqCpu \subseteq CPU
  BY CpuAssumption DEF PlaceInv, LocalInv, Own
\* Steps that leave the operations, or the interrupts' part of them, alone.
<1>1. ASSUME UNCHANGED <<cur, queues, thdCnt, irq, hand, reqs>>,
             \A t \in Thread : \/ state'[t] = state[t]
                               \/ cur[CpuOf(t)] = t /\ state'[t] \in {Running, NeedSchedule, NeedFree},
             \A t \in Thread : Contains(freeThds'[CpuOf(t)], t) => Contains(freeThds[CpuOf(t)], t),
             \A t \in Thread : req'[t] = req[t] \/ cur[CpuOf(t)] = t
      PROVE  PlaceInv'
  <2>1. OpsKept
    BY <1>0, <1>1, OpsStill
  <2>2. \A t \in Thread : PreemptPending(t)' => PreemptPending(t)
    BY <1>1, <2>1, KeptLaunching, PendingNext, PreemptPendingPending
  <2> QED BY <1>1, <2>1, <2>2, KeptLaunching, PlaceQuiet
<1>2. ASSUME NEW c \in CPU, NEW h, irq' = [irq EXCEPT ![c] = h], irq[c].at \notin Ops,
             h \in {Ret, NoIrq},
             UNCHANGED <<cur, queues, thdCnt, hand, reqs, freeThds, req>>,
             \A t \in Thread : \/ state'[t] = state[t]
                               \/ cur[CpuOf(t)] = t /\ state'[t] \in {Running, NeedSchedule, NeedFree}
      PROVE  PlaceInv'
  <2>1. h.at \notin Ops /\ h.at # "test"
    BY <1>2 DEF Ret, NoIrq, Ops
  <2>2. OpsKept
    BY <1>0, <1>2, <2>1, OpsIrq
  <2>3. \A d \in CPU : \A t : irq'[d] = [at |-> "test", thd |-> t] => irq[d] = irq'[d]
    BY <1>2, <2>1 DEF TypeOK
  <2>4. \A t \in Thread : PreemptPending(t)' => PreemptPending(t)
    BY <2>2, <2>3, KeptLaunching, PendingNext, PreemptPendingPending
  <2> QED BY <1>2, <2>2, <2>4, KeptLaunching, PlaceQuiet
<1>3. ASSUME NEW c \in CPU, irq[c] = NoIrq \/ irq[c] = Ret PROVE irq[c].at \notin Ops
  BY <1>3 DEF NoIrq, Ret, Ops
<1>4. ASSUME NEW c \in CPU, NEW t \in Thread, Launch(c, t)
      PROVE  PlaceInv'
  <2>1. /\ thdCnt \in Thread /\ thdCnt' = thdCnt + 1
        /\ UNCHANGED <<cur, queues, state, freeThds, req, irq>>
    BY <1>4, CpuAssumption, ThreadAssumption DEF Launch, TypeOK, Thread
  <2>2. ~Pending(thdCnt, "launch")
    BY <1>0, <2>1, LaunchingPending, ThreadAssumption DEF Placed, Exists, Thread
  <2>3. "launch" \in Ops
    BY DEF Ops
  <2>4. OpsAdded(thdCnt, "launch")
    <3>1. CASE CpuOf(thdCnt) = c
      <4>1. hand' = [hand EXCEPT ![c] = Op(thdCnt, "launch")] /\ UNCHANGED reqs
        BY <1>4, <3>1 DEF Launch, Op
      <4>2. hand[c] = NoHand
        BY <1>4, PauseCur DEF Launch, Here
      <4> QED BY <1>0, <2>1, <2>2, <2>3, <3>1, <4>1, <4>2, OpsAddHand
    <3>2. CASE CpuOf(thdCnt) # c
      <4>1. SendReq(thdCnt, "launch") /\ UNCHANGED hand
        BY <1>4, <3>2 DEF Launch
      <4> QED BY <1>0, <2>1, <2>2, <2>3, <4>1, OpsAddReq
    <3> QED BY <3>1, <3>2
  <2> QED BY <2>1, <2>4, PlaceCreate
<1>5. ASSUME NEW c \in CPU, NEW t \in Thread, Operate(c, t)
      PROVE  PlaceInv'
  <2>1. /\ hand[c] # NoHand /\ Do(c, hand[c]) /\ hand' = [hand EXCEPT ![c] = NoHand]
        /\ UNCHANGED <<cur, freeThds, thdCnt, req, irq, reqs>>
    BY <1>5 DEF Operate, Do, NoHand
  <2>2. hand[c] \in WaitReq /\ CpuOf(hand[c].thd) = c
    BY <2>1 DEF LocalInv, LocalOps, TypeOK
  <2> DEFINE u == hand[c].thd  op == hand[c].op
  <2>3. u \in Thread /\ op \in Ops /\ hand[c] = Op(u, op)
    BY <2>2 DEF WaitReq, Op
  <2>4. DoMoved(c, u, op)
    BY <2>1, <2>2, DoMoves
  <2>5. OpsDone(u, op)
    BY <1>0, <2>1, <2>2, <2>3, OpsDoneHand
  <2>6. Pending(u, op)
    BY <2>2, <2>3 DEF Pending
  <2> QED BY <2>1, <2>2, <2>3, <2>4, <2>5, <2>6, PlaceDo
<1>6. ASSUME NEW c \in CPU, NEW t \in Thread, ThreadStep(c, t), ~Launch(c, t), ~Operate(c, t)
      PROVE  PlaceInv'
  <2>1. /\ cur[c] = t
        /\ UNCHANGED <<cur, queues, thdCnt, irq, hand, reqs, freeThds>>
        /\ \/ UNCHANGED state
           \/ UpdCurThdState(c)
           \/ state' = [state EXCEPT ![t] = NeedFree]
        /\ \/ UNCHANGED req
           \/ \E k, x : req' = [req EXCEPT ![t][k] = x]
    BY <1>6 DEF ThreadStep, Resume, Submit, Insert, WaitReqInc, WaitReqYield, WaitReqReturn, Yield,
                SendIpi, Exit, ExitResume, ExitYield, SetHandler, GiveUp, Here
  <2>2. \A u \in Thread : \/ state'[u] = state[u]
                          \/ cur[CpuOf(u)] = u /\ state'[u] \in {Running, NeedSchedule, NeedFree}
    <3>1. CASE UNCHANGED state  BY <3>1
    <3>2. CASE UpdCurThdState(c)  BY <3>2, NeedScheduleSet
    <3>3. CASE state' = [state EXCEPT ![t] = NeedFree]
      <4>1. \A u \in Thread : state'[u] = IF u = t THEN NeedFree ELSE state[u]
        BY <3>3 DEF TypeOK
      <4> QED BY <1>0, <2>1, <4>1
    <3> QED BY <2>1, <3>1, <3>2, <3>3
  <2>3. \A u \in Thread : req'[u] = req[u] \/ cur[CpuOf(u)] = u
    BY <1>0, <2>1 DEF TypeOK
  <2> QED BY <1>1, <2>1, <2>2, <2>3
<1>7. ASSUME NEW c \in CPU, IdleStep(c)
      PROVE  PlaceInv'
  <2>1. CASE TakeReq(c)
    <3>1. hand[c] = NoHand
      BY <2>1, PauseCur DEF TakeReq, Here
    <3>2. OpsKept
      BY <1>0, <2>1, <3>1, OpsTake
    <3>3. UNCHANGED <<cur, queues, thdCnt, state, freeThds, req, irq>>
      BY <2>1 DEF TakeReq
    <3>4. \A t \in Thread : PreemptPending(t)' => PreemptPending(t)
      BY <3>2, <3>3, KeptLaunching, PendingNext, PreemptPendingPending
    <3> QED BY <3>2, <3>3, <3>4, KeptLaunching, PlaceQuiet
  <2>2. CASE StartReap(c) \/ EndReap(c)
    BY <1>1, <2>2 DEF StartReap, EndReap
  <2>3. CASE Reap(c)
    <3>1. \A t \in Thread : Contains(freeThds'[CpuOf(t)], t) => Contains(freeThds[CpuOf(t)], t)
      <4> SUFFICES ASSUME NEW t \in Thread, Contains(freeThds'[CpuOf(t)], t)
                   PROVE  Contains(freeThds[CpuOf(t)], t)
        OBVIOUS
      <4>1. freeThds[c] \in Seq(Thread) /\ freeThds[c] # <<>> /\ DOMAIN freeThds = CPU
              /\ freeThds' = [freeThds EXCEPT ![c] = Tail(@)]
        BY <2>3 DEF Reap, TypeOK
      <4>2. CASE CpuOf(t) = c
        <5>1. freeThds'[c] = Tail(freeThds[c])
          BY <4>1
        <5> QED BY <4>1, <4>2, <5>1, ContainsTail
      <4>3. CASE CpuOf(t) # c
        BY <4>1, <4>3
      <4> QED BY <4>2, <4>3
    <3> QED BY <1>1, <2>3, <3>1 DEF Reap
  <2> QED BY <1>7, <2>1, <2>2, <2>3 DEF IdleStep
<1>8. ASSUME NEW c \in CPU, FinishReqTest(c)
      PROVE  PlaceInv'
  <2> DEFINE u == irq[c].thd
  <2>1. /\ irq[c].at = "test" /\ UNCHANGED <<cur, queues, thdCnt, state, freeThds, req, hand, reqs>>
        /\ irq' = [irq EXCEPT ![c] = IF reqWait[u] = 0 THEN [at |-> "preempt", thd |-> u] ELSE Ret]
    BY <1>8 DEF FinishReqTest
  <2>2. u \in Thread /\ irq[c] = [at |-> "test", thd |-> u] /\ "test" \notin Ops /\ "preempt" \in Ops
    BY <2>1 DEF TypeOK, Irqs, Ret, NoIrq, Ops
  <2>3. CASE reqWait[u] = 0
    <3>1. irq' = [irq EXCEPT ![c] = [at |-> "preempt", thd |-> u]]
      BY <2>1, <2>3
    <3>2. OpsAdded(u, "preempt")
      <4>1. irq[c].at \notin Ops /\ "preempt" # "launch"
        BY <2>1, <2>2
      <4> QED BY <1>0, <2>1, <2>2, <3>1, <4>1, OpsAddIrq
    <3>3. \A t \in Thread : /\ Launching(t)' <=> Launching(t)
                            /\ Pending(t, "preempt")' <=> Pending(t, "preempt") \/ t = u
                            /\ LaunchOnce(t)'
      BY <3>2, AddedLaunching
    <3>4. \A d \in CPU : \A t : irq'[d] = [at |-> "test", thd |-> t] => irq[d] = irq'[d]
      BY <3>1 DEF TypeOK
    <3>5. \A t \in Thread : PreemptPending(t)' => PreemptPending(t)
      BY <2>2, <3>3, <3>4, PendingNext, PreemptPendingPending
    <3> QED BY <2>1, <3>3, <3>5, PlaceQuiet
  <2>4. CASE reqWait[u] # 0
    BY <1>2, <2>1, <2>2, <2>4
  <2> QED BY <2>3, <2>4
<1>9. ASSUME NEW c \in CPU, IntrOp(c)
      PROVE  PlaceInv'
  <2> DEFINE t == irq[c].thd  op == irq[c].at  r == [thd |-> t, op |-> op]
  <2>1. t \in Thread /\ op \in Ops /\ r \in WaitReq /\ InIrq(c, t, op)
    <3>1. op \in Ops /\ irq[c] \in Irqs
      BY <1>9 DEF IntrOp, TypeOK
    <3>2. "ret" \notin Ops /\ "none" \notin Ops
      BY DEF Ops
    <3> QED BY <3>1, <3>2 DEF Irqs, Ret, NoIrq, WaitReq, InIrq
  <2>2. irq' = [irq EXCEPT ![c] = Ret] /\ UNCHANGED <<cur, freeThds, thdCnt, req, hand>>
    BY <1>9 DEF IntrOp
  <2>3. \A d \in CPU : \A u : irq'[d] = [at |-> "test", thd |-> u] => irq[d] = irq'[d]
    BY <2>2 DEF TypeOK, Ret
  <2>4. CASE Do(c, r) /\ CpuOf(t) = c /\ UNCHANGED reqs
    <3>1. DoMoved(c, t, op)
      BY <2>1, <2>4, DoMoves
    <3>2. OpsDone(t, op)
      BY <1>0, <2>1, <2>2, <2>4, OpsDoneIrq
    <3>3. Pending(t, op)
      BY <2>1 DEF Pending
    <3> QED BY <2>1, <2>2, <2>3, <2>4, <3>1, <3>2, <3>3, PlaceDo
  <2>5. CASE SendReq(t, op) /\ UNCHANGED <<state, vRuntime, queues>>
    <3>1. OpsKept
      BY <1>0, <2>1, <2>2, <2>5, OpsSend
    <3>2. \A u \in Thread : PreemptPending(u)' => PreemptPending(u)
      BY <2>3, <3>1, KeptLaunching, PendingNext, PreemptPendingPending
    <3> QED BY <2>2, <2>5, <3>1, <3>2, KeptLaunching, PlaceQuiet
  <2> QED BY <1>9, <2>4, <2>5 DEF IntrOp
<1>10. ASSUME NEW c \in CPU, TrySche(c)
       PROVE  PlaceInv'
  <2>1. /\ irq[c] = Ret /\ irq' = [irq EXCEPT ![c] = NoIrq]
        /\ MustSchedule(state[cur[c]]) /\ UNCHANGED <<thdCnt, req, hand, reqs>>
    BY <1>10 DEF TrySche, WantsSchedule
  <2>2. OpsKept
    <3>1. NoIrq.at \notin Ops
      BY DEF NoIrq, Ops
    <3> QED BY <1>0, <1>3, <2>1, <3>1, OpsIrq
  <2>3. \A d \in CPU : \A u : irq'[d] = [at |-> "test", thd |-> u] => irq[d] = irq'[d]
    BY <2>1 DEF TypeOK, NoIrq
  <2>4. TryMoved(c)
    BY <1>10, TryMoves
  <2> QED BY <1>0, <2>1, <2>2, <2>3, <2>4, PlaceTry
<1>11. ASSUME NEW c \in CPU, RunHandler(c) \/ Restore(c)
       PROVE  PlaceInv'
  BY <1>2, <1>3, <1>11 DEF RunHandler, Restore
<1>12. ASSUME NEW c \in CPU, ScheIntr(c) \/ (c = 0 /\ TimerIntr)
       PROVE  PlaceInv'
  <2>1. /\ irq' = [irq EXCEPT ![c] = Ret] /\ irq[c] = NoIrq /\ UpdCurThdState(c)
        /\ UNCHANGED <<cur, queues, thdCnt, hand, reqs, freeThds, req>>
    BY <1>12 DEF ScheIntr, TimerIntr, Taken
  <2> QED BY <1>2, <1>3, <2>1, NeedScheduleSet
<1>13. ASSUME NEW c \in CPU, NEW t \in Thread, NEW k \in Ctx, RespIntr(c, t, k)
       PROVE  PlaceInv'
  <2>1. /\ irq' = [irq EXCEPT ![c] = [at |-> "test", thd |-> t]] /\ irq[c] = NoIrq
        /\ req[t][k] = "sent" /\ req' = [req EXCEPT ![t][k] = "answered"]
        /\ UNCHANGED <<cur, queues, thdCnt, state, freeThds, hand, reqs>>
    BY <1>13 DEF RespIntr, Taken
  <2>2. OpsKept
    <3>1. [at |-> "test", thd |-> t].at \notin Ops
      BY DEF Ops
    <3> QED BY <1>0, <1>3, <2>1, <3>1, OpsIrq
  <2>3. Exists(t) /\ ~Launching(t)
    BY <1>0, <2>1 DEF Fresh
  <2>4. \A u \in Thread : PreemptPending(u)' => PreemptPending(u) \/ u = t
    <3>1. \A d \in CPU : \A u : irq'[d] = [at |-> "test", thd |-> u] => irq[d] = irq'[d] \/ u = t
      BY <2>1 DEF TypeOK
    <3> QED BY <2>2, <3>1, KeptLaunching, PendingNext, PreemptPendingPending
  <2>5. \A u \in Thread : Fresh(u)'
    <3> SUFFICES ASSUME NEW u \in Thread PROVE Fresh(u)'
      OBVIOUS
    <3>1. Launching(u)' <=> Launching(u)
      BY <2>2, KeptLaunching
    <3>2. Exists(u)' <=> Exists(u)
      BY <2>1 DEF Exists
    <3>3. CASE u = t
      BY <2>3, <3>1, <3>2, <3>3 DEF Fresh
    <3>4. CASE u # t
      BY <1>0, <2>1, <2>4, <3>1, <3>2, <3>4 DEF Fresh, TypeOK
    <3> QED BY <3>3, <3>4
  <2>6. \A u \in Thread : /\ Launching(u)' <=> Launching(u)
                          /\ LaunchOnce(u)' /\ (Exists(u)' <=> Exists(u))
                          /\ ~Exists(u) => ~Launching(u)
    BY <1>0, <2>1, <2>2, KeptLaunching DEF Exists, Placed
  <2> QED BY <2>1, <2>5, <2>6, PlaceStays
<1>14. ASSUME NEW c \in CPU, ConnectIntr(c)
       PROVE  PlaceInv'
  <2>1. /\ thdCnt \in Thread /\ thdCnt' = thdCnt + 1
        /\ irq' = [irq EXCEPT ![c] = [at |-> "launch", thd |-> thdCnt]] /\ irq[c] = NoIrq
        /\ UNCHANGED <<cur, queues, state, freeThds, req, hand, reqs>>
    BY <1>14, CpuAssumption, ThreadAssumption DEF ConnectIntr, Taken, Client, Thread
  <2>2. ~Pending(thdCnt, "launch")
    BY <1>0, <2>1, LaunchingPending, ThreadAssumption DEF Placed, Exists, Thread
  <2>3. "launch" \in Ops
    BY DEF Ops
  <2>4. OpsAdded(thdCnt, "launch")
    BY <1>0, <1>3, <2>1, <2>2, <2>3, OpsAddIrq
  <2>5. \A d \in CPU : \A t : irq'[d] = [at |-> "test", thd |-> t] => irq'[d] = irq[d]
    BY <2>1 DEF TypeOK
  <2> QED BY <2>1, <2>4, <2>5, PlaceCreate
<1>15. ASSUME NEW c \in CPU, NEW t \in Thread, DisconnectIntr(c, t)
       PROVE  PlaceInv'
  <2>1. /\ irq' = [irq EXCEPT ![c] = [at |-> "wake", thd |-> t]] /\ irq[c] = NoIrq
        /\ UNCHANGED <<cur, queues, thdCnt, state, freeThds, req, hand, reqs>>
    BY <1>15 DEF DisconnectIntr, Taken
  <2>2. "wake" \in Ops /\ "wake" # "launch" /\ "wake" # "preempt"
    BY DEF Ops
  <2>3. OpsAdded(t, "wake")
    BY <1>0, <1>3, <2>1, <2>2, OpsAddIrq
  <2>4. \A u \in Thread : /\ Launching(u)' <=> Launching(u)
                          /\ Pending(u, "preempt")' <=> Pending(u, "preempt")
                          /\ LaunchOnce(u)'
    BY <2>3, AddedLaunching
  <2>5. \A d \in CPU : \A u : irq'[d] = [at |-> "test", thd |-> u] => irq[d] = irq'[d]
    BY <2>1 DEF TypeOK
  <2>6. \A u \in Thread : PreemptPending(u)' => PreemptPending(u)
    BY <2>4, <2>5, PendingNext, PreemptPendingPending
  <2> QED BY <2>1, <2>4, <2>6, PlaceQuiet
<1>16. CASE UNCHANGED vars
  BY <1>1, <1>16 DEF vars, queues
<1>17. Client \subseteq Thread /\ Unplug \subseteq Thread /\ 0 \in CPU
  BY CpuAssumption, ThreadAssumption DEF Client, Thread, CPU
<1> QED BY <1>0, <1>4, <1>5, <1>6, <1>7, <1>8, <1>9, <1>10, <1>11, <1>12, <1>13, <1>14, <1>15,
           <1>16, <1>17 DEF Next, IrqStep
\* Every thread is where its state says, in every reachable state.
LEMMA PlaceHeld == Safety => []PlaceInv
<1>1. TypeOK /\ LocalInv /\ PauseInv /\ PlaceInv /\ [Next]_vars => PlaceInv'
  BY PlaceStep
<1> QED BY <1>1, PlaceInit, TypeCorrect, StaysLocal, PausesHeld, PTL DEF Safety

\* No thread is lost by all queues or linked in two, on any number of CPUs:
\* what the lists and the tree of a CPU hold is what the states say, through
\* launches, wake-ups and preempts sent between CPUs, ticks and exits.
THEOREM ThreadsInOnePlace == Safety => []OnePlace
<1>1. PlaceInv => OnePlace
  <2> SUFFICES ASSUME PlaceInv PROVE OnePlace
    OBVIOUS
  <2>1. \A t \in Thread : Placed(t)
    BY DEF PlaceInv
  <2> QED BY <2>1 DEF PlaceInv, OnePlace, Placed
<1> QED BY <1>1, PlaceHeld, PTL
-----------------------------------------------------------------------------
(* No wake-up is lost. *)

\* What a step does to the operations under way: nothing, one more, or one
\* done to its thread.
LEMMA OpsStep ==
    ASSUME TypeOK, LocalInv, PauseInv, PlaceInv, [Next]_vars,
           NEW t \in Thread, NEW op \in {"wake", "preempt"}, Pending(t, op)
    PROVE  Pending(t, op)' \/ \E c \in CPU : DoMoved(c, t, op)
<1>0. /\ \A u \in Thread : LaunchOnce(u)
      /\ IrqCpu \subseteq CPU /\ op \in Ops
  BY CpuAssumption DEF PlaceInv, Ops
<1>1. OpsKept => Pending(t, op)'
  BY <1>0 DEF OpsKept
\* The handlers of other CPUs and the rest of the operations stay.
<1>2. ASSUME NEW c \in CPU, \A d \in CPU \ {c} : irq'[d] = irq[d], irq[c].at \notin Ops,
             UNCHANGED <<hand, reqs>>
      PROVE  Pending(t, op)'
  BY <1>0, <1>2 DEF Pending, InIrq
<1>3. ASSUME NEW c \in CPU, NEW h, Taken(c, h), UNCHANGED <<hand, reqs>>
      PROVE  Pending(t, op)'
  <2>1. irq[c].at \notin Ops /\ \A d \in CPU \ {c} : irq'[d] = irq[d]
    BY <1>3 DEF Taken, TypeOK, NoIrq, Ops
  <2> QED BY <1>2, <1>3, <2>1
<1>4. ASSUME NEW c \in CPU, NEW u \in Thread, Launch(c, u)
      PROVE  Pending(t, op)'
  <2>1. CASE CpuOf(thdCnt) = c
    <3>1. /\ UNCHANGED <<irq, reqs>> /\ hand' = [hand EXCEPT ![c] = Op(thdCnt, "launch")]
          /\ hand[c] = NoHand
      BY <1>4, <2>1, PauseCur DEF Launch, Here, Op
    <3>2. hand[CpuOf(t)] = Op(t, op) => hand'[CpuOf(t)] = hand[CpuOf(t)]
      <4>1. hand[c] # Op(t, op)
        BY <3>1, NoHandNoOp
      <4> QED BY <3>1, <4>1 DEF TypeOK
    <3> QED BY <3>1, <3>2 DEF Pending, InIrq, Op
  <2>2. CASE CpuOf(thdCnt) # c
    <3>1. SendReq(thdCnt, "launch") /\ UNCHANGED <<irq, hand>> /\ thdCnt \in Thread /\ "launch" \in Ops
      BY <1>4, <2>2, CpuAssumption, ThreadAssumption DEF Launch, TypeOK, Thread, Ops
    <3>2. Contains(reqs[CpuOf(t)], Op(t, op)) => Contains(reqs'[CpuOf(t)], Op(t, op))
      BY <1>0, <3>1, SendContains
    <3> QED BY <3>1, <3>2 DEF Pending, InIrq, Op
  <2> QED BY <2>1, <2>2
<1>5. ASSUME NEW c \in CPU, NEW u \in Thread, Operate(c, u)
      PROVE  Pending(t, op)' \/ DoMoved(c, t, op)
  <2>1. /\ hand[c] # NoHand /\ Do(c, hand[c]) /\ hand' = [hand EXCEPT ![c] = NoHand]
        /\ UNCHANGED <<irq, reqs>>
    BY <1>5 DEF Operate, Do, NoHand
  <2>2. hand[c] \in WaitReq /\ CpuOf(hand[c].thd) = c
    BY <2>1 DEF LocalInv, LocalOps, TypeOK
  <2>3. DoMoved(c, hand[c].thd, hand[c].op)
    BY <2>1, <2>2, DoMoves
  <2>4. CASE hand[c] = Op(t, op)
    BY <2>3, <2>4 DEF Op
  <2>5. CASE hand[c] # Op(t, op)
    <3>1. hand[CpuOf(t)] = Op(t, op) => hand'[CpuOf(t)] = hand[CpuOf(t)]
      BY <2>1, <2>5 DEF TypeOK
    <3> QED BY <2>1, <3>1 DEF Pending, InIrq, Op
  <2> QED BY <2>4, <2>5
<1>6. ASSUME NEW c \in CPU, NEW u \in Thread, ThreadStep(c, u), ~Launch(c, u), ~Operate(c, u)
      PROVE  Pending(t, op)'
  <2>1. UNCHANGED <<irq, hand, reqs>>
    BY <1>6 DEF ThreadStep, Resume, Submit, Insert, WaitReqInc, WaitReqYield, WaitReqReturn, Yield,
                SendIpi, Exit, ExitResume, ExitYield, SetHandler, GiveUp
  <2> QED BY <1>0, <1>1, <2>1, OpsStill
<1>7. ASSUME NEW c \in CPU, IdleStep(c)
      PROVE  Pending(t, op)'
  <2>1. CASE TakeReq(c)
    <3>1. hand[c] = NoHand
      BY <2>1, PauseCur DEF TakeReq, Here
    <3> QED BY <1>0, <1>1, <2>1, <3>1, OpsTake
  <2>2. CASE StartReap(c) \/ Reap(c) \/ EndReap(c)
    BY <1>0, <1>1, <2>2, OpsStill DEF StartReap, Reap, EndReap
  <2> QED BY <1>7, <2>1, <2>2 DEF IdleStep
<1>8. ASSUME NEW c \in CPU, IntrOp(c)
      PROVE  Pending(t, op)' \/ DoMoved(c, t, op)
  <2> DEFINE u == irq[c].thd  p == irq[c].at  r == [thd |-> u, op |-> p]
  <2>1. u \in Thread /\ p \in Ops /\ r \in WaitReq /\ InIrq(c, u, p)
    <3>1. p \in Ops /\ irq[c] \in Irqs
      BY <1>8 DEF IntrOp, TypeOK
    <3>2. "ret" \notin Ops /\ "none" \notin Ops
      BY DEF Ops
    <3> QED BY <3>1, <3>2 DEF Irqs, Ret, NoIrq, WaitReq, InIrq
  <2>2. irq' = [irq EXCEPT ![c] = Ret] /\ UNCHANGED hand
    BY <1>8 DEF IntrOp
  <2>3. CASE Do(c, r) /\ CpuOf(u) = c /\ UNCHANGED reqs
    <3>1. DoMoved(c, u, p)
      BY <2>1, <2>3, DoMoves
    <3>2. CASE InIrq(c, t, op)
      BY <2>1, <3>1, <3>2 DEF InIrq
    <3>3. CASE ~InIrq(c, t, op)
      <4>1. \A d \in CPU \ {c} : irq'[d] = irq[d]
        BY <2>2 DEF TypeOK
      <4> QED BY <2>2, <2>3, <3>3, <4>1 DEF Pending, InIrq
    <3> QED BY <3>2, <3>3
  <2>4. CASE SendReq(u, p)
    BY <1>0, <1>1, <2>1, <2>2, <2>4, OpsSend
  <2> QED BY <1>8, <2>3, <2>4 DEF IntrOp
<1>9. ASSUME NEW c \in CPU, FinishReqTest(c) \/ RunHandler(c) \/ Restore(c) \/ TrySche(c)
      PROVE  Pending(t, op)'
  <2>1. /\ irq[c].at \notin Ops /\ UNCHANGED <<hand, reqs>>
        /\ \E h : irq' = [irq EXCEPT ![c] = h]
    BY <1>9 DEF FinishReqTest, RunHandler, Restore, TrySche, Ret, Ops
  <2>2. \A d \in CPU \ {c} : irq'[d] = irq[d]
    BY <2>1 DEF TypeOK
  <2> QED BY <1>2, <2>1, <2>2
<1>10. ASSUME NEW c \in CPU, ScheIntr(c) \/ (c = 0 /\ TimerIntr) PROVE Pending(t, op)'
  BY <1>3, <1>10 DEF ScheIntr, TimerIntr
<1>11. ASSUME NEW c \in CPU, NEW u, NEW k, RespIntr(c, u, k) \/ ConnectIntr(c) \/ DisconnectIntr(c, u)
       PROVE  Pending(t, op)'
  BY <1>3, <1>11 DEF RespIntr, ConnectIntr, DisconnectIntr
<1>12. CASE UNCHANGED vars
  <2>1. UNCHANGED <<irq, hand, reqs>>
    BY <1>12 DEF vars
  <2> QED BY <1>0, <1>1, <2>1, OpsStill
<1>13. 0 \in CPU
  BY CpuAssumption DEF CPU
<1> QED BY <1>0, <1>4, <1>5, <1>6, <1>7, <1>8, <1>9, <1>10, <1>11, <1>12, <1>13 DEF Next, IrqStep
\* A sleeping thread slept before the step, which left it alone but for the
\* response or the signal that comes with its wake-up ...
StaysAsleep(t) ==
    /\ state[t] = Sleep
    /\ pc'[t] = pc[t] /\ working'[t] = working[t] /\ handler'[t] = handler[t]
    /\ reqWait'[t] = reqWait[t] \/ PreemptPending(t)'
    /\ signal'[t] = signal[t] \/ WakePending(t)'
    /\ \A c \in CPU : irq[c] = [at |-> "test", thd |-> t]
                         => PreemptPending(t)' \/ reqWait[t] # 0

\* ... or it is put to sleep now, in its wait for a response.
FallsAsleep(t) ==
    /\ reqWait[t] > 0 /\ ~working[t] /\ ~Signalled(t)
    /\ UNCHANGED <<pc, working, handler, reqWait, signal>>

\* A thread that sleeps after a step slept before and stays, or has just found
\* no answer and no signal.
LEMMA SleepStep ==
    ASSUME TypeOK, LocalInv, PlaceInv, [Next]_vars, NEW t \in Client, state'[t] = Sleep
    PROVE  StaysAsleep(t) \/ FallsAsleep(t)
<1>0. /\ t \in Thread /\ CpuOf(t) \in CPU /\ state[t] \in States
      /\ IrqCpu \subseteq CPU /\ 0 \in CPU
      /\ \A c \in CPU : cur[c] \in Thread /\ CpuOf(cur[c]) = c
  <2>1. t \in Thread /\ IrqCpu \subseteq CPU /\ 0 \in CPU
    BY CpuAssumption, ThreadAssumption DEF Client, Thread, CPU
  <2>2. CpuOf(t) \in CPU /\ state[t] \in States
    BY <2>1, CpuOfType DEF TypeOK
  <2>3. \A c \in CPU : cur[c] \in Thread /\ CpuOf(cur[c]) = c
    BY DEF LocalInv, Own
  <2> QED BY <2>1, <2>2, <2>3
<1>1. \A c \in CPU : cur[c] = t => state[t] \in {Running, NeedSchedule, NeedFree} /\ state[t] # Sleep
  BY <1>0 DEF PlaceInv, Placed, Running, NeedSchedule, NeedFree, Sleep
<1>2. \A c \in CPU : UpdCurThdState(c) => state[t] = Sleep
  <2> SUFFICES ASSUME NEW c \in CPU, UpdCurThdState(c) PROVE state[t] = Sleep
    OBVIOUS
  <2>1. Sleep \notin {Running, NeedSchedule, NeedFree}
    BY DEF Running, NeedSchedule, NeedFree, Sleep
  <2> QED BY <1>0, <2>1, NeedScheduleSet
<1>3. ASSUME NEW c \in CPU, NEW u \in Thread, ThreadStep(c, u), ~Operate(c, u)
      PROVE  StaysAsleep(t)
  <2>1. /\ cur[c] = u /\ UNCHANGED <<irq, signal, working>>
        /\ \E l : pc' = [pc EXCEPT ![u] = l]
        /\ \E n : reqWait' = [reqWait EXCEPT ![u] = n]
        /\ \E h : handler' = [handler EXCEPT ![u] = h]
        /\ UNCHANGED state \/ UpdCurThdState(c) \/ state' = [state EXCEPT ![u] = NeedFree]
    <3>1. /\ cur[c] = u /\ UNCHANGED <<irq, signal, working>>
          /\ \E l : Goto(u, l) \/ UNCHANGED pc
          /\ UNCHANGED reqWait \/ \E n : reqWait' = [reqWait EXCEPT ![u] = n]
          /\ UNCHANGED handler \/ \E h : handler' = [handler EXCEPT ![u] = h]
          /\ UNCHANGED state \/ UpdCurThdState(c) \/ state' = [state EXCEPT ![u] = NeedFree]
      BY <1>3 DEF ThreadStep, Launch, Resume, Submit, Insert, WaitReqInc, WaitReqYield, WaitReqReturn,
                  Yield, SendIpi, Exit, ExitResume, ExitYield, SetHandler, GiveUp, Here
    <3>2. \E l : pc' = [pc EXCEPT ![u] = l]
      BY <3>1 DEF Goto, TypeOK
    <3>3. \E n : reqWait' = [reqWait EXCEPT ![u] = n]
      BY <3>1 DEF TypeOK
    <3>4. \E h : handler' = [handler EXCEPT ![u] = h]
      BY <3>1 DEF TypeOK
    <3> QED BY <3>1, <3>2, <3>3, <3>4
  <2>2. state[t] = Sleep
    <3>1. CASE UNCHANGED state  BY <3>1
    <3>2. CASE UpdCurThdState(c)  BY <1>2, <3>2
    <3>3. CASE state' = [state EXCEPT ![u] = NeedFree]
      <4>1. t # u
        BY <1>0, <3>3 DEF TypeOK, NeedFree, Sleep
      <4> QED BY <3>3, <4>1 DEF TypeOK
    <3> QED BY <2>1, <3>1, <3>2, <3>3
  <2>3. t # u
    BY <1>1, <2>1, <2>2
  <2>4. pc'[t] = pc[t] /\ reqWait'[t] = reqWait[t] /\ handler'[t] = handler[t]
    BY <2>1, <2>3 DEF TypeOK
  <2>5. ASSUME NEW d \in CPU, irq[d] = [at |-> "test", thd |-> t] PROVE PreemptPending(t)'
    BY <2>1, <2>5 DEF PreemptPending
  <2> QED BY <2>1, <2>2, <2>4, <2>5 DEF StaysAsleep
\* An operation puts no thread to sleep.
<1>4. ASSUME NEW c \in CPU, NEW u \in Thread, NEW op, DoMoved(c, u, op)
      PROVE  state[t] = Sleep
  <2>1. UNCHANGED state \/ \E s \in {Idle, NeedPreempt} : state' = [state EXCEPT ![u] = s]
    BY <1>4 DEF DoMoved
  <2>2. Idle # Sleep /\ NeedPreempt # Sleep
    BY DEF Sleep, Idle, NeedPreempt
  <2>3. \A s : state' = [state EXCEPT ![u] = s] => state'[t] = IF t = u THEN s ELSE state[t]
    BY <1>0 DEF TypeOK
  <2> QED BY <2>1, <2>2, <2>3
<1>5. ASSUME NEW c \in CPU, NEW u \in Thread, Operate(c, u)
      PROVE  StaysAsleep(t)
  <2>1. /\ hand[c] # NoHand /\ Do(c, hand[c]) /\ Goto(u, "resume") /\ cur[c] = u
        /\ UNCHANGED <<irq, signal, working, handler, reqWait>>
    BY <1>5 DEF Operate, Do, NoHand, Here
  <2>2. hand[c] \in WaitReq /\ CpuOf(hand[c].thd) = c
    BY <2>1 DEF LocalInv, LocalOps, TypeOK
  <2>3. state[t] = Sleep
    <3>1. DoMoved(c, hand[c].thd, hand[c].op)
      BY <2>1, <2>2, DoMoves
    <3>2. hand[c].thd \in Thread
      BY <2>2 DEF WaitReq
    <3> QED BY <1>4, <3>1, <3>2
  <2>4. pc'[t] = pc[t]
    BY <1>1, <2>1, <2>3 DEF Goto, TypeOK
  <2>5. ASSUME NEW d \in CPU, irq[d] = [at |-> "test", thd |-> t] PROVE PreemptPending(t)'
    BY <2>1, <2>5 DEF PreemptPending
  <2> QED BY <2>1, <2>3, <2>4, <2>5 DEF StaysAsleep
<1>6. ASSUME NEW c \in CPU, IdleStep(c)
      PROVE  StaysAsleep(t)
  <2>1. /\ cur[c] = c /\ UNCHANGED <<state, irq, signal, working, handler, reqWait>>
        /\ UNCHANGED pc \/ \E l : Goto(c, l)
    BY <1>6 DEF IdleStep, TakeReq, StartReap, Reap, EndReap, Here
  <2>2. pc'[t] = pc[t]
    <3>1. t # c
      BY <1>1, <2>1
    <3> QED BY <1>0, <2>1, <3>1 DEF Goto, TypeOK
  <2>3. ASSUME NEW d \in CPU, irq[d] = [at |-> "test", thd |-> t] PROVE PreemptPending(t)'
    BY <2>1, <2>3 DEF PreemptPending
  <2> QED BY <2>1, <2>2, <2>3 DEF StaysAsleep
\* Steps of a handler that is not about to test a counter.
<1>7. ASSUME NEW c \in CPU, NEW h, irq' = [irq EXCEPT ![c] = h], irq[c].at # "test",
             UNCHANGED <<handler>>, pc'[t] = pc[t] \/ cur[c] = t,
             working'[t] = working[t] \/ cur[c] = t,
             signal'[t] = signal[t] \/ cur[c] = t \/ WakePending(t)',
             reqWait'[t] = reqWait[t] \/ PreemptPending(t)', state[t] = Sleep
      PROVE  StaysAsleep(t)
  <2>1. ASSUME NEW d \in CPU, irq[d] = [at |-> "test", thd |-> t] PROVE PreemptPending(t)'
    <3>1. irq'[d] = irq[d]
      BY <1>7, <2>1 DEF TypeOK
    <3> QED BY <2>1, <3>1 DEF PreemptPending
  <2>2. cur[c] # t
    BY <1>1, <1>7
  <2> QED BY <1>7, <2>1, <2>2 DEF StaysAsleep
<1>8. ASSUME NEW c \in CPU, IntrOp(c)
      PROVE  StaysAsleep(t)
  <2> DEFINE u == irq[c].thd  op == irq[c].at  r == [thd |-> u, op |-> op]
  <2>1. u \in Thread /\ op \in Ops /\ r \in WaitReq /\ op # "test"
    <3>1. op \in Ops /\ irq[c] \in Irqs
      BY <1>8 DEF IntrOp, TypeOK
    <3>2. "ret" \notin Ops /\ "none" \notin Ops /\ "test" \notin Ops
      BY DEF Ops
    <3> QED BY <3>1, <3>2 DEF Irqs, Ret, NoIrq, WaitReq
  <2>2. /\ irq' = [irq EXCEPT ![c] = Ret]
        /\ UNCHANGED <<pc, signal, working, handler, reqWait>>
    BY <1>8 DEF IntrOp
  <2>3. state[t] = Sleep
    <3>1. CASE Do(c, r) /\ CpuOf(u) = c
      <4>1. DoMoved(c, u, op)
        BY <2>1, <3>1, DoMoves
      <4> QED BY <1>4, <2>1, <4>1
    <3>2. CASE UNCHANGED state
      BY <3>2
    <3> QED BY <1>8, <3>1, <3>2 DEF IntrOp
  <2> QED BY <1>7, <2>1, <2>2, <2>3
<1>9. ASSUME NEW c \in CPU, FinishReqTest(c)
      PROVE  StaysAsleep(t)
  <2>1. /\ UNCHANGED <<state, pc, signal, working, handler, reqWait>>
        /\ irq' = [irq EXCEPT ![c] = IF reqWait[@.thd] = 0
                                     THEN [at |-> "preempt", thd |-> @.thd] ELSE Ret]
    BY <1>9 DEF FinishReqTest
  <2>2. ASSUME NEW d \in CPU, irq[d] = [at |-> "test", thd |-> t], reqWait[t] = 0
        PROVE  PreemptPending(t)'
    <3>1. CASE d = c
      <4>1. irq'[c] = [at |-> "preempt", thd |-> t]
        BY <2>1, <2>2, <3>1 DEF TypeOK
      <4> QED BY <4>1 DEF PreemptPending
    <3>2. CASE d # c
      <4>1. irq'[d] = irq[d]
        BY <2>1, <3>2 DEF TypeOK
      <4> QED BY <2>2, <4>1 DEF PreemptPending
    <3> QED BY <3>1, <3>2
  <2> QED BY <2>1, <2>2 DEF StaysAsleep
<1>10. ASSUME NEW c \in CPU, RunHandler(c) \/ Restore(c)
       PROVE  StaysAsleep(t)
  <2>1. /\ irq' = [irq EXCEPT ![c] = NoIrq] /\ irq[c].at # "test"
        /\ UNCHANGED <<state, handler, reqWait>>
        /\ pc'[t] = pc[t] \/ cur[c] = t
        /\ working'[t] = working[t] \/ cur[c] = t
        /\ signal'[t] = signal[t] \/ cur[c] = t
    <3>1. CASE Restore(c)
      <4>1. /\ irq' = [irq EXCEPT ![c] = NoIrq] /\ irq[c] = Ret
            /\ UNCHANGED <<state, handler, reqWait, pc, working, signal>>
        BY <3>1 DEF Restore
      <4> QED BY <4>1 DEF Ret
    <3>2. CASE RunHandler(c)
      <4>1. /\ irq' = [irq EXCEPT ![c] = NoIrq] /\ irq[c] = Ret
            /\ UNCHANGED <<state, handler, reqWait>>
            /\ pc' = [pc EXCEPT ![cur[c]] = "giveUp"]
            /\ working' = [working EXCEPT ![cur[c]] = TRUE]
            /\ \E g : signal' = [signal EXCEPT ![cur[c]] = g]
        BY <3>2 DEF RunHandler, Goto
      <4>2. cur[c] # t => pc'[t] = pc[t] /\ working'[t] = working[t] /\ signal'[t] = signal[t]
        BY <1>0, <4>1 DEF TypeOK
      <4>3. irq[c].at # "test" /\ UNCHANGED <<state, handler, reqWait>>
        BY <4>1 DEF Ret
      <4>4. irq' = [irq EXCEPT ![c] = NoIrq]
        BY <4>1
      <4> QED BY <4>2, <4>3, <4>4, Zenon
    <3> QED BY <1>10, <3>1, <3>2
  <2> QED BY <1>7, <2>1
<1>11. ASSUME NEW c \in CPU, TrySche(c)
       PROVE  StaysAsleep(t) \/ FallsAsleep(t)
  <2>1. /\ irq' = [irq EXCEPT ![c] = NoIrq] /\ irq[c].at # "test" /\ ~Signalled(cur[c])
        /\ UNCHANGED <<pc, signal, working, handler, reqWait>>
    BY <1>11 DEF TrySche, Ret
  <2>2. CASE state[t] = Sleep
    BY <1>7, <2>1, <2>2
  <2>3. CASE state[t] # Sleep
    <3>1. TryMoved(c)
      BY <1>11, TryMoves
    <3>2. Running # Sleep /\ Free # Sleep /\ Idle # Sleep
      BY DEF Running, Free, Idle, Sleep
    <3>3. cur[c] = t /\ reqWait[t] > 0 /\ ~working[t]
      BY <1>0, <2>3, <3>1, <3>2 DEF TryMoved, TypeOK
    <3> QED BY <2>1, <3>3 DEF FallsAsleep
  <2> QED BY <2>2, <2>3
<1>12. ASSUME NEW c \in CPU, NEW h, Taken(c, h)
       PROVE  /\ irq' = [irq EXCEPT ![c] = h] /\ irq[c].at # "test"
              /\ pc'[t] = pc[t] \/ cur[c] = t
  BY <1>0, <1>12 DEF Taken, NoIrq, TypeOK
<1>13. ASSUME NEW c \in CPU, ScheIntr(c) \/ (c = 0 /\ TimerIntr)
       PROVE  StaysAsleep(t)
  <2>1. /\ Taken(c, Ret) /\ UpdCurThdState(c) /\ UNCHANGED <<signal, working, handler, reqWait>>
    BY <1>13 DEF ScheIntr, TimerIntr
  <2> QED BY <1>2, <1>7, <1>12, <2>1
<1>14. ASSUME NEW c \in CPU, NEW u \in Client, NEW k \in Ctx, RespIntr(c, u, k)
       PROVE  StaysAsleep(t)
  <2>1. /\ Taken(c, [at |-> "test", thd |-> u]) /\ UNCHANGED <<state, signal, working, handler>>
        /\ reqWait' = [reqWait EXCEPT ![u] = @ - 1]
    BY <1>14 DEF RespIntr
  <2>2. reqWait'[t] = reqWait[t] \/ PreemptPending(t)'
    <3>1. CASE u = t
      <4>1. irq'[c] = [at |-> "test", thd |-> t]
        BY <1>12, <2>1, <3>1 DEF TypeOK
      <4> QED BY <4>1 DEF PreemptPending
    <3>2. CASE u # t
      BY <2>1, <3>2 DEF TypeOK
    <3> QED BY <3>1, <3>2
  <2> QED BY <1>7, <1>12, <2>1, <2>2
<1>15. ASSUME NEW c \in CPU, ConnectIntr(c)
       PROVE  StaysAsleep(t)
  <2>1. /\ Taken(c, [at |-> "launch", thd |-> thdCnt])
        /\ UNCHANGED <<state, signal, working, handler, reqWait>>
    BY <1>15 DEF ConnectIntr
  <2> QED BY <1>7, <1>12, <2>1
<1>16. ASSUME NEW c \in CPU, NEW u \in Unplug, DisconnectIntr(c, u)
       PROVE  StaysAsleep(t)
  <2>1. /\ Taken(c, [at |-> "wake", thd |-> u]) /\ UNCHANGED <<state, reqWait, working, handler>>
        /\ signal' = [signal EXCEPT ![u] = "pending"]
    BY <1>16 DEF DisconnectIntr
  <2>2. signal'[t] = signal[t] \/ WakePending(t)'
    <3>1. CASE u = t
      <4>1. irq'[c] = [at |-> "wake", thd |-> t]
        BY <1>12, <2>1, <3>1 DEF TypeOK
      <4> QED BY <4>1 DEF WakePending
    <3>2. CASE u # t
      BY <2>1, <3>2 DEF TypeOK
    <3> QED BY <3>1, <3>2
  <2> QED BY <1>7, <1>12, <2>1, <2>2
<1>17. CASE UNCHANGED vars
  <2>1. UNCHANGED <<state, pc, signal, working, handler, reqWait, irq>>
    BY <1>17 DEF vars
  <2>2. ASSUME NEW d \in CPU, irq[d] = [at |-> "test", thd |-> t] PROVE PreemptPending(t)'
    BY <2>1, <2>2 DEF PreemptPending
  <2> QED BY <2>1, <2>2 DEF StaysAsleep
<1> QED BY <1>0, <1>3, <1>5, <1>6, <1>8, <1>9, <1>10, <1>11, <1>13, <1>14, <1>15, <1>16, <1>17
        DEF Next, IrqStep
\* A step keeps the wake-ups of sleeping threads: the one that a preempt or a
\* signal owes is under way until it has woken its thread.
LEMMA WakeStep ==
    TypeOK /\ LocalInv /\ SignalInv /\ PauseInv /\ PlaceInv /\ RequestInv /\ WakeInv /\ [Next]_vars
        => WakeInv'
<1> SUFFICES ASSUME TypeOK, LocalInv, SignalInv, PauseInv, PlaceInv, RequestInv, WakeInv, [Next]_vars,
                    NEW t \in Client, state'[t] = Sleep
             PROVE  /\ ~working'[t] /\ pc'[t] \in {"test", "testIpi"}
                    /\ reqWait'[t] <= 0 => PreemptPending(t)'
                    /\ signal'[t] = "pending" /\ handler'[t] => WakePending(t)'
  <2>1. Device \subseteq Client
    BY ThreadAssumption
  <2> QED BY <2>1 DEF WakeInv, AsleepInv, NoLostWakeup, NoLostSignal, Signalled
<1>0. t \in Thread /\ reqWait[t] \in Int
  BY CpuAssumption, ThreadAssumption DEF Client, Thread, TypeOK
<1>1. CASE FallsAsleep(t)
  <2>1. ~working[t] /\ reqWait[t] > 0 /\ ~Signalled(t)
          /\ UNCHANGED <<pc, working, handler, reqWait, signal>>
    BY <1>1 DEF FallsAsleep
  <2>2. Balanced(t)
    BY <2>1 DEF RequestInv, TypeOK
  <2>3. pc[t] \in {"test", "testIpi"}
    BY <1>0, <2>1, <2>2 DEF Balanced, Counted, Answered
  <2> QED BY <1>0, <2>1, <2>3 DEF Signalled
<1>2. CASE StaysAsleep(t)
  <2>1. state[t] = Sleep /\ pc'[t] = pc[t] /\ working'[t] = working[t] /\ handler'[t] = handler[t]
    BY <1>2 DEF StaysAsleep
  <2>2. ~working[t] /\ pc[t] \in {"test", "testIpi"}
    BY <2>1 DEF WakeInv, AsleepInv
  <2>3. \A c \in CPU : ~DoMoved(c, t, "preempt") /\ ~DoMoved(c, t, "wake")
    <3> SUFFICES ASSUME NEW c \in CPU, NEW op \in {"preempt", "wake"}, DoMoved(c, t, op) PROVE FALSE
      OBVIOUS
    <3>1. \E s \in {Idle, NeedPreempt} : state' = [state EXCEPT ![t] = s]
      BY <2>1 DEF DoMoved
    <3> QED BY <1>0, <3>1 DEF TypeOK, Sleep, Idle, NeedPreempt
  <2>4. \A op \in {"preempt", "wake"} : Pending(t, op) => Pending(t, op)'
    BY <1>0, <2>3, OpsStep
  <2>5. ASSUME reqWait'[t] <= 0 PROVE PreemptPending(t)'
    <3>1. CASE reqWait'[t] = reqWait[t]
      <4>1. PreemptPending(t)
        BY <2>1, <2>5, <3>1 DEF WakeInv, NoLostWakeup
      <4>2. CASE Pending(t, "preempt")
        BY <2>4, <4>2, PendingNext
      <4>3. ASSUME NEW c \in CPU, irq[c] = [at |-> "test", thd |-> t]
            PROVE  PreemptPending(t)'
        <5>1. Balanced(t)
          BY <2>2 DEF RequestInv, TypeOK
        <5>2. reqWait[t] >= 0
          BY <2>2, <5>1 DEF Balanced, Counted, Answered
        <5>3. reqWait[t] = 0
          BY <1>0, <2>5, <3>1, <5>2
        <5> QED BY <1>2, <4>3, <5>3 DEF StaysAsleep
      <4> QED BY <4>1, <4>2, <4>3, PreemptPendingPending
    <3> QED BY <1>2, <3>1 DEF StaysAsleep
  <2>6. ASSUME signal'[t] = "pending", handler'[t] PROVE WakePending(t)'
    <3>1. CASE signal'[t] = signal[t]
      <4>1. t \in Device
        <5>1. handler[t]
          BY <2>1, <2>6
        <5> QED BY <1>0, <5>1 DEF SignalInv
      <4>2. WakePending(t)
        BY <2>1, <2>6, <3>1, <4>1 DEF WakeInv, NoLostSignal, Signalled
      <4>3. Pending(t, "wake")'
        BY <2>4, <4>2, WakePendingPending
      <4> QED BY <4>3 DEF WakePending, Pending, InIrq, Op
    <3> QED BY <1>2, <3>1 DEF StaysAsleep
  <2> QED BY <2>1, <2>2, <2>5, <2>6
<1> QED BY <1>1, <1>2, SleepStep
\* No thread sleeps at first.
LEMMA WakeInit == Init => WakeInv
<1>1. Init => \A t \in Thread : state[t] # Sleep
  BY DEF Init, Running, Idle, Sleep
<1>2. Client \subseteq Thread /\ Device \subseteq Thread
  BY CpuAssumption, ThreadAssumption DEF Client, Thread
<1> QED BY <1>1, <1>2 DEF WakeInv, AsleepInv, NoLostWakeup, NoLostSignal

\* So no sleeper is ever without its wake-up.
LEMMA WakeHeld == Safety => []WakeInv
<1>1. TypeOK /\ LocalInv /\ SignalInv /\ PauseInv /\ PlaceInv /\ RequestInv /\ WakeInv /\ [Next]_vars
        => WakeInv'
  BY WakeStep
<1> QED BY <1>1, WakeInit, TypeCorrect, StaysLocal, SignalsRuled, PausesHeld, PlaceHeld,
           RequestBalance, PTL DEF Safety

\* No completion is lost between the counter's decrement, its second read and
\* the preempt, whatever CPU took the interrupt and whenever the waiting thread
\* hangs: a thread that sleeps with no response due is about to be preempted.
THEOREM WakeupsArrive == Safety => []NoLostWakeup
BY WakeHeld, PTL DEF WakeInv

\* A device manager with a signal for its handler is awake or about to be
\* woken: the bit that task_signal_send sets never meets a thread that has just
\* decided to hang without the wake-up following it.
THEOREM SignalsArrive == Safety => []NoLostSignal
BY WakeHeld, PTL DEF WakeInv
=============================================================================
