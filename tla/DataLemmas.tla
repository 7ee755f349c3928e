---------------------------- MODULE DataLemmas ------------------------------
(***************************************************************************)
(* Facts about the data the models are built from, which the proofs about  *)
(* several of them need: least and greatest numbers, lists without         *)
(* repetition, powers of two.                                              *)
(***************************************************************************)
EXTENDS List, FiniteSets, FiniteSetsExt, SequenceTheorems, FiniteSetTheorems, FunctionTheorems,
        WellFoundedInduction, TLAPS

-----------------------------------------------------------------------------
(* Least and greatest numbers. *)

\* A set of natural numbers that is not empty has a least element.
LEMMA LeastOf ==
    ASSUME NEW T \in SUBSET Nat, T # {}
    PROVE  \E x \in T : \A y \in T : x <= y
<1> DEFINE R == OpToRel(<, Nat)
<1>1. IsWellFoundedOn(R, Nat)  BY NatLessThanWellFounded
<1>2. \A x, y \in Nat : y < x => <<y, x>> \in R  BY DEF OpToRel
<1> HIDE DEF R
<1>3. PICK x \in T : \A y \in T : <<y, x>> \notin R  BY <1>1, WFMin
<1>4. \A y \in T : ~(y < x)  BY <1>2, <1>3
<1> QED BY <1>4

\* A bounded one has a greatest element.
LEMMA GreatestOf ==
    ASSUME NEW T \in SUBSET Nat, T # {}, NEW n \in Nat, \A y \in T : y <= n
    PROVE  \E x \in T : \A y \in T : y <= x
<1> DEFINE U == {m \in Nat : \A y \in T : y <= m}
<1>1. PICK x \in U : \A m \in U : x <= m
  <2>1. n \in U  OBVIOUS
  <2> QED BY <2>1, LeastOf
<1>2. x \in Nat /\ \A y \in T : y \in Nat /\ y <= x  OBVIOUS
<1>3. x \in T
  <2> SUFFICES ASSUME x \notin T PROVE FALSE  OBVIOUS
  <2>1. \A y \in T : y <= x - 1  BY <1>2
  <2>2. PICK y \in T : TRUE  OBVIOUS
  <2>3. x - 1 \in Nat  BY <1>2, <2>1, <2>2
  <2>4. x - 1 \in U  BY <2>1, <2>3
  <2> QED BY <1>1, <1>2, <2>4
<1> QED BY <1>2, <1>3

\* Min of a set of natural numbers.
LEMMA MinLeast ==
    ASSUME NEW T \in SUBSET Nat, T # {}
    PROVE  Min(T) \in T /\ \A y \in T : Min(T) <= y
<1>1. \E x \in T : \A y \in T : x <= y  BY LeastOf
<1> QED BY <1>1 DEF Min

-----------------------------------------------------------------------------
\* List_del takes one entry out and no other.
LEMMA DelOne ==
    ASSUME NEW S, NEW s \in Seq(S), IsInjective(s), NEW n
    PROVE  /\ List_del(s, n) \in Seq(S) /\ IsInjective(List_del(s, n))
           /\ ToSet(List_del(s, n)) = ToSet(s) \ {n}
           /\ Len(List_del(s, n)) <= Len(s)
<1>1. DOMAIN s = 1 .. Len(s) /\ Len(s) \in Nat  BY LenProperties
<1>2. CASE ~Contains(s, n)
  <2>1. List_del(s, n) = s /\ n \notin ToSet(s)  BY <1>1, <1>2 DEF List_del, Contains, ToSet
  <2> QED BY <1>1, <2>1
<1>3. CASE Contains(s, n)
  <2> DEFINE k == CHOOSE i \in DOMAIN s : s[i] = n
             a == SubSeq(s, 1, k - 1)
             b == SubSeq(s, k + 1, Len(s))
             u == a \o b
  <2>1. k \in 1 .. Len(s) /\ s[k] = n  BY <1>1, <1>3 DEF Contains
  <2> HIDE DEF k
  <2>2. \A i \in 1 .. Len(s) : s[i] \in S  BY ElementOfSeq
  <2>3. a \in Seq(S) /\ Len(a) = k - 1 /\ \A i \in 1 .. k - 1 : a[i] = s[i]
    <3>1. \A i \in 1 .. k - 1 : s[i] \in S  BY <1>1, <2>1, <2>2
    <3> QED BY <1>1, <2>1, <3>1, SubSeqProperties
  <2>4. /\ b \in Seq(S) /\ Len(b) = Len(s) - k
        /\ \A i \in 1 .. Len(s) - k : b[i] = s[k + i]
    <3>1. \A i \in k + 1 .. Len(s) : s[i] \in S  BY <1>1, <2>1, <2>2
    <3>2. /\ b \in Seq(S) /\ Len(b) = IF k + 1 <= Len(s) THEN Len(s) - (k + 1) + 1 ELSE 0
          /\ \A i \in 1 .. Len(s) - (k + 1) + 1 : b[i] = s[(k + 1) + i - 1]
      <4>1. k + 1 \in Int /\ Len(s) \in Int  BY <1>1, <2>1
      <4> QED BY <3>1, <4>1, SubSeqProperties
    <3>3. Len(b) = Len(s) - k
      <4> DEFINE l == Len(b)
      <4>1. l = IF k + 1 <= Len(s) THEN Len(s) - (k + 1) + 1 ELSE 0  BY <3>2
      <4> HIDE DEF l
      <4>2. Len(s) \in Int /\ k \in Int /\ k <= Len(s)  BY <1>1, <2>1
      <4>3. CASE k + 1 <= Len(s)  BY <4>1, <4>2, <4>3
      <4>4. CASE ~(k + 1 <= Len(s))
        <5>1. l = 0 /\ Len(s) = k  BY <4>1, <4>2, <4>4
        <5> QED BY <4>2, <5>1 DEF l
      <4> QED BY <4>3, <4>4 DEF l
    <3>4. ASSUME NEW i \in 1 .. Len(s) - k PROVE b[i] = s[k + i]
      <4>1. i \in 1 .. Len(s) - (k + 1) + 1 /\ (k + 1) + i - 1 = k + i  BY <1>1, <2>1
      <4> QED BY <3>2, <4>1
    <3> QED BY <3>2, <3>3, <3>4
  <2> HIDE DEF a, b
  <2>5. /\ u \in Seq(S) /\ Len(u) = Len(s) - 1
        /\ \A i \in 1 .. Len(s) - 1 : u[i] = IF i < k THEN s[i] ELSE s[i + 1]
    <3>1. /\ u \in Seq(S) /\ Len(u) = Len(a) + Len(b)
          /\ \A i \in 1 .. Len(a) + Len(b) : u[i] = IF i <= Len(a) THEN a[i] ELSE b[i - Len(a)]
      BY <2>3, <2>4, ConcatProperties
    <3>2. Len(a) + Len(b) = Len(s) - 1  BY <1>1, <2>1, <2>3, <2>4
    <3>3. ASSUME NEW i \in 1 .. Len(s) - 1 PROVE u[i] = IF i < k THEN s[i] ELSE s[i + 1]
      <4>1. CASE i < k  BY <1>1, <2>1, <2>3, <3>1, <3>2, <4>1
      <4>2. CASE ~(i < k)
        <5>1. u[i] = b[i - (k - 1)]  BY <1>1, <2>1, <2>3, <3>1, <3>2, <4>2
        <5>2. i - (k - 1) \in 1 .. Len(s) - k /\ k + (i - (k - 1)) = i + 1  BY <1>1, <2>1, <4>2
        <5> QED BY <2>4, <4>2, <5>1, <5>2
      <4> QED BY <4>1, <4>2
    <3> QED BY <3>1, <3>2, <3>3
  <2> HIDE DEF u
  <2>6. DOMAIN u = 1 .. Len(s) - 1  BY <2>5, LenProperties
  <2>7. \A i, j \in 1 .. Len(s) : s[i] = s[j] => i = j  BY <1>1 DEF IsInjective
  <2>8. IsInjective(u)
    <3> SUFFICES ASSUME NEW i \in 1 .. Len(s) - 1, NEW j \in 1 .. Len(s) - 1, u[i] = u[j]
                 PROVE  i = j
      BY <2>6 DEF IsInjective
    <3> QED BY <1>1, <2>1, <2>5, <2>7
  <2>9. ToSet(u) = ToSet(s) \ {n}
    <3>1. ASSUME NEW i \in 1 .. Len(s) - 1 PROVE u[i] \in ToSet(s) \ {n}
      <4>1. PICK j \in 1 .. Len(s) : u[i] = s[j] /\ j # k  BY <1>1, <2>1, <2>5
      <4> QED BY <1>1, <2>1, <2>7, <4>1 DEF ToSet
    <3>2. ASSUME NEW j \in 1 .. Len(s), s[j] # n PROVE s[j] \in ToSet(u)
      <4>1. CASE j < k
        <5>1. j \in 1 .. Len(s) - 1 /\ u[j] = s[j]  BY <1>1, <2>1, <2>5, <4>1
        <5> QED BY <2>6, <5>1 DEF ToSet
      <4>2. CASE j > k
        <5>1. j - 1 \in 1 .. Len(s) - 1 /\ u[j - 1] = s[j]  BY <1>1, <2>1, <2>5, <4>2
        <5> QED BY <2>6, <5>1 DEF ToSet
      <4> QED BY <1>1, <2>1, <3>2, <4>1, <4>2
    <3> QED BY <1>1, <2>6, <3>1, <3>2 DEF ToSet
  <2>10. List_del(s, n) = u  BY <1>3 DEF List_del, RemoveAt, u, a, b, k
  <2> QED BY <1>1, <2>5, <2>8, <2>9, <2>10
<1> QED BY <1>2, <1>3

\* List_insTail of an entry that is not on the list.
LEMMA AppendOne ==
    ASSUME NEW S, NEW s \in Seq(S), IsInjective(s), NEW n \in S, n \notin ToSet(s)
    PROVE  /\ Append(s, n) \in Seq(S) /\ IsInjective(Append(s, n))
           /\ ToSet(Append(s, n)) = ToSet(s) \union {n}
           /\ Len(Append(s, n)) = Len(s) + 1 /\ Last(Append(s, n)) = n /\ Append(s, n) # <<>>
<1> DEFINE u == Append(s, n)
<1>1. DOMAIN s = 1 .. Len(s) /\ Len(s) \in Nat  BY LenProperties
<1>2. /\ u \in Seq(S) /\ Len(u) = Len(s) + 1
      /\ \A i \in 1 .. Len(s) : u[i] = s[i]
      /\ u[Len(s) + 1] = n
  BY AppendProperties
<1>3. DOMAIN u = 1 .. Len(s) + 1  BY <1>2, LenProperties
<1> HIDE DEF u
<1>4. \A i \in 1 .. Len(s) : s[i] # n  BY <1>1 DEF ToSet
<1>5. IsInjective(u)
  <2> SUFFICES ASSUME NEW i \in 1 .. Len(s) + 1, NEW j \in 1 .. Len(s) + 1, u[i] = u[j]
               PROVE  i = j
    BY <1>3 DEF IsInjective
  <2>1. \A x, y \in 1 .. Len(s) : s[x] = s[y] => x = y  BY <1>1 DEF IsInjective
  <2> QED BY <1>1, <1>2, <1>4, <2>1
<1>6. ToSet(u) = ToSet(s) \union {n}
  <2>1. \A i \in 1 .. Len(s) + 1 : i \in 1 .. Len(s) \/ i = Len(s) + 1  BY <1>1
  <2>2. \A i \in 1 .. Len(s) : i \in 1 .. Len(s) + 1  BY <1>1
  <2>3. Len(s) + 1 \in 1 .. Len(s) + 1  BY <1>1
  <2> QED BY <1>1, <1>2, <1>3, <2>1, <2>2, <2>3 DEF ToSet
<1>7. Last(u) = n  BY <1>2 DEF Last
<1>8. u # <<>>  BY <1>1, <1>2, EmptySeq
<1> QED BY <1>2, <1>5, <1>6, <1>7, <1>8 DEF u

\* The first entry of a list, and the others.
LEMMA TailOne ==
    ASSUME NEW S, NEW s \in Seq(S), IsInjective(s), s # <<>>
    PROVE  /\ Head(s) \in ToSet(s)
           /\ Tail(s) \in Seq(S) /\ IsInjective(Tail(s))
           /\ ToSet(Tail(s)) = ToSet(s) \ {Head(s)}
           /\ Len(Tail(s)) = Len(s) - 1
<1> DEFINE u == Tail(s)
<1>1. DOMAIN s = 1 .. Len(s) /\ Len(s) \in Nat \ {0}  BY LenProperties, EmptySeq
<1>2. /\ u \in Seq(S) /\ Len(u) = Len(s) - 1
      /\ \A i \in 1 .. Len(s) - 1 : u[i] = s[i + 1]
  BY HeadTailProperties
<1>3. Head(s) = s[1]  BY HeadTailProperties
<1>4. DOMAIN u = 1 .. Len(s) - 1  BY <1>2, LenProperties
<1> HIDE DEF u
<1>5. \A x, y \in 1 .. Len(s) : s[x] = s[y] => x = y  BY <1>1 DEF IsInjective
<1>6. IsInjective(u)
  <2> SUFFICES ASSUME NEW i \in 1 .. Len(s) - 1, NEW j \in 1 .. Len(s) - 1, u[i] = u[j]
               PROVE  i = j
    BY <1>4 DEF IsInjective
  <2> QED BY <1>1, <1>2, <1>5
<1>7. ToSet(u) = ToSet(s) \ {s[1]}
  <2>1. ASSUME NEW i \in 1 .. Len(s) - 1 PROVE u[i] \in ToSet(s) \ {s[1]}
    <3>1. i + 1 \in 1 .. Len(s) /\ 1 \in 1 .. Len(s) /\ i + 1 # 1 /\ u[i] = s[i + 1]  BY <1>1, <1>2
    <3> QED BY <1>1, <1>5, <3>1 DEF ToSet
  <2>2. ASSUME NEW j \in 1 .. Len(s), s[j] # s[1] PROVE s[j] \in ToSet(u)
    <3>1. j - 1 \in 1 .. Len(s) - 1 /\ u[j - 1] = s[j]  BY <1>1, <1>2, <2>2
    <3> QED BY <1>4, <3>1 DEF ToSet
  <2> QED BY <1>1, <1>4, <2>1, <2>2 DEF ToSet
<1>8. s[1] \in ToSet(s)  BY <1>1 DEF ToSet
<1> QED BY <1>2, <1>3, <1>6, <1>7, <1>8 DEF u

\* A list has no more members than entries.
LEMMA SetOfList ==
    ASSUME NEW S, NEW s \in Seq(S)
    PROVE  IsFiniteSet(ToSet(s)) /\ Cardinality(ToSet(s)) <= Len(s)
<1>1. s \in [1 .. Len(s) -> S] /\ DOMAIN s = 1 .. Len(s) /\ Len(s) \in Nat  BY LenProperties
<1>2. IsFiniteSet(1 .. Len(s)) /\ Cardinality(1 .. Len(s)) = Len(s)
  <2>1. 1 \in Int /\ Len(s) \in Int  BY <1>1
  <2>2. /\ IsFiniteSet(1 .. Len(s))
        /\ Cardinality(1 .. Len(s)) = IF 1 > Len(s) THEN 0 ELSE Len(s) - 1 + 1
    BY <2>1, FS_Interval
  <2> QED BY <1>1, <2>2
<1>3. s \in Surjection(1 .. Len(s), ToSet(s))  BY <1>1 DEF Surjection, ToSet
<1> QED BY <1>2, <1>3, FS_Surjection

\* The last entry of a list, and the others.
LEMMA FrontOne ==
    ASSUME NEW S, NEW s \in Seq(S), IsInjective(s), s # <<>>
    PROVE  /\ Last(s) \in ToSet(s)
           /\ Front(s) \in Seq(S) /\ IsInjective(Front(s))
           /\ ToSet(Front(s)) = ToSet(s) \ {Last(s)}
           /\ Len(Front(s)) = Len(s) - 1
<1> DEFINE n == Len(s)
           u == SubSeq(s, 1, n - 1)
<1>1. DOMAIN s = 1 .. n /\ n \in Nat \ {0}  BY LenProperties, EmptySeq
<1>2. \A i \in 1 .. n : s[i] \in S  BY ElementOfSeq
<1>3. u \in Seq(S) /\ Len(u) = n - 1 /\ \A i \in 1 .. n - 1 : u[i] = s[i]
  <2>1. \A i \in 1 .. n - 1 : s[i] \in S  BY <1>1, <1>2
  <2>2. 1 \in Int /\ n - 1 \in Int /\ 1 <= n  BY <1>1
  <2>3. /\ u \in Seq(S) /\ Len(u) = IF 1 <= n - 1 THEN n - 1 - 1 + 1 ELSE 0
        /\ \A i \in 1 .. n - 1 - 1 + 1 : u[i] = s[1 + i - 1]
    BY <2>1, <2>2, SubSeqProperties
  <2> HIDE DEF n, u
  <2>4. Len(u) = n - 1
    <3>1. CASE 1 <= n - 1  BY <1>1, <2>3, <3>1
    <3>2. CASE ~(1 <= n - 1)
      <4>1. n = 1  BY <1>1, <3>2
      <4> QED BY <2>3, <4>1
    <3> QED BY <3>1, <3>2
  <2>5. ASSUME NEW i \in 1 .. n - 1 PROVE u[i] = s[i]
    <3>1. i \in 1 .. n - 1 - 1 + 1 /\ 1 + i - 1 = i  BY <1>1
    <3> QED BY <2>3, <3>1
  <2> QED BY <2>3, <2>4, <2>5
<1>4. DOMAIN u = 1 .. n - 1  BY <1>3, LenProperties
<1>5. Front(s) = u /\ Last(s) = s[n]  BY DEF Front, Last
<1> HIDE DEF n, u
<1>6. \A i, j \in 1 .. n : s[i] = s[j] => i = j  BY <1>1 DEF IsInjective
<1>7. IsInjective(u)
  <2> SUFFICES ASSUME NEW i \in 1 .. n - 1, NEW j \in 1 .. n - 1, u[i] = u[j] PROVE i = j
    BY <1>4 DEF IsInjective
  <2>1. i \in 1 .. n /\ j \in 1 .. n  BY <1>1
  <2> QED BY <1>3, <1>6, <2>1
<1>8. ToSet(u) = ToSet(s) \ {s[n]}
  <2>1. ASSUME NEW i \in 1 .. n - 1 PROVE u[i] \in ToSet(s) \ {s[n]}
    <3>1. i \in 1 .. n /\ n \in 1 .. n /\ i # n  BY <1>1
    <3> QED BY <1>1, <1>3, <1>6, <3>1 DEF ToSet
  <2>2. ASSUME NEW i \in 1 .. n, s[i] # s[n] PROVE s[i] \in ToSet(u)
    <3>1. i \in 1 .. n - 1  BY <1>1, <2>2
    <3> QED BY <1>3, <1>4, <3>1 DEF ToSet
  <2> QED BY <1>1, <1>4, <2>1, <2>2 DEF ToSet
<1>9. s[n] \in ToSet(s)  BY <1>1 DEF ToSet
<1> QED BY <1>3, <1>5, <1>7, <1>8, <1>9 DEF n

\* List_insHead of an entry that is not on the list.
LEMMA PrependOne ==
    ASSUME NEW S, NEW s \in Seq(S), IsInjective(s), NEW n \in S, n \notin ToSet(s)
    PROVE  /\ <<n>> \o s \in Seq(S) /\ IsInjective(<<n>> \o s)
           /\ ToSet(<<n>> \o s) = ToSet(s) \union {n}
           /\ Len(<<n>> \o s) = Len(s) + 1
<1> DEFINE a == <<n>>
           u == a \o s
<1>1. DOMAIN s = 1 .. Len(s) /\ Len(s) \in Nat  BY LenProperties
<1>2. a \in Seq(S) /\ Len(a) = 1 /\ a[1] = n  OBVIOUS
<1>3. /\ u \in Seq(S) /\ Len(u) = Len(a) + Len(s)
      /\ \A i \in 1 .. Len(a) + Len(s) : u[i] = IF i <= Len(a) THEN a[i] ELSE s[i - Len(a)]
  BY <1>2, ConcatProperties
<1> HIDE DEF a
<1>4. /\ Len(u) = Len(s) + 1 /\ u[1] = n
      /\ \A i \in 1 .. Len(s) : u[i + 1] = s[i]
  <2>1. u[1] = n
    <3>1. 1 \in 1 .. 1 + Len(s)  BY <1>1
    <3> QED BY <1>2, <1>3, <3>1
  <2>2. ASSUME NEW i \in 1 .. Len(s) PROVE u[i + 1] = s[i]
    <3>1. i + 1 \in 1 .. 1 + Len(s) /\ ~(i + 1 <= 1) /\ i + 1 - 1 = i  BY <1>1
    <3> QED BY <1>2, <1>3, <3>1
  <2> QED BY <1>1, <1>2, <1>3, <2>1, <2>2
<1>5. DOMAIN u = 1 .. Len(s) + 1  BY <1>3, <1>4, LenProperties
<1> HIDE DEF u
<1>6. \A i \in 1 .. Len(s) + 1 : i = 1 \/ \E j \in 1 .. Len(s) : i = j + 1
  <2> SUFFICES ASSUME NEW i \in 1 .. Len(s) + 1, i # 1 PROVE \E j \in 1 .. Len(s) : i = j + 1
    OBVIOUS
  <2>1. i - 1 \in 1 .. Len(s) /\ i = (i - 1) + 1  BY <1>1
  <2> QED BY <2>1
<1>7. \A i \in 1 .. Len(s) : s[i] # n  BY <1>1 DEF ToSet
<1>8. IsInjective(u)
  <2> SUFFICES ASSUME NEW i \in 1 .. Len(s) + 1, NEW j \in 1 .. Len(s) + 1, u[i] = u[j]
               PROVE  i = j
    BY <1>5 DEF IsInjective
  <2>1. \A x, y \in 1 .. Len(s) : s[x] = s[y] => x = y  BY <1>1 DEF IsInjective
  <2> QED BY <1>4, <1>6, <1>7, <2>1
<1>9. ToSet(u) = ToSet(s) \union {n}
  <2>1. ASSUME NEW i \in 1 .. Len(s) + 1 PROVE u[i] \in ToSet(s) \union {n}
    <3>1. CASE i = 1  BY <1>4, <3>1
    <3>2. CASE i # 1
      <4>1. PICK j \in 1 .. Len(s) : i = j + 1  BY <1>6, <3>2
      <4>2. u[i] = s[j]  BY <1>4, <4>1
      <4> QED BY <1>1, <4>2 DEF ToSet
    <3> QED BY <3>1, <3>2
  <2>2. ASSUME NEW j \in 1 .. Len(s) PROVE s[j] \in ToSet(u)
    <3>1. j + 1 \in 1 .. Len(s) + 1 /\ u[j + 1] = s[j]  BY <1>1, <1>4
    <3> QED BY <1>5, <3>1 DEF ToSet
  <2>3. n \in ToSet(u)
    <3>1. 1 \in 1 .. Len(s) + 1  BY <1>1
    <3> QED BY <1>4, <1>5, <3>1 DEF ToSet
  <2> QED BY <1>1, <1>5, <2>1, <2>2, <2>3 DEF ToSet
<1> QED BY <1>3, <1>4, <1>8, <1>9 DEF u, a

\* One without repetition has as many members as entries.
LEMMA SetOfListOnce ==
    ASSUME NEW S, NEW s \in Seq(S), IsInjective(s)
    PROVE  IsFiniteSet(ToSet(s)) /\ Cardinality(ToSet(s)) = Len(s)
<1>1. s \in [1 .. Len(s) -> S] /\ DOMAIN s = 1 .. Len(s) /\ Len(s) \in Nat  BY LenProperties
<1>2. s \in Bijection(1 .. Len(s), ToSet(s))
  <2>1. s \in [1 .. Len(s) -> ToSet(s)]  BY <1>1 DEF ToSet
  <2>2. \A i, j \in 1 .. Len(s) : s[i] = s[j] => i = j  BY <1>1 DEF IsInjective
  <2>3. \A u \in ToSet(s) : \E i \in 1 .. Len(s) : s[i] = u  BY <1>1 DEF ToSet
  <2> QED BY <2>1, <2>2, <2>3, Fun_IsBij
<1>3. ExistsBijection(1 .. Len(s), ToSet(s))  BY <1>2 DEF ExistsBijection
<1>4. IsFiniteSet(ToSet(s))  BY <1>1, <1>3, FS_NatBijection
<1> QED BY <1>1, <1>3, <1>4, FS_CountingElements

\* A finite set of numbers, in order.
LEMMA AscendingOf ==
    ASSUME NEW S \in SUBSET Nat, IsFiniteSet(S)
    PROVE  Ascending(S) \in Seq(S) /\ IsInjective(Ascending(S)) /\ ToSet(Ascending(S)) = S
<1> DEFINE Sorted(T, s) == s \in [1 .. Cardinality(T) -> T] /\ \A i, j \in 1 .. Cardinality(T) : i < j => s[i] < s[j]
           Bad == {n \in Nat : \E T \in SUBSET Nat : /\ IsFiniteSet(T) /\ Cardinality(T) = n
                                                     /\ \A s : ~Sorted(T, s)}
<1>1. Bad = {}
  <2> SUFFICES ASSUME Bad # {} PROVE FALSE  OBVIOUS
  <2>1. PICK n \in Bad : \A x \in Bad : n <= x
    <3>1. Bad \in SUBSET Nat  OBVIOUS
    <3> HIDE DEF Bad
    <3> QED BY <3>1, LeastOf
  <2>2. PICK T \in SUBSET Nat : IsFiniteSet(T) /\ Cardinality(T) = n /\ \A s : ~Sorted(T, s)
    BY <2>1
  <2>3. n \in Nat  BY <2>1
  <2>4. T # {}
    <3> SUFFICES ASSUME T = {} PROVE FALSE  OBVIOUS
    <3>1. Cardinality(T) = 0  BY FS_EmptySet
    <3>2. 1 .. Cardinality(T) = {}  BY <3>1
    <3>3. Sorted(T, [i \in 1 .. Cardinality(T) |-> 0])  BY <3>2
    <3> QED BY <2>2, <3>3
  <2>5. PICK x \in T : \A y \in T : x <= y  BY <2>4, LeastOf
  <2> DEFINE U == T \ {x}
  <2>6. IsFiniteSet(U) /\ Cardinality(U) = n - 1  BY <2>2, <2>5, FS_RemoveElement
  <2>7. Cardinality(U) \in Nat  BY <2>6, FS_CardinalityType
  <2>8. n - 1 \notin Bad
    <3> HIDE DEF Bad
    <3> QED BY <2>1, <2>3
  <2>9. PICK f : Sorted(U, f)
    <3>1. U \in SUBSET Nat /\ n - 1 \in Nat  BY <2>6, <2>7
    <3> HIDE DEF Sorted, U
    <3> QED BY <2>6, <2>8, <3>1
  <2>10. f \in [1 .. n - 1 -> U] /\ \A i, j \in 1 .. n - 1 : i < j => f[i] < f[j]  BY <2>6, <2>9
  <2> DEFINE g == [i \in 1 .. n |-> IF i = 1 THEN x ELSE f[i - 1]]
  <2>11. g \in [1 .. n -> T]
    <3> SUFFICES ASSUME NEW i \in 1 .. n, i # 1 PROVE f[i - 1] \in T  BY <2>5
    <3>1. i - 1 \in 1 .. n - 1  BY <2>3
    <3> QED BY <2>10, <3>1
  <2>12. ASSUME NEW i \in 1 .. n, NEW j \in 1 .. n, i < j PROVE g[i] < g[j]
    <3>1. j # 1 /\ j - 1 \in 1 .. n - 1  BY <2>3, <2>12
    <3>2. g[j] = f[j - 1] /\ f[j - 1] \in U  BY <2>10, <3>1
    <3>3. CASE i = 1
      <4>1. g[i] = x  BY <3>3
      <4>2. f[j - 1] \in Nat /\ x \in Nat /\ x <= f[j - 1] /\ x # f[j - 1]  BY <2>5, <3>2
      <4> HIDE DEF g
      <4> QED BY <3>2, <4>1, <4>2
    <3>4. CASE i # 1
      <4>1. i - 1 \in 1 .. n - 1 /\ i - 1 < j - 1  BY <2>3, <2>12, <3>4
      <4>2. g[i] = f[i - 1]  BY <3>4
      <4> HIDE DEF g
      <4> QED BY <2>10, <3>1, <3>2, <4>1, <4>2
    <3> QED BY <3>3, <3>4
  <2>13. Sorted(T, g)  BY <2>2, <2>11, <2>12
  <2> QED BY <2>2, <2>13
<1>2. Cardinality(S) \in Nat  BY FS_CardinalityType
<1>3. PICK s : Sorted(S, s)
  <2> HIDE DEF Sorted
  <2> QED BY <1>1, <1>2
<1> DEFINE a == Ascending(S)
           n == Cardinality(S)
<1>4. a \in [1 .. n -> S] /\ \A i, j \in 1 .. n : i < j => a[i] < a[j]
  <2>1. DOMAIN s = 1 .. n  BY <1>3
  <2>2. \A f \in [1 .. n -> S] : DOMAIN f = 1 .. n  OBVIOUS
  <2>3. s \in [1 .. n -> S] /\ \A i, j \in DOMAIN s : i < j => s[i] < s[j]  BY <1>3, <2>1
  <2>4. a = CHOOSE f \in [1 .. n -> S] : \A i, j \in DOMAIN f : i < j => f[i] < f[j]
    BY DEF Ascending
  <2>5. a \in [1 .. n -> S] /\ \A i, j \in DOMAIN a : i < j => a[i] < a[j]
    <3> HIDE DEF a, n
    <3> QED BY <2>3, <2>4
  <2> QED BY <2>2, <2>5
<1> HIDE DEF a
<1>5. \A i, j \in 1 .. n : a[i] = a[j] => i = j
  <2> SUFFICES ASSUME NEW i \in 1 .. n, NEW j \in 1 .. n, a[i] = a[j] PROVE i = j  OBVIOUS
  <2>1. a[i] \in Nat /\ a[j] \in Nat  BY <1>4
  <2>2. i < j \/ j < i \/ i = j  BY <1>2
  <2> QED BY <1>4, <2>1, <2>2
<1>6. DOMAIN a = 1 .. n /\ a \in Seq(S) /\ IsInjective(a)
  <2>1. DOMAIN a = 1 .. n  BY <1>4
  <2>2. a \in Seq(S)  BY <1>2, <1>4, SeqDef
  <2> QED BY <1>5, <2>1, <2>2 DEF IsInjective
<1>7. ToSet(a) = S
  <2>1. a \in Injection(1 .. n, S)  BY <1>4, <1>5, Fun_IsInj
  <2>2. IsFiniteSet(1 .. n) /\ Cardinality(1 .. n) = n
    <3>1. 1 \in Int /\ n \in Int  BY <1>2
    <3>2. IsFiniteSet(1 .. n) /\ Cardinality(1 .. n) = IF 1 > n THEN 0 ELSE n - 1 + 1
      BY <3>1, FS_Interval
    <3> HIDE DEF n
    <3> QED BY <1>2, <3>2 DEF n
  <2>3. a \in Surjection(1 .. n, S)  BY <2>1, <2>2, FS_Injection
  <2> QED BY <1>4, <1>6, <2>3 DEF Surjection, ToSet
<1> QED BY <1>6, <1>7 DEF a

-----------------------------------------------------------------------------
(* Multiples of a number.                                                  *)

\* Products of numbers.
LEMMA MulType == \A a, x \in Nat : a * x \in Nat
OBVIOUS

\* A multiple and the next one.
LEMMA MulNext ==
    ASSUME NEW a \in Int, NEW b \in Int, NEW x \in Nat, a < b
    PROVE  a * x + x <= b * x /\ a * x <= b * x
<1>1. b - a - 1 \in Nat /\ b = a + 1 + (b - a - 1)  OBVIOUS
<1> DEFINE d == b - a - 1
<1>2. d * x \in Nat  BY <1>1
<1>3. b * x = a * x + x + d * x  BY <1>1
<1> HIDE DEF d
<1>4. a * x \in Int  OBVIOUS
<1> QED BY <1>2, <1>3, <1>4

\* A multiple that is past the one before another is not before that.
LEMMA MulPast ==
    ASSUME NEW a \in Int, NEW b \in Int, NEW x \in Nat \ {0}, a * x > b * x - x
    PROVE  a >= b
<1> SUFFICES ASSUME a < b PROVE FALSE  OBVIOUS
<1>1. a * x + x <= b * x  BY MulNext
<1>2. a * x \in Int /\ b * x \in Int  OBVIOUS
<1> QED BY <1>1, <1>2

\* Halving the number of a multiple.
LEMMA MulHalf ==
    ASSUME NEW s \in Nat, NEW x \in Nat \ {0}
    PROVE  (s * x) \div (2 * x) = s \div 2
<1> DEFINE h == s \div 2
           y == 2 * x
<1>1. CASE s = 2 * h
  <2>1. s * x = h * y  BY <1>1
  <2>2. h \in Nat /\ y \in Nat \ {0}  OBVIOUS
  <2>3. (h * y) \div y = h
    <3> HIDE DEF h, y
    <3> QED BY <2>2
  <2> QED BY <2>1, <2>3
<1>2. CASE s = 2 * h + 1
  <2>1. s * x = h * y + x  BY <1>2
  <2>2. h \in Nat /\ y \in Nat \ {0} /\ x < y  OBVIOUS
  <2>3. (h * y + x) \div y = h
    <3> HIDE DEF h, y
    <3> QED BY <2>2
  <2> QED BY <2>1, <2>3
<1> QED BY <1>1, <1>2

-----------------------------------------------------------------------------
(* Powers of two.  What is known of them here is the number of subsets of  *)
(* a finite set (FS_SUBSET); the rest follows.                             *)

\* 2^n is a positive number.
LEMMA PowType ==
    ASSUME NEW n \in Nat
    PROVE  /\ 2^n \in Nat \ {0}
           /\ IsFiniteSet(SUBSET (1 .. n)) /\ Cardinality(SUBSET (1 .. n)) = 2^n
<1>1. IsFiniteSet(1 .. n) /\ Cardinality(1 .. n) = n
  <2>1. 1 \in Int /\ n \in Int  OBVIOUS
  <2>2. IsFiniteSet(1 .. n) /\ Cardinality(1 .. n) = IF 1 > n THEN 0 ELSE n - 1 + 1
    BY <2>1, FS_Interval
  <2> QED BY <2>2
<1>2. IsFiniteSet(SUBSET (1 .. n)) /\ Cardinality(SUBSET (1 .. n)) = 2^n  BY <1>1, FS_SUBSET
<1>3. Cardinality(SUBSET (1 .. n)) \in Nat  BY <1>2, FS_CardinalityType
<1>4. SUBSET (1 .. n) # {}  OBVIOUS
<1>5. Cardinality(SUBSET (1 .. n)) # 0  BY <1>2, <1>4, FS_EmptySet
<1> QED BY <1>2, <1>3, <1>5

\* The first of them.
LEMMA PowZero == 2^0 = 1
OBVIOUS

\* A set with one element more has twice as many subsets.
LEMMA PowNext ==
    ASSUME NEW n \in Nat
    PROVE  2^(n + 1) = 2^n + 2^n
<1> DEFINE A == SUBSET (1 .. n)
           B == {s \union {n + 1} : s \in A}
           f == [s \in A |-> s \union {n + 1}]
<1>1. IsFiniteSet(A) /\ Cardinality(A) = 2^n  BY PowType
<1>2. n + 1 \in Nat /\ n + 1 \notin 1 .. n /\ 1 .. n + 1 = 1 .. n \union {n + 1}  OBVIOUS
<1>3. Cardinality(SUBSET (1 .. n + 1)) = 2^(n + 1)  BY <1>2, PowType
<1>4. SUBSET (1 .. n + 1) = A \union B
  <2>1. ASSUME NEW s \in SUBSET (1 .. n + 1) PROVE s \in A \union B
    <3>1. CASE n + 1 \in s
      <4>1. s \ {n + 1} \in A /\ s = (s \ {n + 1}) \union {n + 1}  BY <1>2, <3>1
      <4> QED BY <4>1
    <3>2. CASE n + 1 \notin s  BY <1>2, <3>2
    <3> QED BY <3>1, <3>2
  <2>2. ASSUME NEW s \in A PROVE s \in SUBSET (1 .. n + 1) /\ s \union {n + 1} \in SUBSET (1 .. n + 1)
    BY <1>2
  <2>3. \A u \in B : u \in SUBSET (1 .. n + 1)
    <3> SUFFICES ASSUME NEW s \in A PROVE s \union {n + 1} \in SUBSET (1 .. n + 1)  OBVIOUS
    <3> QED BY <2>2
  <2>4. \A u \in A : u \in SUBSET (1 .. n + 1)  BY <2>2
  <2> HIDE DEF A, B
  <2> QED BY <2>1, <2>3, <2>4
<1>5. f \in Bijection(A, B)
  <2>1. f \in [A -> B]  OBVIOUS
  <2>2. ASSUME NEW s \in A, NEW t \in A, f[s] = f[t] PROVE s = t
    <3>1. s = f[s] \ {n + 1} /\ t = f[t] \ {n + 1}  BY <1>2
    <3> QED BY <2>2, <3>1
  <2>3. \A u \in B : \E s \in A : f[s] = u  OBVIOUS
  <2> HIDE DEF f, A, B
  <2> QED BY <2>1, <2>2, <2>3, Fun_IsBij
<1>6. IsFiniteSet(B) /\ Cardinality(B) = Cardinality(A)
  <2>1. ExistsBijection(A, B)  BY <1>5 DEF ExistsBijection
  <2> HIDE DEF f, A, B
  <2> QED BY <1>1, <2>1, FS_Bijection
<1>7. A \intersect B = {}  BY <1>2
<1> HIDE DEF f, A, B
<1>8. Cardinality(A \union B) = Cardinality(A) + Cardinality(B) - Cardinality(A \intersect B)
  BY <1>1, <1>6, FS_Union
<1>9. Cardinality(A \intersect B) = 0  BY <1>7, FS_EmptySet
<1>10. 2^n \in Nat  BY PowType
<1>11. Cardinality(A \union B) = Cardinality(A) + Cardinality(A)
  BY <1>1, <1>6, <1>8, <1>9, <1>10
<1>12. Cardinality(A \union B) = 2^(n + 1)  BY <1>3, <1>4
<1> QED BY <1>1, <1>11, <1>12

\* The powers multiply as their exponents add.
LEMMA PowAdd ==
    ASSUME NEW m \in Nat, NEW n \in Nat
    PROVE  2^(m + n) = 2^m * 2^n
<1> DEFINE T == {i \in Nat : 2^(m + i) # 2^m * 2^i}
<1>1. CASE T = {}  BY <1>1
<1>2. CASE T # {}
  <2>1. PICK i \in T : \A j \in T : i <= j  BY <1>2, LeastOf
  <2>2. 2^m \in Nat /\ 2^(m + 0) = 2^m * 2^0
    <3>1. 2^m \in Nat  BY PowType
    <3>2. m + 0 = m  OBVIOUS
    <3> QED BY <3>1, <3>2, PowZero
  <2>3. i # 0  BY <2>1, <2>2
  <2>4. PICK j \in Nat : i = j + 1
    <3>1. i - 1 \in Nat /\ i = (i - 1) + 1  BY <2>3
    <3> QED BY <3>1
  <2>5. 2^(m + j) = 2^m * 2^j  BY <2>1, <2>4
  <2>6. 2^(j + 1) = 2^j + 2^j /\ 2^((m + j) + 1) = 2^(m + j) + 2^(m + j)
    <3>1. m + j \in Nat  OBVIOUS
    <3> QED BY <3>1, PowNext
  <2>7. 2^j \in Nat /\ 2^m \in Nat  BY PowType
  <2>8. m + i = (m + j) + 1  BY <2>4
  <2>9. 2^m * (2^j + 2^j) = 2^m * 2^j + 2^m * 2^j  BY <2>7
  <2> QED BY <2>1, <2>4, <2>5, <2>6, <2>8, <2>9
<1> QED BY <1>1, <1>2

\* 2^m is a multiple of the smaller powers, and not less than they.
LEMMA PowParts ==
    ASSUME NEW m \in Nat, NEW n \in 0 .. m
    PROVE  m - n \in Nat /\ 2^m = 2^(m - n) * 2^n /\ 2^n <= 2^m
<1>1. n \in Nat /\ m - n \in Nat /\ (m - n) + n = m  OBVIOUS
<1>2. 2^((m - n) + n) = 2^(m - n) * 2^n  BY <1>1, PowAdd
<1>3. 2^(m - n) \in Nat \ {0} /\ 2^n \in Nat \ {0}  BY <1>1, PowType
<1>4. 2^m = 2^(m - n) * 2^n  BY <1>1, <1>2
<1>5. \A x, y \in Nat \ {0} : y <= x * y  BY MulNext, MulType
<1>6. 2^n <= 2^(m - n) * 2^n  BY <1>3, <1>5
<1> QED BY <1>1, <1>4, <1>6
=============================================================================
