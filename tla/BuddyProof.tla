----------------------------- MODULE BuddyProof -----------------------------
(***************************************************************************)
(* Proofs about Buddy, for any zones, orders and CPUs: every page is in    *)
(* one group with one owner, the bits of the pairs say which halves are    *)
(* free, free memory is coalesced, the counters count, and callers see the *)
(* abstract allocator.                                                     *)
(***************************************************************************)
EXTENDS Buddy, DataLemmas

-----------------------------------------------------------------------------
(* The groups that mm_buddy_init cuts from the zones. *)

\* The definitions local to Cut, for zone z.
Fit(z, a) == {o \in Ord : a % 2^o = 0 /\ a + 2^o <= z[2]}
Largest(z, a) == CHOOSE o \in Fit(z, a) : \A n \in Fit(z, a) : n <= o

\* f is the recursive function From of Cut, on the addresses from b on.
IsFrom(f, z, b) ==
    f = [a \in b .. z[2] |-> IF a = z[2] THEN {} ELSE {<<a, Largest(z, a)>>} \union f[a + 2^Largest(z, a)]]

\* The largest group that is aligned and fits exists: one page does.
LEMMA LargestFits ==
    ASSUME NEW z \in Zones, NEW a \in z[1] .. z[2], a # z[2]
    PROVE  /\ Largest(z, a) \in Ord /\ a \in Nat
           /\ a % 2^Largest(z, a) = 0
           /\ 2^Largest(z, a) \in Nat \ {0} /\ a + 2^Largest(z, a) \in a + 1 .. z[2]
<1> USE ZoneAssumption, OrderAssumption
<1>1. z[1] \in Nat /\ z[2] \in Nat /\ a \in Nat  OBVIOUS
<1>2. 0 \in Fit(z, a)
  <2>1. a % 1 = 0 /\ a + 1 <= z[2]  BY <1>1
  <2> QED BY <2>1, PowZero DEF Fit, Ord
<1>3. Fit(z, a) \in SUBSET Nat /\ \A o \in Fit(z, a) : o <= MaxOrd  BY DEF Fit, Ord
<1>4. \E o \in Fit(z, a) : \A n \in Fit(z, a) : n <= o  BY <1>2, <1>3, GreatestOf
<1>5. Largest(z, a) \in Fit(z, a)  BY <1>4 DEF Largest
<1> DEFINE o == Largest(z, a)
<1>6. o \in Ord /\ o \in Nat /\ a % 2^o = 0 /\ a + 2^o <= z[2]  BY <1>5 DEF Fit, Ord
<1> HIDE DEF o
<1>7. 2^o \in Nat \ {0}  BY <1>6, PowType
<1>8. a + 2^o \in a + 1 .. z[2]  BY <1>1, <1>6, <1>7
<1> QED BY <1>1, <1>6, <1>7, <1>8 DEF o

\* Such a function exists, from any address of the zone on.
LEMMA FromExists ==
    ASSUME NEW z \in Zones
    PROVE  \E f : IsFrom(f, z, z[1])
<1> USE ZoneAssumption
<1> DEFINE Bad == {n \in Nat : n <= z[2] - z[1] /\ \A f : ~IsFrom(f, z, z[2] - n)}
<1>1. z[1] \in Nat /\ z[2] \in Nat /\ z[1] < z[2]  OBVIOUS
<1>2. Bad = {}
  <2> SUFFICES ASSUME Bad # {} PROVE FALSE  OBVIOUS
  <2>1. PICK n \in Bad : \A x \in Bad : n <= x
    <3>1. Bad \in SUBSET Nat  OBVIOUS
    <3> HIDE DEF Bad
    <3> QED BY <3>1, LeastOf
  <2>2. n \in Nat /\ n <= z[2] - z[1] /\ \A f : ~IsFrom(f, z, z[2] - n)  BY <2>1
  <2>3. n # 0
    <3> SUFFICES ASSUME n = 0 PROVE FALSE  OBVIOUS
    <3>1. z[2] - n .. z[2] = {z[2]}  BY <1>1
    <3>2. IsFrom([a \in {z[2]} |-> {}], z, z[2] - n)  BY <3>1 DEF IsFrom
    <3> QED BY <2>2, <3>2
  <2>4. n - 1 \in Nat /\ n - 1 \notin Bad /\ n - 1 <= z[2] - z[1]
    <3>1. n - 1 \in Nat /\ n - 1 <= z[2] - z[1] /\ ~(n <= n - 1)  BY <1>1, <2>2, <2>3
    <3> HIDE DEF Bad
    <3> QED BY <2>1, <3>1
  <2>5. PICK f : IsFrom(f, z, z[2] - (n - 1))  BY <2>4
  <2> DEFINE b == z[2] - n
  <2>6. b \in z[1] .. z[2] /\ b # z[2] /\ z[2] - (n - 1) = b + 1 /\ b .. z[2] = {b} \union b + 1 .. z[2]
    BY <1>1, <2>2, <2>3
  <2> HIDE DEF b
  <2> DEFINE S(h, a) == {<<a, Largest(z, a)>>} \union h[a + 2^Largest(z, a)]
             g == [a \in b .. z[2] |-> IF a = b THEN S(f, b) ELSE f[a]]
  <2>7. ASSUME NEW a \in b .. z[2], a # z[2] PROVE S(f, a) = S(g, a)
    <3> DEFINE c == a + 2^Largest(z, a)
    <3>1. a \in z[1] .. z[2] /\ a \in Nat /\ b \in Nat  BY <1>1, <2>6, <2>7
    <3>2. c \in a + 1 .. z[2]  BY <2>7, <3>1, LargestFits
    <3> HIDE DEF c
    <3>3. c \in b .. z[2] /\ c # b  BY <3>1, <3>2
    <3>4. f[c] = g[c]  BY <3>3
    <3> QED BY <3>4 DEF c
  <2>8. \A a \in b + 1 .. z[2] : f[a] = IF a = z[2] THEN {} ELSE S(f, a)
    BY <2>5, <2>6 DEF IsFrom
  <2>9. \A a \in b .. z[2] : g[a] = IF a = z[2] THEN {} ELSE S(f, a)
    BY <2>6, <2>8
  <2>10. g = [a \in b .. z[2] |-> IF a = z[2] THEN {} ELSE S(g, a)]
    <3>1. \A a \in b .. z[2] : g[a] = IF a = z[2] THEN {} ELSE S(g, a)
      <4> HIDE DEF g, S
      <4> QED BY <2>7, <2>9
    <3>2. g = [a \in b .. z[2] |-> g[a]]  OBVIOUS
    <3> HIDE DEF g
    <3> QED BY <3>1, <3>2
  <2>11. IsFrom(g, z, b)
    <3> HIDE DEF g
    <3> QED BY <2>10 DEF IsFrom
  <2> QED BY <2>2, <2>11 DEF b
<1>3. z[2] - z[1] \in Nat /\ z[2] - (z[2] - z[1]) = z[1]  BY <1>1
<1> QED BY <1>2, <1>3

\* The groups from address a of zone z on: aligned, inside, disjoint, complete.
CutFrom(S, z, a) ==
    /\ \A r \in S : /\ r \in Nat \X Ord /\ r[1] % 2^r[2] = 0
                    /\ a <= r[1] /\ r[1] + 2^r[2] <= z[2]
    /\ \A r, s \in S : r # s => r[1] + 2^r[2] <= s[1] \/ s[1] + 2^s[2] <= r[1]
    /\ \A q \in a .. z[2] - 1 : \E r \in S : r[1] <= q /\ q < r[1] + 2^r[2]

\* What Cut returns.
LEMMA CutIs ==
    ASSUME NEW z \in Zones
    PROVE  CutFrom(Cut(z), z, z[1])
<1> USE ZoneAssumption
<1> DEFINE f == CHOOSE g : IsFrom(g, z, z[1])
<1>1. z[1] \in Nat /\ z[2] \in Nat /\ z[1] < z[2]  OBVIOUS
<1>2. IsFrom(f, z, z[1])  BY FromExists
<1>3. Cut(z) = f[z[1]]  BY DEF Cut, IsFrom, Largest, Fit
<1> HIDE DEF f
<1>4. \A a \in z[1] .. z[2] : f[a] = IF a = z[2] THEN {} ELSE {<<a, Largest(z, a)>>} \union f[a + 2^Largest(z, a)]
  BY <1>2 DEF IsFrom
<1> DEFINE Bad == {n \in Nat : n <= z[2] - z[1] /\ ~CutFrom(f[z[2] - n], z, z[2] - n)}
<1>5. Bad = {}
  <2> SUFFICES ASSUME Bad # {} PROVE FALSE  OBVIOUS
  <2>1. PICK n \in Bad : \A x \in Bad : n <= x
    <3>1. Bad \in SUBSET Nat  OBVIOUS
    <3> HIDE DEF Bad
    <3> QED BY <3>1, LeastOf
  <2>2. n \in Nat /\ n <= z[2] - z[1] /\ ~CutFrom(f[z[2] - n], z, z[2] - n)  BY <2>1
  <2> DEFINE a == z[2] - n
  <2>3. a \in z[1] .. z[2] /\ a \in Nat  BY <1>1, <2>2
  <2>4. a # z[2]
    <3> SUFFICES ASSUME a = z[2] PROVE FALSE  OBVIOUS
    <3>1. f[a] = {}  BY <1>4, <2>3
    <3>2. a .. z[2] - 1 = {}  BY <1>1
    <3> HIDE DEF a
    <3> QED BY <2>2, <3>1, <3>2 DEF CutFrom, a
  <2> DEFINE x == 2^Largest(z, a)
             c == a + x
             r == <<a, Largest(z, a)>>
  <2>5. /\ Largest(z, a) \in Ord /\ a % x = 0 /\ x \in Nat \ {0} /\ c \in a + 1 .. z[2]
    BY <2>3, <2>4, LargestFits
  <2> HIDE DEF a
  <2>6. z[2] - c \in Nat /\ z[2] - c < n /\ z[2] - c <= z[2] - z[1] /\ z[2] - (z[2] - c) = c
    <3>1. c > a /\ c <= z[2] /\ c \in Nat  BY <2>3, <2>5
    <3> HIDE DEF c
    <3> QED BY <1>1, <2>2, <3>1 DEF a
  <2>7. CutFrom(f[c], z, c)
    <3> HIDE DEF c
    <3>1. z[2] - c \notin Bad
      <4> HIDE DEF Bad
      <4> QED BY <2>1, <2>2, <2>6
    <3> QED BY <2>6, <3>1
  <2>8. f[a] = {r} \union f[c]  BY <1>4, <2>3, <2>4
  <2>9. r[1] = a /\ 2^r[2] = x /\ r \in Nat \X Ord  BY <2>3, <2>5
  <2> DEFINE S == f[c]
  <2>10. \A s \in S : /\ s \in Nat \X Ord /\ s[1] % 2^s[2] = 0
                      /\ c <= s[1] /\ s[1] + 2^s[2] <= z[2]
    BY <2>7 DEF CutFrom
  <2>11. \A s, t \in S : s # t => s[1] + 2^s[2] <= t[1] \/ t[1] + 2^t[2] <= s[1]
    BY <2>7 DEF CutFrom
  <2>12. \A q \in c .. z[2] - 1 : \E s \in S : s[1] <= q /\ q < s[1] + 2^s[2]
    BY <2>7 DEF CutFrom
  <2>13. c \in Nat /\ a <= c /\ c = a + x /\ c <= z[2]  BY <2>3, <2>5
  <2> HIDE DEF c, x, r, S
  <2>14. \A s \in S \union {r} : /\ s \in Nat \X Ord /\ s[1] % 2^s[2] = 0
                                 /\ a <= s[1] /\ s[1] + 2^s[2] <= z[2]
    <3>1. ASSUME NEW s \in S PROVE a <= s[1]
      <4>1. s[1] \in Nat /\ c <= s[1]  BY <2>10
      <4> QED BY <2>3, <2>13, <4>1
    <3>2. r[1] % 2^r[2] = 0 /\ a <= r[1] /\ r[1] + 2^r[2] <= z[2]  BY <2>3, <2>5, <2>9, <2>13
    <3> QED BY <2>9, <2>10, <3>1, <3>2
  <2>15. \A s, t \in S \union {r} : s # t => s[1] + 2^s[2] <= t[1] \/ t[1] + 2^t[2] <= s[1]
    <3>1. \A s \in S : r[1] + 2^r[2] <= s[1]  BY <2>9, <2>10, <2>13
    <3> QED BY <2>11, <3>1
  <2>16. \A q \in a .. z[2] - 1 : \E s \in S \union {r} : s[1] <= q /\ q < s[1] + 2^s[2]
    <3> SUFFICES ASSUME NEW q \in a .. z[2] - 1
                 PROVE  \E s \in S \union {r} : s[1] <= q /\ q < s[1] + 2^s[2]
      OBVIOUS
    <3>1. CASE q < c
      <4>1. r[1] <= q /\ q < r[1] + 2^r[2]  BY <2>9, <2>13, <3>1
      <4> QED BY <4>1
    <3>2. CASE ~(q < c)
      <4>1. q \in c .. z[2] - 1  BY <1>1, <2>3, <2>13, <3>2
      <4> QED BY <2>12, <4>1
    <3> QED BY <3>1, <3>2
  <2>17. CutFrom(f[a], z, a)
    <3>1. f[a] = S \union {r}  BY <2>8 DEF S
    <3> QED BY <2>14, <2>15, <2>16, <3>1 DEF CutFrom
  <2> QED BY <2>2, <2>17 DEF a
<1>6. z[2] - z[1] \in Nat /\ z[2] - (z[2] - z[1]) = z[1]  BY <1>1
<1> QED BY <1>3, <1>5, <1>6

\* The groups of all zones: aligned, disjoint, and together the pages.
LEMMA RootsAre ==
    /\ \A r \in Roots : /\ r \in Nat \X Ord /\ Block(r[1], r[2]) \subseteq Page
                        /\ \E c \in Nat : r[1] = c * 2^r[2]
    /\ \A r, s \in Roots : r # s => Block(r[1], r[2]) \intersect Block(s[1], s[2]) = {}
    /\ \A q \in Page : \E r \in Roots : q \in Block(r[1], r[2])
<1> USE ZoneAssumption, OrderAssumption
<1>1. \A z \in Zones : z[1] \in Nat /\ z[2] \in Nat  OBVIOUS
<1>2. ASSUME NEW z \in Zones, NEW r \in Cut(z)
      PROVE  /\ r \in Nat \X Ord /\ r[1] \in Nat /\ r[2] \in Nat /\ 2^r[2] \in Nat \ {0}
             /\ r[1] % 2^r[2] = 0 /\ z[1] <= r[1] /\ r[1] + 2^r[2] <= z[2]
             /\ Block(r[1], r[2]) = r[1] .. r[1] + 2^r[2] - 1
  <2>1. r \in Nat \X Ord /\ r[1] % 2^r[2] = 0 /\ z[1] <= r[1] /\ r[1] + 2^r[2] <= z[2]
    BY <1>2, CutIs DEF CutFrom
  <2>2. r[1] \in Nat /\ r[2] \in Nat  BY <2>1 DEF Ord
  <2> QED BY <2>1, <2>2, PowType DEF Block
<1>3. ASSUME NEW z \in Zones, NEW r \in Cut(z)
      PROVE  /\ \E c \in Nat : r[1] = c * 2^r[2]
             /\ Block(r[1], r[2]) \subseteq z[1] .. z[2] - 1
  <2> DEFINE x == 2^r[2]
             a == r[1]
  <2>1. a \in Nat /\ x \in Nat \ {0} /\ a % x = 0 /\ z[1] <= a /\ a + x <= z[2]
        /\ Block(r[1], r[2]) = a .. a + x - 1
    BY <1>2
  <2> HIDE DEF a, x
  <2>2. a \div x \in Nat /\ a = (a \div x) * x  BY <2>1
  <2>3. \E c \in Nat : a = c * x  BY <2>2
  <2>4. z[1] \in Nat /\ z[2] \in Nat  BY <1>1
  <2>5. a .. a + x - 1 \subseteq z[1] .. z[2] - 1  BY <2>1, <2>4
  <2>6. Block(r[1], r[2]) \subseteq z[1] .. z[2] - 1  BY <2>1, <2>5
  <2> QED BY <2>3, <2>6 DEF a, x
<1>4. \A r \in Roots : \E z \in Zones : r \in Cut(z)  BY DEF Roots
<1>5. ASSUME NEW r \in Roots
      PROVE  /\ r \in Nat \X Ord /\ Block(r[1], r[2]) \subseteq Page
             /\ \E c \in Nat : r[1] = c * 2^r[2]
  <2>1. PICK z \in Zones : r \in Cut(z)  BY <1>4
  <2> QED BY <1>2, <1>3, <2>1 DEF Page
<1>6. ASSUME NEW r \in Roots, NEW s \in Roots, r # s
      PROVE  Block(r[1], r[2]) \intersect Block(s[1], s[2]) = {}
  <2>1. PICK z \in Zones : r \in Cut(z)  BY <1>4
  <2>2. PICK y \in Zones : s \in Cut(y)  BY <1>4
  <2>3. CASE z = y
    <3>1. r[1] + 2^r[2] <= s[1] \/ s[1] + 2^s[2] <= r[1]
      BY <1>6, <2>1, <2>2, <2>3, CutIs DEF CutFrom
    <3> DEFINE a == r[1]
               b == s[1]
               x == 2^r[2]
               w == 2^s[2]
    <3>2. a \in Nat /\ b \in Nat /\ x \in Nat /\ w \in Nat  BY <1>2, <2>1, <2>2
    <3>3. Block(a, r[2]) = a .. a + x - 1 /\ Block(b, s[2]) = b .. b + w - 1  BY <1>2, <2>1, <2>2
    <3>4. a + x <= b \/ b + w <= a  BY <3>1
    <3> HIDE DEF a, b, x, w
    <3>5. (a .. a + x - 1) \intersect (b .. b + w - 1) = {}  BY <3>2, <3>4
    <3>6. Block(a, r[2]) \intersect Block(b, s[2]) = {}  BY <3>3, <3>5
    <3> QED BY <3>6 DEF a, b
  <2>4. CASE z # y
    <3>1. z[2] <= y[1] \/ y[2] <= z[1]  BY <2>4
    <3>2. z[1] .. z[2] - 1 \intersect y[1] .. y[2] - 1 = {}  BY <1>1, <3>1
    <3> QED BY <1>3, <2>1, <2>2, <3>2
  <2> QED BY <2>3, <2>4
<1>7. ASSUME NEW q \in Page PROVE \E r \in Roots : q \in Block(r[1], r[2])
  <2>1. PICK z \in Zones : q \in z[1] .. z[2] - 1  BY DEF Page
  <2>2. PICK r \in Cut(z) : r[1] <= q /\ q < r[1] + 2^r[2]  BY <2>1, CutIs DEF CutFrom
  <2>3. q \in Nat  BY <1>1, <2>1
  <2>4. q \in r[1] .. r[1] + 2^r[2] - 1  BY <1>2, <2>2, <2>3
  <2>5. q \in Block(r[1], r[2])  BY <1>2, <2>4
  <2> QED BY <2>5 DEF Roots
<1> QED BY <1>5, <1>6, <1>7
-----------------------------------------------------------------------------
(* The tree of halves below a root.                                        *)

\* p is the first page of a group of order o with identifier id: the k-th of
\* that order in its root.
Located(p, o, id) ==
    \E r \in Roots : \E k \in Nat :
        /\ o \in 0 .. r[2] /\ k < 2^(r[2] - o)
        /\ p = r[1] + k * 2^o /\ id = 2^(r[2] - o) + k

\* The same with names for the powers: x pages in the group, w groups.
PlacedIn(p, o, id, r, k, c, x, w) ==
    /\ o \in 0 .. r[2] /\ o \in Ord /\ r[2] \in Ord /\ r[2] - o \in Nat
    /\ x = 2^o /\ w = 2^(r[2] - o) /\ w * x = 2^r[2]
    /\ r[1] = c * (w * x) /\ r[1] \in Nat
    /\ k < w /\ p = r[1] + k * x /\ id = w + k

\* A place of the tree has these numbers.
LEMMA LocatedIn ==
    ASSUME NEW p, NEW o, NEW id, Located(p, o, id)
    PROVE  \E r \in Roots : \E k, c \in Nat : \E x, w \in Nat \ {0} : PlacedIn(p, o, id, r, k, c, x, w)
<1> USE OrderAssumption
<1>1. PICK r \in Roots, k \in Nat : /\ o \in 0 .. r[2] /\ k < 2^(r[2] - o)
                                    /\ p = r[1] + k * 2^o /\ id = 2^(r[2] - o) + k
  BY DEF Located
<1>2. r[1] \in Nat /\ r[2] \in Ord /\ \E c \in Nat : r[1] = c * 2^r[2]  BY RootsAre
<1>3. o \in Ord /\ o \in Nat /\ r[2] \in Nat  BY <1>1, <1>2 DEF Ord
<1>4. r[2] - o \in Nat /\ 2^r[2] = 2^(r[2] - o) * 2^o  BY <1>1, <1>3, PowParts
<1>5. 2^o \in Nat \ {0} /\ 2^(r[2] - o) \in Nat \ {0}  BY <1>3, <1>4, PowType
<1>6. PICK c \in Nat : r[1] = c * 2^r[2]  BY <1>2
<1> DEFINE x == 2^o
           w == 2^(r[2] - o)
           a == r[1]
           R == r[2]
<1>7. /\ o \in 0 .. R /\ o \in Ord /\ R \in Ord /\ R - o \in Nat
      /\ x = 2^o /\ w = 2^(R - o) /\ w * x = 2^R /\ x \in Nat \ {0} /\ w \in Nat \ {0}
      /\ a = c * (w * x) /\ a \in Nat
      /\ k < w /\ p = a + k * x /\ id = w + k
  BY <1>1, <1>2, <1>3, <1>4, <1>5, <1>6
<1>8. PlacedIn(p, o, id, r, k, c, x, w)
  <2> HIDE DEF x, w
  <2> QED BY <1>7 DEF PlacedIn
<1> HIDE DEF x, w
<1> QED BY <1>7, <1>8

\* The number of p among the groups of order o, and of its half in the pair.
Aligned(p, o, id) == \E t \in Nat : p = t * 2^o /\ (id # 1 => t % 2 = id % 2)

\* A group lies in the memory of the allocator, aligned to its size; the
\* identifier of one that is not a root tells left from right.
LEMMA NodeShape ==
    ASSUME NEW p, NEW o, NEW id, Located(p, o, id)
    PROVE  /\ o \in Ord /\ p \in Page /\ p \in Nat
           /\ id \in 1 .. 2^(MaxOrd + 1) - 1
           /\ 2^o \in Nat \ {0} /\ Block(p, o) = p .. p + 2^o - 1
           /\ Block(p, o) \subseteq Page
           /\ Aligned(p, o, id)
           /\ id # 1 => o < MaxOrd
<1> USE OrderAssumption
<1>1. PICK r \in Roots, k \in Nat, c \in Nat, x \in Nat \ {0}, w \in Nat \ {0} : PlacedIn(p, o, id, r, k, c, x, w)
  BY LocatedIn
<1>2. /\ o \in 0 .. r[2] /\ o \in Ord /\ r[2] \in Ord /\ r[2] - o \in Nat
      /\ x = 2^o /\ w = 2^(r[2] - o) /\ w * x = 2^r[2]
      /\ r[1] = c * (w * x) /\ r[1] \in Nat
      /\ k < w /\ p = r[1] + k * x /\ id = w + k
  BY <1>1 DEF PlacedIn
<1>3. o \in Nat /\ r[2] \in Nat /\ r[2] <= MaxOrd /\ o <= r[2]  BY <1>2 DEF Ord
<1>4. k * x \in Nat /\ w * x \in Nat /\ k * x + x <= w * x
  <2>1. k \in Int /\ w \in Int /\ k < w /\ x \in Nat  BY <1>2
  <2>2. k * x + x <= w * x  BY <2>1, MulNext
  <2>3. k * x \in Nat /\ w * x \in Nat  BY MulType
  <2> QED BY <2>2, <2>3
<1>5. p \in Nat  BY <1>2, <1>4
<1>6. Block(p, o) = p .. p + 2^o - 1  BY DEF Block
<1>7. Block(p, o) \subseteq Page
  <2>1. Block(r[1], r[2]) \subseteq Page  BY RootsAre
  <2>2. Block(r[1], r[2]) = r[1] .. r[1] + w * x - 1  BY <1>2 DEF Block
  <2>3. p .. p + x - 1 \subseteq r[1] .. r[1] + w * x - 1
    <3> DEFINE a == r[1]
               kx == k * x
               wx == w * x
    <3>1. a \in Nat /\ kx \in Nat /\ wx \in Nat /\ p = a + kx /\ kx + x <= wx  BY <1>2, <1>4
    <3> HIDE DEF a, kx, wx
    <3>2. p .. p + x - 1 \subseteq a .. a + wx - 1  BY <3>1
    <3> QED BY <3>2 DEF a, wx
  <2> QED BY <1>2, <1>6, <2>1, <2>2, <2>3
<1>8. p \in Page
  <2>1. p \in p .. p + x - 1  BY <1>5
  <2> QED BY <1>2, <1>6, <1>7, <2>1
<1>9. id \in 1 .. 2^(MaxOrd + 1) - 1
  <2> DEFINE M == 2^MaxOrd
  <2>1. r[2] - o \in 0 .. MaxOrd  BY <1>2, <1>3
  <2>2. w <= M  BY <1>2, <2>1, PowParts
  <2>3. 2^(MaxOrd + 1) = M + M /\ M \in Nat  BY PowNext, PowType
  <2> HIDE DEF M
  <2>4. id \in 1 .. M + M - 1  BY <1>2, <2>2, <2>3
  <2> QED BY <2>3, <2>4
<1>10. Aligned(p, o, id)
  <2> DEFINE t == c * w + k
  <2>1. t \in Nat /\ p = t * x
    <3>1. c * w \in Nat  BY MulType
    <3>2. (c * w + k) * x = c * (w * x) + k * x  OBVIOUS
    <3> QED BY <1>2, <3>1, <3>2
  <2>2. ASSUME id # 1 PROVE t % 2 = id % 2
    <3>1. o # r[2]
      <4> SUFFICES ASSUME o = r[2] PROVE FALSE  OBVIOUS
      <4>1. r[2] - o = 0  BY <1>3
      <4>2. w = 1  BY <1>2, <4>1, PowZero
      <4> QED BY <1>2, <2>2, <4>2
    <3>2. r[2] - o - 1 \in Nat /\ (r[2] - o - 1) + 1 = r[2] - o  BY <1>3, <3>1
    <3> DEFINE h == 2^(r[2] - o - 1)
    <3>3. h \in Nat /\ 2^((r[2] - o - 1) + 1) = h + h  BY <3>2, PowNext, PowType
    <3>4. w = h + h  BY <1>2, <3>2, <3>3
    <3> HIDE DEF h
    <3>5. (c * h) \in Nat /\ c * (h + h) = 2 * (c * h)  BY <3>3
    <3> DEFINE m == c * h
    <3>6. m \in Nat /\ t = 2 * m + k /\ id = 2 * h + k  BY <1>2, <3>3, <3>4, <3>5
    <3> HIDE DEF m, t
    <3> QED BY <3>3, <3>6
  <2> HIDE DEF t
  <2> QED BY <1>2, <2>1, <2>2 DEF Aligned
<1>11. id # 1 => o < MaxOrd
  <2> SUFFICES ASSUME id # 1, o = MaxOrd PROVE FALSE  BY <1>3
  <2>1. r[2] - o = 0  BY <1>3
  <2>2. w = 1  BY <1>2, <2>1, PowZero
  <2> QED BY <1>2, <2>2
<1> QED BY <1>2, <1>5, <1>6, <1>7, <1>8, <1>9, <1>10, <1>11

\* mm_divPageGrp: the halves are at their places in the tree.
LEMMA NodeHalves ==
    ASSUME NEW p, NEW o, NEW id, Located(p, o, id), o # 0
    PROVE  /\ o - 1 \in Ord /\ 2^o = 2^(o - 1) + 2^(o - 1)
           /\ Located(p, o - 1, 2 * id) /\ Located(p + 2^(o - 1), o - 1, 2 * id + 1)
<1> USE OrderAssumption
<1>1. PICK r \in Roots, k \in Nat : /\ o \in 0 .. r[2] /\ k < 2^(r[2] - o)
                                    /\ p = r[1] + k * 2^o /\ id = 2^(r[2] - o) + k
  BY DEF Located
<1>2. r[1] \in Nat /\ r[2] \in Ord  BY RootsAre
<1>3. o - 1 \in Nat /\ (o - 1) + 1 = o /\ r[2] - o \in Nat /\ o - 1 \in Ord /\ o - 1 \in 0 .. r[2]
      /\ (r[2] - o) + 1 = r[2] - (o - 1)
  BY <1>1, <1>2 DEF Ord
<1> DEFINE x == 2^(o - 1)
           w == 2^(r[2] - o)
<1>4. x \in Nat \ {0} /\ w \in Nat \ {0}  BY <1>3, PowType
<1>5. 2^((o - 1) + 1) = x + x /\ 2^((r[2] - o) + 1) = w + w  BY <1>3, PowNext
<1>6. 2^o = x + x /\ 2^(r[2] - (o - 1)) = w + w  BY <1>3, <1>5
<1> HIDE DEF x, w
<1>7. k < w /\ p = r[1] + k * (x + x) /\ id = w + k  BY <1>1, <1>6 DEF w
<1>8. 2 * k \in Nat /\ 2 * k + 1 \in Nat /\ 2 * k < w + w /\ 2 * k + 1 < w + w  BY <1>4, <1>7
<1>9. 2 * id = (w + w) + 2 * k /\ 2 * id + 1 = (w + w) + (2 * k + 1)  BY <1>4, <1>7
<1>10. p = r[1] + (2 * k) * x /\ p + x = r[1] + (2 * k + 1) * x
  <2>1. k * (x + x) = (2 * k) * x /\ (2 * k + 1) * x = (2 * k) * x + x  BY <1>4
  <2>2. (2 * k) * x \in Nat  BY <1>4
  <2> QED BY <1>2, <1>4, <1>7, <2>1, <2>2
<1>11. Located(p, o - 1, 2 * id)
  BY <1>3, <1>6, <1>8, <1>9, <1>10 DEF Located, x
<1>12. Located(p + x, o - 1, 2 * id + 1)
  BY <1>3, <1>6, <1>8, <1>9, <1>10 DEF Located, x
<1> QED BY <1>3, <1>6, <1>11, <1>12 DEF x

\* The end of mm_freePages' loop: a left half and its buddy are a group of
\* the tree again.
LEMMA NodeParent ==
    ASSUME NEW p, NEW o, NEW id, Located(p, o, id), id # 1, id % 2 = 0
    PROVE  o + 1 \in Ord /\ 2^(o + 1) = 2^o + 2^o /\ Located(p, o + 1, Parent(id))
<1> USE OrderAssumption
<1>1. PICK r \in Roots, k \in Nat : /\ o \in 0 .. r[2] /\ k < 2^(r[2] - o)
                                    /\ p = r[1] + k * 2^o /\ id = 2^(r[2] - o) + k
  BY DEF Located
<1>2. r[1] \in Nat /\ r[2] \in Ord  BY RootsAre
<1>3. o # r[2]
  <2> SUFFICES ASSUME o = r[2] PROVE FALSE  OBVIOUS
  <2>1. r[2] - o = 0  BY <1>1, <1>2 DEF Ord
  <2>2. 2^(r[2] - o) = 1  BY <2>1, PowZero
  <2>3. k < 1 /\ id = 1 + k  BY <1>1, <2>2
  <2> QED BY <2>3
<1>4. o \in Nat /\ o + 1 \in Ord /\ o + 1 \in 0 .. r[2] /\ r[2] - (o + 1) \in Nat
      /\ (r[2] - (o + 1)) + 1 = r[2] - o
  BY <1>1, <1>2, <1>3 DEF Ord
<1> DEFINE x == 2^o
           h == 2^(r[2] - (o + 1))
<1>5. x \in Nat \ {0} /\ h \in Nat \ {0}  BY <1>4, PowType
<1>6. 2^(o + 1) = x + x /\ 2^((r[2] - (o + 1)) + 1) = h + h  BY <1>4, PowNext
<1>7. 2^(r[2] - o) = h + h  BY <1>4, <1>6
<1> HIDE DEF x, h
<1>8. k < h + h /\ p = r[1] + k * x /\ id = h + h + k  BY <1>1, <1>7 DEF x
<1> DEFINE j == k \div 2
<1>9. j \in Nat /\ k = 2 * j /\ j < h /\ id \div 2 = h + j  BY <1>5, <1>8
<1> HIDE DEF j
<1>10. p = r[1] + j * (x + x)
  <2>1. (2 * j) * x = j * (x + x)  BY <1>5, <1>9
  <2> QED BY <1>8, <1>9, <2>1
<1>11. Located(p, o + 1, id \div 2)
  BY <1>4, <1>6, <1>9, <1>10 DEF Located, h
<1> QED BY <1>4, <1>6, <1>11 DEF Parent, x

\* _revBit and _getBit index a bit by the pair; of two groups that are not
\* roots only a left half and the right half next to it have the same.
LEMMA PairOnly ==
    ASSUME NEW p, NEW q, NEW o, NEW i, NEW j, Located(p, o, i), Located(q, o, j),
           i # 1, j # 1, p # q, p \div (2 * 2^o) = q \div (2 * 2^o)
    PROVE  \/ i % 2 = 0 /\ j % 2 = 1 /\ q = p + 2^o
           \/ i % 2 = 1 /\ j % 2 = 0 /\ q = p - 2^o
<1> DEFINE x == 2^o
<1>1. x \in Nat \ {0}  BY NodeShape
<1>2. PICK s \in Nat : p = s * x /\ s % 2 = i % 2
  <2>1. Aligned(p, o, i)  BY NodeShape
  <2> QED BY <2>1 DEF Aligned
<1>3. PICK t \in Nat : q = t * x /\ t % 2 = j % 2
  <2>1. Aligned(q, o, j)  BY NodeShape
  <2> QED BY <2>1 DEF Aligned
<1>4. s \div 2 = t \div 2
  <2>1. p \div (2 * x) = s \div 2  BY <1>1, <1>2, MulHalf
  <2>2. q \div (2 * x) = t \div 2  BY <1>1, <1>3, MulHalf
  <2> QED BY <2>1, <2>2
<1> HIDE DEF x
<1>5. s # t  BY <1>2, <1>3
<1>6. \/ s % 2 = 0 /\ t % 2 = 1 /\ t = s + 1
      \/ s % 2 = 1 /\ t % 2 = 0 /\ t = s - 1
  BY <1>4, <1>5
<1>7. (s + 1) * x = s * x + x /\ (s - 1) * x = s * x - x  BY <1>1
<1>8. CASE s % 2 = 0 /\ t % 2 = 1 /\ t = s + 1  BY <1>2, <1>3, <1>7, <1>8 DEF x
<1>9. CASE s % 2 = 1 /\ t % 2 = 0 /\ t = s - 1  BY <1>2, <1>3, <1>7, <1>9 DEF x
<1> QED BY <1>6, <1>8, <1>9

\* Both halves of a pair have the same place in the bit map.
LEMMA PairSame ==
    ASSUME NEW p, NEW o, NEW i, Located(p, o, i), i # 1, i % 2 = 0
    PROVE  (p + 2^o) \div (2 * 2^o) = p \div (2 * 2^o)
<1> DEFINE x == 2^o
<1>1. x \in Nat \ {0}  BY NodeShape
<1>2. PICK s \in Nat : p = s * x /\ s % 2 = 0
  <2>1. Aligned(p, o, i)  BY NodeShape
  <2> QED BY <2>1 DEF Aligned
<1>3. p \div (2 * x) = s \div 2  BY <1>1, <1>2, MulHalf
<1>4. ((s + 1) * x) \div (2 * x) = (s + 1) \div 2
  <2>1. s + 1 \in Nat  OBVIOUS
  <2> QED BY <1>1, <2>1, MulHalf
<1> HIDE DEF x
<1>5. (s + 1) * x = p + x  BY <1>1, <1>2
<1>6. (s + 1) \div 2 = s \div 2  BY <1>2
<1> QED BY <1>3, <1>4, <1>5, <1>6 DEF x
\* A group is inside of its root.
LEMMA PlacedInside ==
    ASSUME NEW p, NEW o, NEW id, NEW r \in Roots, NEW k \in Nat, NEW c \in Nat,
           NEW x \in Nat \ {0}, NEW w \in Nat \ {0}, PlacedIn(p, o, id, r, k, c, x, w)
    PROVE  Block(p, o) \subseteq Block(r[1], r[2]) /\ p \in Block(p, o)
<1> DEFINE a == r[1]
           kx == k * x
           wx == w * x
<1>1. x = 2^o /\ wx = 2^r[2] /\ a \in Nat /\ k < w /\ p = a + kx  BY DEF PlacedIn
<1>2. kx + x <= wx /\ kx \in Nat /\ wx \in Nat
  <2>1. k \in Int /\ w \in Int /\ k < w /\ x \in Nat  BY <1>1
  <2>2. k * x + x <= w * x  BY <2>1, MulNext
  <2> QED BY <2>2, MulType
<1>3. Block(p, o) = p .. p + x - 1 /\ Block(r[1], r[2]) = a .. a + wx - 1  BY <1>1 DEF Block
<1> HIDE DEF a, kx, wx
<1>4. p .. p + x - 1 \subseteq a .. a + wx - 1 /\ p \in p .. p + x - 1  BY <1>1, <1>2
<1> QED BY <1>3, <1>4

\* The identifier of a group follows from its first page and its order.
LEMMA NodeOne ==
    ASSUME NEW p, NEW o, NEW i, NEW j, Located(p, o, i), Located(p, o, j)
    PROVE  i = j
<1>1. PICK r \in Roots, k \in Nat, c \in Nat, x \in Nat \ {0}, w \in Nat \ {0} : PlacedIn(p, o, i, r, k, c, x, w)
  BY LocatedIn
<1>2. PICK s \in Roots, l \in Nat, d \in Nat, y \in Nat \ {0}, v \in Nat \ {0} : PlacedIn(p, o, j, s, l, d, y, v)
  BY LocatedIn
<1>3. p \in Block(r[1], r[2]) /\ p \in Block(s[1], s[2])
  <2>1. p \in Block(r[1], r[2])  BY <1>1, PlacedInside
  <2>2. p \in Block(s[1], s[2])  BY <1>2, PlacedInside
  <2> QED BY <2>1, <2>2
<1>4. r = s  BY <1>3, RootsAre
<1>5. x = y /\ w = v /\ p = r[1] + k * x /\ p = r[1] + l * x /\ r[1] \in Nat /\ i = w + k /\ j = w + l
  BY <1>1, <1>2, <1>4 DEF PlacedIn
<1>6. k * x = l * x
  <2> DEFINE kx == k * x
             lx == l * x
             a == r[1]
  <2>1. kx \in Nat /\ lx \in Nat /\ a \in Nat /\ p = a + kx /\ p = a + lx  BY <1>5, MulType
  <2> HIDE DEF kx, lx, a
  <2>2. kx = lx  BY <2>1
  <2> QED BY <2>2 DEF kx, lx
<1>7. k = l
  <2> DEFINE kx == k * x
             lx == l * x
  <2>1. kx \in Nat /\ lx \in Nat /\ kx = lx  BY <1>6, MulType
  <2>2. k \in Int /\ l \in Int /\ x \in Nat  OBVIOUS
  <2>3. k < l => kx + x <= lx  BY <2>2, MulNext
  <2>4. l < k => lx + x <= kx  BY <2>2, MulNext
  <2> HIDE DEF kx, lx
  <2> QED BY <2>1, <2>3, <2>4
<1> QED BY <1>5, <1>7

\* The buddy of a group that is no root is at its place in the tree too.
BuddyPage(p, o, i) == IF i % 2 = 1 THEN p - 2^o ELSE p + 2^o
BuddyId(i) == IF i % 2 = 1 THEN i - 1 ELSE i + 1

\* The buddy of a half is the other half of its pair, and the buddy of that is it.
LEMMA NodeBuddy ==
    ASSUME NEW p, NEW o, NEW i, Located(p, o, i), i # 1
    PROVE  /\ Located(BuddyPage(p, o, i), o, BuddyId(i)) /\ BuddyId(i) # 1
           /\ BuddyPage(p, o, i) # p
           /\ BuddyPage(BuddyPage(p, o, i), o, BuddyId(i)) = p
           /\ BuddyPage(p, o, i) \div (2 * 2^o) = p \div (2 * 2^o)
<1>1. PICK r \in Roots, k \in Nat : /\ o \in 0 .. r[2] /\ k < 2^(r[2] - o)
                                    /\ p = r[1] + k * 2^o /\ i = 2^(r[2] - o) + k
  BY DEF Located
<1>2. r[1] \in Nat /\ r[2] \in Ord /\ r[2] \in Nat  BY RootsAre, OrderAssumption DEF Ord
<1>3. o # r[2]
  <2> SUFFICES ASSUME o = r[2] PROVE FALSE  OBVIOUS
  <2>1. r[2] - o = 0  BY <1>1, <1>2
  <2>2. 2^(r[2] - o) = 1  BY <2>1, PowZero
  <2>3. k < 1 /\ i = 1 + k  BY <1>1, <2>2
  <2> QED BY <2>3
<1>4. o \in Nat /\ r[2] - (o + 1) \in Nat /\ (r[2] - (o + 1)) + 1 = r[2] - o
  <2> DEFINE R == r[2]
  <2>1. R \in Nat /\ o \in 0 .. R /\ o # R  BY <1>1, <1>2, <1>3
  <2> HIDE DEF R
  <2>2. o \in Nat /\ R - (o + 1) \in Nat /\ (R - (o + 1)) + 1 = R - o  BY <2>1
  <2> QED BY <2>2 DEF R
<1> DEFINE x == 2^o
           h == 2^(r[2] - (o + 1))
<1>5. x \in Nat \ {0} /\ h \in Nat \ {0}  BY <1>4, PowType
<1>6. 2^((r[2] - (o + 1)) + 1) = h + h  BY <1>4, PowNext
<1>7. 2^(r[2] - o) = h + h  BY <1>4, <1>6
<1> HIDE DEF x, h
<1>8. k < h + h /\ p = r[1] + k * x /\ i = h + h + k /\ p \in Nat  BY <1>1, <1>2, <1>5, <1>7, MulType DEF x
<1> DEFINE l == IF i % 2 = 1 THEN k - 1 ELSE k + 1
<1>9. l \in Nat /\ l < h + h /\ BuddyId(i) = h + h + l /\ BuddyId(i) # 1
  BY <1>5, <1>8 DEF BuddyId
<1>10. BuddyPage(p, o, i) = r[1] + l * x
  <2>1. (k + 1) * x = k * x + x /\ (k - 1) * x = k * x - x  BY <1>5
  <2>2. k * x \in Nat  BY <1>5, MulType
  <2>3. BuddyPage(p, o, i) = IF i % 2 = 1 THEN p - x ELSE p + x  BY DEF BuddyPage, x
  <2> QED BY <1>2, <1>5, <1>8, <2>1, <2>2, <2>3
<1>11. Located(BuddyPage(p, o, i), o, BuddyId(i))
  BY <1>1, <1>7, <1>9, <1>10 DEF Located, x
<1>12. /\ BuddyPage(p, o, i) # p
       /\ BuddyPage(BuddyPage(p, o, i), o, BuddyId(i)) = p
  BY <1>5, <1>8 DEF BuddyPage, BuddyId, x
<1>13. BuddyPage(p, o, i) \div (2 * 2^o) = p \div (2 * 2^o)
  <2>1. CASE i % 2 = 0
    <3>1. (p + 2^o) \div (2 * 2^o) = p \div (2 * 2^o)  BY <2>1, PairSame
    <3> QED BY <2>1, <3>1 DEF BuddyPage
  <2>2. CASE i % 2 = 1
    <3> DEFINE q == BuddyPage(p, o, i)
               j == BuddyId(i)
    <3>1. j % 2 = 0 /\ j # 1  BY <1>5, <1>8, <2>2 DEF BuddyId
    <3>2. q + 2^o = p  BY <1>5, <1>8, <2>2 DEF BuddyPage, x
    <3>3. Located(q, o, j)  BY <1>11
    <3> HIDE DEF q, j
    <3>4. (q + 2^o) \div (2 * 2^o) = q \div (2 * 2^o)  BY <3>1, <3>3, PairSame
    <3> QED BY <3>2, <3>4 DEF q
  <2> QED BY <1>5, <1>8, <2>1, <2>2
<1> QED BY <1>9, <1>11, <1>12, <1>13

\* Two groups that share a page: the smaller one is inside of the other.
LEMMA Dyadic ==
    ASSUME NEW o \in Nat, NEW u \in Nat, o <= u, NEW s \in Nat, NEW t \in Nat,
           NEW p, NEW q, p = s * 2^o, q = t * 2^u,
           Block(p, o) \intersect Block(q, u) # {}
    PROVE  Block(p, o) \subseteq Block(q, u)
<1> DEFINE x == 2^o
           y == 2^(u - o)
<1>1. u - o \in Nat /\ 2^u = y * x
  <2>1. o \in 0 .. u  OBVIOUS
  <2> QED BY <2>1, PowParts
<1>2. x \in Nat \ {0} /\ y \in Nat \ {0}  BY <1>1, PowType
<1> DEFINE ty == t * y
           sx == s * x
           tyx == ty * x
           yx == y * x
<1>3. ty \in Nat /\ sx \in Nat /\ tyx \in Nat /\ yx \in Nat  BY <1>2, MulType
<1>4. p = sx /\ q = tyx /\ Block(p, o) = sx .. sx + x - 1 /\ Block(q, u) = tyx .. tyx + yx - 1
  <2>1. t * (y * x) = (t * y) * x  BY <1>2
  <2>2. p = sx /\ q = tyx  BY <1>1, <2>1
  <2> QED BY <1>1, <2>2 DEF Block
<1>5. (ty + y) * x = tyx + yx /\ (s + 1) * x = sx + x  BY <1>2, <1>3
<1>6. PICK b \in sx .. sx + x - 1 : b \in tyx .. tyx + yx - 1
  <2> HIDE DEF sx, x, tyx, yx
  <2> QED BY <1>4
<1>7. s >= ty
  <2>1. sx > tyx - x
    <3> HIDE DEF sx, x, tyx, yx
    <3> QED BY <1>2, <1>3, <1>6
  <2>2. s \in Int /\ ty \in Int  BY <1>3
  <2> HIDE DEF x, ty
  <2> QED BY <1>2, <2>1, <2>2, MulPast
<1>8. ty + y >= s + 1
  <2>1. (ty + y) * x > (s + 1) * x - x
    <3> HIDE DEF sx, x, tyx, yx, ty, y
    <3> QED BY <1>2, <1>3, <1>5, <1>6
  <2>2. s + 1 \in Int /\ ty + y \in Int  BY <1>2, <1>3
  <2> HIDE DEF x, ty, y
  <2> QED BY <1>2, <2>1, <2>2, MulPast
<1>9. sx >= tyx
  <2>1. ty \in Int /\ s \in Int /\ x \in Nat  BY <1>2, <1>3
  <2>2. ty < s => ty * x <= s * x
    <3> HIDE DEF ty, x
    <3> QED BY <2>1, MulNext
  <2>3. ty = s => ty * x = s * x  OBVIOUS
  <2> HIDE DEF ty, x
  <2> QED BY <1>3, <1>7, <2>1, <2>2, <2>3
<1>10. sx + x <= tyx + yx
  <2>1. s + 1 \in Int /\ ty + y \in Int /\ x \in Nat  BY <1>2, <1>3
  <2>2. s + 1 < ty + y => (s + 1) * x <= (ty + y) * x
    <3> HIDE DEF ty, x, y
    <3> QED BY <2>1, MulNext
  <2>3. s + 1 = ty + y => (s + 1) * x = (ty + y) * x  OBVIOUS
  <2>4. (s + 1) * x <= (ty + y) * x
    <3>1. s + 1 < ty + y \/ s + 1 = ty + y
      <4> HIDE DEF ty, y
      <4> QED BY <1>8, <2>1
    <3>2. (ty + y) * x \in Int /\ (s + 1) * x \in Int  BY <1>2, <1>3, <1>5
    <3> HIDE DEF ty, x, y
    <3> QED BY <2>2, <2>3, <3>1, <3>2
  <2> HIDE DEF ty, x, y, sx, tyx, yx
  <2> QED BY <1>5, <2>4
<1> HIDE DEF ty, x, y, sx, tyx, yx
<1>11. sx .. sx + x - 1 \subseteq tyx .. tyx + yx - 1  BY <1>2, <1>3, <1>9, <1>10
<1> QED BY <1>4, <1>11
-----------------------------------------------------------------------------
(* The allocator's state m when the groups H are taken.                    *)

\* The types of Mem; usage can only be shown not to be negative later.
MemType == [page : [Page -> Desc], bit : SUBSET ((1 .. MaxOrd) \X Nat),
            free : [Ord -> Seq(Page)], usage : Int]

\* The free groups, and the pages of a group.
FreeOf(m) == UNION {ToSet(m.free[o]) : o \in Ord}
Cell(pg, p) == Block(p, pg[p].ord)

\* The groups G are at their places in the tree and divide the pages up.
Nodes(pg, G) ==
    /\ G \subseteq Page
    /\ \A p \in G : Located(p, pg[p].ord, pg[p].buddyId)
    /\ \A p, q \in G : p # q => Cell(pg, p) \intersect Cell(pg, q) = {}
    /\ \A a \in Page : \E p \in G : a \in Cell(pg, p)

\* A list has no group twice, and those of its order only.
Lists(pg, fr) == \A o \in Ord : IsInjective(fr[o]) /\ \A p \in ToSet(fr[o]) : pg[p].ord = o

\* The pairs whose bit is set are those of the free groups, and no two free
\* groups are halves of one pair.
Half(m) == {p \in FreeOf(m) : ~IsRoot(m, p)}
Bits(m) ==
    /\ m.bit = {Pair(m, p) : p \in Half(m)}
    /\ \A p, q \in Half(m) : Pair(m, p) = Pair(m, q) => p = q

\* The groups, free or in H, divide the memory up.
MemOK(m, H) ==
    /\ m \in MemType
    /\ H \intersect FreeOf(m) = {}
    /\ Nodes(m.page, FreeOf(m) \union H)
    /\ Lists(m.page, m.free)
    /\ Bits(m)
\* What is known of one of the groups.
LEMMA CellShape ==
    ASSUME NEW pg, NEW G, Nodes(pg, G), NEW p \in G
    PROVE  /\ pg[p].ord \in Ord /\ pg[p].ord \in Nat /\ p \in Page /\ p \in Nat
           /\ pg[p].buddyId \in 1 .. 2^(MaxOrd + 1) - 1
           /\ 2^pg[p].ord \in Nat \ {0}
           /\ Cell(pg, p) = p .. p + 2^pg[p].ord - 1 /\ Cell(pg, p) \subseteq Page
           /\ p \in Cell(pg, p)
           /\ Aligned(p, pg[p].ord, pg[p].buddyId)
           /\ pg[p].buddyId # 1 => pg[p].ord < MaxOrd
<1> DEFINE o == pg[p].ord
           i == pg[p].buddyId
<1>1. Located(p, o, i)  BY DEF Nodes
<1> HIDE DEF o, i
<1>2. /\ o \in Ord /\ p \in Page /\ p \in Nat
      /\ i \in 1 .. 2^(MaxOrd + 1) - 1
      /\ 2^o \in Nat \ {0} /\ Block(p, o) = p .. p + 2^o - 1
      /\ Block(p, o) \subseteq Page
      /\ Aligned(p, o, i)
      /\ i # 1 => o < MaxOrd
  BY <1>1, NodeShape
<1>3. o \in Nat  BY <1>2, OrderAssumption DEF Ord
<1>4. p \in p .. p + 2^o - 1  BY <1>2
<1> QED BY <1>2, <1>3, <1>4 DEF Cell, o, i

\* A change of descriptors that leaves the free groups as they are.
LEMMA PageStep ==
    ASSUME NEW m, NEW H, MemOK(m, H), NEW n \in MemType, NEW K,
           n.free = m.free, n.bit = m.bit,
           \A q \in FreeOf(m) : n.page[q].ord = m.page[q].ord /\ n.page[q].buddyId = m.page[q].buddyId,
           K \intersect FreeOf(m) = {}, Nodes(n.page, FreeOf(m) \union K)
    PROVE  MemOK(n, K) /\ FreeOf(n) = FreeOf(m)
<1>1. FreeOf(n) = FreeOf(m)  BY DEF FreeOf
<1>2. \A q \in FreeOf(m) : Pair(n, q) = Pair(m, q) /\ (IsRoot(n, q) <=> IsRoot(m, q))
  BY DEF Pair, Size, IsRoot
<1>3. Half(n) = Half(m) /\ Half(m) \subseteq FreeOf(m)  BY <1>1, <1>2 DEF Half
<1>4. Bits(n)
  <2>1. Bits(m)  BY DEF MemOK
  <2>2. {Pair(n, p) : p \in Half(n)} = {Pair(m, p) : p \in Half(m)}  BY <1>2, <1>3
  <2>3. \A p, q \in Half(n) : Pair(n, p) = Pair(n, q) => p = q  BY <1>2, <1>3, <2>1 DEF Bits
  <2> QED BY <2>1, <2>2, <2>3 DEF Bits
<1>5. Lists(n.page, n.free)
  <2>1. Lists(m.page, m.free)  BY DEF MemOK
  <2> QED BY <2>1 DEF Lists, FreeOf
<1> QED BY <1>1, <1>4, <1>5 DEF MemOK

\* A free group lies in the list of its order only.
LEMMA FreeWhere ==
    ASSUME NEW m, NEW H, MemOK(m, H)
    PROVE  \A o \in Ord, p \in FreeOf(m) : p \in ToSet(m.free[o]) <=> m.page[p].ord = o
BY DEF MemOK, Lists, FreeOf

\* A free group p becomes a taken one: its bit is cleared.
Removed(m, n, o, p, l) ==
    /\ o \in Ord /\ p \in ToSet(m.free[o])
    /\ n \in MemType /\ l \in Seq(Page) /\ IsInjective(l)
    /\ ToSet(l) = ToSet(m.free[o]) \ {p} /\ n.page = m.page
    /\ n.free = [m.free EXCEPT ![o] = l]
    /\ n.bit = IF IsRoot(m, p) THEN m.bit ELSE m.bit \ {Pair(m, p)}

\* A free group that is unlinked, and its bit reversed, is a taken one.
LEMMA RemoveMem ==
    ASSUME NEW m, NEW H, MemOK(m, H), NEW n, NEW o, NEW p, NEW l, Removed(m, n, o, p, l)
    PROVE  MemOK(n, H \union {p}) /\ FreeOf(n) = FreeOf(m) \ {p}
<1>a. /\ o \in Ord /\ p \in ToSet(m.free[o])
      /\ n \in MemType /\ l \in Seq(Page) /\ IsInjective(l)
      /\ ToSet(l) = ToSet(m.free[o]) \ {p} /\ n.page = m.page
      /\ n.free = [m.free EXCEPT ![o] = l]
      /\ n.bit = IF IsRoot(m, p) THEN m.bit ELSE m.bit \ {Pair(m, p)}
  BY DEF Removed
<1>0. /\ m \in MemType /\ H \intersect FreeOf(m) = {} /\ Nodes(m.page, FreeOf(m) \union H)
      /\ Lists(m.page, m.free) /\ Bits(m)
  BY <1>a DEF MemOK
<1>1. m.free \in [Ord -> Seq(Page)]  BY <1>a, <1>0 DEF MemType
<1>2. \A u \in Ord : n.free[u] = IF u = o THEN l ELSE m.free[u]  BY <1>a, <1>1
<1>3. p \in FreeOf(m)  BY <1>a DEF FreeOf
<1>4. FreeOf(n) = FreeOf(m) \ {p}
  <2>1. \A u \in Ord : ToSet(n.free[u]) = ToSet(m.free[u]) \ {p}
    <3> TAKE u \in Ord
    <3>1. CASE u = o  BY <1>a, <1>2, <3>1
    <3>2. CASE u # o
      <4>1. p \notin ToSet(m.free[u])  BY <1>a, <1>3, <3>2, FreeWhere
      <4> QED BY <1>a, <1>2, <3>2, <4>1
    <3> QED BY <3>1, <3>2
  <2>2. \A q : q \in FreeOf(n) <=> \E u \in Ord : q \in ToSet(n.free[u])  BY <1>a DEF FreeOf
  <2>3. \A q : q \in FreeOf(m) <=> \E u \in Ord : q \in ToSet(m.free[u])  BY <1>a DEF FreeOf
  <2> QED BY <2>1, <2>2, <2>3
<1>5. \A q : Pair(n, q) = Pair(m, q) /\ (IsRoot(n, q) <=> IsRoot(m, q))  BY <1>a DEF Pair, Size, IsRoot
<1>6. Half(n) = Half(m) \ {p}  BY <1>a, <1>4, <1>5 DEF Half
<1>7. Bits(n)
  <2>1. \A q, t \in Half(n) : Pair(n, q) = Pair(n, t) => q = t  BY <1>a, <1>0, <1>5, <1>6 DEF Bits
  <2>2. CASE IsRoot(m, p)
    <3>1. Half(n) = Half(m)  BY <1>a, <1>6, <2>2 DEF Half
    <3>2. n.bit = {Pair(n, q) : q \in Half(n)}  BY <1>a, <1>0, <1>5, <2>2, <3>1 DEF Bits
    <3> QED BY <1>a, <2>1, <3>2 DEF Bits
  <2>3. CASE ~IsRoot(m, p)
    <3>1. p \in Half(m)  BY <1>a, <1>3, <2>3 DEF Half
    <3>2. \A q \in Half(m) : Pair(m, q) = Pair(m, p) => q = p  BY <1>a, <1>0, <3>1 DEF Bits
    <3>3. n.bit = {Pair(m, q) : q \in Half(m)} \ {Pair(m, p)}  BY <1>a, <1>0, <2>3 DEF Bits
    <3>4. n.bit = {Pair(m, q) : q \in Half(m) \ {p}}  BY <1>a, <3>2, <3>3
    <3>5. n.bit = {Pair(n, q) : q \in Half(n)}  BY <1>a, <1>5, <1>6, <3>4
    <3> QED BY <1>a, <2>1, <3>5 DEF Bits
  <2> QED BY <1>a, <2>2, <2>3
<1>8. Lists(n.page, n.free)
  <2>1. ASSUME NEW u \in Ord PROVE IsInjective(n.free[u]) /\ \A q \in ToSet(n.free[u]) : n.page[q].ord = u
    <3>1. IsInjective(m.free[u]) /\ \A q \in ToSet(m.free[u]) : m.page[q].ord = u  BY <1>a, <1>0 DEF Lists
    <3>2. CASE u = o  BY <1>a, <1>2, <3>1, <3>2
    <3>3. CASE u # o  BY <1>a, <1>2, <3>1, <3>3
    <3> QED BY <1>a, <3>2, <3>3
  <2> QED BY <1>a, <2>1 DEF Lists
<1>9. (H \union {p}) \intersect FreeOf(n) = {}  BY <1>a, <1>0, <1>4
<1>10. FreeOf(n) \union (H \union {p}) = FreeOf(m) \union H  BY <1>a, <1>3, <1>4
<1>11. Nodes(n.page, FreeOf(n) \union (H \union {p}))  BY <1>a, <1>0, <1>10
<1> QED BY <1>a, <1>4, <1>7, <1>8, <1>9, <1>11 DEF MemOK

\* A taken group p becomes a free one: its bit is set.
LEMMA AddMem ==
    ASSUME NEW m, NEW H, MemOK(m, H), NEW p \in H, NEW o \in Ord, o = m.page[p].ord,
           NEW n \in MemType, NEW l \in Seq(Page), IsInjective(l),
           ToSet(l) = ToSet(m.free[o]) \union {p}, n.page = m.page,
           n.free = [m.free EXCEPT ![o] = l],
           n.bit = IF IsRoot(m, p) THEN m.bit ELSE m.bit \union {Pair(m, p)},
           ~IsRoot(m, p) => Pair(m, p) \notin m.bit
    PROVE  MemOK(n, H \ {p}) /\ FreeOf(n) = FreeOf(m) \union {p}
<1>0. /\ m \in MemType /\ H \intersect FreeOf(m) = {} /\ Nodes(m.page, FreeOf(m) \union H)
      /\ Lists(m.page, m.free) /\ Bits(m)
  BY DEF MemOK
<1>1. m.free \in [Ord -> Seq(Page)]  BY <1>0 DEF MemType
<1>2. \A u \in Ord : n.free[u] = IF u = o THEN l ELSE m.free[u]  BY <1>1
<1>3. p \notin FreeOf(m)  BY <1>0
<1>4. FreeOf(n) = FreeOf(m) \union {p}
  <2>1. \A u \in Ord : ToSet(n.free[u]) = IF u = o THEN ToSet(m.free[u]) \union {p} ELSE ToSet(m.free[u])
    BY <1>2
  <2>2. \A q : q \in FreeOf(n) <=> \E u \in Ord : q \in ToSet(n.free[u])  BY DEF FreeOf
  <2>3. \A q : q \in FreeOf(m) <=> \E u \in Ord : q \in ToSet(m.free[u])  BY DEF FreeOf
  <2>4. p \in FreeOf(n)  BY <2>1, <2>2
  <2>5. \A q : q # p => (q \in FreeOf(n) <=> q \in FreeOf(m))  BY <2>1, <2>2, <2>3
  <2> QED BY <2>4, <2>5
<1>5. \A q : Pair(n, q) = Pair(m, q) /\ (IsRoot(n, q) <=> IsRoot(m, q))  BY DEF Pair, Size, IsRoot
<1>7. Bits(n)
  <2>2. CASE IsRoot(m, p)
    <3>1. Half(n) = Half(m)  BY <1>4, <1>5, <2>2 DEF Half
    <3>2. n.bit = {Pair(n, q) : q \in Half(n)}  BY <1>0, <1>5, <2>2, <3>1 DEF Bits
    <3>3. \A q, t \in Half(n) : Pair(n, q) = Pair(n, t) => q = t  BY <1>0, <1>5, <3>1 DEF Bits
    <3> QED BY <3>2, <3>3 DEF Bits
  <2>3. CASE ~IsRoot(m, p)
    <3>1. Half(n) = Half(m) \union {p}  BY <1>4, <1>5, <2>3 DEF Half
    <3>2. Pair(m, p) \notin {Pair(m, q) : q \in Half(m)}  BY <1>0, <2>3 DEF Bits
    <3>3. \A q \in Half(m) : Pair(m, q) # Pair(m, p)  BY <3>2
    <3>4. \A q, t \in Half(n) : Pair(n, q) = Pair(n, t) => q = t  BY <1>0, <1>5, <3>1, <3>3 DEF Bits
    <3>5. n.bit = {Pair(m, q) : q \in Half(m)} \union {Pair(m, p)}  BY <1>0, <2>3 DEF Bits
    <3>6. n.bit = {Pair(m, q) : q \in Half(n)}  BY <3>1, <3>5
    <3>7. n.bit = {Pair(n, q) : q \in Half(n)}  BY <1>5, <3>6
    <3> QED BY <3>4, <3>7 DEF Bits
  <2> QED BY <2>2, <2>3
<1>8. Lists(n.page, n.free)
  <2>1. ASSUME NEW u \in Ord PROVE IsInjective(n.free[u]) /\ \A q \in ToSet(n.free[u]) : n.page[q].ord = u
    <3>1. IsInjective(m.free[u]) /\ \A q \in ToSet(m.free[u]) : m.page[q].ord = u  BY <1>0 DEF Lists
    <3>2. CASE u = o  BY <1>2, <3>1, <3>2
    <3>3. CASE u # o  BY <1>2, <3>1, <3>3
    <3> QED BY <3>2, <3>3
  <2> QED BY <2>1 DEF Lists
<1>9. (H \ {p}) \intersect FreeOf(n) = {}  BY <1>0, <1>4
<1>10. FreeOf(n) \union (H \ {p}) = FreeOf(m) \union H  BY <1>4
<1>11. Nodes(n.page, FreeOf(n) \union (H \ {p}))  BY <1>0, <1>10
<1> QED BY <1>4, <1>7, <1>8, <1>9, <1>11 DEF MemOK

\* mm_divPageGrp on a group that is larger than a page: of pg it makes n, the
\* new group is r.
Divided(pg, G, p, n, r) ==
    /\ r \in Page /\ r \notin G /\ r # p
    /\ n \in [Page -> Desc]
    /\ \A q \in Page : q # p /\ q # r => n[q] = pg[q]
    /\ n[p].ord = pg[p].ord - 1 /\ n[p].buddyId = 2 * pg[p].buddyId
    /\ n[r].ord = pg[p].ord - 1 /\ n[r].buddyId = 2 * pg[p].buddyId + 1
    /\ r = p + 2^(pg[p].ord - 1)
    /\ Cell(pg, p) = Cell(n, p) \union Cell(n, r) /\ Cell(n, p) \intersect Cell(n, r) = {}
    /\ Nodes(n, G \union {r})

\* Cut in two, a group is still divided up.
LEMMA DivNodes ==
    ASSUME NEW pg, NEW G, NEW p, pg \in [Page -> Desc], Nodes(pg, G), p \in G, pg[p].ord # 0
    PROVE  Divided(pg, G, p, DivPageGrp(pg, p), Right(pg, p))
<1> DEFINE n == DivPageGrp(pg, p)
           r == Right(pg, p)
<1>a. n = DivPageGrp(pg, p) /\ r = Right(pg, p)  OBVIOUS
<1> HIDE DEF n, r
<1> DEFINE o == pg[p].ord
           i == pg[p].buddyId
           x == 2^(o - 1)
<1>1. Located(p, o, i) /\ G \subseteq Page  BY DEF Nodes
<1>2. p \in Page /\ p \in Nat /\ o \in Ord /\ Cell(pg, p) = p .. p + 2^o - 1 /\ Cell(pg, p) \subseteq Page
  BY CellShape
<1>3. o - 1 \in Ord /\ 2^o = x + x /\ Located(p, o - 1, 2 * i) /\ Located(p + x, o - 1, 2 * i + 1)
  <2> HIDE DEF o, i
  <2> QED BY <1>1, NodeHalves DEF o
<1>4. r = p + x  BY <1>a DEF Right
<1>5. x \in Nat \ {0} /\ Block(p, o - 1) = p .. p + x - 1
  <2> HIDE DEF o, i
  <2> QED BY <1>3, NodeShape
<1>6. r \in Page /\ Block(r, o - 1) = r .. r + x - 1
  <2> HIDE DEF o, i
  <2> QED BY <1>3, <1>4, NodeShape
<1>7. 2 * i \in 0 .. 2^(MaxOrd + 1) - 1 /\ 2 * i + 1 \in 0 .. 2^(MaxOrd + 1) - 1
  <2>1. 2 * i \in 1 .. 2^(MaxOrd + 1) - 1
    <3> HIDE DEF o, i
    <3> QED BY <1>3, NodeShape
  <2>2. 2 * i + 1 \in 1 .. 2^(MaxOrd + 1) - 1
    <3> HIDE DEF o, i
    <3> QED BY <1>3, NodeShape
  <2> HIDE DEF i
  <2> QED BY <2>1, <2>2
<1>8. r # p  BY <1>2, <1>4, <1>5
<1>9. /\ n \in [Page -> Desc]
      /\ \A q \in Page : q # p /\ q # r => n[q] = pg[q]
      /\ n[p].ord = o - 1 /\ n[p].buddyId = 2 * i
      /\ n[r].ord = o - 1 /\ n[r].buddyId = 2 * i + 1
  <2>1. pg[p] \in Desc /\ p \in Page /\ r \in Page  BY <1>2, <1>6
  <2> DEFINE d == [pg[p] EXCEPT !.ord = @ - 1, !.buddyId = 2 * @]
             e == [pg[p] EXCEPT !.ord = @ - 1, !.buddyId = 2 * @ + 1]
  <2>2. d \in Desc /\ d.ord = o - 1 /\ d.buddyId = 2 * i  BY <1>3, <1>7, <2>1 DEF Desc
  <2>3. e \in Desc /\ e.ord = o - 1 /\ e.buddyId = 2 * i + 1  BY <1>3, <1>7, <2>1 DEF Desc
  <2>4. n = [q \in Page |-> IF q = r THEN e ELSE IF q = p THEN d ELSE pg[q]]
    BY <1>8, <1>a, <2>1 DEF DivPageGrp
  <2> HIDE DEF d, e
  <2> QED BY <1>8, <2>1, <2>2, <2>3, <2>4
<1>10. Cell(n, p) = p .. p + x - 1 /\ Cell(n, r) = p + x .. p + x + x - 1
       /\ Cell(pg, p) = p .. p + (x + x) - 1
  <2>1. Cell(n, p) = Block(p, o - 1) /\ Cell(n, r) = Block(r, o - 1)  BY <1>9 DEF Cell
  <2>2. r + x - 1 = p + x + x - 1  BY <1>2, <1>4, <1>5
  <2> QED BY <1>2, <1>3, <1>4, <1>5, <1>6, <2>1, <2>2
<1>11. Cell(pg, p) = Cell(n, p) \union Cell(n, r) /\ Cell(n, p) \intersect Cell(n, r) = {}
  <2> HIDE DEF x
  <2>1. p .. p + (x + x) - 1 = (p .. p + x - 1) \union (p + x .. p + x + x - 1)  BY <1>2, <1>5
  <2>2. (p .. p + x - 1) \intersect (p + x .. p + x + x - 1) = {}  BY <1>2, <1>5
  <2> QED BY <1>10, <2>1, <2>2
<1>12. r \in Cell(n, r)
  <2> HIDE DEF x
  <2>1. p + x \in p + x .. p + x + x - 1  BY <1>2, <1>5
  <2> QED BY <1>4, <1>10, <2>1
<1>13. r \notin G
  <2> SUFFICES ASSUME r \in G PROVE FALSE  OBVIOUS
  <2>1. r \in Cell(pg, r)  BY CellShape
  <2>2. r \in Cell(pg, p)  BY <1>11, <1>12
  <2> QED BY <1>8, <2>1, <2>2 DEF Nodes
<1>14. \A q \in G : q # p => Cell(n, q) = Cell(pg, q)
  BY <1>1, <1>9, <1>13 DEF Cell
<1>15. Nodes(n, G \union {r})
  <2>1. G \union {r} \subseteq Page  BY <1>1, <1>6
  <2>2. \A q \in G \union {r} : Located(q, n[q].ord, n[q].buddyId)
    <3>1. \A q \in G : q # p => Located(q, n[q].ord, n[q].buddyId)
      <4>1. \A q \in G : q # p => n[q] = pg[q]  BY <1>1, <1>9, <1>13
      <4> QED BY <4>1 DEF Nodes
    <3>2. Located(p, n[p].ord, n[p].buddyId)  BY <1>3, <1>9
    <3>3. Located(r, n[r].ord, n[r].buddyId)  BY <1>3, <1>4, <1>9
    <3> QED BY <3>1, <3>2, <3>3
  <2>3. \A q, t \in G \union {r} : q # t => Cell(n, q) \intersect Cell(n, t) = {}
    <3>1. \A q, t \in G : q # t => Cell(pg, q) \intersect Cell(pg, t) = {}  BY DEF Nodes
    <3>2. \A q \in G : q # p => Cell(n, q) \intersect Cell(n, p) = {} /\ Cell(n, q) \intersect Cell(n, r) = {}
      BY <1>11, <1>14, <3>1
    <3> QED BY <1>11, <1>14, <3>1, <3>2
  <2>4. \A a \in Page : \E q \in G \union {r} : a \in Cell(n, q)
    <3> TAKE a \in Page
    <3>1. PICK q \in G : a \in Cell(pg, q)  BY DEF Nodes
    <3>2. CASE q = p  BY <1>11, <3>1, <3>2
    <3>3. CASE q # p  BY <1>14, <3>1, <3>3
    <3> QED BY <3>2, <3>3
  <2> QED BY <2>1, <2>2, <2>3, <2>4 DEF Nodes
<1> QED BY <1>4, <1>6, <1>8, <1>9, <1>11, <1>13, <1>15 DEF Divided, n, r
\* The bit of a group that is no root is in the bit map.
LEMMA PairType ==
    ASSUME NEW m, NEW G, Nodes(m.page, G), NEW p \in G, ~IsRoot(m, p)
    PROVE  Pair(m, p) \in (1 .. MaxOrd) \X Nat
<1> DEFINE o == m.page[p].ord
           x == 2^o
<1>1. o \in Nat /\ o < MaxOrd /\ p \in Nat /\ x \in Nat \ {0}
  <2>1. m.page[p].buddyId # 1  BY DEF IsRoot
  <2> QED BY <2>1, CellShape
<1>2. Pair(m, p) = <<o + 1, p \div (2 * x)>>  BY DEF Pair, Size
<1> HIDE DEF o, x
<1>3. o + 1 \in 1 .. MaxOrd  BY <1>1, OrderAssumption
<1>4. p \div (2 * x) \in Nat  BY <1>1
<1> QED BY <1>2, <1>3, <1>4

\* GetBuddy reads the descriptor.
LEMMA BuddyIs ==
    ASSUME NEW m, NEW p, m.page[p].buddyId \in Nat
    PROVE  GetBuddy(m, p) = BuddyPage(p, m.page[p].ord, m.page[p].buddyId)
BY DEF GetBuddy, BuddyPage, IsRight, Size

\* The bit of a taken group is set when its buddy is free, and only then.
LEMMA PairFree ==
    ASSUME NEW m, NEW H, MemOK(m, H), NEW p \in H, ~IsRoot(m, p), Pair(m, p) \in m.bit,
           NEW b, b = GetBuddy(m, p)
    PROVE  /\ b \in FreeOf(m) /\ ~IsRoot(m, b) /\ Pair(m, b) = Pair(m, p) /\ b # p
           /\ m.page[b].ord = m.page[p].ord
           /\ m.page[b].buddyId = BuddyId(m.page[p].buddyId)
<1> DEFINE G == FreeOf(m) \union H
           o == m.page[p].ord
           i == m.page[p].buddyId
<1>1. Nodes(m.page, G) /\ Bits(m) /\ H \intersect FreeOf(m) = {}  BY DEF MemOK
<1>2. PICK q \in Half(m) : Pair(m, q) = Pair(m, p)  BY <1>1 DEF Bits
<1>3. q \in FreeOf(m) /\ q \in G /\ ~IsRoot(m, q) /\ q # p  BY <1>1, <1>2 DEF Half
<1>4. o \in Nat /\ m.page[q].ord \in Nat /\ i \in Nat /\ i # 1 /\ m.page[q].buddyId # 1
  <2> HIDE DEF G
  <2>1. p \in G  BY DEF G
  <2>2. o \in Nat /\ i \in Nat
    <3>1. i \in 1 .. 2^(MaxOrd + 1) - 1 /\ o \in Nat  BY <1>1, <2>1, CellShape
    <3> QED BY <3>1
  <2>3. m.page[q].ord \in Nat  BY <1>1, <1>3, CellShape
  <2> QED BY <1>3, <2>2, <2>3 DEF IsRoot
<1>5. o + 1 = m.page[q].ord + 1 /\ q \div (2 * 2^m.page[q].ord) = p \div (2 * 2^o)
  BY <1>2 DEF Pair, Size
<1>6. m.page[q].ord = o
  <2> DEFINE u == m.page[q].ord
  <2>1. o \in Nat /\ u \in Nat /\ o + 1 = u + 1  BY <1>4, <1>5
  <2> HIDE DEF o, u
  <2>2. u = o  BY <2>1
  <2> QED BY <2>2 DEF u
<1> DEFINE j == m.page[q].buddyId
<1>7. Located(p, o, i) /\ Located(q, o, j)  BY <1>1, <1>3, <1>6 DEF Nodes
<1>8. q \div (2 * 2^o) = p \div (2 * 2^o)  BY <1>5, <1>6
<1>9. \/ i % 2 = 0 /\ j % 2 = 1 /\ q = p + 2^o
      \/ i % 2 = 1 /\ j % 2 = 0 /\ q = p - 2^o
  <2> HIDE DEF o, i, j
  <2>1. i # 1 /\ j # 1 /\ p # q  BY <1>3, <1>4 DEF i, j
  <2> QED BY <1>7, <1>8, <2>1, PairOnly
<1>10. q = BuddyPage(p, o, i)  BY <1>4, <1>9 DEF BuddyPage
<1>11. q = b  BY <1>4, <1>10, BuddyIs
<1>12. j = BuddyId(i)
  <2> HIDE DEF o, i, j
  <2>1. Located(q, o, BuddyId(i))  BY <1>4, <1>7, <1>10, NodeBuddy DEF i
  <2> QED BY <1>7, <2>1, NodeOne
<1> QED BY <1>2, <1>3, <1>6, <1>11, <1>12

\* mm_divPageGrp on a taken group.
With(m, pg) == [m EXCEPT !.page = pg]
\* What mm_divPageGrp makes of m: p is cut, r is its right half.
DividedMem(m, H, p, n, r) ==
    /\ MemOK(n, H \union {r}) /\ FreeOf(n) = FreeOf(m)
    /\ r \in Page /\ r \notin H /\ r \notin FreeOf(m) /\ r # p
    /\ n.page = DivPageGrp(m.page, p)
    /\ n.bit = m.bit /\ n.free = m.free /\ n.usage = m.usage /\ n \in MemType
    /\ \A q \in Page : q # p /\ q # r => n.page[q] = m.page[q]
    /\ n.page[p].ord = m.page[p].ord - 1 /\ n.page[p].buddyId = 2 * m.page[p].buddyId
    /\ n.page[r].ord = m.page[p].ord - 1 /\ n.page[r].buddyId = 2 * m.page[p].buddyId + 1
    /\ r = p + 2^(m.page[p].ord - 1)
    /\ Cell(m.page, p) = Cell(n.page, p) \union Cell(n.page, r)
    /\ Cell(n.page, p) \intersect Cell(n.page, r) = {}

\* mm_divPageGrp of a taken group: the right half is taken as well.
LEMMA DivMem ==
    ASSUME NEW m, NEW H, NEW p, MemOK(m, H), p \in H, m.page[p].ord # 0
    PROVE  DividedMem(m, H, p, With(m, DivPageGrp(m.page, p)), Right(m.page, p))
<1> DEFINE n == With(m, DivPageGrp(m.page, p))
           r == Right(m.page, p)
<1>0. n = [m EXCEPT !.page = DivPageGrp(m.page, p)] /\ r = Right(m.page, p)  BY DEF With
<1> HIDE DEF n, r
<1> DEFINE G == FreeOf(m) \union H
           pg == m.page
           npg == DivPageGrp(pg, p)
<1>1. m \in MemType /\ Nodes(pg, G) /\ H \intersect FreeOf(m) = {}  BY DEF MemOK
<1>2. pg \in [Page -> Desc] /\ p \in G  BY <1>1 DEF MemType
<1>3. /\ n.page = npg /\ n.bit = m.bit /\ n.free = m.free /\ n.usage = m.usage
      /\ npg \in [Page -> Desc] => n \in MemType
  BY <1>0, <1>1 DEF MemType
<1> HIDE DEF pg, npg, G
<1>4. /\ r \in Page /\ r \notin G /\ r # p
      /\ npg \in [Page -> Desc]
      /\ \A q \in Page : q # p /\ q # r => npg[q] = pg[q]
      /\ npg[p].ord = pg[p].ord - 1 /\ npg[p].buddyId = 2 * pg[p].buddyId
      /\ npg[r].ord = pg[p].ord - 1 /\ npg[r].buddyId = 2 * pg[p].buddyId + 1
      /\ r = p + 2^(pg[p].ord - 1)
      /\ Cell(pg, p) = Cell(npg, p) \union Cell(npg, r) /\ Cell(npg, p) \intersect Cell(npg, r) = {}
      /\ Nodes(npg, G \union {r})
  <2>1. Divided(m.page, G, p, DivPageGrp(m.page, p), Right(m.page, p))
    <3>1. m.page \in [Page -> Desc] /\ Nodes(m.page, G) /\ p \in G  BY <1>1, <1>2 DEF pg
    <3> QED BY <3>1, DivNodes
  <2>2. Divided(pg, G, p, npg, r)  BY <1>0, <2>1 DEF pg, npg
  <2> QED BY <2>2 DEF Divided
<1>5. MemOK(n, H \union {r}) /\ FreeOf(n) = FreeOf(m)
  <2>1. G \subseteq Page  BY <1>1 DEF Nodes
  <2>2. \A q \in FreeOf(m) : n.page[q].ord = m.page[q].ord /\ n.page[q].buddyId = m.page[q].buddyId
    <3>1. \A q \in FreeOf(m) : n.page[q] = m.page[q]  BY <1>1, <1>3, <1>4, <2>1 DEF G, pg
    <3> QED BY <3>1
  <2>3. (H \union {r}) \intersect FreeOf(m) = {}  BY <1>1, <1>4 DEF G
  <2>4. FreeOf(m) \union (H \union {r}) = G \union {r}  BY DEF G
  <2>5. Nodes(n.page, FreeOf(m) \union (H \union {r}))  BY <1>3, <1>4, <2>4
  <2>6. n \in MemType /\ n.free = m.free /\ n.bit = m.bit  BY <1>3, <1>4
  <2> QED BY <2>2, <2>3, <2>5, <2>6, PageStep
<1>6. DividedMem(m, H, p, n, r)  BY <1>3, <1>4, <1>5 DEF pg, npg, G, DividedMem
<1> QED BY <1>6 DEF n, r

\* One turn of the loop of mm_allocPages.
LEMMA HalveMem ==
    ASSUME NEW m, NEW H, MemOK(m, H), NEW p \in H, m.page[p].ord # 0,
           NEW n, n = Halve(m, p)
    PROVE  /\ MemOK(n, H) /\ n.usage = m.usage
           /\ n.page[p].ord = m.page[p].ord - 1
           /\ \A q \in H : q # p => n.page[q] = m.page[q]
<1> DEFINE r == Right(m.page, p)
           d == [m EXCEPT !.page = DivPageGrp(@, p)]
           o == m.page[p].ord - 1
<1>1. /\ MemOK(d, H \union {r}) /\ FreeOf(d) = FreeOf(m)
      /\ r \in Page /\ r \notin H /\ r \notin FreeOf(m) /\ r # p
      /\ d.bit = m.bit /\ d.free = m.free /\ d.usage = m.usage /\ d \in MemType
      /\ \A q \in Page : q # p /\ q # r => d.page[q] = m.page[q]
      /\ d.page[p].ord = o
      /\ d.page[r].ord = o /\ d.page[r].buddyId = 2 * m.page[p].buddyId + 1
      /\ r = p + 2^o
  <2>1. d = With(m, DivPageGrp(m.page, p))  BY DEF With
  <2>2. DividedMem(m, H, p, d, r)
    <3> HIDE DEF d
    <3> QED BY <2>1, DivMem
  <2> HIDE DEF d, r
  <2> QED BY <2>2 DEF DividedMem
<1>2. Nodes(m.page, FreeOf(m) \union H) /\ H \intersect FreeOf(m) = {}  BY DEF MemOK
<1>3. m.page[p].buddyId \in Nat \ {0} /\ p \in Nat /\ p \notin FreeOf(m) /\ H \subseteq Page
  <2> DEFINE i == m.page[p].buddyId
  <2>1. p \in FreeOf(m) \union H  OBVIOUS
  <2>2. i \in 1 .. 2^(MaxOrd + 1) - 1 /\ p \in Nat  BY <1>2, <2>1, CellShape
  <2> HIDE DEF i
  <2>3. i \in Nat \ {0}  BY <2>2
  <2> QED BY <1>2, <2>2, <2>3 DEF Nodes, i
<1>4. ~IsRoot(d, r)
  <2> DEFINE i == m.page[p].buddyId
  <2>1. d.page[r].buddyId = 2 * i + 1 /\ i \in Nat \ {0}  BY <1>1, <1>3
  <2> HIDE DEF i, d
  <2>2. d.page[r].buddyId # 1  BY <2>1
  <2> QED BY <2>2 DEF IsRoot
<1>5. o \in Ord /\ o \in Nat /\ 2^o \in Nat
  <2>1. Nodes(d.page, FreeOf(d) \union (H \union {r}))  BY <1>1 DEF MemOK
  <2> HIDE DEF d, r
  <2>2. d.page[r].ord \in Ord /\ d.page[r].ord \in Nat  BY <2>1, CellShape
  <2>3. o \in Nat  BY <1>1, <2>2
  <2> HIDE DEF o
  <2> QED BY <1>1, <2>2, <2>3, PowType
<1>6. Pair(d, r) \notin d.bit
  <2> SUFFICES ASSUME Pair(d, r) \in d.bit PROVE FALSE  OBVIOUS
  <2> HIDE DEF d, r
  <2>1. GetBuddy(d, r) \in FreeOf(d)  BY <1>1, <1>4, PairFree
  <2>2. GetBuddy(d, r) = p
    <3> DEFINE i == m.page[p].buddyId
    <3>1. i \in Nat /\ d.page[r].buddyId = 2 * i + 1  BY <1>1, <1>3
    <3> HIDE DEF i
    <3>2. d.page[r].buddyId % 2 = 1  BY <3>1
    <3>3. GetBuddy(d, r) = r - 2^d.page[r].ord  BY <3>2 DEF GetBuddy, IsRight, Size
    <3> QED BY <1>1, <1>3, <1>5, <3>3
  <2> QED BY <1>1, <1>3, <2>1, <2>2
<1>7. Pair(d, r) \in (1 .. MaxOrd) \X Nat
  <2>1. Nodes(d.page, FreeOf(d) \union (H \union {r}))  BY <1>1 DEF MemOK
  <2> HIDE DEF d, r
  <2> QED BY <1>4, <2>1, PairType
<1> DEFINE l == Append(m.free[o], r)
<1>8. m.free \in [Ord -> Seq(Page)] /\ IsInjective(m.free[o]) /\ ToSet(m.free[o]) \subseteq FreeOf(m)
  BY <1>5 DEF MemOK, Lists, FreeOf, MemType
<1>9. l \in Seq(Page) /\ IsInjective(l) /\ ToSet(l) = ToSet(m.free[o]) \union {r}
  <2>1. m.free[o] \in Seq(Page) /\ r \notin ToSet(m.free[o])  BY <1>1, <1>5, <1>8
  <2> HIDE DEF r, o
  <2> QED BY <1>1, <1>8, <2>1, AppendOne
<1>10. /\ n.page = d.page /\ n.usage = m.usage /\ n.bit = d.bit \union {Pair(d, r)}
       /\ n.free = [d.free EXCEPT ![o] = l] /\ n \in MemType
  <2> DEFINE e == [d EXCEPT !.bit = SymDiff(@, {Pair(d, r)})]
  <2>1. n = [e EXCEPT !.free[e.page[r].ord] = Append(@, r)]  BY <1>4 DEF Halve, RevBit
  <2>2. SymDiff(d.bit, {Pair(d, r)}) = d.bit \union {Pair(d, r)}  BY <1>6 DEF SymDiff
  <2> HIDE DEF d, r, l
  <2>3. /\ e.page = d.page /\ e.free = d.free /\ e.usage = d.usage
        /\ e.bit = d.bit \union {Pair(d, r)} /\ e \in MemType
    BY <1>1, <1>7, <2>2 DEF MemType
  <2> HIDE DEF e, o
  <2>4. n = [e EXCEPT !.free[o] = Append(@, r)]  BY <1>1, <2>1, <2>3
  <2>5. n = [e EXCEPT !.free = [e.free EXCEPT ![o] = Append(e.free[o], r)]]  BY <2>3, <2>4 DEF MemType
  <2>6. n = [e EXCEPT !.free = [d.free EXCEPT ![o] = l]]  BY <1>1, <2>3, <2>5 DEF l
  <2>7. [d.free EXCEPT ![o] = l] \in [Ord -> Seq(Page)]  BY <1>1, <1>5, <1>8, <1>9
  <2> QED BY <1>1, <2>3, <2>6, <2>7 DEF MemType
<1>11. MemOK(n, (H \union {r}) \ {r})
  <2>1. ToSet(l) = ToSet(d.free[o]) \union {r} /\ d.page[r].ord = o  BY <1>1, <1>9
  <2> HIDE DEF d, r, l, o
  <2>2. r \in H \union {r}  OBVIOUS
  <2>3. n.bit = IF IsRoot(d, r) THEN d.bit ELSE d.bit \union {Pair(d, r)}  BY <1>4, <1>10
  <2>4. MemOK(d, H \union {r}) /\ o \in Ord /\ o = d.page[r].ord  BY <1>1, <1>5, <2>1
  <2>5. n \in MemType /\ l \in Seq(Page) /\ IsInjective(l) /\ n.page = d.page
        /\ n.free = [d.free EXCEPT ![o] = l]
    BY <1>9, <1>10
  <2> QED BY <1>6, <2>1, <2>2, <2>3, <2>4, <2>5, AddMem
<1>12. (H \union {r}) \ {r} = H  BY <1>1
<1> QED BY <1>1, <1>3, <1>10, <1>11, <1>12
\* A free group is taken off its list, and its pair's bit reversed.
LEMMA UnlinkMem ==
    ASSUME NEW m, NEW H, MemOK(m, H), NEW o \in Ord, NEW p \in ToSet(m.free[o]),
           NEW n, n = RevBit(Unlink(m, o, p), p)
    PROVE  /\ MemOK(n, H \union {p}) /\ FreeOf(n) = FreeOf(m) \ {p}
           /\ n.page = m.page /\ n.usage = m.usage
<1> DEFINE l == List_del(m.free[o], p)
           u == Unlink(m, o, p)
<1>1. m \in MemType /\ Bits(m) /\ Nodes(m.page, FreeOf(m) \union H) /\ p \in FreeOf(m)
  BY DEF MemOK, FreeOf
<1>2. m.free \in [Ord -> Seq(Page)] /\ m.free[o] \in Seq(Page) /\ IsInjective(m.free[o])
  BY DEF MemOK, Lists, MemType
<1>3. l \in Seq(Page) /\ IsInjective(l) /\ ToSet(l) = ToSet(m.free[o]) \ {p}  BY <1>2, DelOne
<1>4. /\ u.page = m.page /\ u.usage = m.usage /\ u.bit = m.bit /\ u \in MemType
      /\ u.free = [m.free EXCEPT ![o] = l]
  <2>1. u = [m EXCEPT !.free = [m.free EXCEPT ![o] = l]]  BY DEF Unlink
  <2> HIDE DEF l, u
  <2>2. [m.free EXCEPT ![o] = l] \in [Ord -> Seq(Page)]  BY <1>2, <1>3
  <2> QED BY <1>1, <2>1, <2>2 DEF MemType
<1> HIDE DEF l, u
<1>5. (IsRoot(u, p) <=> IsRoot(m, p)) /\ Pair(u, p) = Pair(m, p)  BY <1>4 DEF IsRoot, Pair, Size
<1>6. n = RevBit(u, p)  BY DEF u
<1>7. /\ n.page = m.page /\ n.usage = m.usage /\ n \in MemType /\ n.free = u.free
      /\ n.bit = IF IsRoot(m, p) THEN m.bit ELSE m.bit \ {Pair(m, p)}
  <2>1. CASE IsRoot(m, p)
    <3>1. n = u  BY <1>5, <1>6, <2>1 DEF RevBit
    <3> QED BY <1>4, <2>1, <3>1
  <2>2. CASE ~IsRoot(m, p)
    <3>1. n = [u EXCEPT !.bit = SymDiff(m.bit, {Pair(m, p)})]  BY <1>4, <1>5, <1>6, <2>2 DEF RevBit
    <3>2. Pair(m, p) \in m.bit  BY <1>1, <2>2 DEF Bits, Half
    <3>3. SymDiff(m.bit, {Pair(m, p)}) = m.bit \ {Pair(m, p)}  BY <3>2 DEF SymDiff
    <3>4. n = [u EXCEPT !.bit = m.bit \ {Pair(m, p)}]  BY <3>1, <3>3
    <3> QED BY <1>1, <1>4, <2>2, <3>4 DEF MemType
  <2> QED BY <2>1, <2>2
<1>8. n.free = [m.free EXCEPT ![o] = l]  BY <1>4, <1>7
<1>9. MemOK(n, H \union {p}) /\ FreeOf(n) = FreeOf(m) \ {p}
  <2>1. n \in MemType /\ n.page = m.page /\ n.bit = IF IsRoot(m, p) THEN m.bit ELSE m.bit \ {Pair(m, p)}
    BY <1>7
  <2>2. Removed(m, n, o, p, l)  BY <1>3, <1>8, <2>1 DEF Removed
  <2> QED BY <2>2, RemoveMem
<1> QED BY <1>7, <1>9

\* f is the recursive function Split of Take, on the orders from b on.
IsSplit(f, a, p, b, o) == f = [i \in b .. o |-> IF i = o THEN a ELSE Halve(f[i + 1], p)]

\* It exists (a recursive function is what its equation says only then).
LEMMA SplitExists ==
    ASSUME NEW a, NEW p, NEW o \in Nat, NEW k \in 0 .. o
    PROVE  \E f : IsSplit(f, a, p, k, o)
<1> DEFINE Bad == {n \in Nat : n <= o - k /\ \A f : ~IsSplit(f, a, p, o - n, o)}
<1>1. Bad = {}
  <2> SUFFICES ASSUME Bad # {} PROVE FALSE  OBVIOUS
  <2>1. PICK n \in Bad : \A x \in Bad : n <= x
    <3>1. Bad \in SUBSET Nat  OBVIOUS
    <3> HIDE DEF Bad
    <3> QED BY <3>1, LeastOf
  <2>2. n \in Nat /\ n <= o - k /\ \A f : ~IsSplit(f, a, p, o - n, o)  BY <2>1
  <2>3. n # 0
    <3> SUFFICES ASSUME n = 0 PROVE FALSE  OBVIOUS
    <3>1. o - n .. o = {o}  OBVIOUS
    <3>2. IsSplit([i \in {o} |-> a], a, p, o - n, o)  BY <3>1 DEF IsSplit
    <3> QED BY <2>2, <3>2
  <2>4. n - 1 \in Nat /\ n - 1 <= o - k /\ ~(n <= n - 1)  BY <2>2, <2>3
  <2>5. n - 1 \notin Bad
    <3> HIDE DEF Bad
    <3> QED BY <2>1, <2>4
  <2>6. PICK f : IsSplit(f, a, p, o - (n - 1), o)  BY <2>4, <2>5
  <2> DEFINE b == o - n
             g == [i \in b .. o |-> IF i = b THEN Halve(f[b + 1], p) ELSE f[i]]
  <2>7. b \in Nat /\ b < o /\ o - (n - 1) = b + 1 /\ b .. o = {b} \union b + 1 .. o
    BY <2>2, <2>3
  <2> HIDE DEF b
  <2>8. \A i \in b + 1 .. o : f[i] = IF i = o THEN a ELSE Halve(f[i + 1], p)  BY <2>6, <2>7 DEF IsSplit
  <2>9. \A i \in b .. o : i # o => f[i + 1] = g[i + 1]
    <3> TAKE i \in b .. o
    <3> HAVE i # o
    <3>1. i + 1 \in b .. o /\ i + 1 # b  BY <2>7
    <3> QED BY <3>1
  <2>10. \A i \in b .. o : g[i] = IF i = o THEN a ELSE Halve(f[i + 1], p)
    BY <2>7, <2>8
  <2> HIDE DEF g
  <2>11. \A i \in b .. o : g[i] = IF i = o THEN a ELSE Halve(g[i + 1], p)  BY <2>9, <2>10
  <2>12. g = [i \in b .. o |-> g[i]]  BY DEF g
  <2>13. IsSplit(g, a, p, b, o)  BY <2>11, <2>12 DEF IsSplit
  <2> QED BY <2>2, <2>13 DEF b
<1>2. o - k \in Nat /\ o - (o - k) = k /\ o - k <= o - k  OBVIOUS
<1>3. \E f : IsSplit(f, a, p, o - (o - k), o)  BY <1>1, <1>2
<1> QED BY <1>2, <1>3

\* mm_allocPages: the group it finds is taken, at the order asked for; the
\* groups taken before keep their descriptors.
LEMMA TakeMem ==
    ASSUME NEW m, NEW H, MemOK(m, H), NEW k \in Nat, Fits(m, k) # {},
           NEW n, n = Take(m, k), NEW p, p = Found(m, k)
    PROVE  /\ k \in Ord /\ p \in FreeOf(m) /\ p \notin H /\ p \in Page
           /\ MemOK(n, H \union {p})
           /\ n.page[p].ord = k /\ n.usage = m.usage + 2^k
           /\ \A q \in H : n.page[q] = m.page[q]
<1> USE OrderAssumption
<1> DEFINE o == Least(m, k)
           a == RevBit(Unlink(m, o, p), p)
           f == CHOOSE g : IsSplit(g, a, p, k, o)
<1>1. o \in Fits(m, k)
  <2>1. Fits(m, k) \in SUBSET Nat  BY DEF Fits
  <2>2. \E x \in Fits(m, k) : \A y \in Fits(m, k) : x <= y  BY <2>1, LeastOf
  <2> QED BY <2>2 DEF Least
<1>2. o \in Ord /\ o \in Nat /\ k \in 0 .. o /\ k \in Ord /\ m.free[o] # <<>>  BY <1>1 DEF Fits, Ord
<1>3. m \in MemType /\ m.free[o] \in Seq(Page) /\ IsInjective(m.free[o]) /\ H \intersect FreeOf(m) = {}
      /\ Lists(m.page, m.free)
  BY <1>2 DEF MemOK, Lists, MemType
<1>4. p \in ToSet(m.free[o])
  <2>1. p = Head(m.free[o])  BY DEF Found
  <2> HIDE DEF o
  <2> QED BY <1>2, <1>3, <2>1, TailOne
<1>5. p \in FreeOf(m) /\ p \notin H /\ m.page[p].ord = o /\ p \in Page
  BY <1>2, <1>3, <1>4 DEF FreeOf, Lists, MemOK, Nodes
<1>6. MemOK(a, H \union {p}) /\ a.page = m.page /\ a.usage = m.usage
  <2> HIDE DEF o
  <2> QED BY <1>2, <1>4, UnlinkMem
<1> HIDE DEF o, a
<1>7. IsSplit(f, a, p, k, o)
  <2>1. \E g : IsSplit(g, a, p, k, o)  BY <1>2, SplitExists
  <2> QED BY <2>1
<1>8. n = [f[k] EXCEPT !.usage = @ + 2^k]  BY DEF Take, IsSplit, o, a
<1> HIDE DEF f
<1>9. \A i \in k .. o : f[i] = IF i = o THEN a ELSE Halve(f[i + 1], p)  BY <1>7 DEF IsSplit
<1> DEFINE Good(s, i) == /\ MemOK(s, H \union {p}) /\ s.page[p].ord = i /\ s.usage = m.usage
                         /\ \A q \in H : s.page[q] = m.page[q]
           Bad == {d \in Nat : d <= o - k /\ ~Good(f[o - d], o - d)}
<1>10. Bad = {}
  <2> SUFFICES ASSUME Bad # {} PROVE FALSE  OBVIOUS
  <2>1. PICK d \in Bad : \A x \in Bad : d <= x
    <3>1. Bad \in SUBSET Nat  OBVIOUS
    <3> HIDE DEF Bad
    <3> QED BY <3>1, LeastOf
  <2>2. d \in Nat /\ d <= o - k /\ ~Good(f[o - d], o - d)  BY <2>1
  <2>3. d # 0
    <3> SUFFICES ASSUME d = 0 PROVE FALSE  OBVIOUS
    <3>1. o - d = o /\ o \in k .. o  BY <1>2
    <3>2. f[o] = a  BY <1>9, <3>1
    <3>3. Good(a, o)  BY <1>5, <1>6
    <3> HIDE DEF Good
    <3> QED BY <2>2, <3>1, <3>2, <3>3
  <2>4. d - 1 \in Nat /\ d - 1 <= o - k /\ ~(d <= d - 1)  BY <2>2, <2>3, <1>2
  <2>5. d - 1 \notin Bad
    <3> HIDE DEF Bad
    <3> QED BY <2>1, <2>4
  <2> DEFINE i == o - d
  <2>6. i \in k .. o /\ i # o /\ o - (d - 1) = i + 1 /\ i + 1 \in Nat /\ i + 1 # 0 /\ (i + 1) - 1 = i
    BY <1>2, <2>2, <2>3
  <2>7. ~Good(f[i], i)  BY <2>2
  <2> HIDE DEF i
  <2>8. Good(f[i + 1], i + 1)
    <3> HIDE DEF Good
    <3> QED BY <2>4, <2>5, <2>6
  <2>9. f[i] = Halve(f[i + 1], p)  BY <1>9, <2>6
  <2> DEFINE s == f[i + 1]
             t == f[i]
  <2>10. MemOK(s, H \union {p}) /\ s.page[p].ord = i + 1 /\ s.usage = m.usage
         /\ \A q \in H : s.page[q] = m.page[q]
    BY <2>8
  <2>11. t = Halve(s, p)  BY <2>9
  <2>12. ~Good(t, i)  BY <2>7
  <2> HIDE DEF s, t
  <2>13. /\ MemOK(t, H \union {p}) /\ t.usage = s.usage /\ t.page[p].ord = s.page[p].ord - 1
         /\ \A q \in H \union {p} : q # p => t.page[q] = s.page[q]
    <3>1. p \in H \union {p} /\ s.page[p].ord # 0  BY <2>6, <2>10
    <3> QED BY <2>10, <2>11, <3>1, HalveMem
  <2>14. Good(t, i)  BY <1>5, <2>6, <2>10, <2>13
  <2> QED BY <2>12, <2>14
<1>11. Good(f[k], k)
  <2>1. o - k \in Nat /\ o - (o - k) = k /\ o - k <= o - k  BY <1>2
  <2> HIDE DEF Good
  <2> QED BY <1>10, <2>1
<1> DEFINE s == f[k]
<1>12. /\ MemOK(s, H \union {p}) /\ s.page[p].ord = k /\ s.usage = m.usage
       /\ \A q \in H : s.page[q] = m.page[q]
  BY <1>11
<1>13. n = [s EXCEPT !.usage = @ + 2^k]  BY <1>8
<1> HIDE DEF s
<1>14. s \in MemType /\ Nodes(s.page, FreeOf(s) \union (H \union {p})) /\ (H \union {p}) \intersect FreeOf(s) = {}
  BY <1>12 DEF MemOK
<1>15. 2^k \in Nat  BY PowType
<1>16. n.page = s.page /\ n.free = s.free /\ n.bit = s.bit /\ n.usage = m.usage + 2^k /\ n \in MemType
  <2> DEFINE x == m.usage + 2^k
  <2>1. m.usage \in Int  BY <1>3 DEF MemType
  <2>2. x \in Int  BY <1>15, <2>1
  <2>3. n = [s EXCEPT !.usage = x]  BY <1>12, <1>13
  <2> HIDE DEF x
  <2>4. n.page = s.page /\ n.free = s.free /\ n.bit = s.bit /\ n.usage = x /\ n \in MemType
    BY <1>14, <2>2, <2>3 DEF MemType
  <2> QED BY <2>4 DEF x
<1>17. MemOK(n, H \union {p})  BY <1>12, <1>14, <1>16, PageStep
<1> QED BY <1>2, <1>5, <1>12, <1>16, <1>17
\* Two halves are a group again: of pg it makes n, the page gone is the right
\* half's first one.
Joined(pg, G, n, left, gone) ==
    /\ pg \in [Page -> Desc] /\ n \in [Page -> Desc] /\ left \in G /\ gone \in G
    /\ pg[left].buddyId # 1 /\ pg[left].buddyId % 2 = 0
    /\ pg[gone].ord = pg[left].ord /\ gone = left + 2^pg[left].ord
    /\ n[left].ord = pg[left].ord + 1 /\ n[left].buddyId = Parent(pg[left].buddyId)
    /\ \A q \in Page : q # left /\ q # gone => n[q] = pg[q]

\* Joined, two halves are the group they were cut from.
LEMMA JoinNodes ==
    ASSUME NEW pg, NEW G, NEW n, NEW left, NEW gone, Nodes(pg, G), Joined(pg, G, n, left, gone)
    PROVE  Nodes(n, G \ {gone})
<1> DEFINE o == pg[left].ord
           i == pg[left].buddyId
           x == 2^o
<1>1. /\ pg \in [Page -> Desc] /\ n \in [Page -> Desc] /\ left \in G /\ gone \in G
      /\ i # 1 /\ i % 2 = 0 /\ pg[gone].ord = o /\ gone = left + x
      /\ n[left].ord = o + 1 /\ n[left].buddyId = Parent(i)
      /\ \A q \in Page : q # left /\ q # gone => n[q] = pg[q]
  BY DEF Joined
<1>2. Located(left, o, i) /\ G \subseteq Page  BY <1>1 DEF Nodes
<1>3. left \in Nat /\ x \in Nat \ {0} /\ Cell(pg, left) = left .. left + x - 1  BY <1>1, CellShape
<1>4. 2^(o + 1) = x + x /\ Located(left, o + 1, Parent(i))
  <2> HIDE DEF o, i
  <2> QED BY <1>1, <1>2, NodeParent DEF o, i
<1>5. gone \in Nat /\ Cell(pg, gone) = gone .. gone + x - 1
  <2>1. gone \in G  BY <1>1
  <2>2. gone \in Nat /\ Cell(pg, gone) = gone .. gone + 2^pg[gone].ord - 1  BY <2>1, CellShape
  <2> QED BY <1>1, <2>2
<1>6. Cell(n, left) = left .. left + (x + x) - 1  BY <1>1, <1>4 DEF Cell, Block
<1> HIDE DEF o, i, x
<1>7. Cell(n, left) = Cell(pg, left) \union Cell(pg, gone)
  <2>1. left .. left + (x + x) - 1 = (left .. left + x - 1) \union (gone .. gone + x - 1)
    BY <1>1, <1>3, <1>5
  <2> QED BY <1>3, <1>5, <1>6, <2>1
<1>8. left # gone  BY <1>1, <1>3
<1>9. \A q \in G \ {gone} : q # left => n[q] = pg[q] /\ Cell(n, q) = Cell(pg, q)
  BY <1>1, <1>2 DEF Cell
<1>10. G \ {gone} \subseteq Page  BY <1>2
<1>11. \A q \in G \ {gone} : Located(q, n[q].ord, n[q].buddyId)
  <2>1. \A q \in G : Located(q, pg[q].ord, pg[q].buddyId)  BY DEF Nodes
  <2> QED BY <1>1, <1>4, <1>9, <2>1
<1>12. \A q, t \in G \ {gone} : q # t => Cell(n, q) \intersect Cell(n, t) = {}
  <2>1. \A q, t \in G : q # t => Cell(pg, q) \intersect Cell(pg, t) = {}  BY DEF Nodes
  <2>2. \A q \in G \ {gone} : q # left => Cell(n, q) \intersect Cell(n, left) = {}
    BY <1>1, <1>7, <1>9, <2>1
  <2> QED BY <1>9, <2>1, <2>2
<1>13. \A a \in Page : \E q \in G \ {gone} : a \in Cell(n, q)
  <2> TAKE a \in Page
  <2>1. PICK q \in G : a \in Cell(pg, q)  BY DEF Nodes
  <2>2. CASE q = left \/ q = gone  BY <1>1, <1>7, <1>8, <2>1, <2>2
  <2>3. CASE ~(q = left \/ q = gone)  BY <1>9, <2>1, <2>3
  <2> QED BY <2>2, <2>3
<1> QED BY <1>10, <1>11, <1>12, <1>13 DEF Nodes

\* What _revBit does for a taken group.
Reversed(m, p, f) ==
    /\ f \in MemType /\ f.page = m.page /\ f.free = m.free /\ f.usage = m.usage
    /\ f.bit = IF IsRoot(m, p) THEN m.bit
               ELSE IF Pair(m, p) \in m.bit THEN m.bit \ {Pair(m, p)}
               ELSE m.bit \union {Pair(m, p)}
    /\ IsRoot(f, p) <=> IsRoot(m, p)
    /\ Pair(f, p) = Pair(m, p) /\ GetBuddy(f, p) = GetBuddy(m, p)

\* mm_buddy_revBit changes the bit of the pair and nothing else.
LEMMA RevMem ==
    ASSUME NEW m, NEW H, NEW p, MemOK(m, H), p \in H
    PROVE  Reversed(m, p, RevBit(m, p))
<1> DEFINE f == RevBit(m, p)
<1>1. m \in MemType /\ Nodes(m.page, FreeOf(m) \union H) /\ p \in FreeOf(m) \union H  BY DEF MemOK
<1>2. CASE IsRoot(m, p)
  <2>1. f = m  BY <1>2 DEF RevBit
  <2> HIDE DEF f
  <2>2. Reversed(m, p, f)  BY <1>1, <1>2, <2>1 DEF Reversed
  <2> QED BY <2>2 DEF f
<1>3. CASE ~IsRoot(m, p)
  <2> DEFINE y == IF Pair(m, p) \in m.bit THEN m.bit \ {Pair(m, p)} ELSE m.bit \union {Pair(m, p)}
  <2>1. Pair(m, p) \in (1 .. MaxOrd) \X Nat  BY <1>1, <1>3, PairType
  <2>2. SymDiff(m.bit, {Pair(m, p)}) = y  BY DEF SymDiff
  <2>3. m.bit \in SUBSET ((1 .. MaxOrd) \X Nat)  BY <1>1 DEF MemType
  <2>4. y \in SUBSET ((1 .. MaxOrd) \X Nat)  BY <2>1, <2>3
  <2>5. f = [m EXCEPT !.bit = y]  BY <1>3, <2>2 DEF RevBit
  <2> HIDE DEF y, f
  <2>6. f \in MemType /\ f.page = m.page /\ f.free = m.free /\ f.usage = m.usage /\ f.bit = y
    BY <1>1, <2>4, <2>5 DEF MemType
  <2>7. (IsRoot(f, p) <=> IsRoot(m, p)) /\ Pair(f, p) = Pair(m, p) /\ GetBuddy(f, p) = GetBuddy(m, p)
    BY <2>6 DEF IsRoot, Pair, GetBuddy, IsRight, Size
  <2>8. Reversed(m, p, f)  BY <1>3, <2>6, <2>7 DEF y, Reversed
  <2> QED BY <2>8 DEF f
<1> QED BY <1>2, <1>3

\* One turn of the loop of mm_freePages that merges.
Merged(m, H, p, n, t) ==
    /\ MemOK(n, (H \ {p}) \union {t}) /\ t \notin H \ {p} /\ t \in Page
    /\ n.page[t].ord = m.page[p].ord + 1 /\ n.usage = m.usage
    /\ \A q \in H \ {p} : n.page[q] = m.page[q]

\* One turn of the loop of mm_freePages: t is the merged group.
LEMMA MergeMem ==
    ASSUME NEW m, NEW H, MemOK(m, H), NEW p \in H, ~IsRoot(m, p), Pair(m, p) \in m.bit,
           NEW f, f = RevBit(m, p), NEW n, n = Merge(f, p),
           NEW t, t = IF GetBuddy(f, p) < p THEN GetBuddy(f, p) ELSE p
    PROVE  Merged(m, H, p, n, t)
<1> DEFINE o == m.page[p].ord
           i == m.page[p].buddyId
           b == GetBuddy(f, p)
           x == Unlink(f, o, b)
           l == List_del(m.free[o], b)
           left == IF i % 2 = 1 THEN b ELSE p
           gone == IF i % 2 = 1 THEN p ELSE b
           G == FreeOf(m) \union H
<1>1. m \in MemType /\ Nodes(m.page, G) /\ H \intersect FreeOf(m) = {} /\ Lists(m.page, m.free) /\ p \in G
  BY DEF MemOK
<1>2. /\ f \in MemType /\ f.page = m.page /\ f.free = m.free /\ f.usage = m.usage
      /\ f.bit = m.bit \ {Pair(m, p)} /\ b = GetBuddy(m, p)
  <2>1. Reversed(m, p, f)  BY RevMem
  <2> QED BY <2>1 DEF Reversed
<1>3. /\ b \in FreeOf(m) /\ ~IsRoot(m, b) /\ Pair(m, b) = Pair(m, p) /\ b # p
      /\ m.page[b].ord = o /\ m.page[b].buddyId = BuddyId(i)
  <2> HIDE DEF b
  <2> QED BY <1>2, PairFree
<1>4. /\ o \in Ord /\ o \in Nat /\ i \in Nat /\ i # 1 /\ p \in Nat /\ 2^o \in Nat \ {0}
      /\ p \in Page /\ b \in Page /\ G \subseteq Page
  <2> HIDE DEF b, o, G
  <2>1. i \in 1 .. 2^(MaxOrd + 1) - 1 /\ o \in Ord /\ o \in Nat /\ p \in Nat /\ 2^o \in Nat \ {0}
    BY <1>1, CellShape DEF o
  <2>2. i # 1  BY DEF IsRoot
  <2>3. b \in G /\ G \subseteq Page  BY <1>1, <1>3 DEF G, Nodes
  <2> HIDE DEF i
  <2>4. i \in Nat  BY <2>1
  <2> QED BY <1>1, <2>1, <2>2, <2>3, <2>4
<1>5. b = IF i % 2 = 1 THEN p - 2^o ELSE p + 2^o
  <2>1. b = BuddyPage(p, o, i)  BY <1>2, <1>4, BuddyIs
  <2> QED BY <2>1 DEF BuddyPage
<1>6. l \in Seq(Page) /\ IsInjective(l) /\ ToSet(l) = ToSet(m.free[o]) \ {b}
  <2>1. m.free[o] \in Seq(Page) /\ IsInjective(m.free[o])  BY <1>1, <1>4 DEF MemType, Lists
  <2> HIDE DEF o, b
  <2> QED BY <2>1, DelOne
<1>7. b \in ToSet(m.free[o])  BY <1>3, <1>4, FreeWhere
<1>8. /\ x.page = m.page /\ x.free = [m.free EXCEPT ![o] = l] /\ x.bit = m.bit \ {Pair(m, b)}
      /\ x.usage = m.usage /\ x \in MemType
  <2> DEFINE y == [m.free EXCEPT ![o] = l]
  <2>1. x = [f EXCEPT !.free = y]  BY <1>2 DEF Unlink
  <2>2. y \in [Ord -> Seq(Page)]
    <3>1. m.free \in [Ord -> Seq(Page)]  BY <1>1 DEF MemType
    <3> HIDE DEF l, o
    <3> QED BY <1>4, <1>6, <3>1
  <2>3. m.bit \ {Pair(m, p)} = m.bit \ {Pair(m, b)}  BY <1>3
  <2> HIDE DEF x, y, l, o, b
  <2>4. x.page = f.page /\ x.free = y /\ x.bit = f.bit /\ x.usage = f.usage /\ x \in MemType
    BY <1>2, <2>1, <2>2 DEF MemType
  <2> QED BY <1>2, <2>3, <2>4 DEF y
<1>9. MemOK(x, H \union {b}) /\ FreeOf(x) = FreeOf(m) \ {b}
  <2> HIDE DEF x, l, o, b
  <2>1. Removed(m, x, o, b, l)  BY <1>3, <1>4, <1>6, <1>7, <1>8 DEF Removed
  <2> QED BY <2>1, RemoveMem
<1> DEFINE e == [ord |-> 0, buddyId |-> 0, attr |-> SymDiff(m.page[gone].attr, {"HeadPage"})]
           d == [m.page[left] EXCEPT !.ord = o + 1, !.buddyId = Parent(@)]
           npg == [m.page EXCEPT ![gone] = e, ![left] = d]
<1>10. left \in G /\ gone \in G /\ left # gone /\ gone = left + 2^o /\ {left, gone} = {p, b}
  <2>1. b \in G /\ p \in G  BY <1>1, <1>3
  <2>2. left # gone /\ {left, gone} = {p, b}  BY <1>3
  <2> HIDE DEF b, o, i, G
  <2>3. gone = left + 2^o  BY <1>4, <1>5
  <2> QED BY <2>1, <2>2, <2>3
<1>11. m.page[left].ord = o /\ m.page[gone].ord = o
       /\ m.page[left].buddyId # 1 /\ m.page[left].buddyId % 2 = 0
  <2>1. m.page[left].ord = o /\ m.page[gone].ord = o  BY <1>3
  <2>2. CASE i % 2 = 1
    <3>1. m.page[left].buddyId = BuddyId(i) /\ BuddyId(i) # 1  BY <1>3, <2>2 DEF IsRoot
    <3> HIDE DEF i
    <3>2. BuddyId(i) % 2 = 0  BY <1>4, <2>2 DEF BuddyId
    <3> QED BY <2>1, <3>1, <3>2
  <2>3. CASE i % 2 # 1
    <3>1. m.page[left].buddyId = i  BY <2>3
    <3> HIDE DEF i
    <3>2. i % 2 = 0  BY <1>4, <2>3
    <3> QED BY <1>4, <2>1, <3>1, <3>2
  <2> QED BY <2>2, <2>3
<1>12. t = left
  <2> HIDE DEF o, i
  <2>1. b < p <=> i % 2 = 1  BY <1>4, <1>5
  <2> QED BY <2>1
<1>13. n = [x EXCEPT !.page = npg]
  <2>1. f.page[p].ord = o /\ (IsRight(f, p) <=> i % 2 = 1)  BY <1>2 DEF IsRight
  <2>2. gone = (IF IsRight(f, p) THEN p ELSE b) /\ left = (IF IsRight(f, p) THEN b ELSE p)  BY <2>1
  <2>3. n = [x EXCEPT !.page[gone] = [ord |-> 0, buddyId |-> 0, attr |-> SymDiff(@.attr, {"HeadPage"})],
                      !.page[left].ord = o + 1, !.page[left].buddyId = Parent(@)]
    BY <2>1, <2>2 DEF Merge
  <2>4. x.page = m.page /\ x \in MemType /\ m.page \in [Page -> Desc] /\ left \in Page /\ left # gone
    BY <1>1, <1>4, <1>8, <1>10 DEF MemType
  <2> HIDE DEF x, left, gone
  <2>5. m.page[left] \in Desc  BY <2>4
  <2>6. n = [x EXCEPT !.page = [m.page EXCEPT ![gone] = e, ![left].ord = o + 1,
                                               ![left].buddyId = Parent(m.page[left].buddyId)]]
    BY <2>3, <2>4, ZenonT(40) DEF MemType
  <2>7. [m.page EXCEPT ![gone] = e, ![left].ord = o + 1, ![left].buddyId = Parent(m.page[left].buddyId)] = npg
    BY <2>4, <2>5 DEF Desc
  <2> QED BY <2>6, <2>7
<1>14. Located(left, o + 1, Parent(m.page[left].buddyId)) /\ o + 1 \in Ord
  <2> DEFINE j == m.page[left].buddyId
  <2>1. Located(left, o, j)  BY <1>1, <1>10, <1>11 DEF Nodes
  <2>2. j # 1 /\ j % 2 = 0  BY <1>11
  <2> HIDE DEF j, left, o
  <2> QED BY <2>1, <2>2, NodeParent DEF j
<1>15. /\ npg \in [Page -> Desc] /\ npg[left].ord = o + 1
       /\ npg[left].buddyId = Parent(m.page[left].buddyId)
       /\ \A q \in Page : q # left /\ q # gone => npg[q] = m.page[q]
  <2> DEFINE j == Parent(m.page[left].buddyId)
  <2>1. m.page \in [Page -> Desc] /\ left \in Page /\ gone \in Page /\ left # gone  BY <1>1, <1>4, <1>10 DEF MemType
  <2>2. j \in 0 .. 2^(MaxOrd + 1) - 1
    <3>1. Located(left, o + 1, j)  BY <1>14
    <3> HIDE DEF j, o, left
    <3>2. j \in 1 .. 2^(MaxOrd + 1) - 1  BY <3>1, NodeShape
    <3> QED BY <3>2
  <2>3. m.page[left] \in Desc /\ m.page[gone] \in Desc
    <3> HIDE DEF left, gone
    <3> QED BY <2>1
  <2>4. d = [m.page[left] EXCEPT !.ord = o + 1, !.buddyId = j]  BY <2>3 DEF Desc
  <2>5. d \in Desc /\ d.ord = o + 1 /\ d.buddyId = j
    <3> HIDE DEF d, j, left, o
    <3> QED BY <1>14, <2>2, <2>3, <2>4 DEF Desc
  <2>6. e \in Desc
    <3>1. SymDiff(m.page[gone].attr, {"HeadPage"}) \in SUBSET {"HeadPage", "Allocated", "MMU"}
      <4> HIDE DEF gone
      <4> QED BY <2>3 DEF Desc, SymDiff
    <3>2. 0 \in Ord  BY OrderAssumption DEF Ord
    <3>3. 0 \in 0 .. 2^(MaxOrd + 1) - 1
      <4> DEFINE M == 2^(MaxOrd + 1)
      <4>1. MaxOrd + 1 \in Nat  BY OrderAssumption
      <4>2. M \in Nat \ {0}  BY <4>1, PowType
      <4> HIDE DEF M
      <4>3. 0 \in 0 .. M - 1  BY <4>2
      <4> QED BY <4>3 DEF M
    <3> HIDE DEF gone
    <3> QED BY <3>1, <3>2, <3>3 DEF Desc
  <2> HIDE DEF d, e, j, left, gone, o
  <2>7. npg \in [Page -> Desc] /\ npg[left] = d /\ \A q \in Page : q # left /\ q # gone => npg[q] = m.page[q]
    BY <2>1, <2>5, <2>6
  <2> QED BY <2>5, <2>7 DEF j
<1>16. Nodes(npg, G \ {gone})
  <2>1. Joined(m.page, G, npg, left, gone)
    <3>1. m.page \in [Page -> Desc]  BY <1>1 DEF MemType
    <3> HIDE DEF npg, left, gone, o, G
    <3> QED BY <1>10, <1>11, <1>15, <3>1 DEF Joined
  <2> HIDE DEF npg, gone, left, G
  <2> QED BY <1>1, <2>1, JoinNodes
<1> HIDE DEF npg, d, e, x, l
<1>17. n.page = npg /\ n.free = x.free /\ n.bit = x.bit /\ n.usage = x.usage /\ n \in MemType
  BY <1>8, <1>13, <1>15 DEF MemType
<1> DEFINE K == (H \ {p}) \union {t}
<1>18. K = (H \union {b}) \ {gone} /\ b \notin H
  <2>1. b \notin H  BY <1>1, <1>3
  <2> HIDE DEF b, left, gone
  <2> QED BY <1>10, <1>12, <2>1
<1>19. (H \union {b}) \intersect FreeOf(x) = {}  BY <1>1, <1>9
<1>20. FreeOf(x) \union K = G \ {gone} /\ K \intersect FreeOf(x) = {}
  <2>1. FreeOf(x) \union (H \union {b}) = G  BY <1>3, <1>9
  <2>2. gone \notin FreeOf(x)  BY <1>9, <1>1
  <2> HIDE DEF K, gone, G, b
  <2> QED BY <1>18, <1>19, <2>1, <2>2
<1>21. \A q \in G : q # p /\ q # b => npg[q] = m.page[q]
  <2> HIDE DEF left, gone, G, b
  <2>1. \A q \in G : q # p /\ q # b => q # left /\ q # gone  BY <1>10
  <2> QED BY <1>4, <1>15, <2>1
<1>22. MemOK(n, K)
  <2>1. Nodes(n.page, FreeOf(x) \union K)  BY <1>16, <1>17, <1>20
  <2>2. \A q \in FreeOf(x) : q \in G /\ q # p /\ q # b
    <3>1. p \notin FreeOf(m)  BY <1>1
    <3> HIDE DEF b
    <3> QED BY <1>9, <3>1
  <2>3. \A q \in FreeOf(x) : n.page[q] = x.page[q]  BY <1>8, <1>17, <1>21, <2>2
  <2>4. \A q \in FreeOf(x) : n.page[q].ord = x.page[q].ord /\ n.page[q].buddyId = x.page[q].buddyId
    BY <2>3
  <2>5. n \in MemType /\ n.free = x.free /\ n.bit = x.bit  BY <1>17
  <2>6. K \intersect FreeOf(x) = {} /\ MemOK(x, H \union {b})  BY <1>9, <1>20
  <2> HIDE DEF K, b
  <2> QED BY <2>1, <2>4, <2>5, <2>6, PageStep
<1>23. t \notin H \ {p} /\ t \in Page
  <2> HIDE DEF b, left
  <2>1. t = p \/ t = b  BY <1>10, <1>12
  <2> QED BY <1>4, <1>18, <2>1
<1>24. \A q \in H \ {p} : n.page[q] = m.page[q]
  <2>1. \A q \in H \ {p} : q \in G /\ q # p /\ q # b  BY <1>18
  <2> HIDE DEF b, G
  <2> QED BY <1>17, <1>21, <2>1
<1>25. n.page[t].ord = o + 1 /\ n.usage = m.usage  BY <1>8, <1>12, <1>15, <1>17
<1> HIDE DEF K, b, o, x
<1> QED BY <1>22, <1>23, <1>24, <1>25 DEF Merged, K, o
-----------------------------------------------------------------------------
(* mm_freePages: s is the state of its loop at order i, see Give.          *)

\* The definitions local to Give: the loop's first state, and a turn.
ClimbStart(m, p, k) ==
    [mem |-> [m EXCEPT !.usage = @ - 2^k, !.page[p].attr = {"HeadPage"}],
     top |-> p, done |-> FALSE]

ClimbStep(s) ==
    LET f == RevBit(s.mem, s.top)
        b == GetBuddy(f, s.top) IN
    CASE s.done -> s
      [] ~s.done /\ GetBit(f, s.top) -> [s EXCEPT !.mem = f, !.done = TRUE]
      [] OTHER -> [s EXCEPT !.mem = Merge(f, s.top), !.top = IF b < @ THEN b ELSE @]

\* c is the recursive function Climb of Give, on the orders up to e.
IsClimb(c, m, p, k, e) ==
    c = [i \in k - 1 .. e |-> IF i < k THEN ClimbStart(m, p, k) ELSE ClimbStep(c[i - 1])]

\* It exists.
LEMMA ClimbExists ==
    ASSUME NEW m, NEW p, NEW k \in Nat, NEW e \in Nat, k - 1 <= e
    PROVE  \E c : IsClimb(c, m, p, k, e)
<1> DEFINE Bad == {n \in Nat : \A c : ~IsClimb(c, m, p, k, k - 1 + n)}
<1>1. Bad = {}
  <2> SUFFICES ASSUME Bad # {} PROVE FALSE  OBVIOUS
  <2>1. PICK n \in Bad : \A x \in Bad : n <= x
    <3>1. Bad \in SUBSET Nat  OBVIOUS
    <3> HIDE DEF Bad
    <3> QED BY <3>1, LeastOf
  <2>2. n \in Nat /\ \A c : ~IsClimb(c, m, p, k, k - 1 + n)  BY <2>1
  <2>3. n # 0
    <3> SUFFICES ASSUME n = 0 PROVE FALSE  OBVIOUS
    <3>1. k - 1 .. k - 1 + n = {k - 1} /\ k - 1 < k  OBVIOUS
    <3>2. IsClimb([i \in {k - 1} |-> ClimbStart(m, p, k)], m, p, k, k - 1 + n)  BY <3>1 DEF IsClimb
    <3> QED BY <2>2, <3>2
  <2>4. n - 1 \in Nat /\ ~(n <= n - 1)  BY <2>2, <2>3
  <2>5. n - 1 \notin Bad
    <3> HIDE DEF Bad
    <3> QED BY <2>1, <2>4
  <2>6. PICK f : IsClimb(f, m, p, k, k - 1 + (n - 1))  BY <2>4, <2>5
  <2> DEFINE b == k - 1 + n
             g == [i \in k - 1 .. b |-> IF i = b THEN ClimbStep(f[b - 1]) ELSE f[i]]
  <2>7. b \in Nat /\ k <= b /\ k - 1 + (n - 1) = b - 1 /\ k - 1 .. b = {b} \union k - 1 .. b - 1
    BY <2>2, <2>3
  <2> HIDE DEF b
  <2>8. \A i \in k - 1 .. b - 1 : f[i] = IF i < k THEN ClimbStart(m, p, k) ELSE ClimbStep(f[i - 1])
    BY <2>6, <2>7 DEF IsClimb
  <2>9. \A i \in k - 1 .. b : ~(i < k) => f[i - 1] = g[i - 1]
    <3> TAKE i \in k - 1 .. b
    <3> HAVE ~(i < k)
    <3>1. i - 1 \in k - 1 .. b /\ i - 1 # b  BY <2>7
    <3> QED BY <3>1
  <2>10. \A i \in k - 1 .. b : g[i] = IF i < k THEN ClimbStart(m, p, k) ELSE ClimbStep(f[i - 1])
    BY <2>7, <2>8
  <2> HIDE DEF g
  <2>11. \A i \in k - 1 .. b : g[i] = IF i < k THEN ClimbStart(m, p, k) ELSE ClimbStep(g[i - 1])
    BY <2>9, <2>10
  <2>12. g = [i \in k - 1 .. b |-> g[i]]  BY DEF g
  <2>13. IsClimb(g, m, p, k, b)  BY <2>11, <2>12 DEF IsClimb
  <2> QED BY <2>2, <2>13 DEF b
<1>2. e - (k - 1) \in Nat /\ k - 1 + (e - (k - 1)) = e  OBVIOUS
<1>3. \E c : IsClimb(c, m, p, k, k - 1 + (e - (k - 1)))  BY <1>1, <1>2
<1> QED BY <1>2, <1>3

\* The loop's invariant; K are the other taken groups.  When the loop is
\* done, the bit is that of a group which is not yet on its list.
LoopType == [mem : MemType, top : Page, done : BOOLEAN]
Up(s, m, K, u, i) ==
    /\ s \in LoopType /\ s.top \notin K
    /\ \A q \in K : s.mem.page[q] = m.page[q]
    /\ s.mem.usage = u
    /\ ~s.done => MemOK(s.mem, K \union {s.top}) /\ s.mem.page[s.top].ord = i + 1
    /\ s.done => \E pre : /\ MemOK(pre, K \union {s.top}) /\ s.mem = RevBit(pre, s.top)
                          /\ IsRoot(pre, s.top) \/ Pair(pre, s.top) \notin pre.bit

\* It holds where the loop begins,
LEMMA UpStart ==
    ASSUME NEW m, NEW H, MemOK(m, H), NEW p \in H, NEW k, k = m.page[p].ord
    PROVE  Up(ClimbStart(m, p, k), m, H \ {p}, m.usage - 2^k, k - 1)
<1> DEFINE n == [m EXCEPT !.usage = @ - 2^k, !.page[p].attr = {"HeadPage"}]
           u == m.usage - 2^k
           pg == [m.page EXCEPT ![p].attr = {"HeadPage"}]
<1>1. m \in MemType /\ Nodes(m.page, FreeOf(m) \union H) /\ H \intersect FreeOf(m) = {}
      /\ m.page \in [Page -> Desc] /\ m.usage \in Int
  BY DEF MemOK, MemType
<1>2. k \in Nat /\ p \in Page  BY <1>1, CellShape
<1>3. u \in Int
  <2>1. 2^k \in Nat  BY <1>2, PowType
  <2> QED BY <1>1, <2>1
<1>4. pg \in [Page -> Desc] /\ \A q \in Page : pg[q].ord = m.page[q].ord /\ pg[q].buddyId = m.page[q].buddyId
  <2>1. m.page[p] \in Desc  BY <1>1, <1>2
  <2>2. [m.page[p] EXCEPT !.attr = {"HeadPage"}] \in Desc  BY <2>1 DEF Desc
  <2>3. [m.page[p] EXCEPT !.attr = {"HeadPage"}].ord = m.page[p].ord
        /\ [m.page[p] EXCEPT !.attr = {"HeadPage"}].buddyId = m.page[p].buddyId
    BY <2>1 DEF Desc
  <2> QED BY <1>1, <1>2, <2>2, <2>3
<1>5. \A q \in H \ {p} : pg[q] = m.page[q]
  <2>1. H \subseteq Page  BY <1>1 DEF Nodes
  <2> QED BY <1>1, <2>1
<1>6. n = [m EXCEPT !.usage = u, !.page = pg]  BY <1>1 DEF MemType
<1>7. n = ClimbStart(m, p, k).mem /\ ClimbStart(m, p, k).top = p /\ ClimbStart(m, p, k).done = FALSE
  BY DEF ClimbStart
<1> HIDE DEF n, u, pg
<1>8. n.page = pg /\ n.free = m.free /\ n.bit = m.bit /\ n.usage = u /\ n \in MemType
  BY <1>1, <1>3, <1>4, <1>6 DEF MemType
<1>9. MemOK(n, H)
  <2>1. FreeOf(m) \union H \subseteq Page  BY <1>1 DEF Nodes
  <2>2. Nodes(n.page, FreeOf(m) \union H)
    BY <1>1, <1>4, <1>8, <2>1 DEF Nodes, Cell
  <2>3. \A q \in FreeOf(m) : n.page[q].ord = m.page[q].ord /\ n.page[q].buddyId = m.page[q].buddyId
    BY <1>4, <1>8, <2>1
  <2> QED BY <1>1, <1>8, <2>2, <2>3, PageStep
<1>10. (H \ {p}) \union {p} = H  OBVIOUS
<1>11. n.page[p].ord = (k - 1) + 1  BY <1>2, <1>4, <1>8
<1>12. ClimbStart(m, p, k) \in LoopType
  <2>1. ClimbStart(m, p, k) = [mem |-> n, top |-> p, done |-> FALSE]  BY DEF ClimbStart, n
  <2> QED BY <1>2, <1>8, <2>1 DEF LoopType
<1>13. n.usage = m.usage - 2^k  BY <1>8 DEF u
<1> DEFINE s == ClimbStart(m, p, k)
<1> HIDE DEF s
<1>14. /\ s \in LoopType /\ s.top \notin H \ {p} /\ ~s.done
       /\ \A q \in H \ {p} : s.mem.page[q] = m.page[q]
       /\ s.mem.usage = m.usage - 2^k
       /\ MemOK(s.mem, (H \ {p}) \union {s.top}) /\ s.mem.page[s.top].ord = (k - 1) + 1
  BY <1>5, <1>7, <1>8, <1>9, <1>10, <1>11, <1>12, <1>13 DEF s
<1>15. Up(s, m, H \ {p}, m.usage - 2^k, k - 1)  BY <1>14 DEF Up
<1> QED BY <1>15 DEF s

\* a turn keeps it,
LEMMA UpStep ==
    ASSUME NEW s, NEW m, NEW K, NEW u, NEW i, Up(s, m, K, u, i), i + 1 \in Nat
    PROVE  Up(ClimbStep(s), m, K, u, i + 1)
<1> DEFINE mem == s.mem
           p == s.top
           f == RevBit(mem, p)
           b == GetBuddy(f, p)
           H == K \union {p}
<1>1. /\ s \in LoopType /\ mem \in MemType /\ p \in Page /\ s.done \in BOOLEAN /\ p \notin K
      /\ \A q \in K : mem.page[q] = m.page[q]
      /\ mem.usage = u
  BY DEF Up, LoopType
<1>2. CASE s.done
  <2>1. ClimbStep(s) = s  BY <1>2 DEF ClimbStep
  <2>2. Up(s, m, K, u, i + 1)  BY <1>2 DEF Up
  <2> QED BY <2>1, <2>2
<1>3. CASE ~s.done
  <2>1. MemOK(mem, H) /\ mem.page[p].ord = i + 1 /\ p \in H  BY <1>3 DEF Up
  <2>2. /\ f \in MemType /\ f.page = mem.page /\ f.free = mem.free /\ f.usage = mem.usage
        /\ f.bit = IF IsRoot(mem, p) THEN mem.bit
                   ELSE IF Pair(mem, p) \in mem.bit THEN mem.bit \ {Pair(mem, p)}
                   ELSE mem.bit \union {Pair(mem, p)}
        /\ IsRoot(f, p) <=> IsRoot(mem, p)
        /\ Pair(f, p) = Pair(mem, p) /\ b = GetBuddy(mem, p)
    <3> HIDE DEF mem, p, H
    <3>1. Reversed(mem, p, f)  BY <2>1, RevMem
    <3> HIDE DEF f
    <3> QED BY <3>1 DEF Reversed
  <2>3. CASE GetBit(f, p)
    <3> DEFINE t == [s EXCEPT !.mem = f, !.done = TRUE]
    <3>1. ClimbStep(s) = t  BY <1>3, <2>3 DEF ClimbStep
    <3>2. IsRoot(mem, p) \/ Pair(mem, p) \notin mem.bit
      <4>1. IsRoot(f, p) \/ Pair(f, p) \in f.bit  BY <2>3 DEF GetBit
      <4> HIDE DEF f, mem, p
      <4> QED BY <2>2, <4>1
    <3>3. f = RevBit(mem, p)  OBVIOUS
    <3> HIDE DEF f
    <3>4. t \in LoopType /\ t.mem = f /\ t.top = p /\ t.done = TRUE  BY <1>1, <2>2 DEF LoopType
    <3> HIDE DEF t, mem, p
    <3>5. \E pre : /\ MemOK(pre, K \union {t.top}) /\ t.mem = RevBit(pre, t.top)
                   /\ IsRoot(pre, t.top) \/ Pair(pre, t.top) \notin pre.bit
      BY <2>1, <3>2, <3>3, <3>4
    <3>6. t.top \notin K /\ (\A q \in K : t.mem.page[q] = m.page[q]) /\ t.mem.usage = u
      BY <1>1, <2>2, <3>4
    <3> QED BY <3>1, <3>4, <3>5, <3>6 DEF Up
  <2>4. CASE ~GetBit(f, p)
    <3> DEFINE n == Merge(f, p)
               l == IF b < p THEN b ELSE p
               t == [s EXCEPT !.mem = n, !.top = l]
    <3>1. ClimbStep(s) = t  BY <1>3, <2>4 DEF ClimbStep
    <3>2. ~IsRoot(mem, p) /\ Pair(mem, p) \in mem.bit
      <4>1. ~IsRoot(f, p) /\ Pair(f, p) \notin f.bit  BY <2>4 DEF GetBit
      <4> HIDE DEF f, mem, p
      <4> QED BY <2>2, <4>1
    <3>3. /\ MemOK(n, (H \ {p}) \union {l}) /\ l \notin H \ {p} /\ l \in Page
          /\ n.page[l].ord = mem.page[p].ord + 1 /\ n.usage = mem.usage
          /\ \A q \in H \ {p} : n.page[q] = mem.page[q]
      <4>1. f = RevBit(mem, p) /\ n = Merge(f, p) /\ l = IF GetBuddy(f, p) < p THEN GetBuddy(f, p) ELSE p
        OBVIOUS
      <4> HIDE DEF f, n, l, mem, p, H, b
      <4>2. Merged(mem, H, p, n, l)  BY <2>1, <3>2, <4>1, MergeMem
      <4> QED BY <4>2 DEF Merged
    <3>4. H \ {p} = K  BY <1>1
    <3> HIDE DEF n, l
    <3>5. n \in MemType  BY <3>3 DEF MemOK
    <3>6. t \in LoopType /\ t.mem = n /\ t.top = l /\ t.done = s.done  BY <1>1, <3>3, <3>5 DEF LoopType
    <3> HIDE DEF t, mem, p, H, f, b
    <3>7. t.top \notin K /\ (\A q \in K : t.mem.page[q] = m.page[q]) /\ t.mem.usage = u /\ ~t.done
      BY <1>1, <1>3, <3>3, <3>4, <3>6
    <3>8. MemOK(t.mem, K \union {t.top}) /\ t.mem.page[t.top].ord = (i + 1) + 1
      BY <2>1, <3>3, <3>4, <3>6
    <3> QED BY <3>1, <3>6, <3>7, <3>8 DEF Up
  <2> QED BY <2>3, <2>4
<1> QED BY <1>2, <1>3

\* The group that the loop leaves goes on top of its list.
Top(s) == [s.mem EXCEPT !.free[s.mem.page[s.top].ord] = <<s.top>> \o @]

\* and at its end the group that is left is put on its free list.
LEMMA UpEnd ==
    ASSUME NEW s, NEW m, NEW K, NEW u, Up(s, m, K, u, MaxOrd), NEW n, n = Top(s)
    PROVE  MemOK(n, K) /\ n.usage = u /\ \A q \in K : n.page[q] = m.page[q]
<1> DEFINE p == s.top
           H == K \union {p}
           mem == s.mem
<1>1. s.done
  <2> SUFFICES ASSUME ~s.done PROVE FALSE  OBVIOUS
  <2>1. MemOK(mem, H) /\ mem.page[p].ord = MaxOrd + 1 /\ p \in H  BY DEF Up
  <2>2. Nodes(mem.page, FreeOf(mem) \union H)  BY <2>1 DEF MemOK
  <2> HIDE DEF mem, p, H
  <2>3. mem.page[p].ord \in Ord  BY <2>1, <2>2, CellShape
  <2> QED BY <2>1, <2>3, OrderAssumption DEF Ord
<1>2. /\ s \in LoopType /\ p \in Page /\ p \notin K
      /\ \A q \in K : mem.page[q] = m.page[q]
      /\ mem.usage = u
      /\ \E pre : /\ MemOK(pre, H) /\ mem = RevBit(pre, p)
                  /\ IsRoot(pre, p) \/ Pair(pre, p) \notin pre.bit
  BY <1>1 DEF Up, LoopType
<1>3. PICK pre : /\ MemOK(pre, H) /\ mem = RevBit(pre, p)
                 /\ IsRoot(pre, p) \/ Pair(pre, p) \notin pre.bit
  BY <1>2
<1>4. n = [mem EXCEPT !.free[mem.page[p].ord] = <<p>> \o @]  BY DEF Top
<1>5. p \in H /\ H \ {p} = K  BY <1>2
<1> HIDE DEF p, H, mem
<1>6. /\ mem \in MemType /\ mem.page = pre.page /\ mem.free = pre.free /\ mem.usage = pre.usage
      /\ mem.bit = IF IsRoot(pre, p) THEN pre.bit
                   ELSE IF Pair(pre, p) \in pre.bit THEN pre.bit \ {Pair(pre, p)}
                   ELSE pre.bit \union {Pair(pre, p)}
  <2>1. Reversed(pre, p, RevBit(pre, p))  BY <1>3, <1>5, RevMem
  <2> QED BY <1>3, <2>1 DEF Reversed
<1> DEFINE o == pre.page[p].ord
           l == <<p>> \o pre.free[o]
           y == [pre.free EXCEPT ![o] = l]
<1>7. o \in Ord /\ p \notin FreeOf(pre)
  <2>1. Nodes(pre.page, FreeOf(pre) \union H) /\ H \intersect FreeOf(pre) = {}  BY <1>3 DEF MemOK
  <2> QED BY <1>5, <2>1, CellShape
<1>8. pre.free \in [Ord -> Seq(Page)] /\ pre.free[o] \in Seq(Page) /\ IsInjective(pre.free[o]) /\ p \notin ToSet(pre.free[o])
  BY <1>3, <1>7 DEF MemOK, MemType, Lists, FreeOf
<1> HIDE DEF o
<1>9. l \in Seq(Page) /\ IsInjective(l) /\ ToSet(l) = ToSet(pre.free[o]) \union {p}
  BY <1>2, <1>8, PrependOne
<1> HIDE DEF l
<1>10. y \in [Ord -> Seq(Page)]  BY <1>7, <1>8, <1>9
<1>11. n = [mem EXCEPT !.free = y]
  <2>1. n = [mem EXCEPT !.free = [mem.free EXCEPT ![o] = <<p>> \o mem.free[o]]]
    BY <1>4, <1>6 DEF MemType, o
  <2> QED BY <1>6, <2>1 DEF l
<1> HIDE DEF y
<1>12. /\ n.page = pre.page /\ n.free = y /\ n.bit = mem.bit /\ n.usage = mem.usage /\ n \in MemType
  BY <1>6, <1>10, <1>11 DEF MemType
<1>13. n.bit = (IF IsRoot(pre, p) THEN pre.bit ELSE pre.bit \union {Pair(pre, p)})
       /\ (~IsRoot(pre, p) => Pair(pre, p) \notin pre.bit)
  BY <1>3, <1>6, <1>12
<1>14. n.free = [pre.free EXCEPT ![o] = l] /\ o = pre.page[p].ord  BY <1>12 DEF y, o
<1>15. MemOK(n, H \ {p})
  BY <1>3, <1>5, <1>7, <1>9, <1>12, <1>13, <1>14, AddMem
<1> QED BY <1>2, <1>5, <1>6, <1>12, <1>15

\* mm_freePages: the group becomes free, the other taken groups keep their
\* descriptors.
LEMMA GiveMem ==
    ASSUME NEW m, NEW H, MemOK(m, H), NEW p \in H, NEW n, n = Give(m, p)
    PROVE  /\ MemOK(n, H \ {p}) /\ n.usage = m.usage - 2^m.page[p].ord
           /\ \A q \in H \ {p} : n.page[q] = m.page[q]
<1> DEFINE k == m.page[p].ord
           c == CHOOSE f : IsClimb(f, m, p, k, MaxOrd)
           K == H \ {p}
           u == m.usage - 2^k
<1>1. k \in Nat /\ k <= MaxOrd /\ MaxOrd \in Nat
  <2>1. Nodes(m.page, FreeOf(m) \union H)  BY DEF MemOK
  <2>2. k \in Ord /\ k \in Nat  BY <2>1, CellShape
  <2> HIDE DEF k
  <2> QED BY <2>2, OrderAssumption DEF Ord
<1>2. n = Top(c[MaxOrd])
  BY DEF Give, IsClimb, ClimbStart, ClimbStep, Top
<1>3. Up(ClimbStart(m, p, k), m, K, u, k - 1)
  <2>1. k = m.page[p].ord  OBVIOUS
  <2> HIDE DEF k
  <2> QED BY <2>1, UpStart
<1> HIDE DEF k
<1>4. IsClimb(c, m, p, k, MaxOrd)
  <2>1. k - 1 <= MaxOrd  BY <1>1
  <2>2. \E f : IsClimb(f, m, p, k, MaxOrd)  BY <1>1, <2>1, ClimbExists
  <2> QED BY <2>2
<1> HIDE DEF c, u, K
<1>5. \A i \in k - 1 .. MaxOrd : c[i] = IF i < k THEN ClimbStart(m, p, k) ELSE ClimbStep(c[i - 1])
  BY <1>4 DEF IsClimb
<1> DEFINE Bad == {d \in Nat : k - 1 + d <= MaxOrd /\ ~Up(c[k - 1 + d], m, K, u, k - 1 + d)}
<1>6. Bad = {}
  <2> SUFFICES ASSUME Bad # {} PROVE FALSE  OBVIOUS
  <2>1. PICK d \in Bad : \A x \in Bad : d <= x
    <3>1. Bad \in SUBSET Nat  OBVIOUS
    <3> HIDE DEF Bad
    <3> QED BY <3>1, LeastOf
  <2>2. d \in Nat /\ k - 1 + d <= MaxOrd /\ ~Up(c[k - 1 + d], m, K, u, k - 1 + d)  BY <2>1
  <2>3. d # 0
    <3> SUFFICES ASSUME d = 0 PROVE FALSE  OBVIOUS
    <3>1. k - 1 + d = k - 1 /\ k - 1 \in k - 1 .. MaxOrd /\ k - 1 < k  BY <1>1
    <3>2. c[k - 1] = ClimbStart(m, p, k)  BY <1>5, <3>1
    <3> QED BY <1>3, <2>2, <3>1, <3>2
  <2>4. d - 1 \in Nat /\ ~(d <= d - 1) /\ k - 1 + (d - 1) <= MaxOrd  BY <1>1, <2>2, <2>3
  <2>5. d - 1 \notin Bad
    <3> HIDE DEF Bad
    <3> QED BY <2>1, <2>4
  <2>6. Up(c[k - 1 + (d - 1)], m, K, u, k - 1 + (d - 1))  BY <2>4, <2>5
  <2> DEFINE i == k - 1 + (d - 1)
  <2>7. i + 1 = k - 1 + d /\ i + 1 \in k - 1 .. MaxOrd /\ ~(i + 1 < k) /\ (i + 1) - 1 = i /\ i + 1 \in Nat
    BY <1>1, <2>2, <2>3
  <2>8. Up(c[i], m, K, u, i)  BY <2>6
  <2> HIDE DEF i
  <2>9. c[i + 1] = ClimbStep(c[i])  BY <1>5, <2>7
  <2>10. Up(ClimbStep(c[i]), m, K, u, i + 1)  BY <2>7, <2>8, UpStep
  <2> QED BY <2>2, <2>7, <2>9, <2>10
<1>7. Up(c[MaxOrd], m, K, u, MaxOrd)
  <2>1. MaxOrd - (k - 1) \in Nat /\ k - 1 + (MaxOrd - (k - 1)) = MaxOrd  BY <1>1
  <2>2. MaxOrd - (k - 1) \notin Bad  BY <1>6
  <2> QED BY <1>1, <2>1, <2>2
<1>8. MemOK(n, K) /\ n.usage = u /\ \A q \in K : n.page[q] = m.page[q]  BY <1>2, <1>7, UpEnd
<1> QED BY <1>8 DEF K, u, k
-----------------------------------------------------------------------------
(* The pages of several groups.                                            *)

\* The pages of some groups.
Area(pg, S) == UNION {Cell(pg, p) : p \in S}

\* The memory given to the allocator is finite.
LEMMA PageFinite == IsFiniteSet(Page)
<1> USE ZoneAssumption
<1> DEFINE f == [z \in Zones |-> z[1] .. z[2] - 1]
           T == {z[1] .. z[2] - 1 : z \in Zones}
<1>1. f \in Surjection(Zones, T)
  <2>1. f \in [Zones -> T]  OBVIOUS
  <2>2. \A t \in T : \E z \in Zones : f[z] = t  OBVIOUS
  <2> QED BY <2>1, <2>2, Fun_IsSurj
<1>2. IsFiniteSet(T)  BY <1>1, FS_Surjection
<1>3. \A t \in T : IsFiniteSet(t)
  <2> TAKE t \in T
  <2>1. PICK z \in Zones : t = z[1] .. z[2] - 1  OBVIOUS
  <2>2. z[1] \in Int /\ z[2] - 1 \in Int  OBVIOUS
  <2> QED BY <2>1, <2>2, FS_Interval
<1> HIDE DEF T
<1>4. IsFiniteSet(UNION T)  BY <1>2, <1>3, FS_UNION
<1> QED BY <1>4 DEF Page, T

\* One group more adds its pages to the count.
LEMMA AreaAdd ==
    ASSUME NEW pg, NEW G, Nodes(pg, G), NEW S, S \subseteq G, NEW p, p \in G, p \notin S
    PROVE  /\ IsFiniteSet(Area(pg, S)) /\ Cardinality(Area(pg, S)) \in Nat
           /\ Cardinality(Area(pg, S \union {p})) = Cardinality(Area(pg, S)) + 2^pg[p].ord
<1> DEFINE A == Area(pg, S)
           C == Cell(pg, p)
           x == 2^pg[p].ord
<1>1. A \subseteq Page
  <2>1. \A q \in S : Cell(pg, q) \subseteq Page  BY CellShape
  <2> QED BY <2>1 DEF Area
<1>2. IsFiniteSet(A)  BY <1>1, PageFinite, FS_Subset
<1>3. C = p .. p + x - 1 /\ x \in Nat \ {0} /\ p \in Nat  BY CellShape
<1>4. IsFiniteSet(C) /\ Cardinality(C) = x
  <2> HIDE DEF x, C
  <2>1. p \in Int /\ p + x - 1 \in Int  BY <1>3
  <2>2. IsFiniteSet(p .. p + x - 1) /\ Cardinality(p .. p + x - 1) = IF p > p + x - 1 THEN 0 ELSE (p + x - 1) - p + 1
    BY <2>1, FS_Interval
  <2> QED BY <1>3, <2>2
<1>5. A \intersect C = {}
  <2>1. \A q \in S : Cell(pg, q) \intersect C = {}  BY DEF Nodes
  <2> QED BY <2>1 DEF Area
<1>6. Area(pg, S \union {p}) = A \union C  BY DEF Area
<1> HIDE DEF A, C, x
<1>7. Cardinality(A \union C) = Cardinality(A) + Cardinality(C) - Cardinality(A \intersect C)
  BY <1>2, <1>4, FS_Union
<1>8. Cardinality(A \intersect C) = 0  BY <1>5, FS_EmptySet
<1>9. Cardinality(A) \in Nat  BY <1>2, FS_CardinalityType
<1>10. Cardinality(A \union C) = Cardinality(A) + x  BY <1>3, <1>4, <1>7, <1>8, <1>9
<1> QED BY <1>2, <1>6, <1>9, <1>10 DEF A, x

\* Descriptors with the same orders have the same pages.
LEMMA AreaSame ==
    ASSUME NEW pg, NEW n, NEW S, \A q \in S : n[q].ord = pg[q].ord
    PROVE  Area(n, S) = Area(pg, S)
<1>1. \A q \in S : Cell(n, q) = Cell(pg, q)  BY DEF Cell
<1> QED BY <1>1 DEF Area

\* There are at least as many pages as groups.
LEMMA AreaCount ==
    ASSUME NEW pg, NEW G, Nodes(pg, G), NEW S, S \subseteq G
    PROVE  /\ IsFiniteSet(S) /\ IsFiniteSet(Area(pg, S))
           /\ Cardinality(S) <= Cardinality(Area(pg, S))
           /\ Cardinality(S) \in Nat /\ Cardinality(Area(pg, S)) \in Nat
           /\ Cardinality(Area(pg, S)) = 0 <=> S = {}
<1>1. S \subseteq Area(pg, S)
  <2>1. \A q \in S : q \in Cell(pg, q)  BY CellShape
  <2> QED BY <2>1 DEF Area
<1>2. Area(pg, S) \subseteq Page
  <2>1. \A q \in S : Cell(pg, q) \subseteq Page  BY CellShape
  <2> QED BY <2>1 DEF Area
<1>3. IsFiniteSet(Area(pg, S))  BY <1>2, PageFinite, FS_Subset
<1>4. IsFiniteSet(S) /\ Cardinality(S) <= Cardinality(Area(pg, S))  BY <1>1, <1>3, FS_Subset
<1>5. Cardinality(S) \in Nat /\ Cardinality(Area(pg, S)) \in Nat  BY <1>3, <1>4, FS_CardinalityType
<1>6. S = {} => Area(pg, S) = {}  BY DEF Area
<1>7. Cardinality(Area(pg, S)) = 0 <=> Area(pg, S) = {}  BY <1>3, FS_EmptySet
<1>8. Cardinality(Area(pg, S)) = 0 <=> S = {}  BY <1>1, <1>6, <1>7
<1> QED BY <1>3, <1>4, <1>5, <1>8

-----------------------------------------------------------------------------
(* mm_map_allocTbl: s is the state of the loop of CutTop.                  *)

\* A turn of the loop of mm_map_allocTbl.
CutStep(s) ==
    [page  |-> DivPageGrp(s.page, Last(s.stack)),
     stack |-> Append(s.stack, Right(s.page, Last(s.stack)))]

\* f is the recursive function Turn of CutTop, on the orders from b on.
IsTurn(f, a, b, o) == f = [i \in b .. o |-> IF i = o THEN a ELSE CutStep(f[i + 1])]

\* It exists.
LEMMA TurnExists ==
    ASSUME NEW a, NEW o \in Nat
    PROVE  \E f : IsTurn(f, a, 0, o)
<1> DEFINE Bad == {n \in Nat : n <= o /\ \A f : ~IsTurn(f, a, o - n, o)}
<1>1. Bad = {}
  <2> SUFFICES ASSUME Bad # {} PROVE FALSE  OBVIOUS
  <2>1. PICK n \in Bad : \A x \in Bad : n <= x
    <3>1. Bad \in SUBSET Nat  OBVIOUS
    <3> HIDE DEF Bad
    <3> QED BY <3>1, LeastOf
  <2>2. n \in Nat /\ n <= o /\ \A f : ~IsTurn(f, a, o - n, o)  BY <2>1
  <2>3. n # 0
    <3> SUFFICES ASSUME n = 0 PROVE FALSE  OBVIOUS
    <3>1. o - n .. o = {o}  OBVIOUS
    <3>2. IsTurn([i \in {o} |-> a], a, o - n, o)  BY <3>1 DEF IsTurn
    <3> QED BY <2>2, <3>2
  <2>4. n - 1 \in Nat /\ n - 1 <= o /\ ~(n <= n - 1)  BY <2>2, <2>3
  <2>5. n - 1 \notin Bad
    <3> HIDE DEF Bad
    <3> QED BY <2>1, <2>4
  <2>6. PICK f : IsTurn(f, a, o - (n - 1), o)  BY <2>4, <2>5
  <2> DEFINE b == o - n
             g == [i \in b .. o |-> IF i = b THEN CutStep(f[b + 1]) ELSE f[i]]
  <2>7. b \in Nat /\ b < o /\ o - (n - 1) = b + 1 /\ b .. o = {b} \union b + 1 .. o
    BY <2>2, <2>3
  <2> HIDE DEF b
  <2>8. \A i \in b + 1 .. o : f[i] = IF i = o THEN a ELSE CutStep(f[i + 1])  BY <2>6, <2>7 DEF IsTurn
  <2>9. \A i \in b .. o : i # o => f[i + 1] = g[i + 1]
    <3> TAKE i \in b .. o
    <3> HAVE i # o
    <3>1. i + 1 \in b .. o /\ i + 1 # b  BY <2>7
    <3> QED BY <3>1
  <2>10. \A i \in b .. o : g[i] = IF i = o THEN a ELSE CutStep(f[i + 1])
    BY <2>7, <2>8
  <2> HIDE DEF g
  <2>11. \A i \in b .. o : g[i] = IF i = o THEN a ELSE CutStep(g[i + 1])  BY <2>9, <2>10
  <2>12. g = [i \in b .. o |-> g[i]]  BY DEF g
  <2>13. IsTurn(g, a, b, o)  BY <2>11, <2>12 DEF IsTurn
  <2> QED BY <2>2, <2>13 DEF b
<1>2. o \in Nat /\ o - o = 0 /\ o <= o  OBVIOUS
<1>3. \E f : IsTurn(f, a, o - o, o)  BY <1>1, <1>2
<1> QED BY <1>2, <1>3

\* Where the loop is at order i; K are the other taken groups, A the stock's
\* pages before.
CutOK(s, m, K, A, i) ==
    /\ MemOK(With(m, s.page), K \union ToSet(s.stack))
    /\ s.page \in [Page -> Desc] /\ K \intersect ToSet(s.stack) = {}
    /\ s.stack \in Seq(Page) /\ IsInjective(s.stack) /\ s.stack # <<>>
    /\ \A q \in K : s.page[q] = m.page[q]
    /\ s.page[Last(s.stack)].ord = i
    /\ Area(s.page, ToSet(s.stack)) = A

\* A turn keeps it.
LEMMA CutGoes ==
    ASSUME NEW s, NEW m, NEW K, NEW A, NEW i, CutOK(s, m, K, A, i + 1), i \in Nat, m \in MemType
    PROVE  CutOK(CutStep(s), m, K, A, i)
<1> DEFINE p == Last(s.stack)
           n == With(m, s.page)
           r == Right(s.page, p)
           d == DivPageGrp(s.page, p)
           S == ToSet(s.stack)
           t == CutStep(s)
           w == With(m, d)
<1>1. /\ MemOK(n, K \union S) /\ s.page \in [Page -> Desc] /\ K \intersect S = {}
      /\ s.stack \in Seq(Page) /\ IsInjective(s.stack) /\ s.stack # <<>>
      /\ \A q \in K : s.page[q] = m.page[q]
      /\ s.page[p].ord = i + 1 /\ Area(s.page, S) = A
  BY DEF CutOK
<1>2. p \in S  BY <1>1, FrontOne
<1>3. n.page = s.page /\ n \in MemType  BY <1>1 DEF With, MemType
<1>4. w = With(n, DivPageGrp(n.page, p)) /\ r = Right(n.page, p)
  <2>1. w = [m EXCEPT !.page = d]  BY DEF With
  <2>2. n = [m EXCEPT !.page = s.page]  BY DEF With
  <2>3. d = DivPageGrp(n.page, p) /\ r = Right(n.page, p)  BY <1>3
  <2> HIDE DEF d, w, n, p, r
  <2>4. [n EXCEPT !.page = d] = [m EXCEPT !.page = d]  BY <2>2 DEF MemType
  <2> QED BY <2>1, <2>3, <2>4 DEF With
<1>5. i + 1 # 0 /\ (i + 1) - 1 = i  OBVIOUS
<1>6. /\ MemOK(w, (K \union S) \union {r})
      /\ r \in Page /\ r \notin K \union S /\ r # p
      /\ w.page = d
      /\ \A q \in Page : q # p /\ q # r => w.page[q] = n.page[q]
      /\ w.page[r].ord = n.page[p].ord - 1
      /\ Cell(n.page, p) = Cell(w.page, p) \union Cell(w.page, r)
  <2>1. p \in K \union S /\ n.page[p].ord # 0  BY <1>1, <1>2, <1>3, <1>5
  <2>2. d = DivPageGrp(n.page, p)  BY <1>3
  <2> HIDE DEF w, n, p, r, S, d
  <2>3. DividedMem(n, K \union S, p, w, r)  BY <1>1, <1>4, <2>1, DivMem
  <2> QED BY <2>2, <2>3 DEF DividedMem
<1>7. t.page = d /\ t.stack = Append(s.stack, r)  BY DEF CutStep
<1>8. w \in MemType /\ d \in [Page -> Desc] /\ K \union S \subseteq Page
  <2>1. w \in MemType /\ Nodes(n.page, FreeOf(n) \union (K \union S))  BY <1>1, <1>6 DEF MemOK
  <2>2. w.page \in [Page -> Desc]
    <3> HIDE DEF w
    <3> QED BY <2>1 DEF MemType
  <2> HIDE DEF w, d, n, S
  <2> QED BY <1>6, <2>1, <2>2 DEF Nodes
<1>9. /\ t.stack \in Seq(Page) /\ IsInjective(t.stack) /\ t.stack # <<>>
      /\ ToSet(t.stack) = S \union {r} /\ Last(t.stack) = r
  <2> HIDE DEF r, t
  <2> QED BY <1>1, <1>6, <1>7, AppendOne
<1> HIDE DEF t, w, n, p, r, d, S
<1>10. With(m, t.page) = w  BY <1>7 DEF w
<1>11. MemOK(With(m, t.page), K \union ToSet(t.stack))
  <2>1. (K \union S) \union {r} = K \union ToSet(t.stack)  BY <1>9
  <2> QED BY <1>6, <1>10, <2>1
<1>12. K \intersect ToSet(t.stack) = {}  BY <1>1, <1>6, <1>9
<1>13. \A q \in K : t.page[q] = m.page[q]
  <2>1. \A q \in K : q \in Page /\ q # p /\ q # r  BY <1>1, <1>2, <1>6, <1>8
  <2> QED BY <1>1, <1>3, <1>6, <1>7, <2>1
<1>14. t.page[Last(t.stack)].ord = i  BY <1>1, <1>3, <1>5, <1>6, <1>7, <1>9
<1>15. Area(t.page, ToSet(t.stack)) = A
  <2>1. \A q \in S : q # p => Cell(d, q) = Cell(s.page, q)
    <3>1. \A q \in S : q \in Page /\ q # r  BY <1>6, <1>8
    <3> QED BY <1>3, <1>6, <3>1 DEF Cell
  <2>2. Cell(s.page, p) = Cell(d, p) \union Cell(d, r)  BY <1>3, <1>6
  <2>3. Area(d, S \union {r}) = Area(s.page, S)  BY <1>2, <2>1, <2>2 DEF Area
  <2> QED BY <1>1, <1>7, <1>9, <2>3
<1>16. t.page \in [Page -> Desc]  BY <1>7, <1>8
<1>17. CutOK(t, m, K, A, i)  BY <1>9, <1>11, <1>12, <1>13, <1>14, <1>15, <1>16 DEF CutOK
<1> QED BY <1>17 DEF t

\* The stock's last group is cut down to a page; the groups of others and the
\* pages in the stock stay the same.
LEMMA CutMem ==
    ASSUME NEW m, NEW K, NEW stack, MemOK(m, K \union ToSet(stack)), K \intersect ToSet(stack) = {},
           stack \in Seq(Page), IsInjective(stack), stack # <<>>
    PROVE  CutOK(CutTop(m.page, stack), m, K, Area(m.page, ToSet(stack)), 0)
<1> DEFINE o == m.page[Last(stack)].ord
           a == [page |-> m.page, stack |-> stack]
           f == CHOOSE g : IsTurn(g, a, 0, o)
           A == Area(m.page, ToSet(stack))
<1>1. m \in MemType /\ m.page \in [Page -> Desc]  BY DEF MemOK, MemType
<1>2. o \in Nat
  <2>1. Nodes(m.page, FreeOf(m) \union (K \union ToSet(stack)))  BY DEF MemOK
  <2>2. Last(stack) \in FreeOf(m) \union (K \union ToSet(stack))  BY FrontOne
  <2> HIDE DEF o
  <2> QED BY <2>1, <2>2, CellShape DEF o
<1>3. CutTop(m.page, stack) = f[0]  BY DEF CutTop, IsTurn, CutStep
<1>4. a.page = m.page /\ a.stack = stack  OBVIOUS
<1>5. With(m, m.page) = m  BY <1>1 DEF With, MemType
<1>6. CutOK(a, m, K, A, o)
  <2> HIDE DEF a, A
  <2> QED BY <1>1, <1>4, <1>5 DEF CutOK, A
<1> HIDE DEF o, a, A
<1>7. IsTurn(f, a, 0, o)
  <2>1. \E g : IsTurn(g, a, 0, o)  BY <1>2, TurnExists
  <2> QED BY <2>1
<1> HIDE DEF f
<1>8. \A i \in 0 .. o : f[i] = IF i = o THEN a ELSE CutStep(f[i + 1])  BY <1>7 DEF IsTurn
<1> DEFINE Bad == {d \in Nat : d <= o /\ ~CutOK(f[o - d], m, K, A, o - d)}
<1>9. Bad = {}
  <2> SUFFICES ASSUME Bad # {} PROVE FALSE  OBVIOUS
  <2>1. PICK d \in Bad : \A x \in Bad : d <= x
    <3>1. Bad \in SUBSET Nat  OBVIOUS
    <3> HIDE DEF Bad
    <3> QED BY <3>1, LeastOf
  <2>2. d \in Nat /\ d <= o /\ ~CutOK(f[o - d], m, K, A, o - d)  BY <2>1
  <2>3. d # 0
    <3> SUFFICES ASSUME d = 0 PROVE FALSE  OBVIOUS
    <3>1. o - d = o /\ o \in 0 .. o  BY <1>2
    <3>2. f[o] = a  BY <1>8, <3>1
    <3> QED BY <1>6, <2>2, <3>1, <3>2
  <2>4. d - 1 \in Nat /\ d - 1 <= o /\ ~(d <= d - 1)  BY <2>2, <2>3, <1>2
  <2>5. d - 1 \notin Bad
    <3> HIDE DEF Bad
    <3> QED BY <2>1, <2>4
  <2>6. CutOK(f[o - (d - 1)], m, K, A, o - (d - 1))  BY <2>4, <2>5
  <2> DEFINE i == o - d
  <2>7. i \in 0 .. o /\ i # o /\ o - (d - 1) = i + 1 /\ i \in Nat  BY <1>2, <2>2, <2>3
  <2>8. ~CutOK(f[i], m, K, A, i)  BY <2>2
  <2> HIDE DEF i
  <2>9. f[i] = CutStep(f[i + 1])  BY <1>8, <2>7
  <2>10. CutOK(f[i + 1], m, K, A, i + 1)  BY <2>6, <2>7
  <2>11. CutOK(CutStep(f[i + 1]), m, K, A, i)  BY <1>1, <2>7, <2>10, CutGoes
  <2> QED BY <2>8, <2>9, <2>11
<1>10. CutOK(f[0], m, K, A, 0)
  <2>1. o \notin Bad /\ o - o = 0 /\ o <= o  BY <1>2, <1>9
  <2> QED BY <1>2, <2>1
<1> QED BY <1>3, <1>10 DEF A
-----------------------------------------------------------------------------
(* The state after mm_buddy_init, and mm_map_init's stock.                 *)

\* Attributes are of no account for the groups.
LEMMA AttrMem ==
    ASSUME NEW m, NEW H, NEW pg, MemOK(m, H), pg \in [Page -> Desc],
           \A q \in Page : pg[q].ord = m.page[q].ord /\ pg[q].buddyId = m.page[q].buddyId
    PROVE  MemOK(With(m, pg), H) /\ FreeOf(With(m, pg)) = FreeOf(m)
<1> DEFINE n == With(m, pg)
<1>1. m \in MemType /\ Nodes(m.page, FreeOf(m) \union H) /\ H \intersect FreeOf(m) = {}
  BY DEF MemOK
<1>2. n.page = pg /\ n.free = m.free /\ n.bit = m.bit /\ n \in MemType
  BY <1>1 DEF With, MemType
<1> HIDE DEF n
<1>3. FreeOf(m) \union H \subseteq Page  BY <1>1 DEF Nodes
<1>4. Nodes(n.page, FreeOf(m) \union H)
  <2> DEFINE G == FreeOf(m) \union H
  <2>1. G \subseteq Page /\ Nodes(m.page, G)  BY <1>1, <1>3
  <2> HIDE DEF G
  <2>2. \A q \in G : Cell(pg, q) = Cell(m.page, q)  BY <2>1 DEF Cell
  <2>3. \A q \in G : Located(q, pg[q].ord, pg[q].buddyId)  BY <2>1 DEF Nodes
  <2>4. Nodes(pg, G)  BY <2>1, <2>2, <2>3 DEF Nodes
  <2> QED BY <1>2, <2>4 DEF G
<1>5. \A q \in FreeOf(m) : n.page[q].ord = m.page[q].ord /\ n.page[q].buddyId = m.page[q].buddyId
  BY <1>2, <1>3
<1>6. MemOK(n, H) /\ FreeOf(n) = FreeOf(m)  BY <1>1, <1>2, <1>4, <1>5, PageStep
<1> QED BY <1>6 DEF n

\* The same groups, with other attributes.
SameGroups(pg, n) ==
    /\ n \in [Page -> Desc]
    /\ \A q \in Page : n[q].ord = pg[q].ord /\ n[q].buddyId = pg[q].buddyId

\* They are when one attribute changes.
LEMMA AttrSet ==
    ASSUME NEW pg \in [Page -> Desc], NEW p \in Page, NEW S \in SUBSET {"HeadPage", "Allocated", "MMU"}
    PROVE  SameGroups(pg, [pg EXCEPT ![p].attr = S])
<1> DEFINE d == [pg[p] EXCEPT !.attr = S]
           n == [pg EXCEPT ![p].attr = S]
<1>1. pg[p] \in Desc  OBVIOUS
<1>2. d \in Desc /\ d.ord = pg[p].ord /\ d.buddyId = pg[p].buddyId  BY <1>1 DEF Desc
<1>3. n = [pg EXCEPT ![p] = d]  OBVIOUS
<1> HIDE DEF d, n
<1>4. SameGroups(pg, n)  BY <1>2, <1>3 DEF SameGroups
<1> QED BY <1>4 DEF n

\* A page begins at most one boot group.
LEMMA RootOnce ==
    ASSUME NEW p, NEW o, NEW u, <<p, o>> \in Roots, <<p, u>> \in Roots
    PROVE  o = u
<1>1. \A x \in Roots : x[1] \in Block(x[1], x[2])
  <2> TAKE x \in Roots
  <2>1. x \in Nat \X Ord  BY RootsAre
  <2> DEFINE a == x[1]
             y == 2^x[2]
  <2>2. a \in Nat /\ x[2] \in Nat  BY <2>1, OrderAssumption DEF Ord
  <2>3. y \in Nat \ {0}  BY <2>2, PowType
  <2>4. Block(x[1], x[2]) = a .. a + y - 1  BY DEF Block
  <2> HIDE DEF a, y
  <2>5. a \in a .. a + y - 1  BY <2>2, <2>3
  <2> QED BY <2>4, <2>5 DEF a
<1> DEFINE r == <<p, o>>
           s == <<p, u>>
<1>2. r \in Roots /\ s \in Roots /\ r[1] = s[1]  OBVIOUS
<1>3. r[1] \in Block(r[1], r[2]) /\ s[1] \in Block(s[1], s[2])  BY <1>1, <1>2
<1> HIDE DEF r, s
<1>4. Block(r[1], r[2]) \intersect Block(s[1], s[2]) # {}  BY <1>2, <1>3
<1>5. r = s  BY <1>2, <1>4, RootsAre
<1> QED BY <1>5 DEF r, s

\* mm_buddy_init: nothing is taken, and there is enough for page tables.
LEMMA BootMem ==
    /\ MemOK(Boot, {}) /\ Boot.usage = 0 /\ Fits(Boot, TblShift) # {}
<1> USE OrderAssumption
<1> DEFINE First == {p \in Page : \E o \in Ord : <<p, o>> \in Roots}
           desc(p) == IF \E o \in Ord : <<p, o>> \in Roots
                      THEN [ord |-> CHOOSE o \in Ord : <<p, o>> \in Roots,
                            buddyId |-> 1, attr |-> {"HeadPage"}]
                      ELSE [ord |-> 0, buddyId |-> 0, attr |-> {}]
           list(o) == {p \in Page : <<p, o>> \in Roots}
           pg == [p \in Page |-> desc(p)]
           fr == [o \in Ord |-> Ascending(list(o))]
<1>1. Boot.page = pg /\ Boot.bit = {} /\ Boot.free = fr /\ Boot.usage = 0
      /\ Boot = [page |-> pg, bit |-> {}, free |-> fr, usage |-> 0]
  BY DEF Boot
<1>2. \A r \in Roots : /\ r \in Nat \X Ord /\ Block(r[1], r[2]) \subseteq Page /\ r = <<r[1], r[2]>>
                       /\ r[1] \in Page /\ r[1] \in Nat /\ r[2] \in Ord
  <2> TAKE r \in Roots
  <2> DEFINE a == r[1]
             y == 2^r[2]
  <2>1. r \in Nat \X Ord /\ Block(r[1], r[2]) \subseteq Page  BY RootsAre
  <2>2. r = <<r[1], r[2]>> /\ a \in Nat /\ r[2] \in Ord  BY <2>1
  <2>6. r[2] \in Nat  BY <2>2 DEF Ord
  <2>3. y \in Nat \ {0}  BY <2>6, PowType
  <2>4. Block(r[1], r[2]) = a .. a + y - 1  BY DEF Block
  <2> HIDE DEF a, y
  <2>5. a \in a .. a + y - 1  BY <2>2, <2>3
  <2> QED BY <2>1, <2>2, <2>4, <2>5 DEF a
<1>3. \A p, o : <<p, o>> \in Roots => p \in Page /\ p \in Nat /\ o \in Ord
  <2> TAKE p, o
  <2> HAVE <<p, o>> \in Roots
  <2>1. <<p, o>>[1] = p /\ <<p, o>>[2] = o  OBVIOUS
  <2> QED BY <1>2, <2>1
<1>4. Page \in SUBSET Nat
  <2> USE ZoneAssumption
  <2> QED BY DEF Page
<1>5. 2^(MaxOrd + 1) - 1 \in Nat /\ 1 \in 0 .. 2^(MaxOrd + 1) - 1 /\ 0 \in 0 .. 2^(MaxOrd + 1) - 1
  <2> DEFINE M == 2^MaxOrd
  <2>1. M \in Nat \ {0} /\ 2^(MaxOrd + 1) = M + M  BY PowType, PowNext
  <2> HIDE DEF M
  <2>2. M + M - 1 \in Nat /\ 1 \in 0 .. M + M - 1 /\ 0 \in 0 .. M + M - 1  BY <2>1
  <2> QED BY <2>1, <2>2
<1>6. \A p, o : <<p, o>> \in Roots => desc(p) = [ord |-> o, buddyId |-> 1, attr |-> {"HeadPage"}]
  <2> TAKE p, o
  <2> HAVE <<p, o>> \in Roots
  <2>1. o \in Ord  BY <1>3
  <2>2. (CHOOSE u \in Ord : <<p, u>> \in Roots) = o  BY <2>1, RootOnce
  <2> QED BY <2>1, <2>2
<1>7. pg \in [Page -> Desc]
  <2>1. ASSUME NEW p \in Page PROVE desc(p) \in Desc
    <3>1. CASE \E o \in Ord : <<p, o>> \in Roots
      <4>1. PICK o \in Ord : <<p, o>> \in Roots  BY <3>1
      <4>2. desc(p) = [ord |-> o, buddyId |-> 1, attr |-> {"HeadPage"}]  BY <1>6, <4>1
      <4> HIDE DEF desc
      <4> QED BY <1>5, <4>1, <4>2 DEF Desc
    <3>2. CASE ~(\E o \in Ord : <<p, o>> \in Roots)
      <4>1. desc(p) = [ord |-> 0, buddyId |-> 0, attr |-> {}]  BY <3>2
      <4>2. 0 \in Ord  BY DEF Ord
      <4> HIDE DEF desc
      <4> QED BY <1>5, <4>1, <4>2 DEF Desc
    <3> QED BY <3>1, <3>2
  <2> HIDE DEF desc
  <2> QED BY <2>1
<1>8. \A o \in Ord : fr[o] \in Seq(Page) /\ IsInjective(fr[o]) /\ ToSet(fr[o]) = list(o)
  <2> TAKE o \in Ord
  <2>1. list(o) \in SUBSET Nat /\ list(o) \subseteq Page  BY <1>4
  <2>2. IsFiniteSet(list(o))  BY <2>1, PageFinite, FS_Subset
  <2> DEFINE S == list(o)
             s == Ascending(S)
  <2>3. S \in SUBSET Nat /\ IsFiniteSet(S)  BY <2>1, <2>2
  <2> HIDE DEF S
  <2>4. s \in Seq(S) /\ IsInjective(s) /\ ToSet(s) = S  BY <2>3, AscendingOf
  <2> HIDE DEF s
  <2>5. s \in Seq(Page)
    <3>1. S \subseteq Page  BY <2>1 DEF S
    <3>2. Len(s) \in Nat /\ DOMAIN s = 1 .. Len(s) /\ \A i \in 1 .. Len(s) : s[i] \in S /\ s = [j \in 1 .. Len(s) |-> s[j]]
      <4>1. Len(s) \in Nat /\ DOMAIN s = 1 .. Len(s)  BY <2>4, LenProperties
      <4>2. s \in [1 .. Len(s) -> S]  BY <2>4, LenProperties
      <4> QED BY <4>1, <4>2
    <3>3. s \in [1 .. Len(s) -> Page]  BY <2>4, <3>1, LenProperties
    <3> QED BY <3>2, <3>3, SeqDef
  <2>6. fr[o] = s  BY DEF S, s
  <2> QED BY <2>4, <2>5, <2>6 DEF S
<1> HIDE DEF desc, list
<1>9. fr \in [Ord -> Seq(Page)]  BY <1>8
<1> HIDE DEF fr, pg
<1>10. Boot \in MemType  BY <1>1, <1>7, <1>9 DEF MemType
<1>11. \A p, o : p \in list(o) <=> <<p, o>> \in Roots  BY <1>3 DEF list
<1>19. \A o \in Ord : \A p : p \in ToSet(fr[o]) <=> <<p, o>> \in Roots
  <2> TAKE o \in Ord
  <2>1. ToSet(fr[o]) = list(o)  BY <1>8
  <2> QED BY <1>11, <2>1
<1>12. \A p : p \in FreeOf(Boot) <=> \E o \in Ord : <<p, o>> \in Roots
  <2>1. \A p : p \in FreeOf(Boot) <=> \E o \in Ord : p \in ToSet(fr[o])  BY <1>1 DEF FreeOf
  <2> QED BY <1>19, <2>1
<1>13. \A p, o : <<p, o>> \in Roots => /\ pg[p].ord = o /\ pg[p].buddyId = 1 /\ Cell(pg, p) = Block(p, o)
                                       /\ p \in FreeOf(Boot)
  <2> TAKE p, o
  <2> HAVE <<p, o>> \in Roots
  <2>1. pg[p] = desc(p) /\ o \in Ord  BY <1>3 DEF pg
  <2>2. pg[p] = [ord |-> o, buddyId |-> 1, attr |-> {"HeadPage"}]  BY <1>6, <2>1
  <2>3. p \in FreeOf(Boot)  BY <1>12, <2>1
  <2> QED BY <2>2, <2>3 DEF Cell
<1>14. Lists(Boot.page, Boot.free)
  <2>1. \A o \in Ord : \A p \in ToSet(fr[o]) : pg[p].ord = o
    <3> TAKE o \in Ord
    <3> TAKE p \in ToSet(fr[o])
    <3>1. <<p, o>> \in Roots  BY <1>19
    <3> QED BY <1>13, <3>1
  <2> QED BY <1>1, <1>8, <2>1 DEF Lists
<1>15. Bits(Boot)
  <2>1. \A p \in FreeOf(Boot) : IsRoot(Boot, p)  BY <1>1, <1>12, <1>13 DEF IsRoot
  <2>2. Half(Boot) = {}  BY <2>1 DEF Half
  <2> QED BY <1>1, <2>2 DEF Bits
<1>16. Nodes(Boot.page, FreeOf(Boot) \union {})
  <2> DEFINE G == FreeOf(Boot)
  <2>1. G \subseteq Page  BY <1>3, <1>12
  <2>2. \A p \in G : Located(p, pg[p].ord, pg[p].buddyId)
    <3> TAKE p \in G
    <3>1. PICK o \in Ord : <<p, o>> \in Roots  BY <1>12
    <3>2. o \in Nat /\ p \in Nat  BY <1>3, <3>1 DEF Ord
    <3> DEFINE r == <<p, o>>
    <3>3. r \in Roots /\ r[1] = p /\ r[2] = o  BY <3>1
    <3>4. o \in 0 .. r[2] /\ r[2] - o = 0  BY <3>2
    <3>5. 2^o \in Nat  BY <3>2, PowType
    <3>6. 0 < 2^(r[2] - o) /\ p = r[1] + 0 * 2^o /\ 1 = 2^(r[2] - o) + 0
      <4> DEFINE x == 2^o
      <4>1. 2^(r[2] - o) = 1  BY <3>4, PowZero
      <4>2. x \in Nat  BY <3>5
      <4> HIDE DEF x
      <4>3. p = p + 0 * x  BY <3>2, <4>2
      <4> QED BY <4>1, <4>3 DEF x
    <3> HIDE DEF r
    <3>7. Located(p, o, 1)  BY <3>3, <3>4, <3>6 DEF Located
    <3> QED BY <1>13, <3>1, <3>7
  <2>3. \A p, q \in G : p # q => Cell(pg, p) \intersect Cell(pg, q) = {}
    <3> TAKE p, q \in G
    <3> HAVE p # q
    <3>1. PICK o \in Ord : <<p, o>> \in Roots  BY <1>12
    <3>2. PICK u \in Ord : <<q, u>> \in Roots  BY <1>12
    <3> DEFINE r == <<p, o>>
               s == <<q, u>>
    <3>3. r \in Roots /\ s \in Roots /\ r # s /\ r[1] = p /\ r[2] = o /\ s[1] = q /\ s[2] = u  BY <3>1, <3>2
    <3> HIDE DEF r, s
    <3>4. Block(r[1], r[2]) \intersect Block(s[1], s[2]) = {}  BY <3>3, RootsAre
    <3> QED BY <1>13, <3>1, <3>2, <3>3, <3>4
  <2>4. \A a \in Page : \E p \in G : a \in Cell(pg, p)
    <3> TAKE a \in Page
    <3>1. PICK r \in Roots : a \in Block(r[1], r[2])  BY RootsAre
    <3>2. <<r[1], r[2]>> \in Roots  BY <1>2
    <3> QED BY <1>13, <3>1, <3>2
  <2>5. FreeOf(Boot) \union {} = G  OBVIOUS
  <2> QED BY <1>1, <2>1, <2>2, <2>3, <2>4, <2>5 DEF Nodes
<1>17. MemOK(Boot, {})  BY <1>10, <1>14, <1>15, <1>16 DEF MemOK
<1>18. Fits(Boot, TblShift) # {}
  <2>1. PICK r \in Roots : r[2] >= TblShift  BY BootAssumption
  <2>2. <<r[1], r[2]>> \in Roots /\ r[2] \in Ord  BY <1>2, <2>1
  <2> DEFINE o == r[2]
  <2>3. r[1] \in ToSet(fr[o]) /\ fr[o] \in Seq(Page)  BY <1>8, <1>11, <2>2
  <2>4. fr[o] # <<>>
    <3> SUFFICES ASSUME fr[o] = <<>> PROVE FALSE  OBVIOUS
    <3>1. ToSet(<<>>) = {}  BY DEF ToSet
    <3> QED BY <2>3, <3>1
  <2>5. o \in TblShift .. MaxOrd  BY <2>1, <2>2 DEF Ord
  <2> QED BY <1>1, <2>4, <2>5 DEF Fits
<1> QED BY <1>1, <1>17, <1>18
-----------------------------------------------------------------------------
(* The allocator m, its callers' groups h, page tables t, and the stock s  *)
(* of k page tables.                                                       *)

\* The allocator is in order, nobody has what another has, the counters count.
Good(m, h, t, s, k) ==
    /\ MemOK(m, h \union t \union ToSet(s))
    /\ s \in Seq(Page) /\ IsInjective(s)
    /\ h \intersect t = {} /\ h \intersect ToSet(s) = {} /\ t \intersect ToSet(s) = {}
    /\ \A p \in t : m.page[p].ord = 0
    /\ m.usage = Cardinality(Area(m.page, h \union t \union ToSet(s)))
    /\ k = Cardinality(Area(m.page, ToSet(s))) /\ k <= NrTblCache

\* Groups in H keep their order from m to n.
Kept(m, n, H) == \A q \in H : n.page[q].ord = m.page[q].ord

\* The groups taken are among those that divide the memory up.
LEMMA GoodNodes ==
    ASSUME NEW m, NEW h, NEW t, NEW s, NEW k, Good(m, h, t, s, k)
    PROVE  \E G : /\ Nodes(m.page, G) /\ G = FreeOf(m) \union (h \union t \union ToSet(s))
                  /\ h \subseteq G /\ t \subseteq G /\ ToSet(s) \subseteq G /\ G \subseteq Page
<1> DEFINE G == FreeOf(m) \union (h \union t \union ToSet(s))
<1>1. Nodes(m.page, G)  BY DEF Good, MemOK
<1>2. G \subseteq Page  BY <1>1 DEF Nodes
<1> QED BY <1>1, <1>2

\* An attribute of a group changes.
LEMMA GoodAttr ==
    ASSUME NEW m, NEW h, NEW t, NEW s, NEW k, Good(m, h, t, s, k),
           NEW p \in Page, NEW S \in SUBSET {"HeadPage", "Allocated", "MMU"}
    PROVE  /\ Good(With(m, [m.page EXCEPT ![p].attr = S]), h, t, s, k)
           /\ Kept(m, With(m, [m.page EXCEPT ![p].attr = S]), h \union t)
<1> DEFINE pg == [m.page EXCEPT ![p].attr = S]
           n == With(m, pg)
           H == h \union t \union ToSet(s)
<1>1. MemOK(m, H) /\ m \in MemType /\ m.page \in [Page -> Desc]  BY DEF Good, MemOK, MemType
<1>2. /\ pg \in [Page -> Desc]
      /\ \A q \in Page : pg[q].ord = m.page[q].ord /\ pg[q].buddyId = m.page[q].buddyId
  <2> DEFINE g == m.page
  <2>1. g \in [Page -> Desc]  BY <1>1
  <2> HIDE DEF g
  <2>2. SameGroups(g, [g EXCEPT ![p].attr = S])  BY <2>1, AttrSet
  <2> QED BY <2>2 DEF SameGroups, g
<1> HIDE DEF pg
<1>3. MemOK(n, H)  BY <1>1, <1>2, AttrMem
<1>4. n.page = pg /\ n.usage = m.usage  BY <1>1, <1>2 DEF With, MemType
<1>5. H \subseteq Page  BY GoodNodes
<1>6. \A q \in H : n.page[q].ord = m.page[q].ord  BY <1>2, <1>4, <1>5
<1> HIDE DEF n
<1>7. Area(n.page, H) = Area(m.page, H)  BY <1>6, AreaSame
<1>8. Area(n.page, ToSet(s)) = Area(m.page, ToSet(s))
  <2>1. \A q \in ToSet(s) : n.page[q].ord = m.page[q].ord  BY <1>6
  <2> QED BY <2>1, AreaSame
<1>9. \A q \in t : n.page[q].ord = 0  BY <1>6 DEF Good
<1>10. Good(n, h, t, s, k)  BY <1>3, <1>4, <1>7, <1>8, <1>9 DEF Good
<1>11. Kept(m, n, h \union t)  BY <1>6 DEF Kept
<1> QED BY <1>10, <1>11 DEF n, pg

\* mm_allocPages.
LEMMA GoodTake ==
    ASSUME NEW m, NEW h, NEW t, NEW s, NEW k, Good(m, h, t, s, k), NEW j \in Nat, Fits(m, j) # {}
    PROVE  /\ Good(Take(m, j), h \union {Found(m, j)}, t, s, k)
           /\ Kept(m, Take(m, j), h \union t)
           /\ Found(m, j) \in Page /\ Found(m, j) \notin h \union t /\ Take(m, j) \in MemType
           /\ Take(m, j).page[Found(m, j)].ord = j
<1> DEFINE n == Take(m, j)
           p == Found(m, j)
           H == h \union t \union ToSet(s)
           K == H \union {p}
<1>1. MemOK(m, H)  BY DEF Good
<1>2. /\ j \in Ord /\ p \notin H /\ p \in Page /\ MemOK(n, K)
      /\ n.page[p].ord = j /\ n.usage = m.usage + 2^j
      /\ \A q \in H : n.page[q] = m.page[q]
  <2> HIDE DEF H
  <2> QED BY <1>1, TakeMem
<1> HIDE DEF n, p
<1>3. Area(n.page, H) = Area(m.page, H) /\ Area(n.page, ToSet(s)) = Area(m.page, ToSet(s))
  <2>1. \A q \in H : n.page[q].ord = m.page[q].ord  BY <1>2
  <2>2. \A q \in ToSet(s) : n.page[q].ord = m.page[q].ord  BY <2>1
  <2>3. Area(n.page, H) = Area(m.page, H)
    <3> HIDE DEF H
    <3> QED BY <2>1, AreaSame
  <2> QED BY <2>2, <2>3, AreaSame
<1>4. Cardinality(Area(n.page, K)) = Cardinality(Area(n.page, H)) + 2^j
  <2>1. Nodes(n.page, FreeOf(n) \union K) /\ H \subseteq FreeOf(n) \union K /\ p \in FreeOf(n) \union K /\ p \notin H
    BY <1>2 DEF MemOK
  <2> HIDE DEF H
  <2> QED BY <1>2, <2>1, AreaAdd
<1>5. n.usage = Cardinality(Area(n.page, K))  BY <1>2, <1>3, <1>4 DEF Good
<1>6. K = (h \union {p}) \union t \union ToSet(s)  OBVIOUS
<1>7. \A q \in t : n.page[q].ord = 0  BY <1>2 DEF Good
<1>8. /\ (h \union {p}) \intersect t = {} /\ (h \union {p}) \intersect ToSet(s) = {}
      /\ t \intersect ToSet(s) = {} /\ s \in Seq(Page) /\ IsInjective(s)
      /\ k = Cardinality(Area(m.page, ToSet(s))) /\ k <= NrTblCache
  BY <1>2 DEF Good
<1>9. MemOK(n, (h \union {p}) \union t \union ToSet(s))  BY <1>2, <1>6
<1>10. n.usage = Cardinality(Area(n.page, (h \union {p}) \union t \union ToSet(s)))  BY <1>5, <1>6
<1>11. k = Cardinality(Area(n.page, ToSet(s)))  BY <1>3, <1>8
<1>12. Good(n, h \union {p}, t, s, k)  BY <1>7, <1>8, <1>9, <1>10, <1>11 DEF Good
<1>13. Kept(m, n, h \union t)  BY <1>2 DEF Kept
<1>14. p \notin h \union t /\ n \in MemType  BY <1>2 DEF MemOK
<1> QED BY <1>2, <1>12, <1>13, <1>14 DEF n, p

\* mm_freePages.
LEMMA GoodGive ==
    ASSUME NEW m, NEW h, NEW t, NEW s, NEW k, Good(m, h, t, s, k), NEW p \in h
    PROVE  /\ Good(Give(m, p), h \ {p}, t, s, k) /\ Kept(m, Give(m, p), (h \ {p}) \union t)
           /\ Give(m, p) \in MemType
<1> DEFINE n == Give(m, p)
           H == h \union t \union ToSet(s)
           K == H \ {p}
           x == 2^m.page[p].ord
<1>1. MemOK(m, H) /\ p \in H  BY DEF Good
<1>2. MemOK(n, K) /\ n.usage = m.usage - x /\ \A q \in K : n.page[q] = m.page[q]
  <2> HIDE DEF H
  <2> QED BY <1>1, GiveMem
<1> HIDE DEF n
<1>3. /\ Cardinality(Area(m.page, K)) \in Nat /\ x \in Nat
      /\ Cardinality(Area(m.page, K \union {p})) = Cardinality(Area(m.page, K)) + x
  <2>1. PICK G : Nodes(m.page, G) /\ H \subseteq G  BY <1>1 DEF MemOK
  <2>2. K \subseteq G /\ p \in G /\ p \notin K  BY <1>1, <2>1
  <2> HIDE DEF H, K
  <2>3. x \in Nat  BY <2>1, <2>2, CellShape
  <2> QED BY <2>1, <2>2, <2>3, AreaAdd
<1>4. K \union {p} = H  BY <1>1
<1>5. K = (h \ {p}) \union t \union ToSet(s) /\ ToSet(s) \subseteq K  BY DEF Good
<1>6. Area(n.page, K) = Area(m.page, K) /\ Area(n.page, ToSet(s)) = Area(m.page, ToSet(s))
  <2>1. \A q \in K : n.page[q].ord = m.page[q].ord  BY <1>2
  <2>2. \A q \in ToSet(s) : n.page[q].ord = m.page[q].ord  BY <1>5, <2>1
  <2> HIDE DEF K
  <2> QED BY <2>1, <2>2, AreaSame
<1>7. m.usage = Cardinality(Area(m.page, H))  BY DEF Good
<1>8. n.usage = Cardinality(Area(n.page, K))
  <2> DEFINE c == Cardinality(Area(m.page, K))
  <2>1. c \in Nat /\ m.usage = c + x  BY <1>3, <1>4, <1>7
  <2>2. c = Cardinality(Area(n.page, K))  BY <1>6
  <2>3. n.usage = m.usage - x  BY <1>2
  <2> HIDE DEF K, H, x, c
  <2>4. n.usage = c  BY <1>3, <2>1, <2>3
  <2> QED BY <2>2, <2>4
<1>9. \A q \in t : n.page[q].ord = 0  BY <1>2 DEF Good
<1>10. /\ (h \ {p}) \intersect t = {} /\ (h \ {p}) \intersect ToSet(s) = {}
       /\ t \intersect ToSet(s) = {} /\ s \in Seq(Page) /\ IsInjective(s)
       /\ k = Cardinality(Area(m.page, ToSet(s))) /\ k <= NrTblCache
  BY DEF Good
<1>11. Good(n, h \ {p}, t, s, k)
  <2>1. MemOK(n, (h \ {p}) \union t \union ToSet(s))  BY <1>2, <1>5
  <2>2. n.usage = Cardinality(Area(n.page, (h \ {p}) \union t \union ToSet(s)))  BY <1>5, <1>8
  <2>3. k = Cardinality(Area(n.page, ToSet(s)))  BY <1>6, <1>10
  <2> QED BY <1>9, <1>10, <2>1, <2>2, <2>3 DEF Good
<1>12. Kept(m, n, (h \ {p}) \union t)  BY <1>2, <1>5 DEF Kept
<1>13. n \in MemType  BY <1>2 DEF MemOK
<1> QED BY <1>11, <1>12, <1>13 DEF n

\* _initCache: the stock was empty.
LEMMA GoodStock ==
    ASSUME NEW m, NEW h, NEW t, NEW s, Good(m, h, t, s, 0), Fits(m, TblShift) # {}
    PROVE  /\ Good(Restock(m), h, t, <<Found(m, TblShift)>>, NrTblCache)
           /\ Kept(m, Restock(m), h \union t) /\ Restock(m) \in MemType
<1> USE OrderAssumption
<1> DEFINE p == Found(m, TblShift)
           a == Take(m, TblShift)
           S == a.page[p].attr \union {"Allocated"}
           n == Restock(m)
           u == <<p>>
           H == h \union t
<1>1. TblShift \in Nat  OBVIOUS
<1>2. ToSet(s) = {}
  <2>1. PICK G : Nodes(m.page, G) /\ ToSet(s) \subseteq G  BY GoodNodes
  <2>2. Cardinality(Area(m.page, ToSet(s))) = 0  BY DEF Good
  <2> QED BY <2>1, <2>2, AreaCount
<1>3. /\ Good(a, h \union {p}, t, s, 0) /\ Kept(m, a, H)
      /\ p \in Page /\ p \notin H /\ a \in MemType
      /\ a.page[p].ord = TblShift
  BY <1>1, GoodTake
<1>5. a.page \in [Page -> Desc] /\ S \in SUBSET {"HeadPage", "Allocated", "MMU"}
  <2> HIDE DEF a, p
  <2>1. a.page \in [Page -> Desc]  BY <1>3 DEF MemType
  <2> QED BY <1>3, <2>1 DEF Desc
<1>6. n = With(a, [a.page EXCEPT ![p].attr = S])
  BY <1>3, <1>5 DEF Restock, With, MemType
<1> HIDE DEF a, p
<1>7. Good(n, h \union {p}, t, s, 0) /\ Kept(a, n, (h \union {p}) \union t)
  <2> HIDE DEF S, n
  <2> QED BY <1>3, <1>5, <1>6, GoodAttr
<1> HIDE DEF n, S
<1>8. n.page[p].ord = TblShift  BY <1>3, <1>7 DEF Kept
<1>9. \A q \in H : n.page[q].ord = m.page[q].ord  BY <1>3, <1>7 DEF Kept
<1>10. u \in Seq(Page) /\ IsInjective(u) /\ ToSet(u) = {p}
  <2>1. u \in Seq(Page) /\ DOMAIN u = {1} /\ u[1] = p  BY <1>3
  <2> HIDE DEF u
  <2> QED BY <2>1 DEF IsInjective, ToSet
<1> HIDE DEF u
<1>11. (h \union {p}) \union t \union ToSet(s) = h \union t \union ToSet(u)  BY <1>2, <1>10
<1>12. MemOK(n, h \union t \union ToSet(u))
  <2>1. MemOK(n, (h \union {p}) \union t \union ToSet(s))  BY <1>7 DEF Good
  <2> QED BY <1>11, <2>1
<1>13. n.usage = Cardinality(Area(n.page, h \union t \union ToSet(u)))
  <2>1. n.usage = Cardinality(Area(n.page, (h \union {p}) \union t \union ToSet(s)))  BY <1>7 DEF Good
  <2> QED BY <1>11, <2>1
<1>14. NrTblCache = Cardinality(Area(n.page, ToSet(u))) /\ NrTblCache \in Nat
  <2>1. PICK G : Nodes(n.page, G) /\ p \in G  BY <1>7, GoodNodes
  <2>2. Cardinality(Area(n.page, {} \union {p})) = Cardinality(Area(n.page, {})) + 2^n.page[p].ord
    BY <2>1, AreaAdd
  <2>3. Area(n.page, {}) = {}  BY DEF Area
  <2>4. Cardinality({}) = 0  BY FS_EmptySet
  <2>5. 2^TblShift \in Nat  BY <1>1, PowType
  <2>6. {} \union {p} = ToSet(u)  BY <1>10
  <2> QED BY <1>8, <2>2, <2>3, <2>4, <2>5, <2>6 DEF NrTblCache
<1>15. h \intersect t = {} /\ h \intersect ToSet(u) = {} /\ t \intersect ToSet(u) = {}
  BY <1>3, <1>10 DEF Good
<1>16. \A q \in t : n.page[q].ord = 0  BY <1>7 DEF Good
<1>17. Good(n, h, t, u, NrTblCache)  BY <1>10, <1>12, <1>13, <1>14, <1>15, <1>16 DEF Good
<1>18. Kept(m, n, H) /\ n \in MemType  BY <1>7, <1>9 DEF Kept, Good, MemOK
<1> QED BY <1>17, <1>18 DEF n, u, p
\* The loop of mm_map_allocTbl, and the table that it takes.
LEMMA GoodCut ==
    ASSUME NEW m, NEW h, NEW t, NEW s, NEW k, Good(m, h, t, s, k), k # 0,
           NEW l, l = Last(CutTop(m.page, s).stack)
    PROVE  /\ Good(With(m, CutTop(m.page, s).page), h, t \union {l}, Front(CutTop(m.page, s).stack), k - 1)
           /\ Kept(m, With(m, CutTop(m.page, s).page), h \union t)
           /\ l \in Page /\ l \notin h \union t /\ With(m, CutTop(m.page, s).page) \in MemType
<1> DEFINE c == CutTop(m.page, s)
           n == With(m, c.page)
           b == c.stack
           f == Front(b)
           K == h \union t
           A == Area(m.page, ToSet(s))
<1>1. MemOK(m, K \union ToSet(s)) /\ K \intersect ToSet(s) = {} /\ s \in Seq(Page) /\ IsInjective(s)
  BY DEF Good
<1>2. s # <<>>
  <2> SUFFICES ASSUME s = <<>> PROVE FALSE  OBVIOUS
  <2>1. PICK G : Nodes(m.page, G) /\ ToSet(s) \subseteq G  BY GoodNodes
  <2>2. ToSet(s) = {}  BY DEF ToSet
  <2>3. Cardinality(Area(m.page, ToSet(s))) = 0  BY <2>1, <2>2, AreaCount
  <2> QED BY <2>3 DEF Good
<1>3. CutOK(c, m, K, A, 0)
  <2> HIDE DEF K
  <2> QED BY <1>1, <1>2, CutMem
<1> HIDE DEF c
<1>4. /\ MemOK(n, K \union ToSet(b)) /\ K \intersect ToSet(b) = {}
      /\ b \in Seq(Page) /\ IsInjective(b) /\ b # <<>>
      /\ \A q \in K : c.page[q] = m.page[q]
      /\ c.page[l].ord = 0 /\ c.page \in [Page -> Desc]
      /\ Area(c.page, ToSet(b)) = A
  BY <1>3 DEF CutOK, c
<1> HIDE DEF b
<1>5. l = Last(b)  BY DEF b, c
<1>6. n.page = c.page /\ n.usage = m.usage /\ n \in MemType
  BY <1>1, <1>4 DEF With, MemOK, MemType
<1> HIDE DEF n
<1>7. /\ l \in ToSet(b) /\ f \in Seq(Page) /\ IsInjective(f) /\ ToSet(f) = ToSet(b) \ {l}
  BY <1>4, <1>5, FrontOne
<1> HIDE DEF f
<1>8. l \in Page /\ l \notin K /\ ToSet(b) = ToSet(f) \union {l}
  <2>1. ToSet(b) \subseteq Page  BY <1>4 DEF MemOK, Nodes
  <2> QED BY <1>4, <1>7, <2>1
<1>9. h \union (t \union {l}) \union ToSet(f) = K \union ToSet(b)  BY <1>8
<1>10. MemOK(n, h \union (t \union {l}) \union ToSet(f))  BY <1>4, <1>9
<1>11. n.usage = Cardinality(Area(n.page, h \union (t \union {l}) \union ToSet(f)))
  <2>1. Area(n.page, K) = Area(m.page, K)
    <3>1. \A q \in K : n.page[q].ord = m.page[q].ord  BY <1>4, <1>6
    <3> HIDE DEF K
    <3> QED BY <3>1, AreaSame
  <2>2. \A pg, S, T : Area(pg, S \union T) = Area(pg, S) \union Area(pg, T)  BY DEF Area
  <2>3. Area(n.page, K \union ToSet(b)) = Area(m.page, K) \union A  BY <1>4, <1>6, <2>1, <2>2
  <2>4. Area(m.page, K \union ToSet(s)) = Area(m.page, K) \union A  BY <2>2
  <2>5. m.usage = Cardinality(Area(m.page, K \union ToSet(s)))  BY DEF Good
  <2> QED BY <1>6, <1>9, <2>3, <2>4, <2>5
<1>12. k - 1 = Cardinality(Area(n.page, ToSet(f))) /\ k - 1 <= NrTblCache
  <2>1. PICK G : Nodes(n.page, G) /\ ToSet(b) \subseteq G  BY <1>4 DEF MemOK
  <2>2. ToSet(f) \subseteq G /\ l \in G /\ l \notin ToSet(f)  BY <1>7, <2>1
  <2> DEFINE x == Cardinality(Area(n.page, ToSet(f)))
             y == Cardinality(Area(n.page, ToSet(f) \union {l}))
  <2>3. x \in Nat /\ y = x + 2^n.page[l].ord  BY <2>1, <2>2, AreaAdd
  <2>4. n.page[l].ord = 0  BY <1>4, <1>6
  <2>5. y = k  BY <1>4, <1>6, <1>8 DEF Good
  <2>6. k <= NrTblCache /\ NrTblCache \in Nat
    <3>1. TblShift \in Nat  BY OrderAssumption
    <3>2. 2^TblShift \in Nat  BY <3>1, PowType
    <3> QED BY <3>2 DEF Good, NrTblCache
  <2> HIDE DEF x, y
  <2>7. k = x + 1  BY <2>3, <2>4, <2>5, PowZero
  <2>8. k - 1 = x /\ k - 1 <= NrTblCache  BY <2>3, <2>6, <2>7
  <2> QED BY <2>8 DEF x
<1>13. \A q \in t \union {l} : n.page[q].ord = 0  BY <1>4, <1>6 DEF Good
<1>14. /\ h \intersect (t \union {l}) = {} /\ h \intersect ToSet(f) = {}
       /\ (t \union {l}) \intersect ToSet(f) = {}
  BY <1>4, <1>7, <1>8 DEF Good
<1>15. Good(n, h, t \union {l}, f, k - 1)  BY <1>7, <1>10, <1>11, <1>12, <1>13, <1>14 DEF Good
<1>16. Kept(m, n, K)  BY <1>4, <1>6 DEF Kept
<1> QED BY <1>6, <1>8, <1>15, <1>16 DEF n, f, b, c

\* mm_map_freeTbl, when the stock is full: the table is a caller's group.
LEMMA GoodMove ==
    ASSUME NEW m, NEW h, NEW t, NEW s, NEW k, Good(m, h, t, s, k), NEW p \in t
    PROVE  Good(m, h \union {p}, t \ {p}, s, k)
<1>1. (h \union {p}) \union (t \ {p}) \union ToSet(s) = h \union t \union ToSet(s)  OBVIOUS
<1>2. /\ (h \union {p}) \intersect (t \ {p}) = {} /\ (h \union {p}) \intersect ToSet(s) = {}
      /\ (t \ {p}) \intersect ToSet(s) = {}
  BY DEF Good
<1>3. \A q \in t \ {p} : m.page[q].ord = 0  BY DEF Good
<1> QED BY <1>1, <1>2, <1>3 DEF Good

\* mm_map_freeTbl, when the stock has room.
LEMMA GoodBack ==
    ASSUME NEW m, NEW h, NEW t, NEW s, NEW k, Good(m, h, t, s, k), NEW p \in t, k < NrTblCache
    PROVE  Good(m, h, t \ {p}, Append(s, p), k + 1) /\ p \in Page
<1> DEFINE u == Append(s, p)
<1>1. PICK G : /\ Nodes(m.page, G) /\ h \subseteq G /\ t \subseteq G /\ ToSet(s) \subseteq G /\ G \subseteq Page
  BY GoodNodes
<1>2. s \in Seq(Page) /\ IsInjective(s) /\ p \in Page /\ p \notin ToSet(s)  BY <1>1 DEF Good
<1>3. u \in Seq(Page) /\ IsInjective(u) /\ ToSet(u) = ToSet(s) \union {p}  BY <1>2, AppendOne
<1> HIDE DEF u
<1>4. h \union (t \ {p}) \union ToSet(u) = h \union t \union ToSet(s)  BY <1>3
<1>5. /\ h \intersect (t \ {p}) = {} /\ h \intersect ToSet(u) = {}
      /\ (t \ {p}) \intersect ToSet(u) = {}
  BY <1>3 DEF Good
<1>6. \A q \in t \ {p} : m.page[q].ord = 0  BY DEF Good
<1>7. k + 1 = Cardinality(Area(m.page, ToSet(u))) /\ k + 1 <= NrTblCache
  <2> DEFINE x == Cardinality(Area(m.page, ToSet(s)))
             y == Cardinality(Area(m.page, ToSet(s) \union {p}))
  <2>1. x \in Nat /\ y = x + 2^m.page[p].ord  BY <1>1, <1>2, AreaAdd
  <2>2. m.page[p].ord = 0 /\ k = x  BY DEF Good
  <2>3. y = Cardinality(Area(m.page, ToSet(u)))  BY <1>3
  <2>4. TblShift \in Nat  BY OrderAssumption
  <2>5. NrTblCache \in Nat  BY <2>4, PowType DEF NrTblCache
  <2> HIDE DEF x, y
  <2>6. y = k + 1 /\ k + 1 <= NrTblCache  BY <2>1, <2>2, <2>5, PowZero
  <2> QED BY <2>3, <2>6
<1>8. Good(m, h, t \ {p}, u, k + 1)  BY <1>3, <1>4, <1>5, <1>6, <1>7 DEF Good
<1> QED BY <1>2, <1>8 DEF u

-----------------------------------------------------------------------------
(* The inductive invariant. *)

\* The state is good, and the locals of the CPUs have their types.
BuddyInv ==
    /\ Good(Mem, held, tables, tblGrpCache, nrTbl)
    /\ mine \in [CPU -> Page \union {None}]
    /\ hung \in [Locks -> CPU \union {None}]

\* What the four variables become.
LEMMA Became ==
    ASSUME NEW n \in MemType, Becomes(n)
    PROVE  Mem' = n
BY DEF Becomes, Mem, MemType

\* The boot leaves the allocator in order.
LEMMA BuddyInit == Init => BuddyInv
<1> SUFFICES ASSUME Init PROVE BuddyInv  OBVIOUS
<1> DEFINE m == Restock(Boot)
           p == Found(Boot, TblShift)
<1>1. MemOK(Boot, {}) /\ Boot.usage = 0 /\ Fits(Boot, TblShift) # {}  BY BootMem
<1>2. Good(Boot, {}, {}, <<>>, 0)
  <2>1. ToSet(<<>>) = {} /\ {} \union {} \union ToSet(<<>>) = {}  BY DEF ToSet
  <2>2. Area(Boot.page, {}) = {}  BY DEF Area
  <2>3. Cardinality({}) = 0  BY FS_EmptySet
  <2>4. <<>> \in Seq(Page) /\ IsInjective(<<>>)  BY DEF IsInjective
  <2>5. TblShift \in Nat  BY OrderAssumption
  <2>6. NrTblCache \in Nat  BY <2>5, PowType DEF NrTblCache
  <2> DEFINE s == <<>>
  <2>7. ToSet(s) = {} /\ s \in Seq(Page) /\ IsInjective(s)  BY <2>1, <2>4
  <2> HIDE DEF s
  <2>8. {} \union {} \union ToSet(s) = {}  BY <2>7
  <2>9. MemOK(Boot, {} \union {} \union ToSet(s))  BY <1>1, <2>8
  <2>10. Boot.usage = Cardinality(Area(Boot.page, {} \union {} \union ToSet(s)))  BY <1>1, <2>2, <2>3, <2>8
  <2>11. 0 = Cardinality(Area(Boot.page, ToSet(s))) /\ 0 <= NrTblCache
    <3>1. Area(Boot.page, ToSet(s)) = {}  BY <2>7 DEF Area
    <3>2. 0 = Cardinality(Area(Boot.page, ToSet(s)))  BY <2>3, <3>1
    <3>3. 0 <= NrTblCache
      <4> HIDE DEF NrTblCache
      <4> QED BY <2>6
    <3> QED BY <3>2, <3>3
  <2>12. Good(Boot, {}, {}, s, 0)  BY <2>7, <2>9, <2>10, <2>11 DEF Good
  <2> QED BY <2>12 DEF s
<1>3. Good(m, {}, {}, <<p>>, NrTblCache) /\ m \in MemType  BY <1>1, <1>2, GoodStock
<1>4. Mem = m
  <2>1. page = m.page /\ revBit = m.bit /\ freeLst = m.free /\ totUsage = m.usage  BY DEF Init
  <2> HIDE DEF m
  <2> QED BY <1>3, <2>1 DEF Mem, MemType
<1>5. tblGrpCache = <<p>> /\ nrTbl = NrTblCache /\ held = {} /\ tables = {}  BY DEF Init
<1>6. mine \in [CPU -> Page \union {None}] /\ hung \in [Locks -> CPU \union {None}]  BY DEF Init
<1> HIDE DEF m, p
<1> QED BY <1>3, <1>4, <1>5, <1>6 DEF BuddyInv
-----------------------------------------------------------------------------
(* What the callers see. *)

\* A caller's group as it knows it.
Own(m, H) == {[page |-> p, ord |-> m.page[p].ord] : p \in H}
Parcel == [page : Page, ord : 0 .. MaxOrd]

\* From m to n a parcel is allotted: what the callers hold were the groups H
\* and are the groups K.
Allotted(m, H, n, K) ==
    \E g \in Parcel :
        /\ g.page .. g.page + 2^g.ord - 1 \subseteq Page
        /\ g.page % 2^g.ord = 0
        /\ \A x \in Own(m, H) :
               (g.page .. g.page + 2^g.ord - 1) \intersect (x.page .. x.page + 2^x.ord - 1) = {}
        /\ Own(n, K) = Own(m, H) \union {g}

\* A parcel is returned.
Returned(m, H, n, K) == \E g \in Parcel : g \in Own(m, H) /\ Own(n, K) = Own(m, H) \ {g}

\* Groups that keep their order are the same parcels.
LEMMA OwnKept ==
    ASSUME NEW m, NEW n, NEW H, Kept(m, n, H)
    PROVE  Own(n, H) = Own(m, H)
BY DEF Kept, Own

\* A group that becomes a caller's.
LEMMA Allots ==
    ASSUME NEW m, NEW n, NEW H, NEW p, Kept(m, n, H), p \notin H,
           NEW G, Nodes(n.page, G), H \union {p} \subseteq G
    PROVE  Allotted(m, H, n, H \union {p})
<1> DEFINE o == n.page[p].ord
           g == [page |-> p, ord |-> o]
           x == 2^o
<1>1. /\ p \in G /\ o \in Ord /\ p \in Page /\ p \in Nat /\ Cell(n.page, p) = p .. p + x - 1
      /\ Cell(n.page, p) \subseteq Page /\ Aligned(p, o, n.page[p].buddyId) /\ x \in Nat \ {0}
  BY CellShape
<1>2. g \in Parcel /\ g.page = p /\ g.ord = o  BY <1>1 DEF Parcel, Ord
<1> HIDE DEF g
<1>3. p % x = 0
  <2>1. PICK t \in Nat : p = t * x  BY <1>1 DEF Aligned
  <2> HIDE DEF x
  <2> QED BY <1>1, <2>1
<1>4. \A q \in H : Cell(n.page, p) \intersect Cell(n.page, q) = {}  BY <1>1 DEF Nodes
<1>5. \A q \in H : Cell(n.page, q) = q .. q + 2^m.page[q].ord - 1
  <2> TAKE q \in H
  <2>1. Cell(n.page, q) = q .. q + 2^n.page[q].ord - 1  BY DEF Cell, Block
  <2> QED BY <2>1 DEF Kept
<1>6. \A y \in Own(m, H) : (p .. p + x - 1) \intersect (y.page .. y.page + 2^y.ord - 1) = {}
  <2> TAKE y \in Own(m, H)
  <2>1. PICK q \in H : y = [page |-> q, ord |-> m.page[q].ord]  BY DEF Own
  <2>2. y.page = q /\ y.ord = m.page[q].ord  BY <2>1
  <2> QED BY <1>1, <1>4, <1>5, <2>2
<1>7. Own(n, H \union {p}) = Own(m, H) \union {g}
  <2>1. Own(n, H \union {p}) = Own(n, H) \union {g}  BY DEF Own, g
  <2> QED BY <2>1, OwnKept
<1> QED BY <1>1, <1>2, <1>3, <1>6, <1>7 DEF Allotted

\* A group that a caller has no more.
LEMMA Returns ==
    ASSUME NEW m, NEW n, NEW H, NEW p \in H, Kept(m, n, H \ {p}),
           NEW G, Nodes(m.page, G), H \subseteq G
    PROVE  Returned(m, H, n, H \ {p})
<1> DEFINE g == [page |-> p, ord |-> m.page[p].ord]
<1>1. m.page[p].ord \in Ord /\ p \in Page  BY CellShape
<1>2. g \in Parcel /\ g \in Own(m, H)  BY <1>1 DEF Parcel, Ord, Own
<1>3. Own(m, H \ {p}) = Own(m, H) \ {g}
  <2>1. ASSUME NEW q \in H, q # p PROVE [page |-> q, ord |-> m.page[q].ord] # g
    <3>1. [page |-> q, ord |-> m.page[q].ord].page = q /\ g.page = p  OBVIOUS
    <3> HIDE DEF g
    <3> QED BY <2>1, <3>1
  <2> QED BY <2>1 DEF Own
<1>4. Own(n, H \ {p}) = Own(m, H \ {p})  BY OwnKept
<1> QED BY <1>2, <1>3, <1>4 DEF Returned

\* All that callers have.
Owned == Own(Mem, held \union tables)

\* The variable of PageAllocator is Owned.
LEMMA OwnedIs ==
    /\ Owned = {[page |-> p, ord |-> page[p].ord] : p \in held \union tables}
    /\ Owned' = {[page |-> p, ord |-> page'[p].ord] : p \in held' \union tables'}
BY DEF Owned, Own, Mem

\* Steps of the abstract allocator.
LEMMA StepAllots ==
    ASSUME Allotted(Mem, held \union tables, Mem', held' \union tables')
    PROVE  Promise!Next
<1>1. Owned = Own(Mem, held \union tables) /\ Owned' = Own(Mem', held' \union tables')  BY DEF Owned
<1>2. PICK g \in Parcel :
        /\ g.page .. g.page + 2^g.ord - 1 \subseteq Page
        /\ g.page % 2^g.ord = 0
        /\ \A x \in Owned : (g.page .. g.page + 2^g.ord - 1) \intersect (x.page .. x.page + 2^x.ord - 1) = {}
        /\ Owned' = Owned \union {g}
  BY <1>1 DEF Allotted
<1>3. Promise!Alloc(g)  BY <1>2, OwnedIs DEF Promise!Alloc, Promise!Pages
<1>4. g \in Promise!Group  BY DEF Promise!Group, Parcel
<1> QED BY <1>3, <1>4 DEF Promise!Next

\* The abstract allocator takes a parcel back.
LEMMA StepReturns ==
    ASSUME Returned(Mem, held \union tables, Mem', held' \union tables')
    PROVE  Promise!Next
<1>1. Owned = Own(Mem, held \union tables) /\ Owned' = Own(Mem', held' \union tables')  BY DEF Owned
<1>2. PICK g \in Parcel : g \in Owned /\ Owned' = Owned \ {g}  BY <1>1 DEF Returned
<1>3. Promise!Free(g)  BY <1>2, OwnedIs DEF Promise!Free
<1>4. g \in Promise!Group  BY DEF Promise!Group, Parcel
<1> QED BY <1>3, <1>4 DEF Promise!Next

\* What every step does: keeps the invariant, and is a step of the abstract
\* allocator or none.
Goes == BuddyInv' /\ (Promise!Next \/ Owned' = Owned)

\* mm_allocPages.
LEMMA AllocGoes ==
    ASSUME BuddyInv, NEW c \in CPU, NEW j \in Sizes, Alloc(c, j)
    PROVE  Goes
<1> DEFINE n == Take(Mem, j)
           p == Found(Mem, j)
           H == held \union tables
<1>1. j \in Nat /\ Fits(Mem, j) # {} /\ Good(Mem, held, tables, tblGrpCache, nrTbl)
  BY OrderAssumption DEF Alloc, BuddyInv
<1>2. /\ Good(n, held \union {p}, tables, tblGrpCache, nrTbl) /\ Kept(Mem, n, H)
      /\ p \in Page /\ p \notin H /\ n \in MemType
  BY <1>1, GoodTake
<1>3. Becomes(n)  BY DEF Alloc
<1>4. held' = held \union {p} /\ mine' = [mine EXCEPT ![c] = p]  BY DEF Alloc
<1>5. UNCHANGED <<tables, tblGrpCache, nrTbl, hung>>  BY DEF Alloc
<1> HIDE DEF n, p
<1>6. Mem' = n  BY <1>2, <1>3, Became
<1>7. BuddyInv'
  <2>1. Good(Mem', held', tables', tblGrpCache', nrTbl')  BY <1>2, <1>4, <1>5, <1>6
  <2>2. mine' \in [CPU -> Page \union {None}] /\ hung' \in [Locks -> CPU \union {None}]
    BY <1>2, <1>4, <1>5 DEF BuddyInv
  <2> QED BY <2>1, <2>2 DEF BuddyInv
<1>8. Promise!Next
  <2>1. PICK G : Nodes(n.page, G) /\ held \union {p} \subseteq G /\ tables \subseteq G  BY <1>2, GoodNodes
  <2>2. H \union {p} \subseteq G  BY <2>1
  <2> HIDE DEF H
  <2>3. Allotted(Mem, H, n, H \union {p})  BY <1>2, <2>1, <2>2, Allots
  <2>4. H \union {p} = held' \union tables'  BY <1>4, <1>5 DEF H
  <2>5. Allotted(Mem, held \union tables, Mem', held' \union tables')  BY <1>6, <2>3, <2>4 DEF H
  <2> QED BY <2>5, StepAllots
<1> QED BY <1>7, <1>8 DEF Goes
\* A CPU that stays in a lock changes nothing else.
LEMMA HangGoes ==
    ASSUME BuddyInv, NEW c \in CPU, AllocTblHang(c) \/ \E j \in Sizes : AllocHang(c, j)
    PROVE  Goes
<1>1. UNCHANGED <<page, revBit, freeLst, totUsage, tblGrpCache, nrTbl, held, tables, mine>>
  BY DEF AllocTblHang, AllocHang, buddyVars
<1>2. hung' \in [Locks -> CPU \union {None}]
  BY DEF AllocTblHang, AllocHang, BuddyInv
<1>3. Mem' = Mem  BY <1>1 DEF Mem
<1>4. BuddyInv'  BY <1>1, <1>2, <1>3 DEF BuddyInv
<1>5. Owned' = Owned  BY <1>1, <1>3 DEF Owned
<1> QED BY <1>4, <1>5 DEF Goes

\* A change of a group's attribute, of what it is and where it is.
LEMMA AttrGoes ==
    ASSUME BuddyInv, NEW p \in Page, NEW S \in SUBSET {"HeadPage", "Allocated", "MMU"},
           page' = [page EXCEPT ![p].attr = S], UNCHANGED <<revBit, freeLst, totUsage>>
    PROVE  /\ Good(Mem', held, tables, tblGrpCache, nrTbl)
           /\ Kept(Mem, Mem', held \union tables)
<1> DEFINE n == With(Mem, [Mem.page EXCEPT ![p].attr = S])
<1>1. Good(Mem, held, tables, tblGrpCache, nrTbl)  BY DEF BuddyInv
<1>2. Mem.page = page  BY DEF Mem
<1>3. Mem' = n  BY DEF Mem, With
<1>4. Good(n, held, tables, tblGrpCache, nrTbl) /\ Kept(Mem, n, held \union tables)
  BY <1>1, GoodAttr
<1> QED BY <1>3, <1>4

\* The attributes of a descriptor.
LEMMA AttrType ==
    ASSUME BuddyInv, NEW p \in Page
    PROVE  page[p].attr \in SUBSET {"HeadPage", "Allocated", "MMU"}
<1>1. page \in [Page -> Desc]
  <2>1. Mem \in MemType  BY DEF BuddyInv, Good, MemOK
  <2> QED BY <2>1 DEF MemType, Mem
<1> QED BY <1>1 DEF Desc

\* The attributes that are set after the unlock.
LEMMA MarkGoes ==
    ASSUME BuddyInv, NEW c \in CPU, Mark(c)
    PROVE  Goes
<1> DEFINE p == mine[c]
           T == IF p \in tables THEN {"MMU"} ELSE {"HeadPage", "Allocated"}
           S == page[p].attr \union T
<1>1. p \in Page  BY DEF BuddyInv, Mark
<1>2. S \in SUBSET {"HeadPage", "Allocated", "MMU"}
  <2>1. page[p].attr \in SUBSET {"HeadPage", "Allocated", "MMU"}  BY <1>1, AttrType
  <2>2. T \in SUBSET {"HeadPage", "Allocated", "MMU"}  OBVIOUS
  <2> HIDE DEF T
  <2> QED BY <2>1, <2>2
<1>3. page' = [page EXCEPT ![p].attr = S]  BY DEF Mark
<1>4. UNCHANGED <<revBit, freeLst, totUsage, tblGrpCache, nrTbl, held, tables, hung>>  BY DEF Mark
<1>5. mine' \in [CPU -> Page \union {None}]  BY DEF Mark, BuddyInv
<1> HIDE DEF p, S
<1>6. Good(Mem', held, tables, tblGrpCache, nrTbl) /\ Kept(Mem, Mem', held \union tables)
  BY <1>1, <1>2, <1>3, <1>4, AttrGoes
<1>7. BuddyInv'  BY <1>4, <1>5, <1>6 DEF BuddyInv
<1>8. Owned' = Owned
  <2>1. Own(Mem', held \union tables) = Own(Mem, held \union tables)  BY <1>6, OwnKept
  <2> QED BY <1>4, <2>1 DEF Owned
<1> QED BY <1>7, <1>8 DEF Goes

\* mm_freePages.
LEMMA FreeGoes ==
    ASSUME BuddyInv, NEW c \in CPU, NEW p \in held, Free(c, p)
    PROVE  Goes
<1> DEFINE n == Give(Mem, p)
           H == held \union tables
<1>1. Good(Mem, held, tables, tblGrpCache, nrTbl) /\ p \notin tables /\ p \in H
  BY DEF BuddyInv, Good
<1>2. /\ Good(n, held \ {p}, tables, tblGrpCache, nrTbl) /\ Kept(Mem, n, (held \ {p}) \union tables)
      /\ n \in MemType
  BY <1>1, GoodGive
<1>3. Becomes(n) /\ held' = held \ {p} /\ UNCHANGED <<tblGrpCache, nrTbl, tables, mine, hung>>
  BY DEF Free
<1> HIDE DEF n
<1>4. Mem' = n  BY <1>2, <1>3, Became
<1>5. BuddyInv'
  <2>1. Good(Mem', held', tables', tblGrpCache', nrTbl')  BY <1>2, <1>3, <1>4
  <2> QED BY <1>3, <2>1 DEF BuddyInv
<1>6. Promise!Next
  <2>1. PICK G : Nodes(Mem.page, G) /\ held \subseteq G /\ tables \subseteq G  BY <1>1, GoodNodes
  <2>2. H \subseteq G /\ H \ {p} = (held \ {p}) \union tables  BY <1>1, <2>1
  <2>3. Kept(Mem, n, H \ {p})  BY <1>2, <2>2
  <2> HIDE DEF H
  <2>4. Returned(Mem, H, n, H \ {p})  BY <1>1, <2>1, <2>2, <2>3, Returns
  <2>5. Returned(Mem, held \union tables, Mem', held' \union tables')  BY <1>3, <1>4, <2>2, <2>4 DEF H
  <2> QED BY <2>5, StepReturns
<1> QED BY <1>5, <1>6 DEF Goes

\* mm_map_freeTbl: the table becomes a caller's group or goes to the stock.
LEMMA FreeTblGoes ==
    ASSUME BuddyInv, NEW c \in CPU, NEW p \in tables, FreeTbl(c, p)
    PROVE  Goes
<1>1. Good(Mem, held, tables, tblGrpCache, nrTbl)  BY DEF BuddyInv
<1>2. tables' = tables \ {p} /\ UNCHANGED <<revBit, freeLst, totUsage, mine, hung>>  BY DEF FreeTbl
<1>3. PICK G : /\ Nodes(Mem.page, G) /\ held \subseteq G /\ tables \subseteq G /\ G \subseteq Page
  BY <1>1, GoodNodes
<1>4. CASE StockFull
  <2>1. held' = held \union {p} /\ UNCHANGED <<page, tblGrpCache, nrTbl>>  BY <1>4 DEF FreeTbl
  <2>2. Good(Mem, held \union {p}, tables \ {p}, tblGrpCache, nrTbl)  BY <1>1, GoodMove
  <2>3. Mem' = Mem  BY <1>2, <2>1 DEF Mem
  <2>4. Good(Mem', held', tables', tblGrpCache', nrTbl')  BY <1>2, <2>1, <2>2, <2>3
  <2>5. BuddyInv'  BY <1>2, <2>4 DEF BuddyInv
  <2>6. held' \union tables' = held \union tables  BY <1>2, <2>1
  <2>7. Owned' = Owned  BY <2>3, <2>6 DEF Owned
  <2> QED BY <2>5, <2>7 DEF Goes
<1>5. CASE ~StockFull
  <2> DEFINE S == SymDiff(page[p].attr, {"MMU"})
             H == held \union tables
  <2>1. /\ tblGrpCache' = Append(tblGrpCache, p) /\ nrTbl' = nrTbl + 1
        /\ page' = [page EXCEPT ![p].attr = S] /\ held' = held
    BY <1>5 DEF FreeTbl
  <2>2. p \in Page /\ p \in H /\ p \notin held  BY <1>1, <1>3 DEF Good
  <2>3. S \in SUBSET {"HeadPage", "Allocated", "MMU"}
    <3>1. page[p].attr \in SUBSET {"HeadPage", "Allocated", "MMU"}  BY <2>2, AttrType
    <3> QED BY <3>1 DEF SymDiff
  <2> HIDE DEF S
  <2>4. Good(Mem', held, tables, tblGrpCache, nrTbl) /\ Kept(Mem, Mem', H)
    BY <1>2, <2>1, <2>2, <2>3, AttrGoes
  <2>5. nrTbl < NrTblCache
    <3>1. nrTbl \in Nat /\ NrTblCache \in Nat
      <4>1. TblShift \in Nat  BY OrderAssumption
      <4>2. NrTblCache \in Nat  BY <4>1, PowType DEF NrTblCache
      <4>3. PICK F : Nodes(Mem.page, F) /\ ToSet(tblGrpCache) \subseteq F  BY <1>1, GoodNodes
      <4>4. Cardinality(Area(Mem.page, ToSet(tblGrpCache))) \in Nat  BY <4>3, AreaCount
      <4> QED BY <1>1, <4>2, <4>4 DEF Good
    <3>2. ~(nrTbl >= NrTblCache)  BY <1>5 DEF StockFull
    <3> HIDE DEF NrTblCache
    <3> QED BY <3>1, <3>2
  <2>6. Good(Mem', held, tables \ {p}, Append(tblGrpCache, p), nrTbl + 1)  BY <2>4, <2>5, GoodBack
  <2>7. Good(Mem', held', tables', tblGrpCache', nrTbl')  BY <1>2, <2>1, <2>6
  <2>8. BuddyInv'  BY <1>2, <2>7 DEF BuddyInv
  <2>9. Promise!Next
    <3>1. H \subseteq G /\ H \ {p} = held \union (tables \ {p})  BY <1>3, <2>2
    <3>2. Kept(Mem, Mem', H \ {p})  BY <2>4 DEF Kept
    <3> HIDE DEF H
    <3>3. Returned(Mem, H, Mem', H \ {p})  BY <1>3, <2>2, <3>1, <3>2, Returns
    <3>4. Returned(Mem, held \union tables, Mem', held' \union tables')  BY <1>2, <2>1, <3>1, <3>3 DEF H
    <3> QED BY <3>4, StepReturns
  <2> QED BY <2>8, <2>9 DEF Goes
<1> QED BY <1>4, <1>5

\* mm_map_allocTbl, with the stock filled first when it is empty.
LEMMA AllocTblGoes ==
    ASSUME BuddyInv, NEW c \in CPU, AllocTbl(c)
    PROVE  Goes
<1> DEFINE empty == nrTbl = 0
           m == IF empty THEN Restock(Mem) ELSE Mem
           s == IF empty THEN <<Found(Mem, TblShift)>> ELSE tblGrpCache
           k == IF empty THEN NrTblCache ELSE nrTbl
           cut == CutTop(m.page, s)
           l == Last(cut.stack)
           n == With(m, cut.page)
           H == held \union tables
<1>1. Good(Mem, held, tables, tblGrpCache, nrTbl)  BY DEF BuddyInv
<1>2. /\ Becomes(n) /\ tblGrpCache' = Front(cut.stack) /\ nrTbl' = k - 1
      /\ tables' = tables \union {l} /\ mine' = [mine EXCEPT ![c] = l]
      /\ UNCHANGED <<held, hung>>
      /\ empty => Fits(Mem, TblShift) # {}
  BY DEF AllocTbl, With
<1>3. Good(m, held, tables, s, k) /\ Kept(Mem, m, H) /\ k # 0
  <2>1. CASE empty
    <3>1. Good(Mem, held, tables, tblGrpCache, 0) /\ Fits(Mem, TblShift) # {}  BY <1>1, <1>2, <2>1
    <3>2. Good(Restock(Mem), held, tables, <<Found(Mem, TblShift)>>, NrTblCache) /\ Kept(Mem, Restock(Mem), H)
      BY <3>1, GoodStock
    <3>3. NrTblCache # 0
      <4>1. TblShift \in Nat  BY OrderAssumption
      <4> QED BY <4>1, PowType DEF NrTblCache
    <3> QED BY <2>1, <3>2, <3>3
  <2>2. CASE ~empty
    <3>1. m = Mem /\ s = tblGrpCache /\ k = nrTbl /\ nrTbl # 0  BY <2>2
    <3> HIDE DEF m, s, k
    <3> QED BY <1>1, <3>1 DEF Kept
  <2> QED BY <2>1, <2>2
<1> HIDE DEF m, s, k
<1>4. /\ Good(n, held, tables \union {l}, Front(cut.stack), k - 1) /\ Kept(m, n, H)
      /\ l \in Page /\ l \notin H /\ n \in MemType
  BY <1>3, GoodCut
<1> HIDE DEF n, l, cut
<1>5. Mem' = n  BY <1>2, <1>4, Became
<1>6. Kept(Mem, n, H)  BY <1>3, <1>4 DEF Kept
<1>7. BuddyInv'
  <2>1. Good(Mem', held', tables', tblGrpCache', nrTbl')  BY <1>2, <1>4, <1>5
  <2>2. mine' \in [CPU -> Page \union {None}] /\ hung' \in [Locks -> CPU \union {None}]
    BY <1>2, <1>4 DEF BuddyInv
  <2> QED BY <2>1, <2>2 DEF BuddyInv
<1>8. Promise!Next
  <2>1. PICK G : Nodes(n.page, G) /\ held \subseteq G /\ tables \union {l} \subseteq G  BY <1>4, GoodNodes
  <2>2. H \union {l} \subseteq G  BY <2>1
  <2>3. H \union {l} = held' \union tables'  BY <1>2
  <2> HIDE DEF H
  <2>4. Allotted(Mem, H, n, H \union {l})  BY <1>4, <1>6, <2>1, <2>2, Allots
  <2>5. Allotted(Mem, held \union tables, Mem', held' \union tables')  BY <1>5, <2>3, <2>4 DEF H
  <2> QED BY <2>5, StepAllots
<1> QED BY <1>7, <1>8 DEF Goes

\* All of them.
LEMMA BuddyStep == BuddyInv /\ [Next]_vars => Goes
<1> SUFFICES ASSUME BuddyInv, [Next]_vars PROVE Goes  OBVIOUS
<1>1. ASSUME NEW c \in CPU, NEW k \in Sizes, Alloc(c, k) PROVE Goes  BY <1>1, AllocGoes
<1>2. ASSUME NEW c \in CPU, AllocTblHang(c) \/ \E k \in Sizes : AllocHang(c, k) PROVE Goes
  BY <1>2, HangGoes
<1>3. ASSUME NEW c \in CPU, Mark(c) PROVE Goes  BY <1>3, MarkGoes
<1>4. ASSUME NEW c \in CPU, NEW p \in Marked(held), Free(c, p) PROVE Goes
  BY <1>4, FreeGoes DEF Marked
<1>5. ASSUME NEW c \in CPU, AllocTbl(c) PROVE Goes  BY <1>5, AllocTblGoes
<1>6. ASSUME NEW c \in CPU, NEW p \in Marked(tables), FreeTbl(c, p) PROVE Goes
  BY <1>6, FreeTblGoes DEF Marked
<1>7. CASE UNCHANGED vars
  <2>1. UNCHANGED <<page, revBit, freeLst, totUsage, tblGrpCache, nrTbl, held, tables, mine, hung>>
    BY <1>7 DEF vars, buddyVars
  <2>2. Mem' = Mem  BY <2>1 DEF Mem
  <2>3. BuddyInv'  BY <2>1, <2>2 DEF BuddyInv
  <2>4. Owned' = Owned  BY <2>1, <2>2 DEF Owned
  <2> QED BY <2>3, <2>4 DEF Goes
<1> QED BY <1>1, <1>2, <1>3, <1>4, <1>5, <1>6, <1>7 DEF Next

\* The invariant holds throughout.
LEMMA BuddyHolds == Spec => []BuddyInv
<1>1. BuddyInv /\ [Next]_vars => BuddyInv'  BY BuddyStep DEF Goes
<1> QED BY <1>1, BuddyInit, PTL DEF Spec

-----------------------------------------------------------------------------
(* The refinement. *)

\* What callers of mm_allocPages and mm_map_allocTbl hold behaves as the
\* abstract allocator says: a step gives one of them an aligned group that
\* overlaps none that is held, or takes one back, and changes no other
\* (mm_allocPages, mm_freePages, mm_map_allocTbl, mm_map_freeTbl).
THEOREM AllocatesAlways == Spec => Allocates
<1>1. Init => Promise!Init  BY DEF Init, Promise!Init
<1>2. BuddyInv /\ [Next]_vars
        => [Promise!Next]_({[page |-> p, ord |-> page[p].ord] : p \in held \union tables})
  <2> SUFFICES ASSUME BuddyInv, [Next]_vars, ~Promise!Next
               PROVE  UNCHANGED {[page |-> p, ord |-> page[p].ord] : p \in held \union tables}
    OBVIOUS
  <2>1. Owned' = Owned  BY BuddyStep DEF Goes
  <2> QED BY <2>1, OwnedIs
<1> QED BY <1>1, <1>2, BuddyHolds, PTL DEF Spec, Allocates, Promise!Spec
-----------------------------------------------------------------------------
(* What follows from the inductive invariant. *)

\* The types.
LEMMA TypesOf == BuddyInv => TypeOK
<1> SUFFICES ASSUME BuddyInv PROVE TypeOK  OBVIOUS
<1>1. Good(Mem, held, tables, tblGrpCache, nrTbl)  BY DEF BuddyInv
<1>2. PICK G : /\ Nodes(Mem.page, G) /\ held \subseteq G /\ tables \subseteq G /\ G \subseteq Page
               /\ ToSet(tblGrpCache) \subseteq G
  BY <1>1, GoodNodes
<1>3. Mem \in MemType  BY <1>1 DEF Good, MemOK
<1>4. page \in [Page -> Desc] /\ revBit \subseteq (1 .. MaxOrd) \X Nat /\ freeLst \in [Ord -> Seq(Page)]
  BY <1>3 DEF MemType, Mem
<1>5. totUsage \in Nat
  <2>1. totUsage = Cardinality(Area(Mem.page, held \union tables \union ToSet(tblGrpCache)))
    BY <1>1 DEF Good, Mem
  <2>2. held \union tables \union ToSet(tblGrpCache) \subseteq G  BY <1>2
  <2> QED BY <1>2, <2>1, <2>2, AreaCount
<1>6. nrTbl \in Nat
  <2>1. nrTbl = Cardinality(Area(Mem.page, ToSet(tblGrpCache)))  BY <1>1 DEF Good
  <2> QED BY <1>2, <2>1, AreaCount
<1>7. tblGrpCache \in Seq(Page)  BY <1>1 DEF Good
<1> QED BY <1>2, <1>4, <1>5, <1>6, <1>7 DEF TypeOK, BuddyInv

\* The names of the invariant and of Buddy for the same sets.
LEMMA SameSets ==
    /\ FreeGroups = FreeOf(Mem) /\ Mem.page = page /\ Mem.free = freeLst /\ Mem.bit = revBit
    /\ Mem.usage = totUsage
    /\ \A p : Group(p) = Cell(page, p)
    /\ \A S : Area(page, S) = UNION {Group(p) : p \in S}
<1>1. Mem.page = page /\ Mem.free = freeLst /\ Mem.bit = revBit /\ Mem.usage = totUsage  BY DEF Mem
<1>2. FreeGroups = FreeOf(Mem)  BY <1>1 DEF FreeGroups, FreeOf
<1>3. \A p : Group(p) = Cell(page, p)  BY DEF Group, Cell
<1> QED BY <1>1, <1>2, <1>3 DEF Area

\* The counters.
LEMMA AccountsOf == BuddyInv => Accounts
<1> SUFFICES ASSUME BuddyInv PROVE Accounts  OBVIOUS
<1> DEFINE S == ToSet(tblGrpCache)
           N == NrTblCache
           len == Len(tblGrpCache)
<1>1. Good(Mem, held, tables, tblGrpCache, nrTbl)  BY DEF BuddyInv
<1>2. PICK G : Nodes(Mem.page, G) /\ S \subseteq G  BY <1>1, GoodNodes
<1>3. totUsage = Cardinality(UNION {Group(p) : p \in Taken})
  BY <1>1, SameSets DEF Good, Taken
<1>4. nrTbl = Cardinality(UNION {Group(p) : p \in S}) /\ nrTbl <= N  BY <1>1, SameSets DEF Good
<1>5. len <= nrTbl /\ len \in Nat /\ nrTbl \in Nat
  <2>1. tblGrpCache \in Seq(Page) /\ IsInjective(tblGrpCache)  BY <1>1 DEF Good
  <2>2. Cardinality(S) = len /\ len \in Nat  BY <2>1, SetOfListOnce, LenProperties
  <2>3. Cardinality(S) <= Cardinality(Area(Mem.page, S)) /\ Cardinality(Area(Mem.page, S)) \in Nat
    BY <1>2, AreaCount
  <2> QED BY <1>1, <2>2, <2>3 DEF Good
<1>6. N \in Nat
  <2>1. TblShift \in Nat  BY OrderAssumption
  <2> QED BY <2>1, PowType DEF NrTblCache
<1>7. len <= 2 * N
  <2> HIDE DEF N, len
  <2> QED BY <1>4, <1>5, <1>6
<1> QED BY <1>3, <1>4, <1>7 DEF Accounts

\* Four sets that do not overlap.
LEMMA CountFour ==
    ASSUME NEW A, NEW B, NEW C, NEW D, IsFiniteSet(A), IsFiniteSet(B), IsFiniteSet(C), IsFiniteSet(D),
           A \intersect (B \union C \union D) = {}, B \intersect (C \union D) = {}, C \intersect D = {}
    PROVE  Cardinality(A) + Cardinality(B) + Cardinality(C) + Cardinality(D)
             = Cardinality(A \union (B \union C \union D))
<1>1. ASSUME NEW X, NEW Y, IsFiniteSet(X), IsFiniteSet(Y), X \intersect Y = {}
      PROVE  /\ IsFiniteSet(X \union Y) /\ Cardinality(X) \in Nat /\ Cardinality(Y) \in Nat
             /\ Cardinality(X \union Y) = Cardinality(X) + Cardinality(Y)
  <2>1. /\ IsFiniteSet(X \union Y)
        /\ Cardinality(X \union Y) = Cardinality(X) + Cardinality(Y) - Cardinality(X \intersect Y)
    BY <1>1, FS_Union
  <2>2. Cardinality(X \intersect Y) = 0  BY <1>1, FS_EmptySet
  <2>3. Cardinality(X) \in Nat /\ Cardinality(Y) \in Nat  BY <1>1, FS_CardinalityType
  <2> QED BY <2>1, <2>2, <2>3
<1>2. /\ IsFiniteSet(C \union D) /\ Cardinality(C) \in Nat /\ Cardinality(D) \in Nat
      /\ Cardinality(C \union D) = Cardinality(C) + Cardinality(D)
  BY <1>1
<1>3. /\ IsFiniteSet(B \union (C \union D)) /\ Cardinality(B) \in Nat
      /\ Cardinality(B \union (C \union D)) = Cardinality(B) + Cardinality(C \union D)
  BY <1>1, <1>2
<1>4. B \union (C \union D) = B \union C \union D  OBVIOUS
<1>5. /\ Cardinality(A \union (B \union C \union D)) = Cardinality(A) + Cardinality(B \union C \union D)
      /\ Cardinality(A) \in Nat
  BY <1>1, <1>3, <1>4
<1> DEFINE a == Cardinality(A)
           b == Cardinality(B)
           c == Cardinality(C)
           d == Cardinality(D)
           e == Cardinality(C \union D)
           f == Cardinality(B \union C \union D)
           g == Cardinality(A \union (B \union C \union D))
<1>6. a \in Nat /\ b \in Nat /\ c \in Nat /\ d \in Nat /\ e = c + d /\ f = b + e /\ g = a + f
  BY <1>2, <1>3, <1>4, <1>5
<1> HIDE DEF a, b, c, d, e, f, g
<1>7. a + b + c + d = g  BY <1>6
<1> QED BY <1>7 DEF a, b, c, d, g

\* One group and one owner for every page.
LEMMA PartitionOf == BuddyInv => Partition
<1> SUFFICES ASSUME BuddyInv PROVE Partition  OBVIOUS
<1> DEFINE S == ToSet(tblGrpCache)
           G == FreeGroups \union Taken
<1>1. Good(Mem, held, tables, tblGrpCache, nrTbl)  BY DEF BuddyInv
<1>2. MemOK(Mem, Taken)  BY <1>1 DEF Good, Taken
<1>3. Nodes(page, G) /\ Taken \intersect FreeGroups = {}  BY <1>2, SameSets DEF MemOK
<1>4. \A q \in Page : Cardinality({p \in G : q \in Group(p)}) = 1
  <2> TAKE q \in Page
  <2>1. PICK p \in G : q \in Cell(page, p)  BY <1>3 DEF Nodes
  <2>2. \A x \in G : q \in Cell(page, x) => x = p  BY <1>3, <2>1 DEF Nodes
  <2> HIDE DEF G
  <2>3. {x \in G : q \in Group(x)} = {p}  BY <2>1, <2>2, SameSets
  <2>4. Cardinality({p}) = 1  BY FS_Singleton
  <2> QED BY <2>3, <2>4
<1>5. Cardinality(FreeGroups) + Len(tblGrpCache) + Cardinality(held) + Cardinality(tables) = Cardinality(G)
  <2>1. FreeGroups \subseteq G /\ S \subseteq G /\ held \subseteq G /\ tables \subseteq G  BY DEF Taken
  <2> HIDE DEF G
  <2>2. IsFiniteSet(FreeGroups) /\ IsFiniteSet(S) /\ IsFiniteSet(held) /\ IsFiniteSet(tables)
    BY <1>3, <2>1, AreaCount
  <2>3. /\ FreeGroups \intersect (S \union held \union tables) = {} /\ S \intersect (held \union tables) = {}
        /\ held \intersect tables = {}
    BY <1>1, <1>3 DEF Good, Taken
  <2>4. Cardinality(FreeGroups) + Cardinality(S) + Cardinality(held) + Cardinality(tables)
          = Cardinality(FreeGroups \union (S \union held \union tables))
    BY <2>2, <2>3, CountFour
  <2>5. FreeGroups \union (S \union held \union tables) = G  BY DEF G, Taken
  <2>6. Cardinality(S) = Len(tblGrpCache)  BY <1>1, SetOfListOnce DEF Good
  <2> QED BY <2>4, <2>5, <2>6
<1>6. \A o \in Ord : (\A p \in ToSet(freeLst[o]) : page[p].ord = o) /\ IsInjective(freeLst[o])
  BY <1>2, SameSets DEF MemOK, Lists
<1> QED BY <1>4, <1>5, <1>6 DEF Partition

\* The bits of the pairs.
LEMMA PairBitsOf == BuddyInv => PairBits
<1> SUFFICES ASSUME BuddyInv PROVE PairBits  OBVIOUS
<1> DEFINE G == FreeGroups \union Taken
<1>1. MemOK(Mem, Taken)  BY DEF BuddyInv, Good, Taken
<1>2. Nodes(page, G) /\ Bits(Mem)  BY <1>1, SameSets DEF MemOK
<1>3. \A o \in Ord, q \in FreeGroups : q \in ToSet(freeLst[o]) <=> page[q].ord = o
  BY <1>1, FreeWhere, SameSets
<1>4. \A o \in Ord : \A q \in ToSet(freeLst[o]) : q \in FreeGroups  BY DEF FreeGroups
<1> SUFFICES ASSUME NEW p \in G, page[p].buddyId # 1,
                    NEW b, b = GetBuddy(Mem, p), NEW o, o = page[p].ord
             PROVE  /\ ~(p \in ToSet(freeLst[o]) /\ b \in ToSet(freeLst[o]))
                    /\ Pair(Mem, p) \in revBit <=> {p, b} \intersect ToSet(freeLst[o]) # {}
  BY DEF PairBits
<1> DEFINE i == page[p].buddyId
           L == ToSet(freeLst[o])
<1>5. Located(p, o, i) /\ o \in Ord /\ o \in Nat /\ i # 1 /\ i \in Nat
  <2>1. Located(p, o, i)  BY <1>2 DEF Nodes
  <2> HIDE DEF G
  <2>2. page[p].ord \in Ord /\ page[p].ord \in Nat /\ page[p].buddyId \in 1 .. 2^(MaxOrd + 1) - 1
    BY <1>2, CellShape
  <2> QED BY <2>1, <2>2
<1>6. b = BuddyPage(p, o, i)
  BY SameSets DEF GetBuddy, IsRight, Size, BuddyPage
<1> HIDE DEF i
<1>7. /\ Located(b, o, BuddyId(i)) /\ BuddyId(i) # 1 /\ b # p
      /\ b \div (2 * 2^o) = p \div (2 * 2^o)
  BY <1>5, <1>6, NodeBuddy
<1>8. \A q : Pair(Mem, q) = <<page[q].ord + 1, q \div (2 * 2^page[q].ord)>>  BY SameSets DEF Pair, Size
<1>9. \A q \in L : q = p \/ q = b => q \in Half(Mem) /\ Pair(Mem, q) = Pair(Mem, p)
  <2> SUFFICES ASSUME NEW q \in L, q = p \/ q = b PROVE q \in Half(Mem) /\ Pair(Mem, q) = Pair(Mem, p)
    OBVIOUS
  <2>1. q \in FreeGroups /\ page[q].ord = o  BY <1>3, <1>4, <1>5
  <2>2. page[q].buddyId # 1
    <3>1. CASE q = p  BY <1>5, <3>1 DEF i
    <3>2. CASE q = b
      <4>1. Located(b, o, page[b].buddyId)  BY <1>2, <2>1, <3>2 DEF Nodes
      <4>2. page[b].buddyId = BuddyId(i)  BY <1>7, <4>1, NodeOne
      <4> QED BY <1>7, <3>2, <4>2
    <3> QED BY <3>1, <3>2
  <2>3. q \in Half(Mem)  BY <2>1, <2>2, SameSets DEF Half, IsRoot
  <2>4. q \div (2 * 2^o) = p \div (2 * 2^o)  BY <1>7
  <2> QED BY <1>8, <2>1, <2>3, <2>4
<1>10. ~(p \in L /\ b \in L)
  <2> SUFFICES ASSUME p \in L, b \in L PROVE FALSE  OBVIOUS
  <2>1. p \in Half(Mem) /\ b \in Half(Mem) /\ Pair(Mem, b) = Pair(Mem, p)  BY <1>9
  <2> QED BY <1>2, <1>7, <2>1 DEF Bits
<1>11. {p, b} \intersect L # {} => Pair(Mem, p) \in revBit
  <2> SUFFICES ASSUME NEW q \in L, q = p \/ q = b PROVE Pair(Mem, p) \in revBit  OBVIOUS
  <2>1. q \in Half(Mem) /\ Pair(Mem, q) = Pair(Mem, p)  BY <1>9
  <2> QED BY <1>2, <2>1, SameSets DEF Bits
<1>12. Pair(Mem, p) \in revBit => {p, b} \intersect L # {}
  <2> SUFFICES ASSUME Pair(Mem, p) \in revBit PROVE p \in L \/ b \in L  OBVIOUS
  <2>1. PICK q \in Half(Mem) : Pair(Mem, q) = Pair(Mem, p)  BY <1>2, SameSets DEF Bits
  <2>2. q \in FreeGroups /\ q \in G /\ page[q].buddyId # 1  BY <2>1, SameSets DEF Half, IsRoot
  <2>3. page[q].ord \in Nat /\ Located(q, page[q].ord, page[q].buddyId)
    <3>1. Located(q, page[q].ord, page[q].buddyId)  BY <1>2, <2>2 DEF Nodes
    <3> HIDE DEF G
    <3> QED BY <1>2, <2>2, <3>1, CellShape
  <2>4. page[q].ord + 1 = o + 1 /\ q \div (2 * 2^page[q].ord) = p \div (2 * 2^o)
    BY <1>8, <2>1
  <2>5. page[q].ord = o
    <3> DEFINE u == page[q].ord
    <3>1. u \in Nat /\ u + 1 = o + 1 /\ o \in Nat  BY <1>5, <2>3, <2>4
    <3> HIDE DEF u
    <3>2. u = o  BY <3>1
    <3> QED BY <3>2 DEF u
  <2>6. q \in L  BY <1>3, <1>5, <2>2, <2>5
  <2>7. CASE q = p  BY <2>6, <2>7
  <2>8. CASE q # p
    <3>1. Located(q, o, page[q].buddyId) /\ p \div (2 * 2^o) = q \div (2 * 2^o)  BY <2>3, <2>4, <2>5
    <3>2. \/ i % 2 = 0 /\ q = p + 2^o
          \/ i % 2 = 1 /\ q = p - 2^o
      BY <1>5, <2>2, <2>8, <3>1, PairOnly
    <3>3. q = b  BY <1>6, <3>2 DEF BuddyPage
    <3> QED BY <2>6, <3>3
  <2> QED BY <2>7, <2>8
<1> QED BY <1>10, <1>11, <1>12
-----------------------------------------------------------------------------
(* Free memory is coalesced. *)

\* Of two groups' places that meet, the smaller is inside of the other.
LEMMA Inside ==
    ASSUME NEW p, NEW o, NEW i, Located(p, o, i), NEW q, NEW u, NEW j, Located(q, u, j),
           o <= u, Block(p, o) \intersect Block(q, u) # {}
    PROVE  Block(p, o) \subseteq Block(q, u)
<1>1. o \in Nat /\ u \in Nat
  <2>1. o \in Ord /\ u \in Ord  BY NodeShape
  <2> QED BY <2>1, OrderAssumption DEF Ord
<1>2. PICK s \in Nat : p = s * 2^o
  <2>1. Aligned(p, o, i)  BY NodeShape
  <2> QED BY <2>1 DEF Aligned
<1>3. PICK t \in Nat : q = t * 2^u
  <2>1. Aligned(q, u, j)  BY NodeShape
  <2> QED BY <2>1 DEF Aligned
<1> QED BY <1>1, <1>2, <1>3, Dyadic

\* Places of one size that meet are the same.
LEMMA SamePlace ==
    ASSUME NEW p, NEW o, NEW i, Located(p, o, i), NEW q, NEW j, Located(q, o, j),
           Block(p, o) \intersect Block(q, o) # {}
    PROVE  p = q
<1> DEFINE x == 2^o
<1>1. p \in Nat /\ q \in Nat /\ x \in Nat \ {0} /\ o \in Ord
      /\ Block(p, o) = p .. p + x - 1 /\ Block(q, o) = q .. q + x - 1
  BY NodeShape
<1>2. o \in Nat  BY <1>1, OrderAssumption DEF Ord
<1>3. o <= o  BY <1>2
<1>4. Block(p, o) \subseteq Block(q, o) /\ Block(q, o) \subseteq Block(p, o)
  <2>1. Block(q, o) \intersect Block(p, o) # {}  OBVIOUS
  <2> QED BY <1>3, <2>1, Inside
<1> HIDE DEF x
<1>5. p \in p .. p + x - 1 /\ q \in q .. q + x - 1  BY <1>1
<1>6. p \in q .. q + x - 1 /\ q \in p .. p + x - 1  BY <1>1, <1>4, <1>5
<1> QED BY <1>1, <1>6

\* The place c of order u is that of the pair of p and b.
InPair(c, p, b, u) ==
    /\ \E j : Located(c, u + 1, j)
    /\ Block(p, u) \subseteq Block(c, u + 1) /\ Block(b, u) \subseteq Block(c, u + 1)

\* Halves have such a place.
LEMMA PairPlace ==
    ASSUME NEW p, NEW u, NEW i, Located(p, u, i), i # 1
    PROVE  \E c : InPair(c, p, BuddyPage(p, u, i), u)
<1> DEFINE b == BuddyPage(p, u, i)
           x == 2^u
           c == IF i % 2 = 1 THEN b ELSE p
           j == IF i % 2 = 1 THEN BuddyId(i) ELSE i
<1>1. Located(b, u, BuddyId(i)) /\ BuddyId(i) # 1  BY NodeBuddy
<1>2. /\ p \in Nat /\ b \in Nat /\ x \in Nat \ {0} /\ i \in 1 .. 2^(MaxOrd + 1) - 1
      /\ Block(p, u) = p .. p + x - 1 /\ Block(b, u) = b .. b + x - 1
  BY <1>1, NodeShape
<1>3. i \in Nat
  <2> DEFINE M == 2^(MaxOrd + 1) - 1
  <2>1. i \in 1 .. M  BY <1>2
  <2>2. M \in Int
    <3>1. MaxOrd + 1 \in Nat  BY OrderAssumption
    <3>2. 2^(MaxOrd + 1) \in Nat  BY <3>1, PowType
    <3> QED BY <3>2
  <2> HIDE DEF M
  <2> QED BY <2>1, <2>2
<1>4. b = IF i % 2 = 1 THEN p - x ELSE p + x  BY DEF BuddyPage
<1>5. Located(c, u, j) /\ j # 1 /\ j % 2 = 0
  <2>1. CASE i % 2 = 1
    <3>1. BuddyId(i) = i - 1 /\ (i - 1) % 2 = 0
      <4>1. (i - 1) % 2 = 0  BY <1>3, <2>1
      <4> QED BY <2>1, <4>1 DEF BuddyId
    <3> QED BY <1>1, <2>1, <3>1
  <2>2. CASE i % 2 # 1
    <3>1. i % 2 = 0  BY <1>3, <2>2
    <3> QED BY <2>2, <3>1
  <2> QED BY <2>1, <2>2
<1>6. 2^(u + 1) = x + x /\ Located(c, u + 1, Parent(j))  BY <1>5, NodeParent
<1>7. Block(c, u + 1) = c .. c + (x + x) - 1 /\ c \in Nat
  <2>1. Block(c, u + 1) = c .. c + 2^(u + 1) - 1  BY DEF Block
  <2> QED BY <1>2, <1>6, <2>1
<1> HIDE DEF x, b
<1>8. p .. p + x - 1 \subseteq c .. c + (x + x) - 1 /\ b .. b + x - 1 \subseteq c .. c + (x + x) - 1
  <2>1. CASE i % 2 = 1
    <3>1. c = b /\ p = c + x  BY <1>2, <1>4, <2>1
    <3> HIDE DEF c
    <3> QED BY <1>2, <1>7, <3>1
  <2>2. CASE i % 2 # 1
    <3>1. c = p /\ b = c + x  BY <1>4, <2>2
    <3> HIDE DEF c
    <3> QED BY <1>2, <1>7, <3>1
  <2> QED BY <2>1, <2>2
<1>9. InPair(c, p, b, u)  BY <1>2, <1>6, <1>7, <1>8 DEF InPair
<1> QED BY <1>9 DEF b

\* A group that is not a half is a whole boot group.
LEMMA RootWhole ==
    ASSUME NEW p, NEW u, Located(p, u, 1), NEW r \in Roots, Block(p, u) \intersect Block(r[1], r[2]) # {}
    PROVE  u = r[2]
<1>1. PICK s \in Roots, k \in Nat, c \in Nat, x \in Nat \ {0}, w \in Nat \ {0} : PlacedIn(p, u, 1, s, k, c, x, w)
  BY LocatedIn
<1>2. Block(p, u) \subseteq Block(s[1], s[2])  BY <1>1, PlacedInside
<1>3. s = r
  <2>1. Block(s[1], s[2]) \intersect Block(r[1], r[2]) # {}  BY <1>2
  <2> QED BY <2>1, RootsAre
<1>4. w = 2^(r[2] - u) /\ 1 = w + k /\ u \in 0 .. r[2] /\ r[2] \in Ord /\ r[2] - u \in Nat
  BY <1>1, <1>3 DEF PlacedIn
<1>5. r[2] \in Nat /\ u \in Nat  BY <1>4, OrderAssumption DEF Ord
<1>6. w = 1  BY <1>4
<1> SUFFICES ASSUME u # r[2] PROVE FALSE  OBVIOUS
<1> DEFINE n == r[2] - u - 1
<1>7. n \in Nat /\ r[2] - u = n + 1
  <2> DEFINE o == r[2]
  <2>1. o \in Nat /\ u \in Nat /\ u \in 0 .. o /\ u # o  BY <1>4, <1>5
  <2> HIDE DEF o
  <2>2. o - u - 1 \in Nat /\ o - u = (o - u - 1) + 1  BY <2>1
  <2> QED BY <2>2 DEF o
<1> HIDE DEF n
<1>8. 2^(n + 1) = 2^n + 2^n /\ 2^n \in Nat \ {0}  BY <1>7, PowNext, PowType
<1> DEFINE y == 2^n
<1>9. w = y + y /\ y \in Nat \ {0}  BY <1>4, <1>7, <1>8
<1> HIDE DEF y
<1> QED BY <1>6, <1>9

\* A block that no taken group meets is inside of a free one.
LEMMA Whole ==
    ASSUME BuddyInv, NEW r \in Roots, NEW a, NEW o, NEW id, Located(a, o, id), o <= r[2],
           Block(a, o) \subseteq Block(r[1], r[2]),
           \A p \in Taken : Group(p) \intersect Block(a, o) = {}
    PROVE  \E p \in FreeGroups : Block(a, o) \subseteq Group(p)
<1> DEFINE G == FreeGroups \union Taken
           B == Block(a, o)
           S == {p \in G : Cell(page, p) \intersect B # {}}
<1>1. Nodes(page, G)
  <2>1. MemOK(Mem, Taken)  BY DEF BuddyInv, Good, Taken
  <2> QED BY <2>1, SameSets DEF MemOK
<1>2. \A p \in G : /\ Located(p, page[p].ord, page[p].buddyId) /\ page[p].ord \in Nat /\ page[p].ord \in Ord
                   /\ Cell(page, p) = Block(p, page[p].ord) /\ p \in Cell(page, p)
  <2> HIDE DEF G
  <2> TAKE p \in G
  <2>1. Located(p, page[p].ord, page[p].buddyId)  BY <1>1 DEF Nodes
  <2> QED BY <1>1, <2>1, CellShape DEF Cell
<1>3. o \in Nat /\ B \subseteq Page /\ B # {}
  <2>1. o \in Ord /\ Block(a, o) \subseteq Page /\ a \in Nat /\ 2^o \in Nat \ {0} /\ Block(a, o) = a .. a + 2^o - 1
    BY NodeShape
  <2> DEFINE x == 2^o
  <2>2. x \in Nat \ {0} /\ B = a .. a + x - 1  BY <2>1
  <2> HIDE DEF x, B
  <2>3. a \in a .. a + x - 1  BY <2>1, <2>2
  <2>4. o \in Nat  BY <2>1, OrderAssumption DEF Ord
  <2> QED BY <2>1, <2>2, <2>3, <2>4 DEF B
<1>4. \A p \in S : p \in FreeGroups /\ p \in G  BY SameSets
<1> SUFFICES ASSUME \A p \in FreeGroups : ~(B \subseteq Group(p)) PROVE FALSE  OBVIOUS
<1>5. \A p \in S : page[p].ord < o /\ Block(p, page[p].ord) \subseteq B
  <2> TAKE p \in S
  <2> DEFINE u == page[p].ord
  <2>1. Located(p, u, page[p].buddyId) /\ u \in Nat /\ Block(p, u) \intersect B # {} /\ Group(p) = Block(p, u)
    BY <1>2, SameSets
  <2> HIDE DEF u
  <2>2. ~(o <= u)
    <3> SUFFICES ASSUME o <= u PROVE FALSE  OBVIOUS
    <3>1. Block(a, o) \subseteq Block(p, u)  BY <2>1, Inside
    <3> QED BY <1>4, <2>1, <3>1
  <2>3. u < o /\ u <= o  BY <1>3, <2>1, <2>2
  <2>4. Block(p, u) \subseteq B  BY <2>1, <2>3, Inside
  <2> QED BY <2>3, <2>4 DEF u
<1>6. S # {}
  <2>1. PICK q \in B : q \in Page  BY <1>3
  <2>2. PICK p \in G : q \in Cell(page, p)  BY <1>1, <2>1 DEF Nodes
  <2> QED BY <2>1, <2>2
<1>7. PICK p \in S : \A q \in S : page[p].ord <= page[q].ord
  <2> DEFINE T == {page[q].ord : q \in S}
  <2>1. T \in SUBSET Nat /\ T # {}  BY <1>2, <1>4, <1>6
  <2>2. PICK v \in T : \A y \in T : v <= y
    <3> HIDE DEF T
    <3> QED BY <2>1, LeastOf
  <2> QED BY <2>2
<1> DEFINE u == page[p].ord
           i == page[p].buddyId
           b == BuddyPage(p, u, i)
<1>8. Located(p, u, i) /\ u \in Nat /\ u \in Ord /\ u < o /\ Block(p, u) \subseteq B /\ p \in Block(p, u)
      /\ p \in FreeGroups /\ p \in G
  BY <1>2, <1>4, <1>5
<1> HIDE DEF u, i
<1>9. i # 1
  <2> SUFFICES ASSUME i = 1 PROVE FALSE  OBVIOUS
  <2>1. Block(p, u) \intersect Block(r[1], r[2]) # {}  BY <1>8
  <2>2. u = r[2]  BY <1>8, <2>1, RootWhole
  <2>3. r[2] \in Nat  BY RootsAre, OrderAssumption DEF Ord
  <2> QED BY <1>3, <1>8, <2>2, <2>3
<1>10. Located(b, u, BuddyId(i)) /\ b # p  BY <1>8, <1>9, NodeBuddy
<1>11. PICK c : InPair(c, p, b, u)  BY <1>8, <1>9, PairPlace
<1>12. PICK j : Located(c, u + 1, j)  BY <1>11 DEF InPair
<1> DEFINE C == Block(c, u + 1)
<1>13. Block(p, u) \subseteq C /\ Block(b, u) \subseteq C  BY <1>11 DEF InPair
<1>14. C \subseteq B
  <2>1. u + 1 <= o  BY <1>3, <1>8
  <2>2. C \intersect B # {}  BY <1>8, <1>13
  <2> QED BY <1>12, <2>1, <2>2, Inside
<1>15. b \in Page /\ b \in Block(b, u)
  <2> DEFINE x == 2^u
  <2>1. b \in Page /\ b \in Nat /\ x \in Nat \ {0} /\ Block(b, u) = b .. b + x - 1  BY <1>10, NodeShape
  <2> HIDE DEF x, b
  <2>2. b \in b .. b + x - 1  BY <2>1
  <2> QED BY <2>1, <2>2
<1> HIDE DEF b
<1>16. PICK g \in G : b \in Cell(page, g)  BY <1>1, <1>15 DEF Nodes
<1> DEFINE v == page[g].ord
<1>17. Located(g, v, page[g].buddyId) /\ v \in Nat /\ Cell(page, g) = Block(g, v)  BY <1>2
<1>18. g \in S
  <2>1. b \in B  BY <1>13, <1>14, <1>15
  <2> QED BY <1>16, <2>1
<1>19. u <= v  BY <1>7, <1>18 DEF u
<1> HIDE DEF v
<1>20. v = u
  <2> SUFFICES ASSUME v # u PROVE FALSE  OBVIOUS
  <2>1. u + 1 <= v  BY <1>8, <1>17, <1>19
  <2>2. C \intersect Block(g, v) # {}  BY <1>13, <1>15, <1>16, <1>17
  <2>3. C \subseteq Block(g, v)  BY <1>12, <1>17, <2>1, <2>2, Inside
  <2>4. p \in Cell(page, g) /\ p \in Cell(page, p)  BY <1>2, <1>8, <1>13, <1>17, <2>3
  <2>5. g = p  BY <1>1, <1>8, <2>4 DEF Nodes
  <2> QED BY <2>5 DEF u, v
<1>21. g = b
  <2>1. Block(g, u) \intersect Block(b, u) # {}  BY <1>15, <1>16, <1>17, <1>20
  <2> QED BY <1>10, <1>17, <1>20, <2>1, SamePlace
<1>22. p \in ToSet(freeLst[u]) /\ b \in ToSet(freeLst[u])
  <2>1. MemOK(Mem, Taken)  BY DEF BuddyInv, Good, Taken
  <2>2. \A q \in FreeGroups : q \in ToSet(freeLst[u]) <=> page[q].ord = u  BY <1>8, <2>1, FreeWhere, SameSets
  <2>3. b \in FreeGroups /\ page[b].ord = u  BY <1>4, <1>18, <1>20, <1>21 DEF v
  <2> QED BY <1>8, <2>2, <2>3 DEF u
<1>23. b = GetBuddy(Mem, p)
  BY SameSets DEF GetBuddy, IsRight, Size, BuddyPage, b, u, i
<1> QED BY <1>8, <1>9, <1>22, <1>23, PairBitsOf DEF PairBits, u, i

\* Every block of a boot group is such a place.
LEMMA CoalescedOf == BuddyInv => Coalesced
<1> SUFFICES ASSUME BuddyInv, NEW r \in Roots, NEW o \in 0 .. r[2], NEW k \in 0 .. 2^(r[2] - o) - 1,
                    \A p \in Taken : Group(p) \intersect Block(r[1] + k * 2^o, o) = {}
             PROVE  \E p \in FreeGroups : Block(r[1] + k * 2^o, o) \subseteq Group(p)
  BY DEF Coalesced
<1> DEFINE a == r[1] + k * 2^o
           id == 2^(r[2] - o) + k
<1>1. r[2] \in Nat  BY RootsAre, OrderAssumption DEF Ord
<1>2. k \in Nat /\ k < 2^(r[2] - o) /\ o <= r[2]
  <2>1. r[2] - o \in Nat  BY <1>1
  <2> DEFINE w == 2^(r[2] - o)
  <2>2. w \in Nat /\ k \in 0 .. w - 1  BY <2>1, PowType
  <2> HIDE DEF w
  <2>3. k \in Nat /\ k < w  BY <2>2
  <2> QED BY <1>1, <2>3 DEF w
<1>3. Located(a, o, id)  BY <1>2 DEF Located
<1>4. Block(a, o) \subseteq Block(r[1], r[2])
  <2> DEFINE A == r[1]
             y == 2^o
             m == 2^(r[2] - o)
             ky == k * y
             my == m * y
  <2>3. A \in Nat /\ y \in Nat \ {0} /\ m \in Nat \ {0} /\ my = 2^r[2]
    <3>1. A \in Nat  BY RootsAre
    <3>2. o \in Nat /\ r[2] - o \in Nat  BY <1>1
    <3> QED BY <1>1, <3>1, <3>2, PowType, PowParts
  <2>4. ky + y <= my /\ ky \in Nat /\ my \in Nat
    <3> HIDE DEF y, m
    <3>1. k \in Int /\ m \in Int /\ k < m /\ y \in Nat  BY <1>2, <2>3 DEF m
    <3> QED BY <2>3, <3>1, <1>2, MulNext, MulType
  <2>5. Block(a, o) = A + ky .. A + ky + y - 1 /\ Block(r[1], r[2]) = A .. A + my - 1
    BY <2>3 DEF Block
  <2> HIDE DEF A, y, m, ky, my
  <2>6. A + ky .. A + ky + y - 1 \subseteq A .. A + my - 1  BY <2>3, <2>4
  <2> QED BY <2>5, <2>6
<1> HIDE DEF a, id
<1>5. \A p \in Taken : Group(p) \intersect Block(a, o) = {}  BY DEF a
<1>6. \E p \in FreeGroups : Block(a, o) \subseteq Group(p)  BY <1>2, <1>3, <1>4, <1>5, Whole
<1> QED BY <1>6 DEF a
-----------------------------------------------------------------------------
(* The theorems. *)

\* Descriptors, lists and counters keep their types; totUsage and nrTbl never
\* go below 0.
THEOREM BuddyTypes == Spec => []TypeOK
BY BuddyHolds, TypesOf, PTL

\* Every page is in exactly one group, which is on one free list or has one
\* owner (mm_allocPages, mm_freePages, mm_map_allocTbl, mm_map_freeTbl).
THEOREM EveryPageOnce == Spec => []Partition
BY BuddyHolds, PartitionOf, PTL

\* A pair's bit in revBit says whether one of its halves is free; both never
\* are (mm_buddy_revBit, mm_buddy_getBit).
THEOREM BitsTell == Spec => []PairBits
BY BuddyHolds, PairBitsOf, PTL

\* No free memory is cut up more than the groups in use make it
\* (the loop of mm_freePages).
THEOREM FreeIsCoalesced == Spec => []Coalesced
BY BuddyHolds, CoalescedOf, PTL

\* totUsage and nrTbl count what is taken and what is in stock, which is never
\* more than nrTblCache page tables (mm_allocPages, mm_map_freeTbl).
THEOREM CountersCount == Spec => []Accounts
BY BuddyHolds, AccountsOf, PTL
=============================================================================
