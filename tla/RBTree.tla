------------------------------- MODULE RBTree -------------------------------
(***************************************************************************)
(* The red-black tree of lib/rbtree.c and includes/lib/rbtree.h, link by   *)
(* link, with its cached leftmost node.  The tree is a value: an operation *)
(* runs under the tree's lock.  Left and right cases of the code are one   *)
(* case here, for a direction d and its Other(d).                          *)
(***************************************************************************)
EXTENDS Integers, Sequences, FiniteSets

CONSTANTS
    Node,
    Key,            \* what the comparator of a tree compares
    Nil

VARIABLES
    tree,           \* root, left, and the links and colour of each node
    key

vars == <<tree, key>>

Other(d) == IF d = "left" THEN "right" ELSE "left"

Black(t, n) == n = Nil \/ t.col[n] = "black"
Side(t, p, n) == IF t.kid[p]["left"] = n THEN "left" ELSE "right"

Paint(t, n, c) == IF n = Nil THEN t ELSE [t EXCEPT !.col[n] = c]
SetParent(t, n, p) == IF n = Nil THEN t ELSE [t EXCEPT !.par[n] = p]
\* c takes the place of n below n's parent, or as the root
Replace(t, n, c) ==
    IF t.par[n] = Nil THEN [t EXCEPT !.root = c]
    ELSE [t EXCEPT !.kid[t.par[n]][Side(t, t.par[n], n)] = c]

\* _rotLeft is Rotate(t, n, "left"), _rotRight the other
Rotate(t, n, d) ==
    LET up    == t.kid[n][Other(d)]
        inner == t.kid[up][d]
        r     == SetParent(Replace(t, n, up), inner, n) IN
    [r EXCEPT !.kid[n][Other(d)] = inner, !.kid[up][d] = n,
              !.par[up] = t.par[n], !.par[n] = up]

-----------------------------------------------------------------------------
RECURSIVE FixAfterIns(_, _)
FixAfterIns(t, n) ==
    LET p == t.par[n] IN
    IF Black(t, p) THEN Paint(t, t.root, "black")
    ELSE LET g     == t.par[p]
             d     == Side(t, g, p)
             uncle == t.kid[g][Other(d)]
             inner == t.kid[p][Other(d)] = n
             top   == IF inner THEN n ELSE p
             low   == IF inner THEN p ELSE n
             u     == IF inner THEN Rotate(t, p, d) ELSE t IN
         IF ~Black(t, uncle)
         THEN FixAfterIns(Paint(Paint(Paint(t, uncle, "black"), p, "black"), g, "red"), g)
         ELSE FixAfterIns(Rotate(Paint(Paint(u, top, "black"), g, "red"), g, Other(d)), low)

\* Mutant: the far child of the sibling keeps its colour.
RECURSIVE FixAfterDelFar(_, _, _)
FixAfterDelFar(t, n, p) ==
    IF ~Black(t, n) \/ n = t.root THEN Paint(t, n, "black")
    ELSE LET d  == Side(t, p, n)
             w0 == t.kid[p][Other(d)]
             t1 == IF Black(t, w0) THEN t
                   ELSE Rotate(Paint(Paint(t, w0, "black"), p, "red"), p, d)
             w1 == t1.kid[p][Other(d)] IN
         IF Black(t1, w1) /\ Black(t1, t1.kid[w1][d]) /\ Black(t1, t1.kid[w1][Other(d)])
         THEN FixAfterDelFar(Paint(t1, w1, "red"), p, t1.par[p])
         ELSE LET t4 == Rotate(Paint(Paint(t1, w1, t1.col[p]), p, "black"), p, d) IN
              Paint(t4, t4.root, "black")

RECURSIVE FixAfterDel(_, _, _)
FixAfterDel(t, n, p) ==
    IF ~Black(t, n) \/ n = t.root THEN Paint(t, n, "black")
    ELSE LET d  == Side(t, p, n)
             w0 == t.kid[p][Other(d)]
             t1 == IF Black(t, w0) THEN t
                   ELSE Rotate(Paint(Paint(t, w0, "black"), p, "red"), p, d)
             w1 == t1.kid[p][Other(d)]
             t2 == IF ~Black(t1, t1.kid[w1][Other(d)]) THEN t1
                   ELSE Rotate(Paint(Paint(t1, t1.kid[w1][d], "black"), w1, "red"), w1, Other(d))
             w2 == t2.kid[p][Other(d)]
             t3 == Paint(Paint(Paint(t2, w2, t2.col[p]), p, "black"), t2.kid[w2][Other(d)], "black")
             t4 == Rotate(t3, p, d) IN
         IF Black(t1, t1.kid[w1][d]) /\ Black(t1, t1.kid[w1][Other(d)])
         THEN FixAfterDel(Paint(t1, w1, "red"), p, t1.par[p])
         ELSE Paint(t4, t4.root, "black")

-----------------------------------------------------------------------------
\* The descent of RBTree_insertDef: the parent and the side of a new node.
\* A node goes right of those with an equal key.
Less(k, n) == k < key[n]

RECURSIVE Place(_, _, _)
Place(t, k, at) ==
    LET d == IF Less(k, at) THEN "left" ELSE "right" IN
    IF t.kid[at][d] = Nil THEN <<at, d>> ELSE Place(t, k, t.kid[at][d])

Leaf == [left |-> Nil, right |-> Nil]

\* RBTree_ins
Ins(t, n, k) ==
    IF t.root = Nil
    THEN [t EXCEPT !.root = n, !.left = n, !.kid[n] = Leaf, !.par[n] = Nil, !.col[n] = "black"]
    ELSE LET at == Place(t, k, t.root) IN
         FixAfterIns([t EXCEPT !.left = IF Less(k, @) THEN n ELSE @,
                               !.kid = [@ EXCEPT ![n] = Leaf, ![at[1]][at[2]] = n],
                               !.par[n] = at[1], !.col[n] = "red"], n)

RECURSIVE Leftmost(_, _)
Leftmost(t, n) == IF t.kid[n]["left"] = Nil THEN n ELSE Leftmost(t, t.kid[n]["left"])

RECURSIVE Climb(_, _)
Climb(t, n) ==
    LET p == t.par[n] IN
    IF p # Nil /\ t.kid[p]["right"] = n THEN Climb(t, p) ELSE p

\* Mutant: the next node is sought upwards only.
GetNextUp(t, n) == Climb(t, n)
GetNext(t, n) == IF t.kid[n]["right"] # Nil THEN Leftmost(t, t.kid[n]["right"]) ELSE Climb(t, n)

\* A node with one child or none leaves the tree; with two, its successor
\* leaves its own place and takes the node's links and colour.
Unlink(t, n, c) == SetParent(Replace(t, n, c), c, t.par[n])

Del(t, n) ==
    LET b == [t EXCEPT !.left = IF @ = n THEN GetNext(t, n) ELSE @]
        k == t.kid[n]
        s == Leftmost(t, k["right"])
        c == t.kid[s]["right"]
        u == Unlink(b, s, c)
        m == [SetParent(SetParent(Replace(u, n, s), u.kid[n]["left"], s), u.kid[n]["right"], s)
                 EXCEPT !.kid[s] = u.kid[n], !.par[s] = t.par[n], !.col[s] = t.col[n]]
        one == IF k["left"] = Nil THEN k["right"] ELSE k["left"] IN
    IF k["left"] = Nil \/ k["right"] = Nil
    THEN IF t.col[n] = "black" THEN FixAfterDel(Unlink(b, n, one), one, t.par[n]) ELSE Unlink(b, n, one)
    ELSE IF t.col[s] = "black" THEN FixAfterDel(m, c, IF t.par[s] = n THEN s ELSE t.par[s]) ELSE m

\* Mutant: a smaller node is not remembered.
RECURSIVE FindExact(_, _, _, _)
FindExact(t, k, at, best) ==
    CASE at = Nil    -> best
      [] key[at] < k -> FindExact(t, k, t.kid[at]["right"], best)
      [] key[at] > k -> FindExact(t, k, t.kid[at]["left"], best)
      [] OTHER       -> at

\* RBTree_findDef
RECURSIVE Find(_, _, _, _)
Find(t, k, at, best) ==
    CASE at = Nil    -> best
      [] key[at] < k -> Find(t, k, t.kid[at]["right"], at)
      [] key[at] > k -> Find(t, k, t.kid[at]["left"], best)
      [] OTHER       -> at

-----------------------------------------------------------------------------
RECURSIVE InOrder(_, _)
InOrder(t, n) ==
    IF n = Nil THEN <<>>
    ELSE InOrder(t, t.kid[n]["left"]) \o <<n>> \o InOrder(t, t.kid[n]["right"])

\* A node outside of the tree keeps no links, so that equal trees are equal
\* states; the code leaves the old ones in it and overwrites them.
Clear(t, n) == [t EXCEPT !.kid[n] = Leaf, !.par[n] = Nil, !.col[n] = "red"]
In(n) == n = tree.root \/ tree.par[n] # Nil

Init ==
    /\ tree = [root |-> Nil, left |-> Nil, kid |-> [n \in Node |-> Leaf],
               par |-> [n \in Node |-> Nil], col |-> [n \in Node |-> "red"]]
    /\ key \in [Node -> {CHOOSE k \in Key : \A j \in Key : k <= j}]

\* Nodes are numbers and the first that is not in the tree goes in: which one
\* it is makes no difference.
Insert(n, k) ==
    /\ ~In(n) /\ \A m \in Node : m < n => In(m)
    /\ tree' = Ins(tree, n, k)
    /\ key' = [key EXCEPT ![n] = k]

Delete(n) ==
    /\ In(n)
    /\ tree' = Clear(Del(tree, n), n)
    /\ key' = [key EXCEPT ![n] = CHOOSE k \in Key : \A j \in Key : k <= j]

Next == \E n \in Node : Delete(n) \/ \E k \in Key : Insert(n, k)

Spec == Init /\ [][Next]_vars

-----------------------------------------------------------------------------
TypeOK ==
    /\ tree.root \in Node \union {Nil} /\ tree.left \in Node \union {Nil}
    /\ tree.kid \in [Node -> [{"left", "right"} -> Node \union {Nil}]]
    /\ tree.par \in [Node -> Node \union {Nil}]
    /\ tree.col \in [Node -> {"red", "black"}]
    /\ key \in [Node -> Key]

RECURSIVE Height(_)
Height(n) ==
    IF n = Nil THEN {0}
    ELSE {h + (IF Black(tree, n) THEN 1 ELSE 0) :
             h \in Height(tree.kid[n]["left"]) \union Height(tree.kid[n]["right"])}

(***************************************************************************)
(* After every insertion and deletion no red node has a red child, all     *)
(* paths down have the same number of black nodes (so the tree's depth is  *)
(* logarithmic), and the links to the parents match those to the children, *)
(* which _fixAfterDel and RBTree_getNext climb.                            *)
(***************************************************************************)
Balanced ==
    /\ Black(tree, tree.root)
    /\ Cardinality(Height(tree.root)) = 1
    /\ tree.root # Nil => tree.par[tree.root] = Nil
    /\ \A n \in Node, d \in {"left", "right"} :
          LET c == tree.kid[n][d] IN
          c # Nil => /\ tree.par[c] = n
                     /\ Black(tree, n) \/ Black(tree, c)

(***************************************************************************)
(* A find function made with RBTree_findDef returns a node with the        *)
(* greatest key that does not exceed the one sought, NULL if there is none.*)
(***************************************************************************)
FindsGreatest ==
    \A k \in Key :
        LET n    == Find(tree, k, tree.root, Nil)
            upTo == {i \in Node : In(i) /\ key[i] <= k} IN
        IF upTo = {} THEN n = Nil
        ELSE n \in upTo /\ \A i \in upTo : key[i] <= key[n]

(***************************************************************************)
(* Users see an ordered list with a known first node (the run queues and   *)
(* the stock of free clusters rely on both, see TreeIns of Scheduler).     *)
(***************************************************************************)
Order == INSTANCE OrderedList WITH
             list <- LET l == InOrder(tree, tree.root) IN [i \in DOMAIN l |-> <<l[i], key[l[i]]>>],
             first <- tree.left
IsOrderedList == Order!Spec
=============================================================================
