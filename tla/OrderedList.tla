----------------------------- MODULE OrderedList -----------------------------
(***************************************************************************)
(* What RBTree (includes/lib/rbtree.h) promises its users: a list of nodes *)
(* in the order of their keys, equal keys in the order of insertion, whose *)
(* first node is known without a search.                                   *)
(***************************************************************************)
EXTENDS Integers, Sequences, SequencesExt

CONSTANTS Node, Key, Nil

VARIABLES list,     \* <<node, key>>, in order
          first     \* RBTree_getLeft

vars == <<list, first>>

Nodes(l) == {l[i][1] : i \in DOMAIN l}
First(l) == IF l = <<>> THEN Nil ELSE l[1][1]

Init == list = <<>> /\ first = Nil

\* RBTree_ins and RBTree_del
Inserted(l, n, k) ==
    SelectSeq(l, LAMBDA e : e[2] <= k) \o <<<<n, k>>>> \o SelectSeq(l, LAMBDA e : e[2] > k)
Deleted(l, n) == SelectSeq(l, LAMBDA e : e[1] # n)

Next ==
    /\ LET l == list IN
       list' \in {Deleted(l, n) : n \in Nodes(l)}
                \union {Inserted(l, n, k) : n \in Node \ Nodes(l), k \in Key}
    /\ first' = First(list')

Spec == Init /\ [][Next]_vars
=============================================================================
