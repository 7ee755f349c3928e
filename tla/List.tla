-------------------------------- MODULE List --------------------------------
(***************************************************************************)
(* The kernel's doubly linked lists (includes/lib/list.h) as sequences of  *)
(* the structures that are linked, without the head: List_insTail is       *)
(* Append, List_insHead puts an entry in front.                            *)
(***************************************************************************)
EXTENDS Integers, Sequences, SequencesExt, FiniteSets

\* An entry knows its neighbours, so that its list need not be told.
List_del(lst, n) ==
    IF Contains(lst, n) THEN RemoveAt(lst, CHOOSE i \in DOMAIN lst : lst[i] = n) ELSE lst

\* Structures that are linked in the order of their addresses.
Ascending(S) == CHOOSE s \in [1 .. Cardinality(S) -> S] : \A i, j \in DOMAIN s : i < j => s[i] < s[j]
=============================================================================
