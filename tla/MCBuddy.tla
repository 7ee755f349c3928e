------------------------------ MODULE MCBuddy ------------------------------
EXTENDS Buddy, TLC
\* Two zones that touch: the groups at their border must never merge.
\* mm_buddy_init cuts the first one, aligned for order 3, at order 2.
MCZones == {<<8, 12>>, <<12, 14>>}
Symmetry == Permutations(CPU)
=============================================================================
