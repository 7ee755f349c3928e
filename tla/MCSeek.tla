------------------------------- MODULE MCSeek --------------------------------
(***************************************************************************)
(* A file of three clusters on the disk, and one of a single cluster, that *)
(* are read and moved, the second behind its end; no cluster is free.      *)
(***************************************************************************)
EXTENDS Naturals

VARIABLES disk, cache, fatNum, fatLck, file, sz, fat, chain

INSTANCE FatFile WITH
    File <- {"a", "b"}, Secs <- 2, SecLen <- 5, MaxFat <- 1, Bpc <- 2,
    Chains <- [f \in {"a", "b"} |-> IF f = "a" THEN <<4, 9, 6>> ELSE <<7>>],
    Used <- (0 .. 9) \ {4, 9, 6, 7},
    Seeks <- {1, 3, 5}, Lens <- {1, 2}, MaxSz <- 6, End <- 100,
    Under <- {}, Data <- {}
=============================================================================
