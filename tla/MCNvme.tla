------------------------------- MODULE MCNvme --------------------------------
(***************************************************************************)
(* Two threads over one queue of three entries: the smallest in which the  *)
(* head can pass a command that is still running and come back to it.      *)
(***************************************************************************)
EXTENDS Naturals

CONSTANTS Thread, Unset
VARIABLES subQue, cmplQue, reqBitmap, req, reqWait, thd, intr, ctlr, posted

INSTANCE Nvme WITH Que <- {1}, SubSz <- 3, CmplSz <- 4, Req <- {1, 2}, MaxBlk <- 1
=============================================================================
