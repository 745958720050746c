----------------------------- MODULE MCFrameLink -----------------------------
(* The command 13 reads as the longest length if the length byte is lost,  *)
(* more than the ring holds, and makes a sum that reads as a head.         *)
EXTENDS FrameLink

MCCmds == {<<13>>, <<4>>}

(* They are commands the link can take, as the theorems assume.            *)
ASSUME MCFits == Fits
=============================================================================
