---------------------------- MODULE MCMp4CtrlRegs ----------------------------
(* The words beyond the decoded address bits: a read of word 16 is a read of  *)
(* word 0, the status, and a write to word 10 is one to word 2, the control.  *)
EXTENDS Mp4CtrlRegs
==============================================================================
