------------------------------ MODULE CtrlRegs -------------------------------
(***************************************************************************)
(* The registers of mp4_ctrl_regs.v as software sees them: one access is   *)
(* one step.  Mp4CtrlRegs, which models the clock cycles and the AXI       *)
(* handshakes, is shown to implement this module; PageFlip composes it     *)
(* with the programs that use it.                                          *)
(*                                                                         *)
(* A register is the set of its bits that are 1.                           *)
(***************************************************************************)
EXTENDS Naturals

VblBit == 2       \* status: a vertical blank has begun
DoneBit == 3      \* status: a DMA has completed
FileBit == 5      \* status: a file was selected in the OSD
StatusBits == {VblBit, DoneBit, FileBit}

SelBit == 0       \* control: buffer to show
TrigBit == 1      \* control: start the DMA

VARIABLES
  latch,    \* the sticky status bits
  bufSel,   \* buf_sel: the buffer shown is B
  nextSel   \* next_buf_sel: the buffer to show from the next vertical blank on

regVars == <<latch, bufSel, nextSel>>

RegInit == latch = {} /\ bufSel = FALSE /\ nextSel = FALSE

\* Everything that may happen to the registers at once: pulses arrive, the status is
\* read, sel is the new value of the staged selection.  A pulse wins over the clear
\* of a read, and while the blanking latch is set a staged selection takes effect.
RegStep(pulses, statusRead, sel) ==
  /\ latch' = pulses \cup (IF statusRead THEN {} ELSE latch)
  /\ nextSel' = sel
  /\ bufSel' = IF VblBit \in latch' THEN nextSel' ELSE bufSel

Pulse(b) == RegStep({b}, FALSE, nextSel)
StatusRead == RegStep({}, TRUE, nextSel)
CtrlWrite(sel) == RegStep({}, FALSE, sel)

RegNext ==
  \E pulses \in SUBSET StatusBits, statusRead, sel \in BOOLEAN : RegStep(pulses, statusRead, sel)
RegSpec == RegInit /\ [][RegNext]_regVars
==============================================================================
