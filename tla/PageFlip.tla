------------------------------ MODULE PageFlip -------------------------------
(***************************************************************************)
(* The way of one frame to the screen.  mp4_play's display thread          *)
(* (main.cpp, write_yuv_and_dma and steps H, I, J) writes the planes,      *)
(* starts the YUV to RGB DMA on the back buffer, polls for its end, waits  *)
(* for the vertical blank, stages the flip and waits for the next blank.   *)
(* It talks to the registers of CtrlRegs; the DMA (yuv_fb_dma.v, one row   *)
(* per step) fills a buffer; the scaler (ascal.vhd) takes the base address *)
(* at the end of each vertical sync and scans that buffer.  A launcher may *)
(* kill the player and start another, and may read the status register.    *)
(***************************************************************************)
EXTENDS CtrlRegs

CONSTANTS
  Rows,        \* rows of a buffer
  MaxFrames,   \* bound: frames played, over all runs of the player
  MaxRuns,     \* bound: starts of the player
  Prompt,      \* the ARM is not descheduled where PromptAt says
  OtherReader, \* the launcher polls the status register
  MapMayFail,  \* the page of the header may fail to be mapped
  ScanMayStop  \* the scaler's timing may pause (a video mode change)

ASSUME SizeAssumption == Rows \in Nat \ {0} /\ MaxFrames \in Nat /\ MaxRuns \in Nat
ASSUME SwitchAssumption == {Prompt, OtherReader, MapMayFail, ScanMayStop} \subseteq BOOLEAN

Mixed == MaxFrames + 1     \* planes that are being overwritten
Buffers == BOOLEAN         \* FALSE is buffer A, TRUE is buffer B

VARIABLES
  pc,         \* the display thread, or "dead" between two runs
  runs,       \* runs of the player so far
  frame,      \* number of the frame in hand
  front,      \* front; back is the other buffer
  ctrl,       \* bit 0 of the control register as last read
  blanks,     \* blanks begun since the sleep or the wait under way began, up to 2
  settled,    \* history: no DMA of another run can be under way any more: the pause at
              \* the start was made, or the end of a DMA was seen since
  yuv,        \* the frame in the planes
  rgbBase,    \* the buffer the DMA writes to
  row,        \* the row the DMA is at, Rows when it is idle
  completed,  \* history: the last frame whose DMA has finished
  buf,        \* contents of both buffers
  phase,      \* of the scan: "active" or "blank"
  scanBuf,    \* the buffer being scanned
  scanning,   \* the scaler is running
  scanned     \* history: the frame that was in that buffer when its scan began

playerVars == <<runs, frame, front, ctrl, blanks, settled>>
dmaVars == <<row, completed, buf>>
scanVars == <<phase, scanBuf, scanning, scanned>>
vars == <<regVars, pc, playerVars, yuv, rgbBase, dmaVars, scanVars>>

Back == ~front
\* Mutants are wrong variants of the definition that follows them; the runs must tell
\* them apart from it.  DmaBusy: one row too many.
DmaBusyLong == row <= Rows
DmaBusy == row < Rows

Init ==
  /\ RegInit
  /\ pc = "dead" /\ runs = 0 /\ frame = 0 /\ front = FALSE /\ ctrl = FALSE /\ blanks = 0
  /\ settled = FALSE
  /\ yuv = 0 /\ rgbBase = FALSE /\ row = Rows /\ completed = 0
  /\ buf = [b \in Buffers |-> [r \in 0 .. Rows - 1 |-> 0]]
  /\ phase = "active" /\ scanBuf = FALSE /\ scanning = TRUE /\ scanned = 0
-----------------------------------------------------------------------------
(* The player: one access to a register per step *)

Step(from, to) == pc = from /\ pc' = to
NoAccess == UNCHANGED regVars

\* main: the registers are initialised.
Start ==
  /\ Step("dead", "header")
  /\ runs < MaxRuns
  /\ runs' = runs + 1
  /\ CtrlWrite(FALSE)
  /\ rgbBase' = FALSE
  /\ blanks' = 0 /\ settled' = FALSE
  /\ UNCHANGED <<frame, front, ctrl, yuv, dmaVars, scanVars>>

\* The mode line goes into the first bytes of buffer A, which drawn by a frame or not
\* is no frame's any more, and 100 ms are given to the video mode.
WriteHeader ==
  /\ Step("header", "settle")
  /\ buf' = [buf EXCEPT ![FALSE][0] = 0]
  /\ NoAccess
  /\ UNCHANGED <<playerVars, yuv, rgbBase, row, completed, scanVars>>

\* The page cannot be mapped: no header, and no pause either.
HeaderNotMapped ==
  /\ MapMayFail
  /\ Step("header", "pop")
  /\ front' = FALSE
  /\ NoAccess
  /\ UNCHANGED <<runs, frame, ctrl, blanks, settled, yuv, rgbBase, dmaVars, scanVars>>

\* Mutant: the 100 ms do not pass.
SettleAtOnce ==
  /\ Step("settle", "pop")
  /\ front' = FALSE /\ settled' = TRUE
  /\ NoAccess
  /\ UNCHANGED <<runs, frame, ctrl, blanks, yuv, rgbBase, dmaVars, scanVars>>

\* A DMA left over from another run ends within the 100 ms, and so does a frame of the scan.
Settle ==
  /\ Step("settle", "pop")
  /\ ~DmaBusy
  /\ blanks = 2 \/ ~scanning
  /\ front' = FALSE /\ settled' = TRUE
  /\ NoAccess
  /\ UNCHANGED <<runs, frame, ctrl, blanks, yuv, rgbBase, dmaVars, scanVars>>

\* The scale and copy into the planes, which takes a while.
BeginPlanes ==
  /\ Step("pop", "planes")
  /\ frame < MaxFrames
  /\ frame' = frame + 1
  /\ yuv' = Mixed
  /\ NoAccess
  /\ UNCHANGED <<runs, front, ctrl, blanks, settled, rgbBase, dmaVars, scanVars>>

EndPlanes ==
  /\ Step("planes", "setBase")
  /\ yuv' = frame
  /\ NoAccess
  /\ UNCHANGED <<playerVars, rgbBase, dmaVars, scanVars>>

\* Mutant: the front buffer is drawn to.
SetBaseFront ==
  /\ Step("setBase", "readCtrl")
  /\ rgbBase' = front
  /\ NoAccess
  /\ UNCHANGED <<playerVars, yuv, dmaVars, scanVars>>

SetBase ==
  /\ Step("setBase", "readCtrl")
  /\ rgbBase' = Back
  /\ NoAccess
  /\ UNCHANGED <<playerVars, yuv, dmaVars, scanVars>>

ReadCtrl ==
  /\ Step("readCtrl", "trigger")
  /\ ctrl' = bufSel
  /\ NoAccess
  /\ UNCHANGED <<runs, frame, front, blanks, settled, yuv, rgbBase, dmaVars, scanVars>>

\* The DMA looks at the trigger only while it is idle.
Trigger ==
  /\ Step("trigger", "print")
  /\ CtrlWrite(ctrl)
  /\ row' = IF DmaBusy THEN row ELSE 0
  /\ UNCHANGED <<playerVars, yuv, rgbBase, completed, buf, scanVars>>

\* Mutant: the print is left out.
PrintNothing ==
  /\ Step("print", "dmaPoll")
  /\ NoAccess
  /\ UNCHANGED <<playerVars, yuv, rgbBase, dmaVars, scanVars>>

\* The status printed after the trigger is a read like any other.
PrintStatus ==
  /\ Step("print", "dmaPoll")
  /\ StatusRead
  /\ UNCHANGED <<playerVars, yuv, rgbBase, dmaVars, scanVars>>

\* Mutants: the done bit is expected alone, or not looked at.
DmaPollExact ==
  /\ Step("dmaPoll", IF latch = {DoneBit} THEN "vblPoll" ELSE "dmaPoll")
  /\ StatusRead
  /\ blanks' = 0
  /\ settled' = (settled \/ pc' = "vblPoll")
  /\ UNCHANGED <<runs, frame, front, ctrl, yuv, rgbBase, dmaVars, scanVars>>
DmaPollOnce ==
  /\ Step("dmaPoll", "vblPoll")
  /\ StatusRead
  /\ blanks' = 0
  /\ settled' = TRUE
  /\ UNCHANGED <<runs, frame, front, ctrl, yuv, rgbBase, dmaVars, scanVars>>

DmaPoll ==
  /\ Step("dmaPoll", IF DoneBit \in latch THEN "vblPoll" ELSE "dmaPoll")
  /\ StatusRead
  /\ blanks' = 0
  /\ settled' = (settled \/ pc' = "vblPoll")
  /\ UNCHANGED <<runs, frame, front, ctrl, yuv, rgbBase, dmaVars, scanVars>>

\* 200 ms: far longer than a DMA takes, so it is over and its end went unseen.
DmaTimeout ==
  /\ Step("dmaPoll", "timedOut")
  /\ ~DmaBusy /\ DoneBit \notin latch
  /\ StatusRead
  /\ UNCHANGED <<playerVars, yuv, rgbBase, dmaVars, scanVars>>

\* The 50 ms of a wait, two blanks at least while the scaler runs.  The poll reads
\* before it looks at the clock, so only a player that is not run for as long, or one
\* that waits for a scaler at rest, gives up.
WaitOver == ~scanning \/ (~Prompt /\ blanks = 2)

\* H
VblPoll ==
  /\ \/ Step("vblPoll", IF VblBit \in latch THEN "flip" ELSE "vblPoll")
     \/ Step("vblPoll", "flip") /\ WaitOver
  /\ StatusRead
  /\ UNCHANGED <<playerVars, yuv, rgbBase, dmaVars, scanVars>>

\* I
Flip ==
  /\ Step("flip", "nextPoll")
  /\ CtrlWrite(Back)
  /\ front' = Back
  /\ blanks' = 0
  /\ UNCHANGED <<runs, frame, ctrl, settled, yuv, rgbBase, dmaVars, scanVars>>

\* Mutant: the next blank is not waited for.
NextPollSkipped ==
  /\ Step("nextPoll", "pop")
  /\ StatusRead
  /\ UNCHANGED <<playerVars, yuv, rgbBase, dmaVars, scanVars>>

\* J
NextPoll ==
  /\ \/ Step("nextPoll", IF VblBit \in latch THEN "pop" ELSE "nextPoll")
     \/ Step("nextPoll", "pop") /\ WaitOver
  /\ StatusRead
  /\ UNCHANGED <<playerVars, yuv, rgbBase, dmaVars, scanVars>>

Player ==
  \/ Start \/ WriteHeader \/ HeaderNotMapped \/ Settle \/ BeginPlanes \/ EndPlanes \/ SetBase \/ ReadCtrl \/ Trigger
  \/ PrintStatus \/ DmaPoll \/ DmaTimeout \/ VblPoll \/ Flip \/ NextPoll
-----------------------------------------------------------------------------
(* The hardware *)

\* Where a prompt ARM goes on before the hardware does anything that takes long: from
\* the trigger to the printed status, and from seeing the blank to staging the flip.
PromptAt == {"print", "flip"}
HardwareMayMove == Prompt => pc \notin PromptAt

\* One row: the planes are read and the buffer at the base register is written.
DmaRow ==
  /\ HardwareMayMove
  /\ DmaBusy
  /\ buf' = [buf EXCEPT ![rgbBase][row] = yuv]
  /\ row' = row + 1
  /\ IF row' = Rows THEN Pulse(DoneBit) /\ completed' = yuv ELSE NoAccess /\ UNCHANGED completed
  /\ UNCHANGED <<pc, playerVars, yuv, rgbBase, scanVars>>

\* The vertical blank begins.
VblEdge ==
  /\ HardwareMayMove
  /\ scanning /\ phase = "active"
  /\ phase' = "blank"
  /\ Pulse(VblBit)
  /\ blanks' = IF blanks = 2 THEN 2 ELSE blanks + 1
  /\ UNCHANGED <<pc, runs, frame, front, ctrl, settled, yuv, rgbBase, dmaVars, scanBuf, scanning, scanned>>

\* The vertical sync ends: the base address is taken, then the lines are scanned.
VsFall ==
  /\ HardwareMayMove
  /\ scanning /\ phase = "blank"
  /\ phase' = "active"
  /\ scanBuf' = bufSel
  /\ scanned' = buf[bufSel][0]
  /\ NoAccess
  /\ UNCHANGED <<pc, playerVars, yuv, rgbBase, dmaVars, scanning>>

PauseScan ==
  /\ ScanMayStop
  /\ scanning' = ~scanning
  /\ NoAccess
  /\ UNCHANGED <<pc, playerVars, yuv, rgbBase, dmaVars, phase, scanBuf, scanned>>

Hardware == DmaRow \/ VblEdge \/ VsFall
-----------------------------------------------------------------------------
(* The launcher *)

\* killall -9, or the end of a player whose DMA timed out.
Kill ==
  /\ pc # "dead"
  /\ runs < MaxRuns
  /\ pc' = "dead"
  /\ NoAccess
  /\ UNCHANGED <<playerVars, yuv, rgbBase, dmaVars, scanVars>>

LauncherPoll ==
  /\ OtherReader
  /\ StatusRead
  /\ UNCHANGED <<pc, playerVars, yuv, rgbBase, dmaVars, scanVars>>

Next == Player \/ Hardware \/ PauseScan \/ Kill \/ LauncherPoll

\* The player is scheduled, and neither the DMA nor a running scaler stops.
Fairness == WF_vars(Player) /\ WF_vars(DmaRow) /\ WF_vars(VblEdge) /\ WF_vars(VsFall)
Spec == Init /\ [][Next]_vars
FairSpec == Spec /\ Fairness
-----------------------------------------------------------------------------
(* Properties *)

Labels == {"dead", "header", "settle", "pop", "planes", "setBase", "readCtrl", "trigger", "print",
           "dmaPoll", "timedOut", "vblPoll", "flip", "nextPoll"}

\* Type invariant: neither the DMA nor the player runs past its last row or frame.
TypeOK ==
  /\ latch \subseteq StatusBits
  /\ {bufSel, nextSel, front, ctrl, settled, rgbBase, scanBuf, scanning} \subseteq BOOLEAN
  /\ pc \in Labels /\ phase \in {"active", "blank"}
  /\ runs \in 0 .. MaxRuns /\ frame \in 0 .. MaxFrames /\ blanks \in 0 .. 2
  /\ row \in 0 .. Rows
  /\ {yuv, completed, scanned} \subseteq 0 .. Mixed
  /\ buf \in [Buffers -> [0 .. Rows - 1 -> 0 .. Mixed]]

\* No tearing: the DMA never writes to the buffer that is being scanned.
NoTearing == DmaBusy /\ phase = "active" => rgbBase # scanBuf

\* The screen never shows parts of two frames, nor planes that were being written.
WholeFramesOnly ==
  phase = "active" => \E f \in 0 .. MaxFrames : \A r \in 0 .. Rows - 1 : buf[scanBuf][r] = f

\* The planes stay as they are while the DMA reads them: a frame is written only after
\* the DMA of the one before has ended, whichever run started it.  The first frame of a
\* run that could not map the header is the one exception: that run made no pause.
PlanesStable == DmaBusy /\ settled => yuv # Mixed

\* An end of the DMA that the player acts on is the end of its own frame's: a status
\* bit left over by a run that was killed is not taken for it.  The first end seen by
\* a run that could not map the header may be the end of the killed run's DMA.
DoneIsOwn ==
  [][pc = "dmaPoll" /\ pc' = "vblPoll" /\ settled => completed = frame]_vars

\* The player does not give up on a DMA that has finished its frame.
NoFalseTimeout == pc = "timedOut" => completed # frame

\* From one scan to the next the screen shows the same frame or the one after it: the
\* buffers alternate without a frame left out, repeated or taken back, because step J
\* holds the player until the flip it staged has been scanned; and every frame whose
\* planes are written gets onto the screen.
EveryFrameScanned ==
  /\ [][scanned' \in {scanned, scanned + 1}]_vars
  /\ \A f \in 1 .. MaxFrames : (pc = "setBase" /\ frame = f) ~> (scanned = f)
==============================================================================
