---------------------------- MODULE PageFlip_proofs ----------------------------
(***************************************************************************)
(* Theorems about the way of a frame to the screen, for buffers of any     *)
(* size, any number of frames and, where the code allows it, any number of *)
(* runs of the player: the planes hold still while the DMA reads them, the *)
(* DMA's end is not taken for another frame's, and a prompt player's DMA   *)
(* and the scan keep apart.                                                *)
(***************************************************************************)
EXTENDS PageFlip, TLAPS

(* The planes and the end of the DMA *)

\* Where the DMA is at rest, if none was left over by another run: before the trigger,
\* and once its end was seen or given up.
Resting == {"pop", "planes", "setBase", "readCtrl", "trigger", "timedOut", "vblPoll", "flip", "nextPoll"}
\* Where its end was seen or given up.
Seen == {"timedOut", "vblPoll", "flip", "nextPoll"}
\* Where the planes hold the frame in hand.
Filled == {"setBase", "readCtrl", "trigger", "print", "dmaPoll"}
\* From the trigger to the end of the DMA.
Drawing == {"print", "dmaPoll"}

DmaInv ==
  /\ settled /\ pc \in Resting => ~DmaBusy
  /\ pc \in Seen => ~DmaBusy
  /\ pc \in {"header", "settle"} => ~settled
  /\ pc \in Filled => yuv = frame
  /\ PlanesStable
  /\ settled /\ pc \in Drawing /\ ~DmaBusy => completed = frame
  /\ pc = "dmaPoll" /\ DoneBit \in latch => ~DmaBusy

IInv == TypeOK /\ DmaInv

\* The end of a DMA, once it has come, waits in the latch for the player.
EndLatched ==
  /\ pc = "print" => DmaBusy
  /\ pc = "dmaPoll" /\ ~DmaBusy => DoneBit \in latch
  /\ pc # "timedOut"

(* The buffers *)

\* Where the flip that was staged has been scanned.
Settled == Labels \ {"nextPoll"}

\* One run: the flip is waited for, so everyone agrees which buffer is in front.
SelectInv ==
  /\ scanning
  /\ pc = "dead" <=> runs = 0
  /\ pc \in {"dead", "header", "settle"} => ~front
  /\ pc \in {"dead", "header", "settle"} \cup Resting => ~DmaBusy
  /\ nextSel = front
  /\ (pc \in Settled \/ VblBit \in latch) => bufSel = front /\ (phase = "active" => scanBuf = front)
  /\ pc = "trigger" => ctrl = front
  /\ pc = "flip" => VblBit \notin latch
  /\ pc \in {"readCtrl", "trigger"} \cup Drawing => rgbBase = Back

Whole(b) == \E f \in 0 .. MaxFrames : \A r \in 0 .. Rows - 1 : buf[b][r] = f

BufferInv ==
  /\ Whole(front)
  /\ pc \notin Drawing \/ ~DmaBusy => Whole(Back)
  /\ pc \in Drawing => \A r \in 0 .. row - 1 : buf[Back][r] = frame
  /\ pc \in {"dead", "header"} => \A b \in Buffers, r \in 0 .. Rows - 1 : buf[b][r] = 0

FlipInv == SelectInv /\ BufferInv
-----------------------------------------------------------------------------
LEMMA Bits == VblBit = 2 /\ DoneBit = 3 /\ StatusBits = {2, 3, 5}
BY DEF VblBit, DoneBit, FileBit, StatusBits

LEMMA Sizes == Rows \in Nat /\ Rows > 0 /\ MaxFrames \in Nat /\ MaxRuns \in Nat /\ Mixed = MaxFrames + 1
BY SizeAssumption DEF Mixed

-----------------------------------------------------------------------------
(* Types *)

\* One row written: that row becomes what the planes hold.
LEMMA RowWritten ==
  ASSUME TypeOK, DmaRow
  PROVE  /\ buf' \in [Buffers -> [0 .. Rows - 1 -> 0 .. Mixed]]
         /\ row \in 0 .. Rows - 1 /\ row' = row + 1
         /\ \A b \in Buffers, r \in 0 .. Rows - 1 :
              buf'[b][r] = IF b = rgbBase /\ r = row THEN yuv ELSE buf[b][r]
<1>1. row \in 0 .. Rows - 1 /\ row' = row + 1 /\ rgbBase \in Buffers /\ yuv \in 0 .. Mixed
  BY Sizes DEF TypeOK, DmaRow, DmaBusy, Buffers
<1>2. buf' = [buf EXCEPT ![rgbBase] = [buf[rgbBase] EXCEPT ![row] = yuv]]
  BY DEF DmaRow
<1>3. buf \in [Buffers -> [0 .. Rows - 1 -> 0 .. Mixed]]
  BY DEF TypeOK
<1> QED BY <1>1, <1>2, <1>3

\* The header written: the first row of buffer A is no frame's.
LEMMA HeaderWritten ==
  ASSUME TypeOK, WriteHeader
  PROVE  /\ buf' \in [Buffers -> [0 .. Rows - 1 -> 0 .. Mixed]]
         /\ \A b \in Buffers, r \in 0 .. Rows - 1 : buf'[b][r] = buf[b][r] \/ buf'[b][r] = 0
<1>1. buf' = [buf EXCEPT ![FALSE] = [buf[FALSE] EXCEPT ![0] = 0]]
  BY DEF WriteHeader
<1>2. buf \in [Buffers -> [0 .. Rows - 1 -> 0 .. Mixed]] /\ FALSE \in Buffers
  BY DEF TypeOK, Buffers
<1>3. 0 \in 0 .. Rows - 1 /\ 0 \in 0 .. Mixed
  BY Sizes
<1> QED BY <1>1, <1>2, <1>3

LEMMA TypedInit == Init => TypeOK
<1> SUFFICES ASSUME Init PROVE TypeOK
  OBVIOUS
<1>1. buf \in [Buffers -> [0 .. Rows - 1 -> 0 .. Mixed]]
  <2>1. [r \in 0 .. Rows - 1 |-> 0] \in [0 .. Rows - 1 -> 0 .. Mixed]
    BY Sizes
  <2> QED BY <2>1 DEF Init
<1>2. row \in 0 .. Rows /\ {yuv, completed, scanned} \subseteq 0 .. Mixed /\ frame \in 0 .. MaxFrames
      /\ runs \in 0 .. MaxRuns /\ blanks \in 0 .. 2
  BY Sizes DEF Init
<1>3. latch \subseteq StatusBits /\ {bufSel, nextSel, front, ctrl, settled, rgbBase, scanBuf, scanning} \subseteq BOOLEAN
  BY DEF Init, RegInit
<1> QED BY <1>1, <1>2, <1>3 DEF Init, TypeOK, Labels

LEMMA TypedNext == TypeOK /\ [Next]_vars => TypeOK'
<1> SUFFICES ASSUME TypeOK, [Next]_vars PROVE TypeOK'
  OBVIOUS
<1> USE Bits, Sizes DEF TypeOK, Labels
<1>1. CASE Start
  <2>1. {bufSel', nextSel', settled', rgbBase'} \subseteq BOOLEAN /\ latch' \subseteq StatusBits
    BY <1>1 DEF Start, CtrlWrite, RegStep
  <2>2. runs' \in 0 .. MaxRuns /\ blanks' = 0 /\ pc' = "header"
    BY <1>1 DEF Start, Step
  <2> QED BY <1>1, <2>1, <2>2 DEF Start, dmaVars, scanVars
<1>2. CASE Settle
  BY <1>2 DEF Settle, Step, NoAccess, regVars, playerVars, dmaVars, scanVars
<1>3. CASE BeginPlanes
  BY <1>3 DEF BeginPlanes, Step, NoAccess, regVars, playerVars, dmaVars, scanVars
<1>4. CASE EndPlanes
  BY <1>4 DEF EndPlanes, Step, NoAccess, regVars, playerVars, dmaVars, scanVars
<1>5. CASE SetBase
  BY <1>5 DEF SetBase, Step, NoAccess, regVars, playerVars, dmaVars, scanVars, Back
<1>6. CASE ReadCtrl
  BY <1>6 DEF ReadCtrl, Step, NoAccess, regVars, playerVars, dmaVars, scanVars
<1>7. CASE Trigger
  BY <1>7 DEF Trigger, Step, CtrlWrite, RegStep, regVars, playerVars, dmaVars, scanVars, DmaBusy
<1>8. CASE PrintStatus
  BY <1>8 DEF PrintStatus, Step, StatusRead, RegStep, regVars, playerVars, dmaVars, scanVars
<1>9. CASE DmaPoll
  BY <1>9 DEF DmaPoll, Step, StatusRead, RegStep, regVars, playerVars, dmaVars, scanVars
<1>10. CASE DmaTimeout
  BY <1>10 DEF DmaTimeout, Step, StatusRead, RegStep, regVars, playerVars, dmaVars, scanVars
<1>11. CASE VblPoll
  BY <1>11 DEF VblPoll, Step, StatusRead, RegStep, regVars, playerVars, dmaVars, scanVars
<1>12. CASE Flip
  <2>1. Back \in BOOLEAN
    BY DEF Back
  <2>2. {bufSel', nextSel', front'} \subseteq BOOLEAN /\ latch' \subseteq StatusBits
    BY <1>12, <2>1 DEF Flip, CtrlWrite, RegStep
  <2>3. pc' = "nextPoll" /\ blanks' = 0
    BY <1>12 DEF Flip, Step
  <2> QED BY <1>12, <2>2, <2>3 DEF Flip, dmaVars, scanVars
<1>13. CASE NextPoll
  BY <1>13 DEF NextPoll, Step, StatusRead, RegStep, regVars, playerVars, dmaVars, scanVars
<1>14. CASE VblEdge
  BY <1>14 DEF VblEdge, Pulse, RegStep, regVars, playerVars, dmaVars, scanVars
<1>15. CASE VsFall
  <2>1. scanned' \in 0 .. Mixed
    BY SMTT(30), <1>15 DEF VsFall, Buffers
  <2>2. scanBuf' \in BOOLEAN /\ phase' = "active"
    BY <1>15 DEF VsFall
  <2> QED BY <1>15, <2>1, <2>2 DEF VsFall, NoAccess, regVars, playerVars, dmaVars
<1>16. CASE PauseScan
  BY <1>16 DEF PauseScan, NoAccess, regVars, playerVars, dmaVars, scanVars
<1>17. CASE Kill
  BY <1>17 DEF Kill, NoAccess, regVars, playerVars, dmaVars, scanVars
<1>18. CASE LauncherPoll
  BY <1>18 DEF LauncherPoll, StatusRead, RegStep, regVars, playerVars, dmaVars, scanVars
<1>19. CASE DmaRow
  <2>1. row' \in 0 .. Rows
    BY SMTT(30), <1>19, RowWritten
  <2>2. completed' \in 0 .. Mixed
    BY <1>19 DEF DmaRow
  <2>3. latch' \subseteq StatusBits /\ {bufSel', nextSel'} \subseteq BOOLEAN
    BY <1>19 DEF DmaRow, NoAccess, Pulse, RegStep, regVars
  <2> QED BY SMTT(30), <1>19, RowWritten, <2>1, <2>2, <2>3 DEF DmaRow, playerVars, scanVars
<1>20. CASE UNCHANGED vars
  BY <1>20 DEF vars, regVars, playerVars, dmaVars, scanVars
<1>21. CASE HeaderNotMapped
  BY <1>21 DEF HeaderNotMapped, Step, NoAccess, regVars, playerVars, dmaVars, scanVars
<1>22. CASE WriteHeader
  <2>1. buf' \in [Buffers -> [0 .. Rows - 1 -> 0 .. Mixed]]
    BY <1>22, HeaderWritten
  <2> QED BY <1>22, <2>1 DEF WriteHeader, Step, NoAccess, regVars, playerVars, scanVars
<1> QED BY <1>1, <1>2, <1>3, <1>4, <1>5, <1>6, <1>7, <1>8, <1>9, <1>10, <1>11, <1>12, <1>13,
    <1>14, <1>15, <1>16, <1>17, <1>18, <1>19, <1>20, <1>21, <1>22 DEF Next, Player, Hardware

(* The registers, the counters and the contents of both buffers stay in their ranges, *)
(* for buffers of any size and any number of frames and runs.                          *)
THEOREM TypeCorrect == Spec => []TypeOK
BY TypedInit, TypedNext, PTL DEF Spec
-----------------------------------------------------------------------------
(* The planes and the end of the DMA *)

LEMMA DmaInit == Init => DmaInv
BY Sizes, Bits DEF Init, RegInit, DmaInv, PlanesStable, DmaBusy, Resting, Seen, Filled, Drawing

LEMMA DmaNext == TypeOK /\ DmaInv /\ [Next]_vars => DmaInv'
<1> SUFFICES ASSUME TypeOK, DmaInv, [Next]_vars PROVE DmaInv'
  OBVIOUS
<1> USE Bits, Sizes DEF DmaInv, PlanesStable, DmaBusy, Resting, Seen, Filled, Drawing
<1>1. CASE Start
  BY <1>1 DEF Start, Step, CtrlWrite, RegStep, regVars, playerVars, dmaVars, scanVars
<1>2. CASE Settle
  BY <1>2 DEF Settle, Step, NoAccess, regVars, playerVars, dmaVars, scanVars
<1>3. CASE BeginPlanes
  BY <1>3 DEF BeginPlanes, Step, NoAccess, regVars, playerVars, dmaVars, scanVars
<1>4. CASE EndPlanes
  BY <1>4 DEF EndPlanes, Step, NoAccess, regVars, playerVars, dmaVars, scanVars
<1>5. CASE SetBase
  BY <1>5 DEF SetBase, Step, NoAccess, regVars, playerVars, dmaVars, scanVars
<1>6. CASE ReadCtrl
  BY <1>6 DEF ReadCtrl, Step, NoAccess, regVars, playerVars, dmaVars, scanVars
<1>7. CASE Trigger
  BY <1>7 DEF Trigger, Step, CtrlWrite, RegStep, regVars, playerVars, dmaVars, scanVars, TypeOK
<1>8. CASE PrintStatus
  BY <1>8 DEF PrintStatus, Step, StatusRead, RegStep, regVars, playerVars, dmaVars, scanVars
<1>9. CASE DmaPoll
  BY <1>9 DEF DmaPoll, Step, StatusRead, RegStep, regVars, playerVars, dmaVars, scanVars
<1>10. CASE DmaTimeout
  BY <1>10 DEF DmaTimeout, Step, StatusRead, RegStep, regVars, playerVars, dmaVars, scanVars
<1>11. CASE VblPoll
  BY <1>11 DEF VblPoll, Step, StatusRead, RegStep, regVars, playerVars, dmaVars, scanVars
<1>12. CASE Flip
  BY <1>12 DEF Flip, Step, CtrlWrite, RegStep, regVars, playerVars, dmaVars, scanVars
<1>13. CASE NextPoll
  BY <1>13 DEF NextPoll, Step, StatusRead, RegStep, regVars, playerVars, dmaVars, scanVars
<1>14. CASE VblEdge
  BY <1>14 DEF VblEdge, Pulse, RegStep, regVars, playerVars, dmaVars, scanVars
<1>15. CASE VsFall
  BY <1>15 DEF VsFall, NoAccess, regVars, playerVars, dmaVars, scanVars
<1>16. CASE PauseScan
  BY <1>16 DEF PauseScan, NoAccess, regVars, playerVars, dmaVars, scanVars
<1>17. CASE Kill
  BY <1>17 DEF Kill, NoAccess, regVars, playerVars, dmaVars, scanVars
<1>18. CASE LauncherPoll
  BY <1>18 DEF LauncherPoll, StatusRead, RegStep, regVars, playerVars, dmaVars, scanVars
<1>19. CASE DmaRow
  BY <1>19 DEF DmaRow, NoAccess, Pulse, RegStep, regVars, playerVars, dmaVars, scanVars, TypeOK
<1>20. CASE UNCHANGED vars
  BY <1>20 DEF vars, regVars, playerVars, dmaVars, scanVars
<1>21. CASE HeaderNotMapped
  BY <1>21 DEF HeaderNotMapped, Step, NoAccess, regVars, playerVars, dmaVars, scanVars
<1>22. CASE WriteHeader
  BY <1>22 DEF WriteHeader, Step, NoAccess, regVars, playerVars, dmaVars, scanVars
<1> QED BY <1>1, <1>2, <1>3, <1>4, <1>5, <1>6, <1>7, <1>8, <1>9, <1>10, <1>11, <1>12, <1>13,
    <1>14, <1>15, <1>16, <1>17, <1>18, <1>19, <1>20, <1>21, <1>22 DEF Next, Player, Hardware

LEMMA Invariance == Spec => []IInv
<1>1. Init => IInv
  BY TypedInit, DmaInit DEF IInv
<1>2. IInv /\ [Next]_vars => IInv'
  BY TypedNext, DmaNext DEF IInv
<1> QED BY <1>1, <1>2, PTL DEF Spec

(* However many players are killed and started, at whatever point, and whoever else    *)
(* reads the status: the planes are not written while the DMA of a frame reads them,   *)
(* the first frame of a run that could not map the header excepted.                    *)
THEOREM PlanesHoldStill == Spec => []PlanesStable
<1>1. IInv => PlanesStable
  BY DEF IInv, DmaInv
<1> QED BY <1>1, Invariance, PTL

(* An end of the DMA that the player acts on is its own frame's, also when the bit was *)
(* left over by a run that was killed; the first one is excepted that a run sees which *)
(* could not map the header.                                                           *)
THEOREM EndIsOwn == Spec => DoneIsOwn
<1>1. IInv /\ [Next]_vars => [pc = "dmaPoll" /\ pc' = "vblPoll" /\ settled => completed = frame]_vars
  <2> SUFFICES ASSUME IInv, Next, pc = "dmaPoll", pc' = "vblPoll", settled PROVE completed = frame
    OBVIOUS
  <2>1. DmaPoll
    BY DEF Next, Player, Hardware, Start, WriteHeader, HeaderNotMapped, Settle, BeginPlanes, EndPlanes, SetBase, ReadCtrl, Trigger,
           PrintStatus, DmaTimeout, VblPoll, Flip, NextPoll, Step, DmaRow, VblEdge, VsFall, PauseScan,
           Kill, LauncherPoll
  <2>2. DoneBit \in latch
    BY <2>1 DEF DmaPoll, Step
  <2> QED BY <2>2 DEF IInv, DmaInv, Drawing
<1> QED BY <1>1, Invariance, PTL DEF Spec, DoneIsOwn

LEMMA LatchedNext ==
  ASSUME Prompt, ~OtherReader
  PROVE  TypeOK /\ EndLatched /\ [Next]_vars => EndLatched'
<1> SUFFICES ASSUME TypeOK, EndLatched, [Next]_vars PROVE EndLatched'
  OBVIOUS
<1> USE Bits, Sizes DEF EndLatched, DmaBusy
<1>1. CASE Start
  BY <1>1 DEF Start, Step, CtrlWrite, RegStep, regVars, playerVars, dmaVars, scanVars
<1>2. CASE Settle
  BY <1>2 DEF Settle, Step, NoAccess, regVars, playerVars, dmaVars, scanVars
<1>3. CASE BeginPlanes
  BY <1>3 DEF BeginPlanes, Step, NoAccess, regVars, playerVars, dmaVars, scanVars
<1>4. CASE EndPlanes
  BY <1>4 DEF EndPlanes, Step, NoAccess, regVars, playerVars, dmaVars, scanVars
<1>5. CASE SetBase
  BY <1>5 DEF SetBase, Step, NoAccess, regVars, playerVars, dmaVars, scanVars
<1>6. CASE ReadCtrl
  BY <1>6 DEF ReadCtrl, Step, NoAccess, regVars, playerVars, dmaVars, scanVars
<1>7. CASE Trigger
  BY <1>7 DEF Trigger, Step, CtrlWrite, RegStep, regVars, playerVars, dmaVars, scanVars
<1>8. CASE PrintStatus
  BY <1>8 DEF PrintStatus, Step, StatusRead, RegStep, regVars, playerVars, dmaVars, scanVars
<1>9. CASE DmaPoll
  BY <1>9 DEF DmaPoll, Step, StatusRead, RegStep, regVars, playerVars, dmaVars, scanVars
<1>10. CASE DmaTimeout
  BY <1>10 DEF DmaTimeout, Step, StatusRead, RegStep, regVars, playerVars, dmaVars, scanVars
<1>11. CASE VblPoll
  BY <1>11 DEF VblPoll, Step, StatusRead, RegStep, regVars, playerVars, dmaVars, scanVars
<1>12. CASE Flip
  BY <1>12 DEF Flip, Step, CtrlWrite, RegStep, regVars, playerVars, dmaVars, scanVars
<1>13. CASE NextPoll
  BY <1>13 DEF NextPoll, Step, StatusRead, RegStep, regVars, playerVars, dmaVars, scanVars
<1>14. CASE VblEdge
  BY <1>14 DEF VblEdge, Pulse, RegStep, regVars, playerVars, dmaVars, scanVars, HardwareMayMove, PromptAt
<1>15. CASE VsFall
  BY <1>15 DEF VsFall, NoAccess, regVars, playerVars, dmaVars, scanVars
<1>16. CASE PauseScan
  BY <1>16 DEF PauseScan, NoAccess, regVars, playerVars, dmaVars, scanVars
<1>17. CASE Kill
  BY <1>17 DEF Kill, NoAccess, regVars, playerVars, dmaVars, scanVars
<1>18. CASE LauncherPoll
  BY <1>18 DEF LauncherPoll, StatusRead, RegStep, regVars, playerVars, dmaVars, scanVars
<1>19. CASE DmaRow
   BY <1>19 DEF DmaRow, NoAccess, Pulse, RegStep, regVars, playerVars, dmaVars, scanVars, TypeOK,
      HardwareMayMove, PromptAt
<1>20. CASE UNCHANGED vars
  BY <1>20 DEF vars, regVars, playerVars, dmaVars, scanVars
<1>21. CASE HeaderNotMapped
  BY <1>21 DEF HeaderNotMapped, Step, NoAccess, regVars, playerVars, dmaVars, scanVars
<1>22. CASE WriteHeader
  BY <1>22 DEF WriteHeader, Step, NoAccess, regVars, playerVars, dmaVars, scanVars
<1> QED BY <1>1, <1>2, <1>3, <1>4, <1>5, <1>6, <1>7, <1>8, <1>9, <1>10, <1>11, <1>12, <1>13,
    <1>14, <1>15, <1>16, <1>17, <1>18, <1>19, <1>20, <1>21, <1>22 DEF Next, Player, Hardware

(* When a prompt player is the only one to read the status, it never gives up on a DMA *)
(* that has finished its frame, however often it is killed and started again.          *)
THEOREM EndIsSeen ==
  ASSUME Prompt, ~OtherReader
  PROVE  Spec => []NoFalseTimeout
<1>1. Init => EndLatched
  BY DEF Init, EndLatched
<1>2. EndLatched => NoFalseTimeout
  BY DEF EndLatched, NoFalseTimeout
<1> QED BY <1>1, <1>2, LatchedNext, TypeCorrect, PTL DEF Spec
-----------------------------------------------------------------------------
(* The two buffers: one run of a prompt player, and a scaler that goes on *)

LEMMA SelectInit == Init => SelectInv
<1> SUFFICES ASSUME Init PROVE SelectInv
  OBVIOUS
<1>1. pc = "dead" /\ runs = 0 /\ latch = {} /\ bufSel = FALSE /\ nextSel = FALSE /\ front = FALSE
      /\ scanBuf = FALSE /\ scanning = TRUE /\ row = Rows
  BY DEF Init, RegInit
<1>2. ~DmaBusy
  BY <1>1, Sizes DEF DmaBusy
<1>3. pc # "flip" /\ pc # "trigger" /\ pc \notin {"readCtrl", "trigger"} \cup Drawing
  BY <1>1 DEF Drawing
<1>4. scanning /\ ~front /\ nextSel = front /\ bufSel = front /\ scanBuf = front
  BY <1>1
<1> QED BY <1>1, <1>2, <1>3, <1>4, Zenon DEF SelectInv

LEMMA SelectNext ==
  ASSUME Prompt, ~ScanMayStop, MaxRuns = 1
  PROVE  TypeOK /\ DmaInv /\ SelectInv /\ [Next]_vars => SelectInv'
<1> SUFFICES ASSUME TypeOK, DmaInv, SelectInv, [Next]_vars PROVE SelectInv'
  OBVIOUS
<1> USE Bits, Sizes DEF SelectInv, DmaBusy, Resting, Settled, Labels, Drawing, Back, TypeOK
<1>1. CASE Start
  <2>1. pc = "dead" /\ pc' = "header" /\ runs = 0 /\ runs' = 1
    BY <1>1 DEF Start, Step
  <2>2. ~front /\ bufSel = front /\ ~nextSel' /\ nextSel' = front /\ bufSel' = front
    BY <1>1, <2>1 DEF Start, CtrlWrite, RegStep
  <2>3. UNCHANGED <<front, row, phase, scanBuf, scanning>>
    BY <1>1 DEF Start, dmaVars, scanVars
  <2> QED BY <2>1, <2>2, <2>3
<1>2. CASE Settle
  BY <1>2 DEF Settle, Step, NoAccess, regVars, playerVars, dmaVars, scanVars
<1>3. CASE BeginPlanes
  BY <1>3 DEF BeginPlanes, Step, NoAccess, regVars, playerVars, dmaVars, scanVars
<1>4. CASE EndPlanes
  BY <1>4 DEF EndPlanes, Step, NoAccess, regVars, playerVars, dmaVars, scanVars
<1>5. CASE SetBase
  BY <1>5 DEF SetBase, Step, NoAccess, regVars, playerVars, dmaVars, scanVars
<1>6. CASE ReadCtrl
  BY <1>6 DEF ReadCtrl, Step, NoAccess, regVars, playerVars, dmaVars, scanVars
<1>7. CASE Trigger
  BY <1>7 DEF Trigger, Step, CtrlWrite, RegStep, regVars, playerVars, dmaVars, scanVars
<1>8. CASE PrintStatus
  BY <1>8 DEF PrintStatus, Step, StatusRead, RegStep, regVars, playerVars, dmaVars, scanVars
<1>9. CASE DmaPoll
  BY <1>9 DEF DmaPoll, Step, StatusRead, RegStep, regVars, playerVars, dmaVars, scanVars, DmaInv
<1>10. CASE DmaTimeout
  BY <1>10 DEF DmaTimeout, Step, StatusRead, RegStep, regVars, playerVars, dmaVars, scanVars, DmaInv
<1>11. CASE VblPoll
  BY <1>11 DEF VblPoll, Step, StatusRead, RegStep, regVars, playerVars, dmaVars, scanVars, WaitOver
<1>12. CASE Flip
  BY <1>12 DEF Flip, Step, CtrlWrite, RegStep, regVars, playerVars, dmaVars, scanVars
<1>13. CASE NextPoll
  BY <1>13 DEF NextPoll, Step, StatusRead, RegStep, regVars, playerVars, dmaVars, scanVars, WaitOver
<1>14. CASE VblEdge
  BY <1>14 DEF VblEdge, Pulse, RegStep, regVars, playerVars, dmaVars, scanVars, HardwareMayMove, PromptAt
<1>15. CASE VsFall
  BY <1>15 DEF VsFall, NoAccess, regVars, playerVars, dmaVars, scanVars
<1>16. CASE PauseScan
  BY <1>16 DEF PauseScan, NoAccess, regVars, playerVars, dmaVars, scanVars
<1>17. CASE Kill
  BY <1>17 DEF Kill, NoAccess, regVars, playerVars, dmaVars, scanVars
<1>18. CASE LauncherPoll
  BY <1>18 DEF LauncherPoll, StatusRead, RegStep, regVars, playerVars, dmaVars, scanVars
<1>19. CASE DmaRow
   BY <1>19 DEF DmaRow, NoAccess, Pulse, RegStep, regVars, playerVars, dmaVars, scanVars,
      HardwareMayMove, PromptAt
<1>20. CASE UNCHANGED vars
  BY <1>20 DEF vars, regVars, playerVars, dmaVars, scanVars
<1>21. CASE HeaderNotMapped
  BY <1>21 DEF HeaderNotMapped, Step, NoAccess, regVars, playerVars, dmaVars, scanVars
<1>22. CASE WriteHeader
  BY <1>22 DEF WriteHeader, Step, NoAccess, regVars, playerVars, dmaVars, scanVars
<1> QED BY <1>1, <1>2, <1>3, <1>4, <1>5, <1>6, <1>7, <1>8, <1>9, <1>10, <1>11, <1>12, <1>13,
    <1>14, <1>15, <1>16, <1>17, <1>18, <1>19, <1>20, <1>21, <1>22 DEF Next, Player, Hardware

\* Steps that write to no buffer and swap none.
LEMMA BuffersKept ==
  ASSUME BufferInv, UNCHANGED <<buf, front, row>>,
         pc' \in Drawing => pc \in Drawing /\ frame' = frame,
         pc' \notin Drawing => pc \notin Drawing \/ ~DmaBusy,
         pc' \in {"dead", "header"} => pc \in {"dead", "header"}
  PROVE  BufferInv'
<1>1. Whole(front)' = Whole(front) /\ Whole(Back)' = Whole(Back)
  BY DEF Whole, Back
<1>2. DmaBusy' = DmaBusy
  BY DEF DmaBusy
<1>3. (pc \in Drawing => \A r \in 0 .. row - 1 : buf[Back][r] = frame)'
  BY DEF BufferInv, Back
<1>4. (pc \in {"dead", "header"} => \A b \in Buffers, r \in 0 .. Rows - 1 : buf[b][r] = 0)'
  BY DEF BufferInv
<1> QED BY <1>1, <1>2, <1>3, <1>4 DEF BufferInv

LEMMA BuffersInit == Init => BufferInv
<1> SUFFICES ASSUME Init PROVE BufferInv
  OBVIOUS
<1>1. ASSUME NEW b \in Buffers PROVE Whole(b)
  <2>1. \A r \in 0 .. Rows - 1 : buf[b][r] = 0
    BY DEF Init
  <2> QED BY <2>1, Sizes DEF Whole
<1>2. front \in Buffers /\ Back \in Buffers
  BY DEF Init, Back, Buffers
<1>3. pc \notin Drawing
  BY DEF Init, Drawing
<1>4. \A b \in Buffers, r \in 0 .. Rows - 1 : buf[b][r] = 0
  BY DEF Init
<1> QED BY <1>1, <1>2, <1>3, <1>4 DEF BufferInv

\* The DMA adds its row to the buffer that is not in front.
LEMMA RowAdded == TypeOK /\ DmaInv /\ SelectInv /\ BufferInv /\ DmaRow => BufferInv'
<1> SUFFICES ASSUME TypeOK, DmaInv, SelectInv, BufferInv, DmaRow PROVE BufferInv'
  OBVIOUS
<1>1. DmaBusy /\ pc \in Drawing
  BY DEF DmaRow, TypeOK, Labels, SelectInv, Resting, Drawing
<1>2. rgbBase = Back /\ yuv = frame /\ frame \in 0 .. MaxFrames /\ front \in Buffers /\ Back \in Buffers
      /\ Back # front
  BY <1>1 DEF TypeOK, DmaInv, SelectInv, Filled, Drawing, Back, Buffers
<1>3. UNCHANGED <<front, Back, frame, pc>>
  BY DEF DmaRow, playerVars, Back
<1>4. \A r \in 0 .. Rows - 1 : buf'[front][r] = buf[front][r]
  BY <1>2, RowWritten
<1>5. \A r \in 0 .. row : buf'[Back][r] = frame
  <2>1. \A r \in 0 .. row - 1 : buf[Back][r] = frame
    BY <1>1 DEF BufferInv
  <2>2. row \in 0 .. Rows - 1
    BY RowWritten
  <2>3. \A r \in 0 .. row : r \in 0 .. Rows - 1 /\ (r = row \/ r \in 0 .. row - 1)
    BY <2>2, Sizes
  <2>4. \A r \in 0 .. Rows - 1 : buf'[Back][r] = IF r = row THEN frame ELSE buf[Back][r]
    BY <1>2, RowWritten
  <2> QED BY <2>1, <2>3, <2>4
<1>6. Whole(front)'
  <2>1. PICK f \in 0 .. MaxFrames : \A r \in 0 .. Rows - 1 : buf[front][r] = f
    BY DEF BufferInv, Whole
  <2> QED BY <1>3, <1>4, <2>1 DEF Whole
<1>7. ~DmaBusy' => Whole(Back)'
  <2>1. ~DmaBusy' => row = Rows - 1
    BY RowWritten, Sizes DEF DmaBusy
  <2> QED BY <1>2, <1>3, <1>5, <2>1 DEF Whole
<1>8. \A r \in 0 .. row' - 1 : buf'[Back'][r] = frame'
  <2>1. row' - 1 = row
    BY RowWritten
  <2> QED BY <1>3, <1>5, <2>1
<1> QED BY <1>1, <1>3, <1>6, <1>7, <1>8 DEF BufferInv, Drawing

LEMMA BuffersNext ==
  ASSUME MaxRuns = 1
  PROVE  TypeOK /\ DmaInv /\ SelectInv /\ BufferInv /\ [Next]_vars => BufferInv'
<1> SUFFICES ASSUME TypeOK, DmaInv, SelectInv, BufferInv, [Next]_vars PROVE BufferInv'
  OBVIOUS
<1>1. CASE Trigger
  <2>1. pc \notin Drawing /\ ~DmaBusy
    BY <1>1 DEF Trigger, Step, Drawing, SelectInv, Resting
  <2>2. row' = 0 /\ UNCHANGED <<buf, front>>
    BY <1>1, <2>1 DEF Trigger, playerVars
  <2>3. DmaBusy' /\ pc' \in Drawing
    BY <1>1, <2>2, Sizes DEF Trigger, Step, DmaBusy, Drawing
  <2>4. Whole(front)'
    BY <2>2 DEF BufferInv, Whole
  <2>5. (\A r \in 0 .. row - 1 : buf[Back][r] = frame)'
    BY <2>2
  <2> QED BY <2>3, <2>4, <2>5 DEF BufferInv, Drawing
<1>2. CASE Flip
  <2>1. pc \notin Drawing /\ pc' \notin Drawing
    BY <1>2 DEF Flip, Step, Drawing
  <2>2. front' = Back /\ Back' = front /\ buf' = buf
    BY <1>2 DEF Flip, Back, dmaVars, TypeOK
  <2>3. Whole(front)' /\ Whole(Back)'
    BY <2>1, <2>2 DEF BufferInv, Whole
  <2>4. pc' = "nextPoll"
    BY <1>2 DEF Flip, Step
  <2> QED BY <2>1, <2>3, <2>4 DEF BufferInv
<1>3. CASE DmaRow
  BY <1>3, RowAdded
<1>4. CASE Settle \/ HeaderNotMapped
  <2>1. UNCHANGED <<buf, front, row, frame>> /\ pc' = "pop" /\ pc \notin Drawing
    BY <1>4 DEF Settle, HeaderNotMapped, Step, SelectInv, TypeOK, dmaVars, Drawing
  <2> QED BY <2>1, BuffersKept DEF Drawing
<1>10. CASE WriteHeader
  <2>1. pc = "header" /\ pc' = "settle" /\ pc' \notin Drawing /\ front' = front /\ Back' = Back
    BY <1>10 DEF WriteHeader, Step, playerVars, Back, Drawing
  <2>2. \A b \in Buffers, r \in 0 .. Rows - 1 : buf'[b][r] = 0
    BY <1>10, <2>1, HeaderWritten DEF BufferInv
  <2>3. front \in Buffers /\ Back \in Buffers /\ 0 \in 0 .. MaxFrames
    BY Sizes DEF TypeOK, Back, Buffers
  <2>4. Whole(front)' /\ Whole(Back)'
    BY <2>1, <2>2, <2>3 DEF Whole
  <2> QED BY <2>1, <2>4 DEF BufferInv
<1>5. CASE DmaPoll \/ DmaTimeout
  <2>1. UNCHANGED <<buf, front, row, frame>> /\ pc \in Drawing /\ (pc' \notin Drawing => ~DmaBusy)
        /\ pc' \notin {"dead", "header"}
    BY <1>5 DEF DmaPoll, DmaTimeout, Step, playerVars, dmaVars, Drawing, DmaInv
  <2> QED BY <2>1, BuffersKept
<1>6. CASE PrintStatus
  <2>1. UNCHANGED <<buf, front, row, frame>> /\ pc \in Drawing /\ pc' \in Drawing
    BY <1>6 DEF PrintStatus, Step, playerVars, dmaVars, Drawing
  <2> QED BY <2>1, BuffersKept DEF Drawing
<1>7. CASE Start \/ BeginPlanes \/ EndPlanes \/ SetBase \/ ReadCtrl \/ VblPoll \/ NextPoll
  <2>1. /\ UNCHANGED <<buf, front, row>> /\ pc \notin Drawing /\ pc' \notin Drawing
        /\ pc' \in {"dead", "header"} => pc \in {"dead", "header"}
    BY <1>7 DEF Start, BeginPlanes, EndPlanes, SetBase, ReadCtrl, VblPoll, NextPoll, Step, playerVars,
                dmaVars, Drawing
  <2> QED BY <2>1, BuffersKept
<1>8. CASE VblEdge \/ VsFall \/ PauseScan \/ LauncherPoll \/ UNCHANGED vars
  <2>1. UNCHANGED <<buf, front, row, frame, pc>>
    BY <1>8 DEF VblEdge, VsFall, PauseScan, LauncherPoll, vars, playerVars, dmaVars
  <2> QED BY <2>1, BuffersKept
<1>9. CASE Kill
  <2>1. runs # 0 /\ runs < 1
    BY <1>9 DEF Kill, SelectInv
  <2> QED BY <2>1 DEF TypeOK
<1> QED BY <1>1, <1>2, <1>3, <1>4, <1>5, <1>6, <1>7, <1>8, <1>9, <1>10 DEF Next, Player, Hardware

LEMMA FlipInvariance ==
  ASSUME Prompt, ~ScanMayStop, MaxRuns = 1
  PROVE  Spec => []FlipInv
<1>1. Init => FlipInv
  BY SelectInit, BuffersInit DEF FlipInv
<1>2. IInv /\ FlipInv /\ [Next]_vars => FlipInv'
  BY SelectNext, BuffersNext DEF IInv, FlipInv
<1> QED BY <1>1, <1>2, Invariance, PTL DEF Spec

(* A prompt player and a scaler that goes on: for frames of any size and number, the   *)
(* DMA never writes to the buffer being scanned, whoever else reads the status.        *)
THEOREM NoTear ==
  ASSUME Prompt, ~ScanMayStop, MaxRuns = 1
  PROVE  Spec => []NoTearing
<1>1. IInv /\ FlipInv => NoTearing
  <2> SUFFICES ASSUME IInv, FlipInv, DmaBusy, phase = "active" PROVE rgbBase # scanBuf
    BY DEF NoTearing
  <2>1. pc \in Drawing
    BY DEF IInv, TypeOK, Labels, FlipInv, SelectInv, Resting, Drawing
  <2>2. rgbBase = ~front /\ scanBuf = front /\ front \in BOOLEAN
    BY <2>1 DEF IInv, TypeOK, FlipInv, SelectInv, Settled, Labels, Drawing, Back
  <2> QED BY <2>2
<1> QED BY <1>1, Invariance, FlipInvariance, PTL

(* Under the same conditions what is scanned is always one frame, from its first row   *)
(* to its last.                                                                        *)
THEOREM WholeFrames ==
  ASSUME Prompt, ~ScanMayStop, MaxRuns = 1
  PROVE  Spec => []WholeFramesOnly
<1>1. IInv /\ FlipInv => WholeFramesOnly
  <2> SUFFICES ASSUME IInv, FlipInv, phase = "active" PROVE Whole(scanBuf)
    BY DEF WholeFramesOnly, Whole
  <2>1. CASE pc = "nextPoll"
    <3>1. Whole(front) /\ Whole(Back)
      BY <2>1 DEF FlipInv, BufferInv, Drawing
    <3>2. scanBuf = front \/ scanBuf = Back
      BY DEF IInv, TypeOK, Back
    <3> QED BY <3>1, <3>2
  <2>2. CASE pc # "nextPoll"
    <3>1. scanBuf = front
      BY <2>2 DEF IInv, TypeOK, FlipInv, SelectInv, Settled
    <3> QED BY <3>1 DEF FlipInv, BufferInv
  <2> QED BY <2>1, <2>2
<1> QED BY <1>1, Invariance, FlipInvariance, PTL
================================================================================
