---------------------------- MODULE InterlacedScan ----------------------------
(***************************************************************************)
(* What a scan-out of interlaced fields promises: the lines of one parity  *)
(* one after the other, from the top to the bottom, then those of the      *)
(* other parity, until it is switched off.                                 *)
(***************************************************************************)
EXTENDS Integers

CONSTANT H
VARIABLE line     \* the line due on the screen, or NoLine

NoLine == -1

ScanInit == line = NoLine
NextLine == line # NoLine /\ line' = IF line + 2 < H THEN line + 2 ELSE 1 - (line % 2)
SwitchOn == line = NoLine /\ line' = 0
SwitchOff == line' = NoLine
ScanNext == NextLine \/ SwitchOn \/ SwitchOff
ScanSpec == ScanInit /\ [][ScanNext]_line
===============================================================================
