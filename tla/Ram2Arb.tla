------------------------------- MODULE Ram2Arb -------------------------------
(***************************************************************************)
(* rtl/ram2_arb.v: two Avalon masters, A (audio and palette) and B (CRT    *)
(* scan-out), share one port of the memory.  Operators and the part of a   *)
(* clock step that belongs to the arbiter and to the memory behind it;     *)
(* FbScanOut and DdrSvcPort add the masters.  A master drives a bus:       *)
(* [read, write, burst]; B never writes.                                   *)
(*                                                                         *)
(* The memory is external: it keeps a command or a beat waiting, for at    *)
(* most MaxWait clocks in all from an idle port to the end of a burst.     *)
(***************************************************************************)
EXTENDS Naturals

CONSTANT MaxWait
ASSUME WaitAssumption == MaxWait \in Nat

VARIABLES
  st, cnt,    \* grant, and beats left of the burst granted
  owed,       \* beats of a read the memory has accepted and not delivered
  asker,      \* history: the master whose read it accepted last
  slack       \* clocks the memory may still wait

arbVars == <<st, cnt>>
memVars == <<owed, asker, slack>>

QuietBus == [read |-> FALSE, write |-> FALSE, burst |-> 1]

ArbInit == st = "ST_IDLE" /\ cnt = 0
MemInit == owed = 0 /\ asker = "A" /\ slack = MaxWait

grant_a == st \in {"ST_A_RD", "ST_A_WR"}
grant_b == st = "ST_B"

\* The port: the bus of the master granted.
ram(a, b) == IF grant_a THEN a ELSE IF grant_b THEN b ELSE QuietBus

\* What the masters see; ramWait and ramRdv are the memory's signals.
a_waitreq(ramWait) == grant_a => ramWait
b_waitreq(ramWait) == grant_b => ramWait
a_rdv(ramRdv) == st = "ST_A_RD" /\ ramRdv
b_rdv(ramRdv) == st = "ST_B" /\ ramRdv
-----------------------------------------------------------------------------
Grant(a, b) ==
  /\ st = "ST_IDLE"
  /\ \/ a.read /\ st' = "ST_A_RD" /\ cnt' = a.burst
     \/ ~a.read /\ a.write /\ st' = "ST_A_WR" /\ cnt' = a.burst
     \/ ~a.read /\ ~a.write /\ b.read /\ st' = "ST_B" /\ cnt' = b.burst
     \/ ~a.read /\ ~a.write /\ ~b.read /\ UNCHANGED arbVars

\* Mutants are wrong variants of the definition that follows them; the runs must tell
\* them apart from it.  LastOf: the grant is given up a beat early.
LastOfEarly == cnt \in {1, 2}
LastOf == cnt = 1

\* A beat of the burst granted has gone by: read data, or a write accepted.
Count(beat) ==
  /\ st # "ST_IDLE"
  /\ IF ~beat THEN UNCHANGED arbVars
     ELSE IF LastOf THEN st' = "ST_IDLE" /\ UNCHANGED cnt
     ELSE cnt' = cnt - 1 /\ UNCHANGED st

Arbitrate(a, b, ramWait, ramRdv) ==
  \/ Grant(a, b)
  \/ Count(IF st = "ST_A_WR" THEN a.write /\ ~ramWait ELSE ramRdv)

\* The memory takes one read at a time, and waits only when it has something to do.
Command(a, b) == ram(a, b).read \/ ram(a, b).write
Memory(a, b, ramWait, ramRdv) ==
  LET waits == ramWait \/ (owed > 0 /\ ~ramRdv) IN
  /\ ramRdv => owed > 0
  /\ ramWait => Command(a, b)
  /\ waits => slack > 0
  /\ slack' = IF waits THEN slack - 1 ELSE IF owed > 0 \/ Command(a, b) THEN slack ELSE MaxWait
  /\ IF ram(a, b).read /\ ~ramWait /\ owed = 0
       THEN owed' = ram(a, b).burst /\ asker' = (IF grant_a THEN "A" ELSE "B")
       ELSE owed' = (IF ramRdv THEN owed - 1 ELSE owed) /\ UNCHANGED asker
==============================================================================
