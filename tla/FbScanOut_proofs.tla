--------------------------- MODULE FbScanOut_proofs ---------------------------
(***************************************************************************)
(* What holds of the scan-out for every size of a line, a frame and a      *)
(* burst, however long the memory waits: the ranges of the counters, that  *)
(* a grant lasts as long as its burst, and the order of the lines; and, in *)
(* a blank that is long enough, that a line on the screen has been fetched.*)
(* The arguments: a master keeps its command up until the memory takes it, *)
(* so while it is granted the arbiter's count, the memory's and its own    *)
(* are the same number.  Signals and the line due are functions of the     *)
(* timing counters.  What the masters may still take (Work) falls by one   *)
(* at each clock, as does the time to the next line.                       *)
(***************************************************************************)
EXTENDS FbScanOut, TLAPS

ABus == [read : BOOLEAN, write : BOOLEAN, burst : 1 .. MaxBurst]
Buffers == [0 .. 1 -> [0 .. BEATS - 1 -> {Garbage} \cup (0 .. H - 1)]]

PortTyped ==
  /\ st \in {"ST_IDLE", "ST_A_RD", "ST_A_WR", "ST_B"} /\ cnt \in Nat /\ owed \in Nat
  /\ asker \in {"A", "B"} /\ slack \in 0 .. MaxWait
ATyped == aBus \in ABus /\ aLeft \in 0 .. MaxBurst /\ aDone \in BOOLEAN
FetchTyped == avl_read \in BOOLEAN /\ f_state \in {"F_IDLE", "F_FETCH", "F_RECV"} /\ beat_cnt \in 0 .. BEATS
BufferTyped == /\ fetch_pending \in BOOLEAN /\ wr_sel \in 0 .. 1 /\ avl_line \in 0 .. H - 1
               /\ buf \in Buffers
TimingTyped ==
  /\ fb_active \in BOOLEAN /\ vs_out \in BOOLEAN /\ de_out \in BOOLEAN
  /\ prev_vs \in BOOLEAN /\ prev_de \in BOOLEAN
  /\ ce_div \in 0 .. CeDiv - 1 /\ h_cnt \in 0 .. H_TOTAL - 1 /\ v_cnt \in 0 .. V_TOTAL - 1
  /\ field \in 0 .. 1
ShowTyped ==
  /\ fetch_req \in BOOLEAN /\ synced \in BOOLEAN /\ rd_sel \in 0 .. 1
  /\ fetch_line \in 0 .. H - 1 /\ display_line \in 0 .. H - 1
  /\ rd_x \in 0 .. W - 1 /\ r_out \in {Black} \cup (0 .. W - 1) /\ put \in 0 .. W

\* B keeps its read up from the request to the acceptance, then takes its beats.
BKeepsOn ==
  /\ avl_read <=> f_state = "F_FETCH"
  /\ f_state = "F_FETCH" => beat_cnt = 0 /\ (st = "ST_B" => owed = 0 /\ cnt = BEATS)
  /\ f_state = "F_RECV" => st = "ST_B" /\ owed = BEATS - beat_cnt /\ owed > 0
  /\ st = "ST_B" => f_state # "F_IDLE"

\* So does A, which keeps a write up until its last beat.
AKeepsOn ==
  /\ ~(aBus.read /\ aBus.write)
  /\ aLeft = 0 => ~aBus.read /\ ~aBus.write /\ ~grant_a
  /\ aBus.read => aLeft = aBus.burst /\ (st = "ST_A_RD" => owed = 0)
  /\ aBus.write => st # "ST_A_RD" /\ (st # "ST_A_WR" => aLeft = aBus.burst)
  /\ st = "ST_A_RD" /\ ~aBus.read => owed = aLeft /\ asker = "A"
  /\ st = "ST_A_WR" => aBus.write
  /\ ~aBus.read /\ ~aBus.write => aLeft = 0 \/ st = "ST_A_RD"

OwedOnRead == owed > 0 => st \in {"ST_A_RD", "ST_B"}

PortInv == PortTyped /\ ATyped /\ FetchTyped /\ BKeepsOn /\ AKeepsOn /\ OwedOnRead /\ BurstsStayWhole

\* The data enable follows the counters a pixel behind, and put counts with them.
EnableFollows == /\ de_out <=> v_active /\ h_cnt \in 1 .. W
                 /\ de_out => put = h_cnt - 1

ScreenInv == TimingTyped /\ ShowTyped /\ BufferTyped /\ EnableFollows

IInv == PortInv /\ ScreenInv
-----------------------------------------------------------------------------
(* The port: one clock of arbiter, memory and both masters *)

LEMMA Constants ==
  /\ MaxWait \in Nat /\ H \in Nat /\ H > 1 /\ BEATS \in Nat /\ BEATS > 0
  /\ PerBeat \in Nat /\ PerBeat > 0 /\ MaxBurst \in Nat /\ MaxBurst > 0
BY WaitAssumption, FrameAssumption, BurstAssumption

LEMMA Buses ==
  /\ bBus.read = avl_read /\ bBus.write = FALSE /\ bBus.burst = BEATS
  /\ QuietBus.read = FALSE /\ QuietBus.write = FALSE /\ QuietBus.burst = 1
  /\ QuietBus \in ABus
BY Constants DEF bBus, QuietBus, ABus

LEMMA InitPort == Init => PortInv
<1> SUFFICES ASSUME Init PROVE PortInv
  OBVIOUS
<1> USE DEF Init, ArbInit, MemInit
<1>1. PortTyped
  BY Constants DEF PortTyped
<1>2. ATyped
  <2>1. aBus \in ABus /\ aDone \in BOOLEAN /\ aLeft = 0
    BY Buses
  <2>2. aLeft \in 0 .. MaxBurst
    BY <2>1, Constants
  <2> QED BY <2>1, <2>2 DEF ATyped
<1>3. FetchTyped
  <2>1. avl_read \in BOOLEAN
    BY Zenon
  <2>2. beat_cnt \in 0 .. BEATS /\ f_state = "F_IDLE"
    BY Constants, SMT
  <2> HIDE DEF Init
  <2> QED BY <2>1, <2>2, Zenon DEF FetchTyped
<1>4. BKeepsOn /\ OwedOnRead
  BY DEF BKeepsOn, OwedOnRead
<1>5. AKeepsOn
  BY Buses DEF AKeepsOn, grant_a
<1>6. BurstsStayWhole
  BY DEF BurstsStayWhole, grant_a
<1> QED BY <1>1, <1>2, <1>3, <1>4, <1>5, <1>6 DEF PortInv

\* A clock of the port, without what leaves it alone.
PortClk(ramWait, ramRdv) ==
  /\ Memory(aBus, bBus, ramWait, ramRdv)
  /\ Arbitrate(aBus, bBus, ramWait, ramRdv)
  /\ Fetch(ramWait, ramRdv)
  /\ MasterA(ramWait, ramRdv)

(* B is not granted: it may raise its read, and keeps it up. *)
LEMMA BWaits ==
  ASSUME PortInv, NEW ramWait \in BOOLEAN, NEW ramRdv \in BOOLEAN, PortClk(ramWait, ramRdv),
         st # "ST_B"
  PROVE  /\ avl_read' <=> f_state' = "F_FETCH"
         /\ f_state' \in {"F_IDLE", "F_FETCH"}
         /\ f_state' = "F_FETCH" => beat_cnt' = 0
         /\ f_state' = "F_IDLE" => f_state = "F_IDLE"
         /\ FetchTyped'
<1>1. f_state # "F_RECV" /\ b_waitreq(ramWait)
  BY DEF PortInv, BKeepsOn, b_waitreq, grant_b
<1>2. /\ avl_read' <=> f_state' = "F_FETCH"
      /\ f_state' \in {"F_IDLE", "F_FETCH"}
      /\ f_state' = "F_FETCH" => beat_cnt' = 0
      /\ f_state' = "F_IDLE" => f_state = "F_IDLE"
      /\ beat_cnt' = 0 \/ beat_cnt' = beat_cnt
  BY <1>1 DEF PortInv, BKeepsOn, FetchTyped, PortClk, Fetch, FetchIdle, FetchAddress, FetchData
<1>3. FetchTyped'
  <2>1. avl_read' \in BOOLEAN
    BY <1>1, Zenon DEF PortInv, FetchTyped, PortClk, Fetch, FetchIdle, FetchAddress, FetchData
  <2>2. beat_cnt' \in 0 .. BEATS
    BY <1>2, Constants, SMT DEF PortInv, FetchTyped
  <2> QED BY <1>2, <2>1, <2>2 DEF FetchTyped
<1> QED BY <1>2, <1>3

(* A is not granted: it may begin a burst, and keeps its command up. *)
LEMMA AWaits ==
  ASSUME PortInv, NEW ramWait \in BOOLEAN, NEW ramRdv \in BOOLEAN, PortClk(ramWait, ramRdv),
         st \in {"ST_IDLE", "ST_B"}
  PROVE  /\ \/ aLeft = 0 /\ aLeft' = 0 /\ aBus' = aBus
            \/ /\ aLeft = 0
               /\ \E n \in 1 .. MaxBurst, read \in BOOLEAN :
                    aBus' = [read |-> read, write |-> ~read, burst |-> n] /\ aLeft' = n
            \/ aLeft > 0 /\ aLeft' = aLeft /\ aBus' = aBus
         /\ ATyped'
<1>1. ~a_rdv(ramRdv) /\ a_waitreq(ramWait)
  BY DEF a_rdv, a_waitreq, grant_a
<1>2. \/ aLeft = 0 /\ aLeft' = 0 /\ aBus' = aBus
      \/ /\ aLeft = 0
         /\ \E n \in 1 .. MaxBurst, read \in BOOLEAN :
              aBus' = [read |-> read, write |-> ~read, burst |-> n] /\ aLeft' = n
      \/ aLeft > 0 /\ aLeft' = aLeft /\ aBus' = aBus
  BY <1>1 DEF PortInv, ATyped, ABus, AKeepsOn, PortClk, MasterA
<1>3. ATyped'
  <2>1. aDone' \in BOOLEAN
    BY Zenon DEF PortInv, ATyped, PortClk, MasterA
  <2>2. aBus \in ABus /\ aLeft \in 0 .. MaxBurst
    BY DEF PortInv, ATyped
  <2>3. aBus' \in ABus /\ aLeft' \in 0 .. MaxBurst
    <3>1. ASSUME NEW n \in 1 .. MaxBurst, NEW read \in BOOLEAN,
                 aBus' = [read |-> read, write |-> ~read, burst |-> n], aLeft' = n
          PROVE  aBus' \in ABus /\ aLeft' \in 0 .. MaxBurst
      <4>1. aBus' \in ABus
        BY <3>1, Zenon DEF ABus
      <4> QED BY <3>1, <4>1, Constants
    <3> QED BY <1>2, <2>2, <3>1
  <2> QED BY <2>1, <2>3, Zenon DEF ATyped
<1> QED BY <1>2, <1>3

(* What A does while it waits keeps its side of the bargain. *)
LEMMA AWaitsOn ==
  ASSUME PortInv, NEW ramWait \in BOOLEAN, NEW ramRdv \in BOOLEAN, PortClk(ramWait, ramRdv),
         st \in {"ST_IDLE", "ST_B"}, st' \in {"ST_IDLE", "ST_B"}
  PROVE  AKeepsOn'
<1>1. ~grant_a'
  BY DEF grant_a
<1>2. CASE aBus' = aBus /\ aLeft' = aLeft
  BY <1>1, <1>2 DEF PortInv, AKeepsOn
<1>3. ASSUME NEW n \in 1 .. MaxBurst, NEW read \in BOOLEAN,
             aBus' = [read |-> read, write |-> ~read, burst |-> n], aLeft' = n
      PROVE  AKeepsOn'
  <2>1. aBus'.read = read /\ aBus'.write = ~read /\ aBus'.burst = n /\ aLeft' # 0
    BY <1>3
  <2> QED BY <1>1, <1>3, <2>1 DEF AKeepsOn
<1> QED BY <1>2, <1>3, AWaits

(* Nobody is granted: a master may come, and the first is taken. *)
LEMMA IdleStep ==
  ASSUME PortInv, NEW ramWait \in BOOLEAN, NEW ramRdv \in BOOLEAN, PortClk(ramWait, ramRdv),
         st = "ST_IDLE"
  PROVE  PortInv'
<1>1. owed = 0 /\ owed' = 0 /\ asker' = asker /\ slack' \in 0 .. MaxWait
  BY Constants, Buses DEF PortInv, PortTyped, OwedOnRead, PortClk, Memory, ram, grant_a, grant_b
<1>2. Grant(aBus, bBus)
  BY DEF PortClk, Arbitrate, Count
<1>3. PortTyped' /\ OwedOnRead'
  BY <1>1, <1>2, Constants, Buses DEF PortInv, PortTyped, ATyped, ABus, Grant, arbVars, OwedOnRead
<1>4. BKeepsOn'
  BY <1>1, <1>2, BWaits, Buses DEF BKeepsOn, Grant, arbVars, PortInv
<1>5. \/ st' = "ST_IDLE" /\ cnt' = cnt
      \/ st' = "ST_A_RD" /\ cnt' = aBus.burst /\ aBus.read
      \/ st' = "ST_A_WR" /\ cnt' = aBus.burst /\ ~aBus.read /\ aBus.write
      \/ st' = "ST_B" /\ cnt' = BEATS
  BY <1>2, Buses DEF Grant, arbVars
<1>6. AKeepsOn'
  <2>1. CASE st' \in {"ST_IDLE", "ST_B"}
    BY <2>1, AWaitsOn
  <2>2. CASE st' \in {"ST_A_RD", "ST_A_WR"}
    <3>1. aBus' = aBus /\ aLeft' = aLeft /\ aLeft # 0
      BY <1>5, <2>2, AWaits DEF PortInv, AKeepsOn
    <3> QED BY <1>1, <1>5, <2>2, <3>1 DEF PortInv, AKeepsOn, grant_a
  <2> QED BY <1>5, <2>1, <2>2
<1>7. BurstsStayWhole'
  <2>1. st' \in {"ST_A_RD", "ST_A_WR"} => aLeft' = aLeft /\ cnt' = aLeft
    BY <1>5, AWaits DEF PortInv, AKeepsOn
  <2>2. st' = "ST_B" => cnt' = BEATS /\ beat_cnt' = 0
    BY <1>4, <1>5, BWaits DEF BKeepsOn
  <2> QED BY <1>1, <2>1, <2>2, Constants DEF BurstsStayWhole, grant_a
<1> QED BY <1>3, <1>4, <1>6, <1>7, AWaits, BWaits DEF PortInv

(* A reads: its command waits, is taken, or a beat comes in. *)
LEMMA ReadStep ==
  ASSUME PortInv, NEW ramWait \in BOOLEAN, NEW ramRdv \in BOOLEAN, PortClk(ramWait, ramRdv),
         st = "ST_A_RD"
  PROVE  PortInv'
<1>1. cnt = aLeft /\ aLeft > 0 /\ aLeft \in 1 .. MaxBurst /\ ~aBus.write
  BY Constants DEF PortInv, ATyped, AKeepsOn, BurstsStayWhole, grant_a
<1>2. slack' \in 0 .. MaxWait
  BY Constants DEF PortInv, PortTyped, PortClk, Memory
<1>3. Count(ramRdv)
  BY DEF PortClk, Arbitrate, Grant
<1>4. ram(aBus, bBus) = aBus /\ a_rdv(ramRdv) = ramRdv /\ a_waitreq(ramWait) = ramWait
  BY DEF ram, grant_a, a_rdv, a_waitreq
<1>5. BKeepsOn'
  <2>1. st' \in {"ST_A_RD", "ST_IDLE"}
    BY <1>3 DEF Count, arbVars
  <2> QED BY <2>1, BWaits DEF BKeepsOn
<1>6. ATyped'
  <2>1. aDone' \in BOOLEAN
    BY Zenon DEF PortInv, ATyped, PortClk, MasterA
  <2>2. aBus' = aBus \/ aBus' = QuietBus
    BY <1>1 DEF PortClk, MasterA
  <2>3. aLeft' = aLeft \/ aLeft' = aLeft - 1
    BY <1>1 DEF PortClk, MasterA
  <2>4. aBus' \in ABus
    BY <2>2, Buses DEF PortInv, ATyped
  <2>5. aLeft' \in 0 .. MaxBurst
    BY <1>1, <2>3, Constants
  <2> QED BY <2>1, <2>4, <2>5, Zenon DEF ATyped
<1>7. CASE aBus.read
  <2>1. owed = 0 /\ ~ramRdv /\ aLeft = aBus.burst
    BY <1>7 DEF PortInv, AKeepsOn, PortTyped, PortClk, Memory
  <2>2. aLeft' = aLeft /\ aBus' = (IF ramWait THEN aBus ELSE QuietBus)
    BY <1>1, <1>4, <1>7, <2>1 DEF PortClk, MasterA
  <2>3. st' = st /\ cnt' = cnt
    BY <1>3, <2>1 DEF Count, arbVars
  <2>4. /\ ramWait => owed' = 0 /\ asker' = asker
        /\ ~ramWait => owed' = aLeft /\ asker' = "A"
    BY <1>4, <1>7, <2>1 DEF PortClk, Memory, grant_a
  <2>5. AKeepsOn'
    BY <1>1, <1>7, <2>1, <2>2, <2>3, <2>4, Buses DEF AKeepsOn, grant_a
  <2>6. BurstsStayWhole' /\ OwedOnRead' /\ PortTyped'
    BY <1>1, <1>2, <2>2, <2>3, <2>4 DEF BurstsStayWhole, OwedOnRead, PortTyped, PortInv, grant_a
  <2> QED BY <1>5, <1>6, <2>5, <2>6, BWaits DEF PortInv
<1>8. CASE ~aBus.read
  <2>1. owed = aLeft /\ asker = "A"
    BY <1>8 DEF PortInv, AKeepsOn
  <2>2. aLeft' = (IF ramRdv THEN aLeft - 1 ELSE aLeft) /\ (aBus' = aBus \/ aBus' = QuietBus)
    BY <1>1, <1>4 DEF PortClk, MasterA
  <2>3. /\ ~ramRdv => st' = st /\ cnt' = cnt
        /\ ramRdv /\ cnt = 1 => st' = "ST_IDLE" /\ cnt' = cnt
        /\ ramRdv /\ cnt # 1 => st' = st /\ cnt' = cnt - 1
    BY <1>3 DEF Count, arbVars, LastOf
  <2>4. owed' = (IF ramRdv THEN owed - 1 ELSE owed) /\ asker' = asker
    BY <1>4, <1>8 DEF PortClk, Memory
  <2>5. aLeft' = 0 => aBus' = QuietBus
    BY <1>1, <1>8 DEF PortClk, MasterA
  <2>6. ~aBus'.read /\ ~aBus'.write
    BY <1>1, <1>8, <2>2, Buses
  <2>7. AKeepsOn'
    BY <1>1, <2>1, <2>2, <2>3, <2>4, <2>6 DEF AKeepsOn, grant_a
  <2>8. BurstsStayWhole' /\ OwedOnRead' /\ PortTyped'
    BY <1>1, <1>2, <2>1, <2>2, <2>3, <2>4 DEF BurstsStayWhole, OwedOnRead, PortTyped, PortInv, grant_a
  <2> QED BY <1>5, <1>6, <2>7, <2>8, BWaits DEF PortInv
<1> QED BY <1>7, <1>8

(* A writes: each beat it is rid of is counted. *)
LEMMA WriteStep ==
  ASSUME PortInv, NEW ramWait \in BOOLEAN, NEW ramRdv \in BOOLEAN, PortClk(ramWait, ramRdv),
         st = "ST_A_WR"
  PROVE  PortInv'
<1>1. /\ cnt = aLeft /\ aLeft > 0 /\ aLeft \in 1 .. MaxBurst
      /\ aBus.write /\ ~aBus.read /\ owed = 0
  BY Constants DEF PortInv, PortTyped, ATyped, AKeepsOn, BurstsStayWhole, OwedOnRead, grant_a
<1>2. slack' \in 0 .. MaxWait /\ ~ramRdv
  BY <1>1, Constants DEF PortInv, PortTyped, PortClk, Memory
<1>3. Count(~ramWait)
  BY <1>1 DEF PortClk, Arbitrate, Grant
<1>4. ram(aBus, bBus) = aBus /\ a_waitreq(ramWait) = ramWait
  BY DEF ram, grant_a, a_waitreq
<1>5. /\ ramWait => st' = st /\ cnt' = cnt
      /\ ~ramWait /\ cnt = 1 => st' = "ST_IDLE" /\ cnt' = cnt
      /\ ~ramWait /\ cnt # 1 => st' = st /\ cnt' = cnt - 1
  BY <1>3 DEF Count, arbVars, LastOf
<1>6. BKeepsOn'
  BY <1>5, BWaits DEF BKeepsOn
<1>7. /\ aLeft' = (IF ramWait THEN aLeft ELSE aLeft - 1)
      /\ aBus' = (IF aLeft' = 0 THEN QuietBus ELSE aBus)
  BY <1>1, <1>4 DEF PortClk, MasterA
<1>8. ATyped'
  <2>1. aDone' \in BOOLEAN
    BY Zenon DEF PortInv, ATyped, PortClk, MasterA
  <2>2. aBus' \in ABus
    BY <1>7, Buses DEF PortInv, ATyped
  <2>3. aLeft' \in 0 .. MaxBurst
    BY <1>1, <1>7, Constants
  <2> QED BY <2>1, <2>2, <2>3, Zenon DEF ATyped
<1>9. owed' = 0 /\ asker' = asker
  BY <1>1, <1>2, <1>4 DEF PortClk, Memory
<1>10. AKeepsOn'
  BY <1>1, <1>5, <1>7, <1>9, Buses DEF AKeepsOn, grant_a
<1>11. BurstsStayWhole' /\ OwedOnRead' /\ PortTyped'
  BY <1>1, <1>2, <1>5, <1>7, <1>9 DEF BurstsStayWhole, OwedOnRead, PortTyped, PortInv, grant_a
<1> QED BY <1>6, <1>8, <1>10, <1>11, BWaits DEF PortInv

(* B reads: its command waits, is taken, or a beat comes in. *)
LEMMA LineStep ==
  ASSUME PortInv, NEW ramWait \in BOOLEAN, NEW ramRdv \in BOOLEAN, PortClk(ramWait, ramRdv),
         st = "ST_B"
  PROVE  PortInv'
<1>1. slack' \in 0 .. MaxWait
  BY Constants DEF PortInv, PortTyped, PortClk, Memory
<1>2. Count(ramRdv)
  BY DEF PortClk, Arbitrate, Grant
<1>3. ram(aBus, bBus) = bBus /\ b_rdv(ramRdv) = ramRdv /\ b_waitreq(ramWait) = ramWait
  BY DEF ram, grant_a, grant_b, b_rdv, b_waitreq
<1>4. st' \in {"ST_B", "ST_IDLE"}
  BY <1>2 DEF Count, arbVars
<1>5. AKeepsOn'
  BY <1>4, AWaitsOn
<1>6. CASE f_state = "F_FETCH"
  <2>1. owed = 0 /\ cnt = BEATS /\ beat_cnt = 0 /\ avl_read /\ ~ramRdv
    BY <1>6 DEF PortInv, BKeepsOn, PortTyped, PortClk, Memory
  <2>2. FetchAddress(ramWait)
    BY <1>6 DEF PortClk, Fetch, FetchIdle, FetchData
  <2>3. /\ avl_read' = ramWait /\ f_state' = (IF ramWait THEN "F_FETCH" ELSE "F_RECV")
        /\ beat_cnt' = 0
    BY <1>3, <2>1, <2>2 DEF FetchAddress
  <2>4. st' = st /\ cnt' = cnt
    BY <1>2, <2>1 DEF Count, arbVars
  <2>5. /\ ramWait => owed' = 0 /\ asker' = asker
        /\ ~ramWait => owed' = BEATS /\ asker' = "B"
    BY <1>3, <2>1, Buses DEF PortClk, Memory, grant_a
  <2>6. BKeepsOn' /\ FetchTyped'
    BY <2>1, <2>3, <2>4, <2>5, Constants DEF BKeepsOn, FetchTyped
  <2>7. BurstsStayWhole' /\ OwedOnRead' /\ PortTyped'
    BY <1>1, <2>1, <2>3, <2>4, <2>5, Constants DEF BurstsStayWhole, OwedOnRead, PortTyped, PortInv, grant_a
  <2> QED BY <1>5, <2>6, <2>7, AWaits DEF PortInv
<1>7. CASE f_state = "F_RECV"
  <2>1. owed = BEATS - beat_cnt /\ cnt = owed /\ owed > 0 /\ asker = "B" /\ ~avl_read /\ beat_cnt \in 0 .. BEATS
    BY <1>7 DEF PortInv, BKeepsOn, PortTyped, FetchTyped, BurstsStayWhole
  <2>2. FetchData(ramRdv)
    BY <1>7 DEF PortClk, Fetch, FetchIdle, FetchAddress
  <2>3. /\ avl_read' = avl_read /\ beat_cnt' = (IF ramRdv THEN beat_cnt + 1 ELSE beat_cnt)
        /\ f_state' = (IF ramRdv /\ beat_cnt = BEATS - 1 THEN "F_IDLE" ELSE "F_RECV")
    BY <1>3, <2>2 DEF FetchData
  <2>4. /\ ~ramRdv => st' = st /\ cnt' = cnt
        /\ ramRdv /\ cnt = 1 => st' = "ST_IDLE" /\ cnt' = cnt
        /\ ramRdv /\ cnt # 1 => st' = st /\ cnt' = cnt - 1
    BY <1>2 DEF Count, arbVars, LastOf
  <2>5. owed' = (IF ramRdv THEN owed - 1 ELSE owed) /\ asker' = asker
    BY <1>3, <2>1, Buses DEF PortClk, Memory
  <2>6. BKeepsOn' /\ FetchTyped'
    <3>1. avl_read' = FALSE
      BY <2>1, <2>3 DEF PortInv, FetchTyped
    <3>2. beat_cnt' \in 0 .. BEATS
      BY <2>1, <2>3, Constants
    <3>3. st' = "ST_B" <=> f_state' = "F_RECV"
      BY <2>1, <2>3, <2>4, Constants
    <3>4. f_state' = "F_RECV" => owed' = BEATS - beat_cnt' /\ owed' > 0
      BY <2>1, <2>3, <2>5, Constants
    <3>5. f_state' \in {"F_IDLE", "F_RECV"}
      BY <2>3
    <3> QED BY <3>1, <3>2, <3>3, <3>4, <3>5 DEF BKeepsOn, FetchTyped
  <2>7. BurstsStayWhole' /\ OwedOnRead' /\ PortTyped'
    BY <1>1, <2>1, <2>3, <2>4, <2>5, Constants DEF BurstsStayWhole, OwedOnRead, PortTyped, PortInv, grant_a
  <2> QED BY <1>5, <2>6, <2>7, AWaits DEF PortInv
<1> QED BY <1>6, <1>7 DEF PortInv, BKeepsOn, FetchTyped

LEMMA PortStep ==
  ASSUME PortInv, NEW ramWait \in BOOLEAN, NEW ramRdv \in BOOLEAN, PortClk(ramWait, ramRdv)
  PROVE  PortInv'
BY IdleStep, ReadStep, WriteStep, LineStep DEF PortInv, PortTyped
-----------------------------------------------------------------------------
(* The screen *)

LEMMA Sizes ==
  /\ W \in Nat /\ W > 0 /\ H_TOTAL \in Nat /\ H_TOTAL > W + 1
  /\ V_ACTIVE \in Nat /\ V_TOTAL \in Nat /\ V_TOTAL > V_ACTIVE /\ CeDiv \in Nat /\ CeDiv > 0
<1>1. W \in Nat /\ W > 0
  <2>1. \A b, p \in Nat : b > 0 /\ p > 0 => b * p \in Nat /\ b * p > 0
    BY SMT
  <2> QED BY <2>1, Constants DEF W
<1>2. V_ACTIVE \in Nat
  BY Constants DEF V_ACTIVE
<1>3. \A t \in {CeDiv, H_FP, H_SYNC, H_BP, V_FP, V_SYNC, V_BP} : t \in Nat /\ t > 0
  BY TimingAssumption
<1> HIDE DEF W, V_ACTIVE
<1>4. H_TOTAL \in Nat /\ H_TOTAL > W + 1
  BY <1>1, <1>3 DEF H_TOTAL
<1>5. V_TOTAL \in Nat /\ V_TOTAL > V_ACTIVE
  BY <1>2, <1>3 DEF V_TOTAL
<1> QED BY <1>1, <1>2, <1>3, <1>4, <1>5

LEMMA InitScreen == Init => ScreenInv
<1> SUFFICES ASSUME Init PROVE ScreenInv
  OBVIOUS
<1> USE DEF Init
<1>1. TimingTyped
  <2>1. /\ fb_active \in BOOLEAN /\ vs_out \in BOOLEAN /\ de_out \in BOOLEAN
        /\ prev_vs \in BOOLEAN /\ prev_de \in BOOLEAN
    BY Zenon
  <2>2. /\ ce_div \in 0 .. CeDiv - 1 /\ h_cnt \in 0 .. H_TOTAL - 1 /\ v_cnt \in 0 .. V_TOTAL - 1
        /\ field \in 0 .. 1
    BY Sizes, SMT
  <2> HIDE DEF Init
  <2> QED BY <2>1, <2>2, Zenon DEF TimingTyped
<1>2. ShowTyped
  <2>1. fetch_req \in BOOLEAN /\ synced \in BOOLEAN
    BY Zenon
  <2>2. /\ rd_sel \in 0 .. 1 /\ fetch_line \in 0 .. H - 1 /\ display_line \in 0 .. H - 1
        /\ rd_x \in 0 .. W - 1 /\ put \in 0 .. W
    BY Sizes, Constants, SMT
  <2>3. r_out = Black
    BY Zenon
  <2> HIDE DEF Init
  <2> QED BY <2>1, <2>2, <2>3, Zenon DEF ShowTyped
<1>3. BufferTyped
  <2>1. fetch_pending \in BOOLEAN
    BY Zenon
  <2>2. wr_sel \in 0 .. 1 /\ avl_line \in 0 .. H - 1
    BY Constants, SMT
  <2>3. buf \in Buffers
    BY Zenon DEF Buffers
  <2> HIDE DEF Init
  <2> QED BY <2>1, <2>2, <2>3, Zenon DEF BufferTyped
<1>4. EnableFollows
  BY Sizes DEF Init, EnableFollows
<1> QED BY <1>1, <1>2, <1>3, <1>4 DEF ScreenInv

LEMMA TimingStep ==
  ASSUME TimingTyped, Timing, fb_active' \in BOOLEAN
  PROVE  TimingTyped'
<1>1. CASE ~fb_active
  <2>1. /\ vs_out' \in BOOLEAN /\ de_out' \in BOOLEAN /\ prev_vs' \in BOOLEAN /\ prev_de' \in BOOLEAN
    BY <1>1, Zenon DEF Timing
  <2>2. /\ ce_div' \in 0 .. CeDiv - 1 /\ h_cnt' \in 0 .. H_TOTAL - 1 /\ v_cnt' \in 0 .. V_TOTAL - 1
        /\ field' \in 0 .. 1
    BY <1>1, Sizes, SMT DEF Timing
  <2> QED BY <2>1, <2>2, Zenon DEF TimingTyped
<1>2. CASE fb_active
  <2>1. ce_div' \in 0 .. CeDiv - 1
    BY <1>2, Sizes DEF Timing, TimingTyped
  <2>2. CASE ce_pix
    <3>1. h_cnt' \in 0 .. H_TOTAL - 1
      BY <1>2, <2>2, Sizes DEF Timing, TimingTyped, EndOfLine
    <3>2. v_cnt' \in 0 .. V_TOTAL - 1
      BY <1>2, <2>2, Sizes DEF Timing, TimingTyped, EndOfField
    <3>3. field' \in 0 .. 1
      BY <1>2, <2>2 DEF Timing, TimingTyped
    <3>4. /\ vs_out' \in BOOLEAN /\ de_out' \in BOOLEAN
          /\ prev_vs' \in BOOLEAN /\ prev_de' \in BOOLEAN
      BY <1>2, <2>2, Zenon DEF Timing, TimingTyped
    <3> QED BY <2>1, <3>1, <3>2, <3>3, <3>4, Zenon DEF TimingTyped
  <2>3. CASE ~ce_pix
    BY <1>2, <2>1, <2>3, Zenon DEF Timing, TimingTyped
  <2> QED BY <2>2, <2>3
<1> QED BY <1>1, <1>2

LEMMA EnableStep ==
  ASSUME TimingTyped, EnableFollows, Timing, Show
  PROVE  EnableFollows'
<1>1. CASE ~fb_active
  BY <1>1, Sizes DEF Timing, EnableFollows
<1>2. CASE fb_active /\ ~ce_pix
  <2>1. UNCHANGED <<h_cnt, v_cnt, de_out, put>>
    BY <1>2 DEF Timing, Show, showVars
  <2> QED BY <2>1 DEF EnableFollows, v_active
<1>3. CASE fb_active /\ ce_pix
  <2>1. de_out' <=> h_cnt < W /\ v_active
    BY <1>3, Zenon DEF Timing, h_active
  <2>2. CASE EndOfLine
    <3>1. h_cnt' = 0 /\ ~de_out'
      BY <1>3, <2>1, <2>2, Sizes DEF Timing, EndOfLine
    <3> QED BY <3>1, Sizes DEF EnableFollows
  <2>3. CASE ~EndOfLine
    <3>1. h_cnt' = h_cnt + 1 /\ v_cnt' = v_cnt /\ (v_active' <=> v_active)
      BY <1>3, <2>3 DEF Timing, v_active
    <3>2. h_cnt \in Nat
      BY Sizes DEF TimingTyped
    <3>3. put' = IF de_out THEN put + 1 ELSE 0
      BY <1>3 DEF Show
    <3>4. de_out' <=> v_active' /\ h_cnt' \in 1 .. W
      BY <2>1, <3>1, <3>2, Sizes
    <3>5. ASSUME de_out' PROVE put' = h_cnt' - 1
      <4>1. v_active /\ h_cnt < W
        BY <2>1, <3>5
      <4>2. CASE h_cnt = 0
        BY <3>1, <3>3, <4>2, Sizes DEF EnableFollows
      <4>3. CASE h_cnt # 0
        BY <3>1, <3>2, <3>3, <4>1, <4>3, Sizes DEF EnableFollows
      <4> QED BY <4>2, <4>3
    <3> QED BY <3>4, <3>5 DEF EnableFollows
  <2> QED BY <2>2, <2>3
<1> QED BY <1>1, <1>2, <1>3

LEMMA ShowStep ==
  ASSUME TimingTyped, EnableFollows, ShowTyped, Show
  PROVE  ShowTyped'
<1>1. CASE ~fb_active
  <2>1. fetch_req' \in BOOLEAN /\ synced' \in BOOLEAN
    BY <1>1, Zenon DEF Show
  <2>2. /\ rd_sel' \in 0 .. 1 /\ fetch_line' \in 0 .. H - 1 /\ display_line' \in 0 .. H - 1
        /\ rd_x' \in 0 .. W - 1 /\ put' \in 0 .. W
    BY <1>1, Sizes, Constants, SMT DEF Show
  <2>3. r_out' = Black
    BY <1>1, Zenon DEF Show
  <2> QED BY <2>1, <2>2, <2>3, Zenon DEF ShowTyped
<1>2. CASE fb_active /\ ~ce_pix
  BY <1>2 DEF Show, ShowTyped, showVars
<1>3. CASE fb_active /\ ce_pix
  <2>1. \A n \in FetchFor : n \in 0 .. H - 1
    BY Constants DEF FetchFor, TimingTyped, ShowTyped
  <2>2. fetch_line' \in 0 .. H - 1 /\ display_line' \in 0 .. H - 1
    BY <1>3, <2>1 DEF Show, ShowTyped
  <2>3. rd_sel' \in 0 .. 1
    BY <1>3 DEF Show, ShowTyped
  <2>4. rd_x' \in 0 .. W - 1
    BY <1>3, Sizes DEF Show, ShowTyped, Column, TimingTyped
  <2>5. r_out' \in {Black} \cup (0 .. W - 1)
    BY <1>3 DEF Show, ShowTyped
  <2>6. put' \in 0 .. W
    BY <1>3, Sizes DEF Show, ShowTyped, EnableFollows, TimingTyped
  <2>7. fetch_req' \in BOOLEAN /\ synced' \in BOOLEAN
    BY <1>3, Zenon DEF Show, ShowTyped
  <2> QED BY <2>2, <2>3, <2>4, <2>5, <2>6, <2>7, Zenon DEF ShowTyped
<1> QED BY <1>1, <1>2, <1>3

LEMMA BufferStep ==
  ASSUME PortInv, BufferTyped, ShowTyped, NEW ramWait \in BOOLEAN, NEW ramRdv \in BOOLEAN,
         Fetch(ramWait, ramRdv)
  PROVE  BufferTyped'
<1>1. fetch_pending' \in BOOLEAN
  BY Zenon DEF BufferTyped, Fetch, FetchIdle, FetchAddress, FetchData, Pending
<1>2. avl_line' \in 0 .. H - 1
  BY Zenon DEF BufferTyped, ShowTyped, Fetch, FetchIdle, FetchAddress, FetchData
<1>3. wr_sel' = wr_sel \/ wr_sel' = 1 - wr_sel
  BY Zenon DEF Fetch, FetchIdle, FetchAddress, FetchData
<1>4. buf' \in Buffers
  <2>1. \/ buf' = buf
        \/ f_state = "F_RECV" /\ buf' = [buf EXCEPT ![wr_sel][beat_cnt] = avl_line]
    BY Zenon DEF Fetch, FetchIdle, FetchAddress, FetchData
  <2>2. f_state = "F_RECV" => beat_cnt \in 0 .. BEATS - 1
    BY Constants DEF PortInv, BKeepsOn, FetchTyped
  <2>3. buf \in Buffers /\ wr_sel \in 0 .. 1 /\ avl_line \in 0 .. H - 1
    BY DEF BufferTyped
  <2>4. f_state = "F_RECV" => [buf EXCEPT ![wr_sel][beat_cnt] = avl_line] \in Buffers
    BY <2>2, <2>3 DEF Buffers
  <2> QED BY <2>1, <2>3, <2>4
<1>5. wr_sel' \in 0 .. 1
  BY <1>3 DEF BufferTyped
<1> QED BY <1>1, <1>2, <1>4, <1>5, Zenon DEF BufferTyped
-----------------------------------------------------------------------------
LEMMA NextIInv == IInv /\ [Clk]_vars => IInv'
<1> SUFFICES ASSUME IInv, [Clk]_vars PROVE IInv'
  OBVIOUS
<1>1. CASE Clk
  <2>1. PICK ramWait \in BOOLEAN, ramRdv \in BOOLEAN :
          /\ PortClk(ramWait, ramRdv)
          /\ Timing /\ Show /\ fb_active' \in BOOLEAN
    BY <1>1 DEF Clk, PortClk
  <2>2. PortInv'
    BY <2>1, PortStep DEF IInv
  <2>3. TimingTyped' /\ EnableFollows' /\ ShowTyped'
    BY <2>1, TimingStep, EnableStep, ShowStep DEF IInv, ScreenInv
  <2>4. BufferTyped'
    BY <2>1, BufferStep DEF IInv, ScreenInv, PortClk
  <2> QED BY <2>2, <2>3, <2>4 DEF IInv, ScreenInv
<1>2. CASE UNCHANGED vars
  <2>1. PortInv'
    BY <1>2 DEF IInv, PortInv, PortTyped, ATyped, FetchTyped, BKeepsOn, AKeepsOn, OwedOnRead,
             BurstsStayWhole, grant_a, vars, arbVars, memVars, fetchVars, aVars
  <2>2. ScreenInv'
    BY <1>2 DEF IInv, ScreenInv, TimingTyped, ShowTyped, BufferTyped, EnableFollows, v_active,
             vars, inVars, fetchVars, showVars
  <2> QED BY <2>1, <2>2 DEF IInv
<1> QED BY <1>1, <1>2

LEMMA Invariance == Spec => []IInv
<1>1. Init => IInv
  BY InitPort, InitScreen DEF IInv
<1> QED BY <1>1, NextIInv, PTL DEF Spec

(* The counters stay in their ranges for all sizes, whenever the output is switched on *)
(* or off and however long the memory keeps the fetches waiting.                       *)
THEOREM TypeCorrect == Spec => []TypeOK
<1>1. IInv => TypeOK
  <2> SUFFICES ASSUME IInv PROVE TypeOK
    OBVIOUS
  <2>1. {fb_active, vs_out, de_out, prev_vs, prev_de, avl_read, fetch_req, fetch_pending, synced,
         aDone} \subseteq BOOLEAN
    BY Zenon DEF IInv, PortInv, ScreenInv, TimingTyped, ShowTyped, BufferTyped, FetchTyped, ATyped
  <2>2. {field, wr_sel, rd_sel} \subseteq 0 .. 1 /\ {avl_line, fetch_line, display_line} \subseteq 0 .. H - 1
    BY Zenon DEF IInv, ScreenInv, TimingTyped, ShowTyped, BufferTyped
  <2> QED BY <2>1, <2>2, Zenon DEF TypeOK, IInv, PortInv, ScreenInv, PortTyped, TimingTyped, ShowTyped,
              BufferTyped, FetchTyped, ATyped, ABus, Buffers
<1> QED BY <1>1, Invariance, PTL

(* For all lengths of bursts, a grant lasts as long as beats of its burst are to come, *)
(* and each beat goes to the master that asked for it.                                 *)
THEOREM BurstsWhole == Spec => []BurstsStayWhole
<1>1. IInv => BurstsStayWhole
  BY DEF IInv, PortInv
<1> QED BY <1>1, Invariance, PTL
-----------------------------------------------------------------------------
(* The raster: signals, columns and lines follow the counters *)

SyncFrom == V_ACTIVE + V_FP
SyncEnd == V_ACTIVE + V_FP + V_SYNC
InSync(v) == v \in SyncFrom .. SyncEnd - 1

\* The vertical sync has ended in this field, and the lines of its parity are due.
Past == v_cnt > SyncEnd \/ (v_cnt = SyncEnd /\ h_cnt >= 2)

\* The signals and their predecessors follow the counters, one pixel and two behind.
SignalsFollow ==
  /\ vs_out <=> ~InSync(IF h_cnt = 0 THEN v_cnt - 1 ELSE v_cnt)
  /\ prev_vs <=> ~InSync(IF h_cnt < 2 THEN v_cnt - 1 ELSE v_cnt)
  /\ prev_de <=> v_active /\ h_cnt \in 2 .. W + 1

\* Columns are put out as they are read.
ColumnsFollow == /\ rd_x = IF de_out THEN put ELSE 0
                 /\ r_out # Black => r_out = put - 1

\* The line due, from the counters: two down at the end of each line, up to the last.
LineDue ==
  /\ fetch_line = display_line
  /\ Past => synced /\ display_line = field
  /\ ~synced => field = 0
  /\ synced /\ ~Past =>
       IF v_active /\ h_cnt <= W + 1 THEN display_line = 1 - field + 2 * v_cnt
       ELSE IF v_cnt < V_ACTIVE - 1 THEN display_line = 1 - field + 2 * (v_cnt + 1)
       ELSE display_line + 2 >= H /\ display_line % 2 = 1 - field

RasterInv == SignalsFollow /\ ColumnsFollow /\ LineDue

LEMMA Raster ==
  /\ H_TOTAL >= W + 3 /\ V_ACTIVE > 0 /\ 2 * V_ACTIVE <= H /\ H <= 2 * V_ACTIVE + 1
  /\ SyncFrom \in Nat /\ SyncEnd \in Nat /\ SyncFrom > V_ACTIVE /\ SyncEnd > SyncFrom /\ V_TOTAL > SyncEnd
<1>1. \A t \in {CeDiv, H_FP, H_SYNC, H_BP, V_FP, V_SYNC, V_BP} : t \in Nat /\ t > 0
  BY TimingAssumption
<1>2. V_ACTIVE > 0 /\ 2 * V_ACTIVE <= H /\ H <= 2 * V_ACTIVE + 1
  BY Constants DEF V_ACTIVE
<1>3. V_ACTIVE \in Nat /\ W \in Nat
  BY Sizes
<1> HIDE DEF W, V_ACTIVE
<1>4. H_TOTAL >= W + 3
  BY <1>1, <1>3 DEF H_TOTAL
<1>5. SyncFrom \in Nat /\ SyncEnd \in Nat /\ SyncFrom > V_ACTIVE /\ SyncEnd > SyncFrom /\ V_TOTAL > SyncEnd
  BY <1>1, <1>3 DEF SyncFrom, SyncEnd, V_TOTAL
<1> QED BY <1>2, <1>4, <1>5

LEMMA SyncAsInterval ==
  /\ v_sync <=> InSync(v_cnt)
  /\ \A v \in Int : InSync(v) <=> SyncFrom <= v /\ v < SyncEnd
<1>1. v_sync <=> InSync(v_cnt)
  <2>1. SyncFrom .. SyncEnd - 1 = V_ACTIVE + V_FP .. V_ACTIVE + V_FP + V_SYNC - 1
    <3>1. V_ACTIVE + V_FP + V_SYNC - 1 = SyncEnd - 1
      <4>1. V_ACTIVE \in Nat /\ V_FP \in Nat /\ V_SYNC \in Nat
        BY Sizes, TimingAssumption
      <4> QED BY <4>1 DEF SyncEnd
    <3> QED BY <3>1, Zenon DEF SyncFrom
  <2>2. v_sync <=> v_cnt \in SyncFrom .. SyncEnd - 1
    BY <2>1, Zenon DEF v_sync
  <2> QED BY <2>2, Zenon DEF InSync
<1>2. \A v \in Int : InSync(v) <=> SyncFrom <= v /\ v < SyncEnd
  BY Raster DEF InSync
<1> QED BY <1>1, <1>2

(* What the detectors of edges see, from the counters. *)
LEMMA EdgesFromCounters ==
  ASSUME TimingTyped, EnableFollows, SignalsFollow
  PROVE  /\ VSyncEnds <=> v_cnt = SyncEnd /\ h_cnt = 1
         /\ LineEnds <=> v_active /\ h_cnt = W + 1
<1>1. h_cnt \in Nat /\ v_cnt \in Nat
  BY Sizes DEF TimingTyped
<1>2. VSyncEnds <=> v_cnt = SyncEnd /\ h_cnt = 1
  <2>1. VSyncEnds <=> /\ InSync(IF h_cnt < 2 THEN v_cnt - 1 ELSE v_cnt)
                      /\ ~InSync(IF h_cnt = 0 THEN v_cnt - 1 ELSE v_cnt)
    BY Zenon DEF VSyncEnds, SignalsFollow
  <2>2. InSync(v_cnt) <=> SyncFrom <= v_cnt /\ v_cnt < SyncEnd
    BY <1>1, SyncAsInterval
  <2>3. InSync(v_cnt - 1) <=> SyncFrom <= v_cnt - 1 /\ v_cnt - 1 < SyncEnd
    BY <1>1, SyncAsInterval
  <2>4. CASE h_cnt = 0 \/ h_cnt >= 2
    <3>1. ~VSyncEnds
      BY <1>1, <2>1, <2>4
    <3> QED BY <3>1, <2>4
  <2>5. CASE h_cnt = 1
    <3>1. VSyncEnds <=> InSync(v_cnt - 1) /\ ~InSync(v_cnt)
      BY <2>1, <2>5
    <3>2. InSync(v_cnt - 1) /\ ~InSync(v_cnt) <=> v_cnt = SyncEnd
      BY <1>1, <2>2, <2>3, Raster
    <3> QED BY <2>5, <3>1, <3>2
  <2> QED BY <1>1, <2>4, <2>5
<1>3. LineEnds <=> v_active /\ h_cnt = W + 1
  <2>1. LineEnds <=> v_active /\ h_cnt \in 2 .. W + 1 /\ h_cnt \notin 1 .. W
    BY Zenon DEF LineEnds, SignalsFollow, EnableFollows
  <2> QED BY <1>1, <2>1, Sizes
<1> QED BY <1>2, <1>3

(* The counters move on by a pixel. *)
LEMMA PixelStep ==
  ASSUME TimingTyped, Timing, fb_active, ce_pix
  PROVE  /\ h_cnt \in Nat /\ v_cnt \in Nat /\ h_cnt < H_TOTAL /\ v_cnt < V_TOTAL /\ field \in 0 .. 1
         /\ \/ h_cnt < H_TOTAL - 1 /\ h_cnt' = h_cnt + 1 /\ v_cnt' = v_cnt /\ field' = field
            \/ /\ h_cnt = H_TOTAL - 1 /\ v_cnt < V_TOTAL - 1
               /\ h_cnt' = 0 /\ v_cnt' = v_cnt + 1 /\ field' = field
            \/ /\ h_cnt = H_TOTAL - 1 /\ v_cnt = V_TOTAL - 1
               /\ h_cnt' = 0 /\ v_cnt' = 0 /\ field' = 1 - field
BY Sizes DEF TimingTyped, Timing, EndOfLine, EndOfField

LEMMA SignalsStep ==
  ASSUME TimingTyped, EnableFollows, SignalsFollow, Timing
  PROVE  SignalsFollow'
<1>1. CASE ~fb_active
  <2>1. h_cnt' = 0 /\ v_cnt' = 0
    BY <1>1 DEF Timing
  <2>2. vs_out' /\ prev_vs' /\ ~prev_de'
    BY <1>1, Zenon DEF Timing
  <2>3. ~InSync(0 - 1)
    BY SyncAsInterval, Raster
  <2> QED BY <2>1, <2>2, <2>3, Sizes DEF SignalsFollow
<1>2. CASE fb_active /\ ~ce_pix
  <2>1. UNCHANGED <<h_cnt, v_cnt, vs_out, prev_vs, prev_de>>
    BY <1>2 DEF Timing
  <2> QED BY <2>1, Zenon DEF SignalsFollow, v_active
<1>3. CASE fb_active /\ ce_pix
  <2>1. (vs_out' <=> ~InSync(v_cnt)) /\ (prev_vs' <=> vs_out) /\ (prev_de' <=> de_out)
    BY <1>3, SyncAsInterval, Zenon DEF Timing
  <2>2. de_out <=> v_active /\ h_cnt \in 1 .. W
    BY DEF EnableFollows
  <2>3. CASE h_cnt < H_TOTAL - 1
    <3>1. h_cnt \in Nat /\ h_cnt' = h_cnt + 1 /\ v_cnt' = v_cnt /\ (v_active' <=> v_active)
      BY <1>3, <2>3, PixelStep DEF v_active
    <3>2. h_cnt' # 0 /\ (h_cnt' < 2 <=> h_cnt = 0) /\ (h_cnt' \in 2 .. W + 1 <=> h_cnt \in 1 .. W)
      BY <3>1, Sizes
    <3>3. prev_vs' <=> ~InSync(IF h_cnt' < 2 THEN v_cnt' - 1 ELSE v_cnt')
      BY <2>1, <3>1, <3>2, Zenon DEF SignalsFollow
    <3>4. vs_out' <=> ~InSync(IF h_cnt' = 0 THEN v_cnt' - 1 ELSE v_cnt')
      BY <2>1, <3>1, <3>2, Zenon
    <3>5. prev_de' <=> v_active' /\ h_cnt' \in 2 .. W + 1
      BY <2>1, <2>2, <3>1, <3>2, Zenon
    <3> QED BY <3>3, <3>4, <3>5, Zenon DEF SignalsFollow
  <2>4. CASE ~(h_cnt < H_TOTAL - 1)
    <3>1. /\ h_cnt \in Nat /\ v_cnt \in Nat /\ h_cnt = H_TOTAL - 1 /\ h_cnt' = 0
          /\ \/ v_cnt' = v_cnt + 1
             \/ v_cnt = V_TOTAL - 1 /\ v_cnt' = 0
      BY <1>3, <2>4, PixelStep
    <3>2. h_cnt # 0 /\ ~(h_cnt \in 1 .. W) /\ h_cnt' < 2 /\ ~(h_cnt' \in 2 .. W + 1)
      BY <3>1, Raster, Sizes
    <3>3. InSync(v_cnt' - 1) <=> InSync(v_cnt)
      <4>1. CASE v_cnt' = v_cnt + 1
        <5>1. v_cnt' - 1 = v_cnt
          BY <3>1, <4>1
        <5> QED BY <5>1
      <4>2. CASE v_cnt = V_TOTAL - 1 /\ v_cnt' = 0
        <5>1. InSync(v_cnt' - 1) <=> SyncFrom <= v_cnt' - 1 /\ v_cnt' - 1 < SyncEnd
          BY <4>2, SyncAsInterval
        <5>2. InSync(v_cnt) <=> SyncFrom <= v_cnt /\ v_cnt < SyncEnd
          BY <3>1, SyncAsInterval
        <5> QED BY <4>2, <5>1, <5>2, Raster, Sizes
      <4> QED BY <3>1, <4>1, <4>2
    <3>4. vs_out <=> ~InSync(v_cnt)
      BY <3>2, Zenon DEF SignalsFollow
    <3> QED BY <2>1, <2>2, <3>1, <3>2, <3>3, <3>4, Zenon DEF SignalsFollow
  <2> QED BY <2>3, <2>4
<1> QED BY <1>1, <1>2, <1>3

LEMMA ColumnsStep ==
  ASSUME TimingTyped, EnableFollows, ShowTyped, ColumnsFollow, Timing, Show
  PROVE  ColumnsFollow'
<1>1. CASE ~fb_active
  BY <1>1 DEF Timing, Show, ColumnsFollow
<1>2. CASE fb_active /\ ~ce_pix
  <2>1. UNCHANGED <<de_out, rd_x, r_out, put>>
    BY <1>2 DEF Timing, Show, showVars
  <2> QED BY <2>1, Zenon DEF ColumnsFollow
<1>3. CASE fb_active /\ ce_pix /\ de_out
  <2>1. put = h_cnt - 1 /\ h_cnt \in 1 .. W /\ v_active
    BY <1>3 DEF EnableFollows
  <2>2. rd_x' = Column /\ r_out' = rd_x /\ put' = put + 1 /\ rd_x = put
    BY <1>3 DEF Show, ColumnsFollow
  <2>3. de_out' <=> h_cnt < W
    BY <1>3, <2>1, Zenon DEF Timing, h_active
  <2> QED BY <2>1, <2>2, <2>3, Sizes DEF ColumnsFollow, Column
<1>4. CASE fb_active /\ ce_pix /\ ~de_out
  <2>1. rd_x' = 0 /\ r_out' = Black /\ put' = 0
    BY <1>4 DEF Show, ColumnsFollow
  <2> QED BY <2>1 DEF ColumnsFollow
<1> QED BY <1>1, <1>2, <1>3, <1>4

(* The line due: at the end of the sync the first of the field, at the end of a line the next. *)
LEMMA LineDueStep ==
  ASSUME TimingTyped, EnableFollows, SignalsFollow, ShowTyped, LineDue, Timing, Show
  PROVE  LineDue'
<1>1. CASE ~fb_active
  <2>1. h_cnt' = 0 /\ v_cnt' = 0 /\ field' = 0
    BY <1>1 DEF Timing
  <2>2. ~synced' /\ fetch_line' = 0 /\ display_line' = 0
    BY <1>1, Zenon DEF Show
  <2> QED BY <2>1, <2>2, Raster DEF LineDue, Past
<1>2. CASE fb_active /\ ~ce_pix
  <2>1. UNCHANGED <<h_cnt, v_cnt, field, fetch_line, display_line, synced>>
    BY <1>2 DEF Timing, Show, showVars
  <2> QED BY <2>1 DEF LineDue, Past, v_active
<1>3. CASE fb_active /\ ce_pix
  <2> DEFINE p == 1 - field
  <2>1. /\ h_cnt \in Nat /\ v_cnt \in Nat /\ h_cnt < H_TOTAL /\ v_cnt < V_TOTAL /\ field \in 0 .. 1
        /\ \/ h_cnt < H_TOTAL - 1 /\ h_cnt' = h_cnt + 1 /\ v_cnt' = v_cnt /\ field' = field
           \/ /\ h_cnt = H_TOTAL - 1 /\ v_cnt < V_TOTAL - 1
              /\ h_cnt' = 0 /\ v_cnt' = v_cnt + 1 /\ field' = field
           \/ /\ h_cnt = H_TOTAL - 1 /\ v_cnt = V_TOTAL - 1
              /\ h_cnt' = 0 /\ v_cnt' = 0 /\ field' = 1 - field
    BY <1>3, PixelStep
  <2>2. /\ VSyncEnds <=> v_cnt = SyncEnd /\ h_cnt = 1
        /\ LineEnds <=> v_cnt < V_ACTIVE /\ h_cnt = W + 1
    BY EdgesFromCounters DEF v_active
  <2>3. synced' <=> synced \/ VSyncEnds
    BY <1>3, Zenon DEF Show
  <2>4. /\ FetchFor = {} => UNCHANGED <<fetch_line, display_line>>
        /\ \A n : FetchFor = {n} => fetch_line' = n /\ display_line' = n
    BY <1>3, Zenon DEF Show
  <2>5. display_line \in Nat /\ fetch_line = display_line /\ V_ACTIVE \in Nat /\ H \in Nat
        /\ W \in Nat /\ W > 0 /\ H_TOTAL \in Nat /\ V_TOTAL \in Nat
    BY Sizes, Constants DEF ShowTyped, LineDue
  <2>6. CASE VSyncEnds
    <3>1. FetchFor = {field}
      BY <2>2, <2>6, Raster, <2>5 DEF FetchFor
    <3>2. h_cnt' = 2 /\ v_cnt' = SyncEnd /\ field' = field
      BY <2>1, <2>2, <2>5, <2>6, Raster
    <3>3. synced' /\ fetch_line' = field /\ display_line' = field
      BY <2>3, <2>4, <2>6, <3>1
    <3> QED BY <3>2, <3>3 DEF LineDue, Past
  <2>7. CASE LineEnds
    <3>1. h_cnt' = W + 2 /\ v_cnt' = v_cnt /\ field' = field /\ v_cnt < V_ACTIVE /\ h_cnt = W + 1
      BY <2>1, <2>2, <2>5, <2>7, Raster
    <3>2. ~Past /\ ~Past' /\ v_active /\ v_active'
      BY <2>1, <2>5, <3>1, Raster DEF Past, v_active
    <3>3. synced' <=> synced
      BY <2>2, <2>3, <2>5, <3>1, Raster
    <3>4. FetchFor = IF display_line + 2 < H THEN {display_line + 2} ELSE {}
      BY <2>2, <2>5, <2>7, <3>1, Raster DEF FetchFor
    <3>5. fetch_line' = display_line' /\ display_line' = IF display_line + 2 < H THEN display_line + 2 ELSE display_line
      BY <2>4, <2>5, <3>4
    <3>6. CASE ~synced
      BY <3>1, <3>2, <3>3, <3>5, <3>6 DEF LineDue
    <3>7. CASE synced
      <4>1. display_line = 1 - field + 2 * v_cnt
        BY <3>1, <3>2, <3>7 DEF LineDue
      <4>2. CASE v_cnt < V_ACTIVE - 1
        <5>1. display_line' = 1 - field + 2 * (v_cnt + 1)
          BY <2>1, <2>5, <3>5, <4>1, <4>2, Raster
        <5> QED BY <2>5, <3>1, <3>2, <3>3, <3>5, <3>7, <4>2, <5>1 DEF LineDue
      <4>3. CASE ~(v_cnt < V_ACTIVE - 1)
        <5>1. display_line' + 2 >= H /\ display_line' % 2 = 1 - field
          BY <2>1, <2>5, <3>1, <3>5, <4>1, <4>3, Raster
        <5> QED BY <2>5, <3>1, <3>2, <3>3, <3>5, <3>7, <4>3, <5>1 DEF LineDue
      <4> QED BY <4>2, <4>3
    <3> QED BY <3>6, <3>7
  <2>8. CASE ~VSyncEnds /\ ~LineEnds
    <3>1. FetchFor = {}
      BY <2>8 DEF FetchFor
    <3>2. (synced' <=> synced) /\ fetch_line' = fetch_line /\ display_line' = display_line
      BY <2>3, <2>4, <2>8, <3>1
    <3>3. Past => synced /\ display_line = field
      BY DEF LineDue
    <3>4. CASE h_cnt < H_TOTAL - 1
      <4>1. h_cnt' = h_cnt + 1 /\ v_cnt' = v_cnt /\ field' = field
        BY <2>1, <3>4
      <4>2. (Past' <=> Past) /\ (v_active' <=> v_active)
        BY <2>1, <2>2, <2>8, <4>1 DEF Past, v_active
      <4>3. v_active => (h_cnt' <= W + 1 <=> h_cnt <= W + 1)
        BY <2>1, <2>2, <2>5, <2>8, <4>1 DEF v_active
      <4> QED BY <3>2, <4>1, <4>2, <4>3 DEF LineDue
    <3>5. CASE ~(h_cnt < H_TOTAL - 1) /\ v_cnt < V_TOTAL - 1
      <4>1. h_cnt = H_TOTAL - 1 /\ h_cnt' = 0 /\ v_cnt' = v_cnt + 1 /\ field' = field
        BY <2>1, <3>5
      <4>2. (Past' <=> Past) /\ (Past <=> v_cnt >= SyncEnd)
        BY <2>1, <2>5, <4>1, Raster DEF Past
      <4>3. (v_active <=> v_cnt < V_ACTIVE) /\ (v_active' <=> v_cnt < V_ACTIVE - 1) /\ h_cnt > W + 1 /\ h_cnt' <= W + 1
        BY <2>1, <2>5, <4>1, Raster DEF v_active
      <4> QED BY <2>1, <2>5, <3>2, <4>1, <4>2, <4>3 DEF LineDue
    <3>6. CASE ~(h_cnt < H_TOTAL - 1) /\ ~(v_cnt < V_TOTAL - 1)
      <4>1. h_cnt = H_TOTAL - 1 /\ v_cnt = V_TOTAL - 1 /\ h_cnt' = 0 /\ v_cnt' = 0 /\ field' = 1 - field
        BY <2>1, <3>6
      <4>2. Past /\ ~Past' /\ v_active'
        BY <2>5, <4>1, Raster DEF Past, v_active
      <4> QED BY <2>1, <2>5, <3>2, <3>3, <4>1, <4>2 DEF LineDue
    <3> QED BY <3>4, <3>5, <3>6
  <2> QED BY <2>6, <2>7, <2>8
<1> QED BY <1>1, <1>2, <1>3

LEMMA InitRaster == Init => RasterInv
<1> SUFFICES ASSUME Init PROVE RasterInv
  OBVIOUS
<1>1. SignalsFollow
  <2>1. vs_out /\ prev_vs /\ ~prev_de
    BY Zenon DEF Init
  <2>2. h_cnt = 0 /\ v_cnt = 0
    BY DEF Init
  <2>3. ~InSync(0 - 1)
    BY SyncAsInterval, Raster
  <2> QED BY <2>1, <2>2, <2>3, Sizes DEF SignalsFollow
<1>2. ColumnsFollow
  BY DEF Init, ColumnsFollow
<1>3. LineDue
  <2>1. ~synced
    BY Zenon DEF Init
  <2>2. h_cnt = 0 /\ v_cnt = 0 /\ field = 0 /\ fetch_line = 0 /\ display_line = 0
    BY DEF Init
  <2> QED BY <2>1, <2>2, Raster DEF LineDue, Past
<1> QED BY <1>1, <1>2, <1>3 DEF RasterInv

LEMMA NextRaster == IInv /\ RasterInv /\ [Clk]_vars => RasterInv'
<1> SUFFICES ASSUME IInv, RasterInv, [Clk]_vars PROVE RasterInv'
  OBVIOUS
<1>1. CASE Clk
  <2>1. Timing /\ Show
    BY <1>1 DEF Clk
  <2> QED BY <2>1, SignalsStep, ColumnsStep, LineDueStep DEF IInv, ScreenInv, RasterInv
<1>2. CASE UNCHANGED vars
  BY <1>2 DEF RasterInv, SignalsFollow, ColumnsFollow, LineDue, Past, v_active, vars, inVars, showVars
<1> QED BY <1>1, <1>2

LEMMA RasterInvariant == Spec => []RasterInv
<1>1. Spec => []IInv
  BY Invariance
<1> QED BY <1>1, InitRaster, NextRaster, PTL DEF Spec
-----------------------------------------------------------------------------
(* The order of lines *)

LEMMA StepIsScan == IInv /\ RasterInv /\ [Clk]_vars => [Scan!ScanNext]_(IF synced THEN display_line ELSE -1)
<1> DEFINE line == IF synced THEN display_line ELSE -1
<1> SUFFICES ASSUME IInv, RasterInv, [Clk]_vars PROVE Scan!ScanNext \/ line' = line
  BY Zenon
<1>1. CASE UNCHANGED vars
  BY <1>1 DEF vars, showVars
<1>2. CASE Clk
  <2>1. Timing /\ Show
    BY <1>2 DEF Clk
  <2>2. CASE ~fb_active
    <3>1. ~synced'
      BY <2>1, <2>2, Zenon DEF Show
    <3> QED BY <3>1 DEF Scan!ScanNext, Scan!SwitchOff, Scan!NoLine
  <2>3. CASE fb_active /\ ~ce_pix
    BY <2>1, <2>3 DEF Show, showVars
  <2>4. CASE fb_active /\ ce_pix
    <3>1. /\ VSyncEnds <=> v_cnt = SyncEnd /\ h_cnt = 1
          /\ LineEnds <=> v_cnt < V_ACTIVE /\ h_cnt = W + 1
      BY EdgesFromCounters DEF v_active, IInv, ScreenInv, RasterInv
    <3>2. synced' <=> synced \/ VSyncEnds
      BY <2>1, <2>4, Zenon DEF Show
    <3>3. /\ FetchFor = {} => display_line' = display_line
          /\ \A n : FetchFor = {n} => display_line' = n
      BY <2>1, <2>4, Zenon DEF Show
    <3>4. display_line \in Nat /\ V_ACTIVE \in Nat /\ W \in Nat /\ W > 0 /\ v_cnt \in Nat /\ field \in 0 .. 1
      BY Sizes, Constants DEF IInv, ScreenInv, TimingTyped, ShowTyped
    <3>5. LineDue
      BY DEF RasterInv
    <3>6. CASE VSyncEnds
      <4>1. FetchFor = {field}
        BY <3>1, <3>4, <3>6, Raster DEF FetchFor
      <4>2. line' = field
        BY <3>2, <3>3, <3>6, <4>1
      <4>3. ~Past /\ ~v_active /\ ~(v_cnt < V_ACTIVE - 1)
        BY <3>1, <3>4, <3>6, Raster DEF Past, v_active
      <4>4. CASE ~synced
        <5>1. line = -1 /\ field = 0
          BY <3>5, <4>4 DEF LineDue
        <5> QED BY <4>2, <5>1 DEF Scan!ScanNext, Scan!SwitchOn, Scan!NoLine
      <4>5. CASE synced
        <5>1. line = display_line /\ display_line + 2 >= H /\ display_line % 2 = 1 - field
          BY <3>5, <4>3, <4>5 DEF LineDue
        <5> QED BY <3>4, <4>2, <5>1, Constants DEF Scan!ScanNext, Scan!NextLine, Scan!NoLine
      <4> QED BY <4>4, <4>5
    <3>7. CASE LineEnds /\ ~VSyncEnds
      <4>1. FetchFor = IF display_line + 2 < H THEN {display_line + 2} ELSE {}
        BY <3>7 DEF FetchFor
      <4>2. CASE ~synced
        BY <3>2, <3>7, <4>2
      <4>3. CASE synced /\ display_line + 2 < H
        <5>1. line = display_line /\ line' = display_line + 2
          BY <3>2, <3>3, <4>1, <4>3
        <5> QED BY <3>4, <4>3, <5>1 DEF Scan!ScanNext, Scan!NextLine, Scan!NoLine
      <4>4. CASE synced /\ ~(display_line + 2 < H)
        BY <3>2, <3>3, <4>1, <4>4
      <4> QED BY <4>2, <4>3, <4>4
    <3>8. CASE ~LineEnds /\ ~VSyncEnds
      <4>1. FetchFor = {}
        BY <3>8 DEF FetchFor
      <4> QED BY <3>2, <3>3, <3>8, <4>1
    <3> QED BY <3>6, <3>7, <3>8
  <2> QED BY <2>2, <2>3, <2>4
<1> QED BY <1>1, <1>2

(* Whatever the sizes, and whenever the output is switched, the lines due follow each other as *)
(* interlacing demands; an odd H gives the even field a line more, due in the blank only.      *)
THEOREM LinesInOrder == Spec => Scan!ScanSpec
<1>1. Init => Scan!ScanInit
  BY Zenon DEF Init, Scan!ScanInit, Scan!NoLine
<1> QED BY <1>1, StepIsScan, Invariance, RasterInvariant, PTL DEF Spec, Scan!ScanSpec
-----------------------------------------------------------------------------
(* Fetches in time *)

\* Clocks until A and B are through with what they have begun or may begin in this line.
ARest ==
  IF aLeft = 0 THEN IF aDone THEN 0 ELSE 2 + MaxBurst + MaxWait
  ELSE IF grant_a THEN (IF aBus.read THEN 1 ELSE 0) + aLeft + slack
  ELSE 2 + aLeft + MaxWait
BRest ==
  IF f_state = "F_IDLE" THEN 0
  ELSE IF grant_b THEN (IF f_state = "F_FETCH" THEN 1 ELSE 0) + (BEATS - beat_cnt) + slack
  ELSE 2 + BEATS + MaxWait
PRest == IF fetch_pending THEN 3 + BEATS + MaxWait ELSE 0
Work == ARest + BRest + PRest
WorkMax == 7 + MaxBurst + 2 * BEATS + 3 * MaxWait

\* The blank lasts for a burst of A and two fetches; a request is seen twice.
BlankSuffices == CeDiv > 1 /\ WorkMax <= CeDiv * (H_TOTAL - W - 3)

\* Clocks until the counters are at the start of the next line.
ToLine == CeDiv * (H_TOTAL - h_cnt) - (IF ce_div = 0 THEN CeDiv - 1 ELSE ce_div - 1)

Fetching == f_state # "F_IDLE" \/ fetch_pending
Blanked == (v_active /\ h_cnt >= W + 2) \/ v_cnt = V_ACTIVE \/ (v_cnt = SyncEnd /\ h_cnt >= 2)

\* Requests are made when a line or the sync has ended, and served before the next line begins.
FetchInTime ==
  /\ fetch_req => (v_active /\ h_cnt = W + 2) \/ (v_cnt = SyncEnd /\ h_cnt = 2)
  /\ (synced \/ ~v_active) /\ Fetching =>
       Blanked /\ (~fetch_req => Work <= ToLine)

\* Each line is fetched twice, into one buffer and then into the other.
Holds(s) == \A b \in 0 .. BEATS - 1 : buf[s][b] = display_line
BuffersFill ==
  synced =>
    /\ f_state # "F_IDLE" => avl_line = display_line
    /\ f_state = "F_RECV" => \A b \in 0 .. beat_cnt - 1 : buf[wr_sel][b] = display_line
    /\ Fetching /\ ~(f_state # "F_IDLE" /\ (fetch_req \/ fetch_pending)) => Holds(1 - wr_sel)
    /\ ~Fetching => (fetch_req /\ ce_div = 1) \/ (Holds(0) /\ Holds(1))
WorkBounded ==
  /\ ARest \in Nat /\ BRest \in Nat /\ PRest \in Nat
  /\ Work \in Nat /\ Work <= WorkMax /\ (Fetching => Work > 0)

LEMMA WorkBounds == PortInv /\ BufferTyped => WorkBounded
<1> SUFFICES ASSUME PortInv, BufferTyped PROVE WorkBounded
  OBVIOUS
<1>1. ARest \in Nat /\ ARest <= 2 + MaxBurst + MaxWait
  BY Constants DEF ARest, PortInv, ATyped, PortTyped
<1>2. BRest \in Nat /\ BRest <= 2 + BEATS + MaxWait /\ (f_state # "F_IDLE" => BRest > 0)
  BY Constants DEF BRest, grant_b, PortInv, FetchTyped, PortTyped, BKeepsOn
<1>3. PRest \in Nat /\ PRest <= 3 + BEATS + MaxWait /\ (fetch_pending => PRest > 0)
  BY Constants DEF PRest
<1> HIDE DEF ARest, BRest, PRest
<1>4. Work \in Nat /\ Work <= WorkMax
  BY <1>1, <1>2, <1>3, Constants DEF Work, WorkMax
<1>5. Fetching => Work > 0
  BY <1>1, <1>2, <1>3 DEF Work, Fetching
<1> QED BY <1>1, <1>2, <1>3, <1>4, <1>5 DEF WorkBounded

(* While the port is idle or B has it, A's debt does not grow; it shrinks when A is granted. *)
LEMMA ARestIdle ==
  ASSUME PortInv, NEW ramWait \in BOOLEAN, NEW ramRdv \in BOOLEAN, PortClk(ramWait, ramRdv),
         ~(ce_pix /\ LineEnds), st \in {"ST_IDLE", "ST_B"}, PortInv'
  PROVE  /\ ARest' <= ARest
         /\ grant_a' => ARest' <= ARest - 1
<1>1. slack' \in 0 .. MaxWait /\ aLeft \in Nat /\ aLeft <= MaxBurst /\ slack \in 0 .. MaxWait
  BY Constants DEF PortInv, PortTyped, ATyped
<1>2. ~grant_a
  BY DEF grant_a
<1>3. CASE aLeft = 0 /\ aLeft' = 0
  <2>1. aDone => aDone'
    BY <1>3, Zenon DEF PortClk, MasterA
  <2>2. ~grant_a'
    BY <1>3 DEF PortInv, AKeepsOn
  <2> QED BY <1>3, <2>1, <2>2, Constants DEF ARest
<1>4. CASE aLeft = 0 /\ aLeft' # 0
  <2>1. ~aDone
    BY <1>4, Zenon DEF PortClk, MasterA
  <2>2. ~grant_a'
    BY <1>4, Buses DEF PortClk, Arbitrate, Grant, Count, arbVars, PortInv, AKeepsOn, grant_a
  <2>3. aLeft' \in Nat /\ aLeft' <= MaxBurst
    BY Constants DEF PortInv, ATyped
  <2>4. ARest = 2 + MaxBurst + MaxWait
    BY <1>4, <2>1, Zenon DEF ARest
  <2>5. ARest' = 2 + aLeft' + MaxWait
    BY <1>4, <2>2, Zenon DEF ARest
  <2>6. ARest' <= ARest
    <3>1. \A x, b, m \in Nat : x <= b => 2 + x + m <= 2 + b + m
      OBVIOUS
    <3> QED BY <2>3, <2>4, <2>5, <3>1, Constants, Zenon
  <2> QED BY <2>2, <2>6, Zenon
<1>5. CASE aLeft # 0
  <2>1. aLeft' = aLeft /\ aBus' = aBus
    BY <1>5, AWaits, <1>1
  <2>2. ARest = 2 + aLeft + MaxWait
    BY <1>2, <1>5, Zenon DEF ARest
  <2>3. ~grant_a' => ARest' = 2 + aLeft + MaxWait
    BY <1>5, <2>1, Zenon DEF ARest
  <2>4. grant_a' => ARest' = (IF aBus.read THEN 1 ELSE 0) + aLeft + slack'
    BY <1>5, <2>1, Zenon DEF ARest
  <2> QED BY <1>1, <2>2, <2>3, <2>4, Constants
<1> QED BY <1>3, <1>4, <1>5

(* While A has the port, each clock is one of its debt. *)
LEMMA ARestGranted ==
  ASSUME PortInv, NEW ramWait \in BOOLEAN, NEW ramRdv \in BOOLEAN, PortClk(ramWait, ramRdv),
         ~(ce_pix /\ LineEnds), grant_a, PortInv'
  PROVE  ARest' <= ARest - 1
<1>1. /\ cnt = aLeft /\ aLeft > 0 /\ aLeft # 0 /\ aLeft \in Nat /\ slack \in 0 .. MaxWait
      /\ owed \in Nat /\ MaxWait \in Nat
  BY Constants DEF PortInv, PortTyped, ATyped, AKeepsOn, BurstsStayWhole
<1>2. aDone'
  BY <1>1, Zenon DEF PortClk, MasterA
<1>3. ram(aBus, bBus) = aBus /\ a_waitreq(ramWait) = ramWait
  BY Zenon DEF ram, a_waitreq
<1>4. CASE st = "ST_A_RD" /\ aBus.read
  <2>1. owed = 0 /\ ~ramRdv /\ ~aBus.write
    BY <1>1, <1>4 DEF PortInv, AKeepsOn, PortClk, Memory
  <2>2. aLeft' = aLeft /\ aBus' = (IF ramWait THEN aBus ELSE QuietBus)
    BY <1>1, <1>3, <1>4, <2>1 DEF PortClk, MasterA, a_rdv
  <2>3. slack' = IF ramWait THEN slack - 1 ELSE slack
    BY <1>1, <1>3, <1>4, <2>1 DEF PortClk, Memory, Command
  <2>4. grant_a'
    BY <1>4, <2>1 DEF PortClk, Arbitrate, Grant, Count, arbVars, grant_a
  <2> QED BY <1>1, <1>4, <2>2, <2>3, <2>4, Buses DEF ARest
<1>5. CASE st = "ST_A_RD" /\ ~aBus.read
  <2>1. owed = aLeft /\ ~aBus.write
    BY <1>1, <1>5 DEF PortInv, AKeepsOn
  <2>2. ~ramWait /\ slack' = IF ramRdv THEN slack ELSE slack - 1
    BY <1>1, <1>3, <1>5, <2>1 DEF PortClk, Memory, Command
  <2>3. aLeft' = IF ramRdv THEN aLeft - 1 ELSE aLeft
    BY <1>1, <1>5, <2>1 DEF PortClk, MasterA, a_rdv
  <2>4. ~aBus'.read
    BY <1>1, <1>5, Buses, <2>1 DEF PortClk, MasterA
  <2>5. aLeft' # 0 => grant_a'
    BY <1>1, <1>5, <2>3 DEF PortClk, Arbitrate, Grant, Count, LastOf, arbVars, grant_a
  <2> QED BY <1>1, <1>2, <1>5, <2>2, <2>3, <2>4, <2>5 DEF ARest
<1>6. CASE st = "ST_A_WR"
  <2>1. aBus.write /\ ~aBus.read /\ owed = 0 /\ ~ramRdv
    BY <1>1, <1>6 DEF PortInv, AKeepsOn, OwedOnRead, PortClk, Memory
  <2>2. slack' = IF ramWait THEN slack - 1 ELSE slack
    BY <1>1, <1>3, <1>6, <2>1 DEF PortClk, Memory, Command
  <2>3. aLeft' = IF ramWait THEN aLeft ELSE aLeft - 1
    BY <1>1, <1>3, <1>6, <2>1 DEF PortClk, MasterA
  <2>4. ~aBus'.read
    BY <1>1, <1>6, Buses, <2>1 DEF PortClk, MasterA
  <2>5. aLeft' # 0 => grant_a'
    BY <1>1, <1>6, <2>1, <2>3 DEF PortClk, Arbitrate, Grant, Count, LastOf, arbVars, grant_a
  <2> QED BY <1>1, <1>2, <1>6, <2>1, <2>2, <2>3, <2>4, <2>5 DEF ARest
<1> QED BY <1>4, <1>5, <1>6 DEF grant_a

(* Without a new request, each clock takes one off what is left of a fetch under way. *)
LEMMA SumFalls ==
  \A a, b, p, c, d, q \in Nat :
    \/ c <= a /\ d + q <= b + p - 1
    \/ c <= a /\ d <= b - 1 /\ q = p
    \/ c <= a - 1 /\ d = b /\ q = p
    => c + d + q <= (a + b + p) - 1
OBVIOUS

LEMMA WorkFalls ==
  ASSUME PortInv, BufferTyped, NEW ramWait \in BOOLEAN, NEW ramRdv \in BOOLEAN,
         PortClk(ramWait, ramRdv), ~(ce_pix /\ LineEnds), ~fetch_req, Fetching, PortInv', BufferTyped'
  PROVE  Work' <= Work - 1
<1>1. /\ ARest \in Nat /\ BRest \in Nat /\ PRest \in Nat
      /\ ARest' \in Nat /\ BRest' \in Nat /\ PRest' \in Nat
  <2>1. WorkBounded
    BY WorkBounds
  <2>2. WorkBounded'
    BY WorkBounds, PTL
  <2> QED BY <2>1, <2>2 DEF WorkBounded
<1>2. /\ slack \in 0 .. MaxWait /\ slack' \in 0 .. MaxWait /\ MaxWait \in Nat /\ BEATS \in Nat
      /\ beat_cnt \in 0 .. BEATS /\ owed \in Nat /\ fetch_pending \in BOOLEAN
  BY Constants DEF PortInv, PortTyped, FetchTyped, BufferTyped
<1>3. f_state # "F_IDLE" => (fetch_pending' <=> fetch_pending)
  BY Zenon DEF PortClk, Fetch, FetchIdle, FetchAddress, FetchData, Pending
<1>7. \/ ARest' <= ARest /\ BRest' + PRest' <= BRest + PRest - 1
      \/ ARest' <= ARest /\ BRest' <= BRest - 1 /\ PRest' = PRest
      \/ ARest' <= ARest - 1 /\ BRest' = BRest /\ PRest' = PRest
      => Work' <= Work - 1
  <2>1. Work = ARest + BRest + PRest /\ Work' = ARest' + BRest' + PRest'
    BY Zenon DEF Work
  <2>2. \/ ARest' <= ARest /\ BRest' + PRest' <= BRest + PRest - 1
        \/ ARest' <= ARest /\ BRest' <= BRest - 1 /\ PRest' = PRest
        \/ ARest' <= ARest - 1 /\ BRest' = BRest /\ PRest' = PRest
        => ARest' + BRest' + PRest' <= (ARest + BRest + PRest) - 1
    BY <1>1, SumFalls, ZenonT(60)
  <2> QED BY <2>1, <2>2, Zenon
<1>4. CASE f_state = "F_IDLE"
  <2>1. fetch_pending /\ st # "ST_B"
    BY <1>4 DEF Fetching, PortInv, BKeepsOn
  <2>2. f_state' = "F_FETCH" /\ ~fetch_pending'
    BY <1>4, <2>1 DEF PortClk, Fetch, FetchIdle, FetchAddress, FetchData
  <2>3. ~grant_b'
    <3>1. ~avl_read
      BY <1>4 DEF PortInv, BKeepsOn
    <3> QED BY <2>1, <3>1, Buses DEF PortClk, Arbitrate, Grant, Count, arbVars, grant_b
  <2>4. BRest = 0 /\ BRest' = 2 + BEATS + MaxWait /\ PRest = 3 + BEATS + MaxWait /\ PRest' = 0
    BY <1>4, <2>1, <2>2, <2>3 DEF BRest, PRest
  <2>5. ARest' <= ARest
    BY <1>1, <2>1, ARestIdle, ARestGranted DEF PortInv, PortTyped, grant_a
  <2>6. BRest' + PRest' <= BRest + PRest - 1
    BY <1>2, <2>4
  <2> QED BY <1>1, <1>7, <2>5, <2>6, Zenon
<1>5. CASE f_state = "F_FETCH" /\ st # "ST_B"
  <2>1. f_state' = "F_FETCH" /\ beat_cnt = 0 /\ beat_cnt' = 0 /\ avl_read
    BY <1>5 DEF PortClk, Fetch, FetchIdle, FetchAddress, FetchData, b_waitreq, grant_b, PortInv, BKeepsOn
  <2>2. PRest' = PRest
    BY <1>3, <1>5 DEF PRest
  <2>3. BRest = 2 + BEATS + MaxWait
    BY <1>5 DEF BRest, grant_b
  <2>4. CASE grant_b'
    <3>1. st = "ST_IDLE"
      BY <1>5, <2>4 DEF PortClk, Arbitrate, Grant, Count, arbVars, grant_b, PortInv, PortTyped
    <3>2. ARest' <= ARest
      BY <3>1, ARestIdle
    <3>3. BRest' = 1 + (BEATS - 0) + slack'
      BY <2>1, <2>4 DEF BRest
    <3>4. BRest' <= BRest - 1
      <4>1. \A s \in 0 .. MaxWait : 1 + (BEATS - 0) + s <= (2 + BEATS + MaxWait) - 1
        BY Constants
      <4>2. 1 + (BEATS - 0) + slack' <= (2 + BEATS + MaxWait) - 1
        BY <1>2, <4>1, Zenon
      <4> QED BY <2>3, <3>3, <4>2, Zenon
    <3> QED BY <1>7, <2>2, <3>2, <3>4, Zenon
  <2>5. CASE ~grant_b'
    <3>1. BRest' = 2 + BEATS + MaxWait
      BY <2>1, <2>5 DEF BRest
    <3>2. ARest' <= ARest - 1
      <4>1. CASE st = "ST_IDLE"
        <5>1. grant_a'
          BY <2>1, <2>5, <4>1, Buses DEF PortClk, Arbitrate, Grant, Count, arbVars, grant_a, grant_b
        <5> QED BY <4>1, <5>1, ARestIdle
      <4>2. CASE grant_a
        BY <4>2, ARestGranted
      <4> QED BY <1>5, <4>1, <4>2 DEF grant_a, PortInv, PortTyped
    <3> QED BY <1>7, <2>2, <2>3, <3>1, <3>2, Zenon
  <2> QED BY <2>4, <2>5
<1>6. CASE f_state # "F_IDLE" /\ st = "ST_B"
  <2>1. ARest' <= ARest /\ PRest' = PRest
    BY <1>3, <1>6, ARestIdle DEF PRest
  <2>2. /\ ram(aBus, bBus) = bBus /\ b_rdv(ramRdv) = ramRdv /\ b_waitreq(ramWait) = ramWait
        /\ bBus.read = avl_read /\ bBus.write = FALSE /\ bBus.burst = BEATS
    BY <1>6, Buses DEF ram, grant_a, grant_b, b_rdv, b_waitreq
  <2>3. CASE f_state = "F_FETCH"
    <3>1. owed = 0 /\ cnt = BEATS /\ beat_cnt = 0 /\ avl_read /\ ~ramRdv
      BY <1>2, <1>6, <2>3 DEF PortInv, BKeepsOn, PortClk, Memory
    <3>2. beat_cnt' = 0 /\ f_state' = IF ramWait THEN "F_FETCH" ELSE "F_RECV"
      BY <2>2, <2>3, <3>1 DEF PortClk, Fetch, FetchIdle, FetchAddress, FetchData
    <3>3. slack' = IF ramWait THEN slack - 1 ELSE slack
      BY <1>2, <2>2, <3>1 DEF PortClk, Memory, Command
    <3>4. grant_b'
      BY <1>6, <3>1 DEF PortClk, Arbitrate, Grant, Count, arbVars, grant_b
    <3>5. BRest = 1 + (BEATS - 0) + slack
      BY <1>6, <2>3, <3>1 DEF BRest, grant_b
    <3>6. BRest' = (IF ramWait THEN 1 ELSE 0) + (BEATS - 0) + slack'
      BY <3>2, <3>4 DEF BRest
    <3>7. BRest' <= BRest - 1
      BY <1>1, <1>2, <3>1, <3>3, <3>5, <3>6
    <3> QED BY <1>7, <2>1, <3>7, Zenon
  <2>4. CASE f_state = "F_RECV"
    <3>1. owed = BEATS - beat_cnt /\ owed > 0 /\ ~avl_read
      BY <2>4 DEF PortInv, BKeepsOn
    <3>2. /\ beat_cnt' = IF ramRdv THEN beat_cnt + 1 ELSE beat_cnt
          /\ f_state' = IF ramRdv /\ beat_cnt = BEATS - 1 THEN "F_IDLE" ELSE "F_RECV"
      BY <2>2, <2>4, <3>1 DEF PortClk, Fetch, FetchIdle, FetchAddress, FetchData
    <3>3. slack' = IF ramRdv THEN slack ELSE slack - 1
      BY <1>2, <2>2, <3>1 DEF PortClk, Memory, Command
    <3>4. f_state' = "F_RECV" => grant_b'
      BY DEF PortInv, BKeepsOn, grant_b
    <3>5. BRest = 0 + (BEATS - beat_cnt) + slack
      BY <1>6, <2>4 DEF BRest, grant_b
    <3>6. BRest' = IF f_state' = "F_IDLE" THEN 0 ELSE 0 + (BEATS - beat_cnt') + slack'
      BY <3>2, <3>4 DEF BRest
    <3>7. BRest' <= BRest - 1
      BY <1>1, <1>2, <3>1, <3>2, <3>3, <3>5, <3>6
    <3> QED BY <1>7, <2>1, <3>7, Zenon
  <2> QED BY <1>6, <2>3, <2>4 DEF PortInv, FetchTyped
<1> QED BY <1>4, <1>5, <1>6 DEF PortInv, FetchTyped, BKeepsOn
-----------------------------------------------------------------------------
(* The deadline *)

LEMMA Products ==
  /\ \A c, n \in Nat : c * n \in Nat
  /\ \A c, n \in Nat : n > 0 => c * (n - 1) = c * n - c
  /\ \A c, m, n \in Nat : m <= n => c * m <= c * n
<1>1. \A c, n \in Nat : c * n \in Nat
  OBVIOUS
<1>2. \A c, n \in Nat : n > 0 => c * (n - 1) = c * n - c
  OBVIOUS
<1>3. \A c, m, n \in Nat : m <= n => c * m <= c * n
  <2> SUFFICES ASSUME NEW c \in Nat, NEW m \in Nat, NEW n \in Nat, m <= n PROVE c * m <= c * n
    OBVIOUS
  <2>1. n - m \in Nat /\ c * (n - m) \in Nat
    BY <1>1
  <2>2. c * n = c * m + c * (n - m)
    OBVIOUS
  <2> QED BY <1>1, <2>1, <2>2
<1> QED BY <1>1, <1>2, <1>3

(* The time to the next line runs down with the clock. *)
LEMMA TimeRuns ==
  ASSUME TimingTyped, Timing, fb_active, CeDiv > 1
  PROVE  /\ ToLine \in Int
         /\ ~ce_pix => ToLine' = ToLine - 1
         /\ ce_pix /\ h_cnt < H_TOTAL - 1 => ToLine' = ToLine - 1
         /\ ce_pix /\ h_cnt = H_TOTAL - 1 => ToLine = 1
         /\ ce_pix => ce_div' = 1 /\ ToLine' = CeDiv * (H_TOTAL - h_cnt')
<1>1. /\ CeDiv \in Nat /\ H_TOTAL \in Nat /\ h_cnt \in Nat /\ h_cnt < H_TOTAL /\ ce_div \in Nat /\ ce_div < CeDiv
      /\ H_TOTAL - h_cnt \in Nat /\ CeDiv * (H_TOTAL - h_cnt) \in Nat /\ H_TOTAL > 0
  BY Sizes, Products DEF TimingTyped
<1> DEFINE m == CeDiv * (H_TOTAL - h_cnt)
<1>2. ToLine = m - (IF ce_div = 0 THEN CeDiv - 1 ELSE ce_div - 1)
  BY Zenon DEF ToLine
<1>3. ToLine \in Int
  <2>1. \A x \in Nat : x - (IF ce_div = 0 THEN CeDiv - 1 ELSE ce_div - 1) \in Int
    BY <1>1
  <2> QED BY <1>1, <1>2, <2>1, Zenon
<1>4. ASSUME ~ce_pix PROVE ToLine' = ToLine - 1
  <2>1. ce_div # 0 /\ ce_div' = (IF ce_div = CeDiv - 1 THEN 0 ELSE ce_div + 1) /\ h_cnt' = h_cnt
    BY <1>1, <1>4 DEF Timing, ce_pix
  <2>2. ToLine' = m - (IF ce_div' = 0 THEN CeDiv - 1 ELSE ce_div' - 1)
    BY <2>1, Zenon DEF ToLine
  <2>3. \A x \in Nat : x - (IF ce_div' = 0 THEN CeDiv - 1 ELSE ce_div' - 1)
                       = (x - (IF ce_div = 0 THEN CeDiv - 1 ELSE ce_div - 1)) - 1
    BY <1>1, <2>1
  <2> QED BY <1>1, <1>2, <2>2, <2>3, Zenon
<1>5. ASSUME ce_pix
      PROVE  /\ ce_div' = 1 /\ ToLine' = CeDiv * (H_TOTAL - h_cnt')
             /\ h_cnt < H_TOTAL - 1 => ToLine' = ToLine - 1
             /\ h_cnt = H_TOTAL - 1 => ToLine = 1
  <2>1. ce_div = 0 /\ ce_div' = 1 /\ ce_div' # 0
    BY <1>1, <1>5 DEF Timing, ce_pix
  <2>2. h_cnt' \in Nat /\ h_cnt' < H_TOTAL
    BY <1>1, <1>5, PixelStep
  <2>3. ToLine' = CeDiv * (H_TOTAL - h_cnt') - (1 - 1)
    BY <2>1, Zenon DEF ToLine
  <2>4. CeDiv * (H_TOTAL - h_cnt') \in Nat
    <3>1. \A h \in Nat : h < H_TOTAL => H_TOTAL - h \in Nat
      BY Sizes
    <3> QED BY <1>1, <2>2, <3>1, Products, Zenon
  <2>5. ToLine' = CeDiv * (H_TOTAL - h_cnt')
    <3>1. \A x \in Nat : x - (1 - 1) = x
      OBVIOUS
    <3> QED BY <2>3, <2>4, <3>1, Zenon
  <2>6. ToLine = m - (CeDiv - 1)
    BY <1>2, <2>1, Zenon
  <2>7. ASSUME h_cnt < H_TOTAL - 1 PROVE ToLine' = ToLine - 1
    <3>1. h_cnt' = h_cnt + 1
      BY <1>1, <1>5, <2>7, PixelStep
    <3>2. CeDiv * ((H_TOTAL - h_cnt) - 1) = m - CeDiv
      BY <1>1, Products
    <3>3. H_TOTAL - h_cnt' = (H_TOTAL - h_cnt) - 1
      BY <1>1, <3>1
    <3>4. ToLine' = m - CeDiv
      BY <2>5, <3>2, <3>3, Zenon
    <3>5. \A x \in Nat : x - CeDiv = (x - (CeDiv - 1)) - 1
      BY <1>1
    <3> QED BY <1>1, <2>6, <3>4, <3>5, Zenon
  <2>8. ASSUME h_cnt = H_TOTAL - 1 PROVE ToLine = 1
    <3>1. H_TOTAL - h_cnt = 1
      BY <1>1, <2>8
    <3>2. m = CeDiv * 1
      BY <3>1, Zenon
    <3>3. CeDiv * 1 - (CeDiv - 1) = 1
      BY <1>1
    <3> QED BY <2>6, <3>2, <3>3, Zenon
  <2> QED BY <2>1, <2>5, <2>7, <2>8
<1> QED BY <1>3, <1>4, <1>5

(* A fetch under way without a request is done when the next line begins. *)
LEMMA FetchInTimeStep ==
  ASSUME BlankSuffices, IInv, RasterInv, FetchInTime, IInv',
         NEW ramWait \in BOOLEAN, NEW ramRdv \in BOOLEAN, PortClk(ramWait, ramRdv), Timing, Show
  PROVE  FetchInTime'
<1>1. TimingTyped /\ EnableFollows /\ ShowTyped /\ BufferTyped /\ PortInv /\ SignalsFollow /\ LineDue
      /\ PortInv' /\ BufferTyped'
  BY DEF IInv, ScreenInv, RasterInv
<1>2. WorkBounded /\ WorkBounded'
  <2>1. WorkBounded
    BY <1>1, WorkBounds
  <2>2. WorkBounded'
    BY <1>1, WorkBounds, PTL
  <2> QED BY <2>1, <2>2
<1>3. /\ CeDiv \in Nat /\ CeDiv > 1 /\ W \in Nat /\ W > 0 /\ H_TOTAL \in Nat /\ V_ACTIVE \in Nat /\ V_ACTIVE > 0
      /\ H_TOTAL >= W + 3 /\ SyncEnd > V_ACTIVE /\ SyncEnd \in Nat /\ H_TOTAL - W - 3 \in Nat
      /\ h_cnt \in Nat /\ v_cnt \in Nat
  BY <1>1, Sizes, Raster DEF BlankSuffices, TimingTyped
<1>4. /\ VSyncEnds <=> v_cnt = SyncEnd /\ h_cnt = 1
      /\ LineEnds <=> v_active /\ h_cnt = W + 1
  BY <1>1, EdgesFromCounters
<1>5. Fetching' => Fetching \/ fetch_req
  BY Zenon DEF Fetching, PortClk, Fetch, FetchIdle, FetchAddress, FetchData, Pending
<1>6. CASE ~fb_active
  <2>1. ~fetch_req' /\ ~synced'
    BY <1>6, Zenon DEF Show
  <2>2. v_active'
    BY <1>3, <1>6 DEF Timing, v_active
  <2> QED BY <2>1, <2>2, Zenon DEF FetchInTime
<1>7. CASE fb_active /\ ~ce_pix
  <2>1. UNCHANGED <<h_cnt, v_cnt, fetch_req, synced>>
    BY <1>7 DEF Timing, Show, showVars
  <2>2. (v_active' <=> v_active) /\ (Blanked' <=> Blanked)
    BY <2>1 DEF v_active, Blanked
  <2>3. fetch_req => Blanked
    BY <1>3 DEF FetchInTime, Blanked
  <2>4. ASSUME synced \/ ~v_active, Fetching', ~fetch_req PROVE Work' <= ToLine'
    <3>1. Fetching /\ Work <= ToLine
      BY <1>5, <2>4, Zenon DEF FetchInTime
    <3>2. Work' <= Work - 1
      BY <1>1, <1>7, <2>4, <3>1, WorkFalls
    <3>3. ToLine' = ToLine - 1 /\ ToLine \in Int
      BY <1>1, <1>3, <1>7, TimeRuns
    <3>4. \A w, x \in Nat, t \in Int : w <= x - 1 /\ x <= t => w <= t - 1
      OBVIOUS
    <3> QED BY <1>2, <3>1, <3>2, <3>3, <3>4, Zenon DEF WorkBounded
  <2>5. synced \/ ~v_active => (Fetching' => Blanked)
    BY <1>5, <2>3, Zenon DEF FetchInTime
  <2> QED BY <2>1, <2>2, <2>4, <2>5, Zenon DEF FetchInTime
<1>8. CASE fb_active /\ ce_pix
  <2>1. /\ \/ h_cnt < H_TOTAL - 1 /\ h_cnt' = h_cnt + 1 /\ v_cnt' = v_cnt
           \/ h_cnt = H_TOTAL - 1 /\ h_cnt' = 0 /\ (v_cnt' = v_cnt + 1 \/ v_cnt' = 0)
        /\ fetch_req' <=> FetchFor # {}
        /\ synced' <=> synced \/ VSyncEnds
        /\ h_cnt < H_TOTAL
    <3>1. (fetch_req' <=> FetchFor # {}) /\ (synced' <=> synced \/ VSyncEnds)
      BY <1>8, Zenon DEF Show
    <3> QED BY <1>1, <1>8, <3>1, PixelStep
  <2>2. /\ ToLine' = CeDiv * (H_TOTAL - h_cnt') /\ ToLine \in Int
        /\ h_cnt < H_TOTAL - 1 => ToLine' = ToLine - 1
        /\ h_cnt = H_TOTAL - 1 => ToLine = 1
    BY <1>1, <1>3, <1>8, TimeRuns
  <2>3. CASE FetchFor # {}
    <3>1. VSyncEnds \/ LineEnds
      BY <2>3 DEF FetchFor
    <3>2. \/ v_cnt' = SyncEnd /\ h_cnt' = 2
          \/ v_active' /\ h_cnt' = W + 2
      BY <1>3, <1>4, <2>1, <3>1 DEF v_active
    <3>3. Blanked' /\ fetch_req'
      BY <1>3, <2>1, <2>3, <3>2 DEF Blanked
    <3> QED BY <3>2, <3>3 DEF FetchInTime
  <2>4. CASE FetchFor = {}
    <3>1. ~fetch_req' /\ ~VSyncEnds /\ (synced' <=> synced)
      <4>1. ~VSyncEnds
        BY <2>4 DEF FetchFor
      <4> QED BY <2>1, <2>4, <4>1
    <3> SUFFICES ASSUME (synced \/ ~v_active'), Fetching' PROVE Blanked' /\ Work' <= ToLine'
      BY <3>1, Zenon DEF FetchInTime
    <3>2. WorkMax <= CeDiv * (H_TOTAL - W - 3) /\ WorkMax \in Nat /\ Work' <= WorkMax /\ Work' \in Nat /\ Work' > 0
      BY <1>2, Constants DEF BlankSuffices, WorkBounded, WorkMax
    <3>3. CASE fetch_req
      <4>1. (v_active /\ h_cnt = W + 2) \/ (v_cnt = SyncEnd /\ h_cnt = 2)
        BY <3>3 DEF FetchInTime
      <4>2. h_cnt < H_TOTAL - 1
        <5>1. CASE h_cnt = H_TOTAL - 1
          <6>1. H_TOTAL - W - 3 = 0
            BY <1>3, <4>1, <5>1
          <6>2. CeDiv * 0 = 0
            BY <1>3
          <6> QED BY <3>2, <6>1, <6>2
        <5> QED BY <1>3, <2>1, <5>1
      <4>3. h_cnt' = h_cnt + 1 /\ v_cnt' = v_cnt
        BY <1>3, <2>1, <4>2
      <4>4. Blanked'
        BY <1>3, <4>1, <4>3 DEF Blanked, v_active
      <4>5. H_TOTAL - h_cnt' \in Nat /\ H_TOTAL - W - 3 <= H_TOTAL - h_cnt'
        BY <1>3, <4>1, <4>2, <4>3
      <4>6. CeDiv * (H_TOTAL - W - 3) <= CeDiv * (H_TOTAL - h_cnt') /\ CeDiv * (H_TOTAL - h_cnt') \in Nat
            /\ CeDiv * (H_TOTAL - W - 3) \in Nat
        BY <1>3, <4>5, Products, Zenon
      <4>7. \A w, x, y, z \in Nat : w <= x /\ x <= y /\ y <= z => w <= z
        OBVIOUS
      <4> QED BY <2>2, <3>2, <4>4, <4>6, <4>7, Zenon
    <3>4. CASE ~fetch_req /\ (synced \/ ~v_active)
      <4>1. Fetching /\ Blanked /\ Work <= ToLine
        BY <1>5, <3>4, Zenon DEF FetchInTime
      <4>2. ~LineEnds
        BY <1>3, <1>4, <3>4, <4>1 DEF Blanked, v_active
      <4>3. Work' <= Work - 1
        BY <1>1, <3>4, <4>1, <4>2, WorkFalls
      <4>4. h_cnt < H_TOTAL - 1
        <5>1. CASE h_cnt = H_TOTAL - 1
          <6>1. \A w, x \in Nat : ~(w > 0 /\ w <= x - 1 /\ x <= 1)
            OBVIOUS
          <6> QED BY <1>2, <2>2, <3>2, <4>1, <4>3, <5>1, <6>1, Zenon DEF WorkBounded
        <5> QED BY <1>3, <2>1, <5>1
      <4>5. h_cnt' = h_cnt + 1 /\ v_cnt' = v_cnt
        BY <1>3, <2>1, <4>4
      <4>6. Blanked'
        BY <1>3, <4>1, <4>5 DEF Blanked, v_active
      <4>7. \A w, x \in Nat, t \in Int : w <= x - 1 /\ x <= t => w <= t - 1
        OBVIOUS
      <4> QED BY <1>2, <2>2, <3>2, <4>1, <4>3, <4>4, <4>6, <4>7, Zenon DEF WorkBounded
    <3>5. CASE ~fetch_req /\ ~synced /\ v_active
      <4>1. v_cnt' = V_ACTIVE /\ h_cnt' = 0
        BY <1>3, <2>1, <3>5 DEF v_active
      <4>2. H_TOTAL - 0 \in Nat /\ H_TOTAL - W - 3 <= H_TOTAL - 0
        BY <1>3
      <4>3. CeDiv * (H_TOTAL - W - 3) <= CeDiv * (H_TOTAL - 0) /\ CeDiv * (H_TOTAL - 0) \in Nat
            /\ CeDiv * (H_TOTAL - W - 3) \in Nat
        BY <1>3, <4>2, Products, Zenon
      <4>4. \A w, x, y, z \in Nat : w <= x /\ x <= y /\ y <= z => w <= z
        OBVIOUS
      <4>5. Work' <= ToLine'
        BY <2>2, <3>2, <4>1, <4>3, <4>4, Zenon
      <4> QED BY <4>1, <4>5, Zenon DEF Blanked
    <3> QED BY <3>3, <3>4, <3>5
  <2> QED BY <2>3, <2>4
<1> QED BY <1>6, <1>7, <1>8
-----------------------------------------------------------------------------
(* Buffers *)

(* A new line is only asked for when the one before is in both buffers. *)
LEMMA QuietWhenAsked ==
  ASSUME IInv, RasterInv, FetchInTime, FetchFor # {}, synced \/ VSyncEnds
  PROVE  ~Fetching /\ ~fetch_req
<1>1. /\ VSyncEnds <=> v_cnt = SyncEnd /\ h_cnt = 1
      /\ LineEnds <=> v_active /\ h_cnt = W + 1
  BY EdgesFromCounters DEF IInv, ScreenInv, RasterInv
<1>2. VSyncEnds \/ LineEnds
  BY DEF FetchFor
<1>3. W \in Nat /\ W > 0 /\ V_ACTIVE \in Nat /\ SyncEnd \in Nat /\ SyncEnd > V_ACTIVE
  BY Sizes, Raster
<1>4. ~Blanked /\ (synced \/ ~v_active) /\ ~(v_active /\ h_cnt = W + 2) /\ ~(v_cnt = SyncEnd /\ h_cnt = 2)
  BY <1>1, <1>2, <1>3 DEF Blanked, v_active
<1> QED BY <1>4, Zenon DEF FetchInTime

(* A beat goes into the buffer that is written and leaves the other. *)
LEMMA BeatStored ==
  ASSUME BufferTyped, f_state = "F_RECV", beat_cnt \in 0 .. BEATS - 1,
         buf' = [buf EXCEPT ![wr_sel][beat_cnt] = avl_line]
  PROVE  /\ buf'[wr_sel][beat_cnt] = avl_line
         /\ \A b \in 0 .. BEATS - 1 : b # beat_cnt => buf'[wr_sel][b] = buf[wr_sel][b]
         /\ buf'[1 - wr_sel] = buf[1 - wr_sel]
<1>1. wr_sel \in 0 .. 1 /\ 1 - wr_sel \in 0 .. 1 /\ 1 - wr_sel # wr_sel
  BY DEF BufferTyped
<1>2. buf \in [0 .. 1 -> [0 .. BEATS - 1 -> {Garbage} \cup (0 .. H - 1)]]
  BY DEF BufferTyped, Buffers
<1> QED BY <1>1, <1>2, Zenon

(* While the line due stays, what is fetched of it stays and grows. *)
LEMMA SameLine ==
  ASSUME BlankSuffices, IInv, BuffersFill, synced, IInv', LineDue,
         NEW ramWait \in BOOLEAN, NEW ramRdv \in BOOLEAN, Fetch(ramWait, ramRdv),
         display_line' = display_line, fetch_req /\ ~fetch_req' => ce_div # 1, ~fetch_req => ~fetch_req'
  PROVE  BuffersFill'
<1>1. BufferTyped /\ PortInv
  BY DEF IInv, ScreenInv
<1>2. /\ f_state # "F_IDLE" => avl_line = display_line
      /\ f_state = "F_RECV" => \A b \in 0 .. beat_cnt - 1 : buf[wr_sel][b] = display_line
      /\ Fetching /\ ~(f_state # "F_IDLE" /\ (fetch_req \/ fetch_pending)) => Holds(1 - wr_sel)
      /\ ~Fetching => (fetch_req /\ ce_div = 1) \/ (Holds(0) /\ Holds(1))
  BY Zenon DEF BuffersFill
<1>3. wr_sel = 0 \/ wr_sel = 1
  BY <1>1 DEF BufferTyped
<1>4. CASE FetchIdle
  <2>1. f_state = "F_IDLE" /\ UNCHANGED <<buf, wr_sel>>
    BY <1>4 DEF FetchIdle
  <2>2. (Holds(0)' <=> Holds(0)) /\ (Holds(1)' <=> Holds(1)) /\ (Holds(1 - wr_sel)' <=> Holds(1 - wr_sel))
    BY <2>1, Zenon DEF Holds
  <2>3. CASE fetch_req \/ fetch_pending
    <3>1. f_state' = "F_FETCH" /\ ~fetch_pending' /\ avl_line' = display_line'
      BY <1>4, <2>3 DEF FetchIdle, LineDue
    <3>2. CASE fetch_pending
      <4>1. Holds(1 - wr_sel)
        BY <1>2, <2>1, <3>2, Zenon DEF Fetching
      <4> QED BY <2>2, <3>1, <4>1 DEF BuffersFill, Fetching
    <3>3. CASE ~fetch_pending /\ fetch_req
      <4>1. fetch_req' \/ (Holds(0) /\ Holds(1))
        BY <1>2, <2>1, <3>3, Zenon DEF Fetching
      <4>2. fetch_req' \/ Holds(1 - wr_sel)
        <5>1. 1 - wr_sel = 0 \/ 1 - wr_sel = 1
          BY <1>3
        <5> QED BY <4>1, <5>1, Zenon
      <4> QED BY <2>2, <3>1, <4>2 DEF BuffersFill, Fetching
    <3> QED BY <2>3, <3>2, <3>3
  <2>4. CASE ~(fetch_req \/ fetch_pending)
    <3>1. f_state' = "F_IDLE" /\ fetch_pending' = fetch_pending
      BY <1>4, <2>1, <2>4 DEF FetchIdle
    <3>2. ~Fetching /\ ~Fetching' /\ Holds(0) /\ Holds(1)
      BY <1>2, <2>1, <2>4, <3>1, Zenon DEF Fetching
    <3> QED BY <2>2, <3>1, <3>2, Zenon DEF BuffersFill
  <2> QED BY <2>3, <2>4
<1>5. CASE FetchAddress(ramWait)
  <2>1. /\ f_state = "F_FETCH" /\ f_state' \in {"F_FETCH", "F_RECV"} /\ beat_cnt' = 0
        /\ UNCHANGED <<avl_line, buf, wr_sel>>
    BY <1>1, <1>5 DEF FetchAddress, PortInv, BKeepsOn
  <2>2. fetch_pending' <=> fetch_pending \/ fetch_req
    BY <1>5, <2>1, Zenon DEF FetchAddress, Pending
  <2>3. Holds(1 - wr_sel)' <=> Holds(1 - wr_sel)
    BY <2>1, Zenon DEF Holds
  <2>4. fetch_req' \/ fetch_pending' \/ Holds(1 - wr_sel)
    BY <1>2, <2>1, <2>2, Zenon DEF Fetching
  <2>5. Fetching' /\ f_state' # "F_IDLE" /\ avl_line' = display_line'
    BY <1>2, <2>1 DEF Fetching
  <2>6. \A b \in 0 .. beat_cnt' - 1 : FALSE
    BY <2>1
  <2> QED BY <2>3, <2>4, <2>5, <2>6, Zenon DEF BuffersFill
<1>6. CASE FetchData(ramRdv)
  <2>1. /\ f_state = "F_RECV" /\ avl_line' = avl_line /\ avl_line = display_line
        /\ Fetching /\ beat_cnt \in 0 .. BEATS - 1
    BY <1>1, <1>2, <1>6, Constants DEF FetchData, Fetching, PortInv, BKeepsOn, FetchTyped
  <2>2. fetch_pending' <=> fetch_pending \/ fetch_req
    BY <1>6, <2>1, Zenon DEF FetchData, Pending
  <2>3. fetch_pending' \/ Holds(1 - wr_sel)
    BY <1>2, <2>1, <2>2, Zenon
  <2>4. CASE ~b_rdv(ramRdv)
    <3>1. UNCHANGED <<f_state, buf, beat_cnt, wr_sel>>
      BY <1>6, <2>4 DEF FetchData
    <3>2. Holds(1 - wr_sel)' <=> Holds(1 - wr_sel)
      BY <3>1, Zenon DEF Holds
    <3>3. Fetching' /\ f_state' # "F_IDLE"
      BY <2>1, <3>1 DEF Fetching
    <3>4. \A b \in 0 .. beat_cnt' - 1 : buf'[wr_sel'][b] = display_line'
      BY <1>2, <2>1, <3>1, Zenon
    <3> QED BY <2>1, <2>3, <3>1, <3>2, <3>3, <3>4, Zenon DEF BuffersFill
  <2>5. CASE b_rdv(ramRdv)
    <3>1. /\ buf' = [buf EXCEPT ![wr_sel][beat_cnt] = avl_line] /\ beat_cnt' = beat_cnt + 1
          /\ beat_cnt = BEATS - 1 => wr_sel' = 1 - wr_sel /\ f_state' = "F_IDLE"
          /\ beat_cnt # BEATS - 1 => wr_sel' = wr_sel /\ f_state' = "F_RECV"
      BY <1>6, <2>1, <2>5 DEF FetchData
    <3>2. /\ buf'[wr_sel][beat_cnt] = avl_line
          /\ \A b \in 0 .. BEATS - 1 : b # beat_cnt => buf'[wr_sel][b] = buf[wr_sel][b]
          /\ buf'[1 - wr_sel] = buf[1 - wr_sel]
      BY <1>1, <2>1, <3>1, BeatStored
    <3>3. \A b \in 0 .. beat_cnt : buf'[wr_sel][b] = display_line'
      <4> SUFFICES ASSUME NEW b \in 0 .. beat_cnt PROVE buf'[wr_sel][b] = display_line
        OBVIOUS
      <4>1. CASE b = beat_cnt
        BY <2>1, <3>2, <4>1
      <4>2. CASE b # beat_cnt
        <5>1. b \in 0 .. beat_cnt - 1 /\ b \in 0 .. BEATS - 1
          BY <2>1, <4>2, Constants
        <5> QED BY <1>2, <2>1, <3>2, <4>2, <5>1, Zenon
      <4> QED BY <4>1, <4>2
    <3>4. Holds(1 - wr_sel) => \A b \in 0 .. BEATS - 1 : buf'[1 - wr_sel][b] = display_line'
      BY <3>2, Zenon DEF Holds
    <3>5. CASE beat_cnt # BEATS - 1
      <4>1. f_state' = "F_RECV" /\ wr_sel' = wr_sel /\ f_state' # "F_IDLE"
        BY <3>1, <3>5
      <4>2. beat_cnt' - 1 = beat_cnt
        BY <2>1, <3>1
      <4>3. Holds(1 - wr_sel) => Holds(1 - wr_sel)'
        BY <3>4, <4>1, Zenon DEF Holds
      <4>4. \A b \in 0 .. beat_cnt' - 1 : buf'[wr_sel'][b] = display_line'
        BY <3>3, <4>1, <4>2, Zenon
      <4>5. Fetching'
        BY <4>1, Zenon DEF Fetching
      <4> QED BY <2>1, <2>3, <4>1, <4>3, <4>4, <4>5, Zenon DEF BuffersFill
    <3>6. CASE beat_cnt = BEATS - 1
      <4>1. f_state' = "F_IDLE" /\ wr_sel' = 1 - wr_sel /\ f_state' # "F_RECV"
        BY <3>1, <3>6
      <4>2. 1 - wr_sel' = wr_sel
        BY <1>3, <4>1
      <4>3. \A b \in 0 .. BEATS - 1 : buf'[wr_sel][b] = display_line'
        BY <3>3, <3>6, Zenon
      <4>4. Holds(1 - wr_sel)'
        BY <4>2, <4>3, Zenon DEF Holds
      <4>5. Holds(1 - wr_sel) => Holds(0)' /\ Holds(1)'
        <5>1. CASE wr_sel = 0
          <6>1. 1 - wr_sel = 1
            BY <5>1
          <6> QED BY <3>4, <4>3, <5>1, <6>1, Zenon DEF Holds
        <5>2. CASE wr_sel = 1
          <6>1. 1 - wr_sel = 0
            BY <5>2
          <6> QED BY <3>4, <4>3, <5>2, <6>1, Zenon DEF Holds
        <5> QED BY <1>3, <5>1, <5>2
      <4>6. Fetching' <=> fetch_pending'
        BY <4>1, Zenon DEF Fetching
      <4> QED BY <2>3, <4>1, <4>4, <4>5, <4>6, Zenon DEF BuffersFill
    <3> QED BY <3>5, <3>6
  <2> QED BY <2>4, <2>5
<1> QED BY <1>4, <1>5, <1>6 DEF Fetch

LEMMA BuffersFillStep ==
  ASSUME BlankSuffices, IInv, RasterInv, FetchInTime, BuffersFill, IInv',
         NEW ramWait \in BOOLEAN, NEW ramRdv \in BOOLEAN, PortClk(ramWait, ramRdv), Timing, Show
  PROVE  BuffersFill'
<1>1. TimingTyped /\ EnableFollows /\ SignalsFollow /\ LineDue /\ Fetch(ramWait, ramRdv)
  BY DEF IInv, ScreenInv, RasterInv, PortClk
<1>2. CASE ~fb_active
  <2>1. ~synced'
    BY <1>2, Zenon DEF Show
  <2> QED BY <2>1, Zenon DEF BuffersFill
<1>3. CASE fb_active /\ ~ce_pix
  <2>1. UNCHANGED <<fetch_req, synced, display_line>>
    BY <1>3 DEF Show, showVars
  <2>2. CASE synced
    BY <1>1, <2>1, <2>2, SameLine
  <2> QED BY <2>1, <2>2, Zenon DEF BuffersFill
<1>4. CASE fb_active /\ ce_pix /\ FetchFor = {}
  <2>1. ~VSyncEnds
    BY <1>4 DEF FetchFor
  <2>2. ~fetch_req' /\ (synced' <=> synced) /\ display_line' = display_line
    BY <1>4, <2>1, Zenon DEF Show
  <2>3. ce_div # 1
    BY <1>4 DEF ce_pix
  <2>4. CASE synced
    BY <1>1, <2>2, <2>3, <2>4, SameLine
  <2> QED BY <2>2, <2>4, Zenon DEF BuffersFill
<1>5. CASE fb_active /\ ce_pix /\ FetchFor # {}
  <2>1. fetch_req' /\ (synced' <=> synced \/ VSyncEnds)
    BY <1>5, Zenon DEF Show
  <2>2. ce_div' = 1
    BY <1>1, <1>5, TimeRuns DEF BlankSuffices
  <2>3. CASE synced \/ VSyncEnds
    <3>1. ~Fetching /\ ~fetch_req
      BY <1>5, <2>3, QuietWhenAsked
    <3>2. f_state = "F_IDLE" /\ ~fetch_pending
      BY <3>1, Zenon DEF Fetching
    <3>3. f_state' = "F_IDLE" /\ fetch_pending' = fetch_pending
      BY <1>1, <3>1, <3>2 DEF Fetch, FetchIdle, FetchAddress, FetchData
    <3>4. ~Fetching' /\ f_state' # "F_RECV"
      BY <3>2, <3>3 DEF Fetching
    <3> QED BY <2>1, <2>2, <3>3, <3>4, Zenon DEF BuffersFill
  <2> QED BY <2>1, <2>3, Zenon DEF BuffersFill
<1> QED BY <1>2, <1>3, <1>4, <1>5

FetchInv == FetchInTime /\ BuffersFill

LEMMA InitFetch == Init => FetchInv
<1> SUFFICES ASSUME Init PROVE FetchInv
  OBVIOUS
<1>1. ~synced /\ ~fetch_req
  BY Zenon DEF Init
<1>2. v_active
  BY Raster, Sizes DEF Init, v_active
<1> QED BY <1>1, <1>2, Zenon DEF FetchInv, FetchInTime, BuffersFill

LEMMA NextFetch ==
  ASSUME BlankSuffices
  PROVE  IInv /\ RasterInv /\ FetchInv /\ [Clk]_vars => FetchInv'
<1> SUFFICES ASSUME IInv, RasterInv, FetchInv, [Clk]_vars PROVE FetchInv'
  OBVIOUS
<1>1. IInv'
  BY NextIInv
<1>2. CASE Clk
  <2>1. PICK ramWait \in BOOLEAN, ramRdv \in BOOLEAN : PortClk(ramWait, ramRdv) /\ Timing /\ Show
    BY <1>2 DEF Clk, PortClk
  <2> QED BY <1>1, <2>1, FetchInTimeStep, BuffersFillStep DEF FetchInv
<1>3. CASE UNCHANGED vars
  <2>1. FetchInTime'
    BY <1>3 DEF FetchInv, FetchInTime, Fetching, Blanked, v_active, Work, ARest, BRest, PRest, ToLine,
             grant_a, grant_b, vars, arbVars, memVars, inVars, fetchVars, showVars, aVars
  <2>2. BuffersFill'
    BY <1>3 DEF FetchInv, BuffersFill, Fetching, Holds, vars, inVars, fetchVars, showVars
  <2> QED BY <2>1, <2>2 DEF FetchInv
<1> QED BY <1>2, <1>3

(* In a blank that is long enough for a burst of A and two fetches, the buffer that is read holds *)
(* all of the line due whenever a line is on the screen, and its columns go out one by one.      *)
THEOREM LineOnScreen ==
  ASSUME BlankSuffices
  PROVE  Spec => []LineOnScreenIsFetched
<1>1. IInv /\ RasterInv /\ FetchInv => LineOnScreenIsFetched
  <2> SUFFICES ASSUME IInv, RasterInv, FetchInv PROVE LineOnScreenIsFetched
    OBVIOUS
  <2>1. ASSUME de_out, synced PROVE \A b \in 0 .. BEATS - 1 : buf[rd_sel][b] = display_line
    <3>1. v_active /\ h_cnt \in 1 .. W
      BY <2>1 DEF IInv, ScreenInv, EnableFollows
    <3>2. v_cnt < V_ACTIVE /\ V_ACTIVE \in Nat /\ SyncEnd \in Nat /\ SyncEnd > V_ACTIVE /\ W \in Nat
          /\ v_cnt \in Nat /\ h_cnt \in Nat
      BY <3>1, Sizes, Raster DEF v_active, IInv, ScreenInv, TimingTyped
    <3>3. ~Blanked /\ ~(v_active /\ h_cnt = W + 2) /\ ~(v_cnt = SyncEnd /\ h_cnt = 2)
      BY <3>1, <3>2 DEF Blanked
    <3>4. ~Fetching /\ ~fetch_req
      BY <2>1, <3>3, Zenon DEF FetchInv, FetchInTime
    <3>5. Holds(0) /\ Holds(1)
      BY <2>1, <3>4, Zenon DEF FetchInv, BuffersFill
    <3>6. rd_sel = 0 \/ rd_sel = 1
      BY DEF IInv, ScreenInv, ShowTyped
    <3> QED BY <3>5, <3>6, Zenon DEF Holds
  <2> QED BY <2>1, Zenon DEF LineOnScreenIsFetched, RasterInv, ColumnsFollow
<1>2. IInv /\ RasterInv /\ FetchInv /\ [Clk]_vars => FetchInv'
  BY NextFetch
<1> QED BY <1>1, <1>2, InitFetch, Invariance, RasterInvariant, PTL DEF Spec
=============================================================================
