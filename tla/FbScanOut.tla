------------------------------ MODULE FbScanOut ------------------------------
(***************************************************************************)
(* rtl/fb_scan_out.sv behind rtl/ram2_arb.v: lines of the frame buffer are *)
(* fetched into two line buffers in the horizontal blank and put out to a  *)
(* CRT.  A step is one rising edge of clk; the right-hand sides are the    *)
(* registers before it.  Master A is any Avalon master that has one burst  *)
(* under way at a time and starts one at most per line.  A beat is named   *)
(* by the line it belongs to; hs_out, base address and colours are left    *)
(* out.                                                                    *)
(***************************************************************************)
EXTENDS Ram2Arb, Integers

CONSTANTS
  H,                            \* lines of the frame, both fields
  BEATS, PerBeat,               \* beats of a line, pixels of a beat
  CeDiv,                        \* clocks per pixel
  H_FP, H_SYNC, H_BP,           \* blanking, in pixels
  V_FP, V_SYNC, V_BP,           \* blanking, in lines
  MaxBurst                      \* longest burst of A

ASSUME FrameAssumption == H \in Nat \ {0, 1} /\ BEATS \in Nat \ {0} /\ PerBeat \in Nat \ {0}
ASSUME TimingAssumption == {CeDiv, H_FP, H_SYNC, H_BP, V_FP, V_SYNC, V_BP} \subseteq Nat \ {0}
ASSUME BurstAssumption == MaxBurst \in Nat \ {0}

W == BEATS * PerBeat
H_TOTAL == W + H_FP + H_SYNC + H_BP
V_ACTIVE == H \div 2
V_TOTAL == V_ACTIVE + V_FP + V_SYNC + V_BP
Garbage == -1                   \* a beat of a buffer nobody has filled
Black == -1

VARIABLES
  fb_active,                    \* input: the frame buffer is put out
  ce_div, h_cnt, v_cnt, field,  \* video timing
  vs_out, de_out, prev_vs, prev_de,
  buf, wr_sel, rd_sel,          \* the line buffers: line of every beat
  f_state, avl_read, avl_line, beat_cnt,
  fetch_line, fetch_req, fetch_pending,
  rd_x, display_line,
  r_out,                        \* the column put out in colour, or Black
  synced,                       \* history: a vertical sync has passed since the start
  put,                          \* history: pixels of this line put out
  aBus, aLeft, aDone            \* master A: its bus, beats to go, it had its burst in this line

inVars == <<fb_active, ce_div, h_cnt, v_cnt, field, vs_out, de_out, prev_vs, prev_de>>
fetchVars == <<buf, wr_sel, f_state, avl_read, avl_line, beat_cnt, fetch_pending>>
showVars == <<rd_sel, fetch_line, fetch_req, rd_x, display_line, r_out, synced, put>>
aVars == <<aBus, aLeft, aDone>>
vars == <<arbVars, memVars, inVars, fetchVars, showVars, aVars>>

bBus == [read |-> avl_read, write |-> FALSE, burst |-> BEATS]

Init ==
  /\ ArbInit /\ MemInit
  /\ fb_active = FALSE /\ ce_div = 0 /\ h_cnt = 0 /\ v_cnt = 0 /\ field = 0
  /\ vs_out = TRUE /\ de_out = FALSE /\ prev_vs = TRUE /\ prev_de = FALSE
  /\ buf = [s \in 0 .. 1 |-> [b \in 0 .. BEATS - 1 |-> Garbage]]
  /\ wr_sel = 0 /\ rd_sel = 0
  /\ f_state = "F_IDLE" /\ avl_read = FALSE /\ avl_line = 0 /\ beat_cnt = 0
  /\ fetch_line = 0 /\ fetch_req = FALSE /\ fetch_pending = FALSE
  /\ rd_x = 0 /\ display_line = 0 /\ r_out = Black /\ synced = FALSE /\ put = 0
  /\ aBus = QuietBus /\ aLeft = 0 /\ aDone = FALSE
-----------------------------------------------------------------------------
(* Video timing *)

ce_pix == fb_active /\ ce_div = 0
EndOfLine == h_cnt = H_TOTAL - 1
EndOfField == v_cnt = V_TOTAL - 1
h_active == h_cnt < W
v_active == v_cnt < V_ACTIVE
v_sync == v_cnt \in V_ACTIVE + V_FP .. V_ACTIVE + V_FP + V_SYNC - 1

Timing ==
  IF ~fb_active
    THEN /\ ce_div' = 0 /\ h_cnt' = 0 /\ v_cnt' = 0 /\ field' = 0
         /\ vs_out' = TRUE /\ de_out' = FALSE /\ prev_vs' = TRUE /\ prev_de' = FALSE
  ELSE
    /\ ce_div' = (ce_div + 1) % CeDiv
    /\ IF ~ce_pix THEN UNCHANGED <<h_cnt, v_cnt, field, vs_out, de_out, prev_vs, prev_de>>
       ELSE
         /\ h_cnt' = IF EndOfLine THEN 0 ELSE h_cnt + 1
         /\ v_cnt' = IF ~EndOfLine THEN v_cnt ELSE IF EndOfField THEN 0 ELSE v_cnt + 1
         /\ field' = IF EndOfLine /\ EndOfField THEN 1 - field ELSE field
         /\ vs_out' = ~v_sync
         /\ de_out' = (h_active /\ v_active)
         /\ prev_vs' = vs_out
         /\ prev_de' = de_out
-----------------------------------------------------------------------------
(* Fetching: master B *)

\* Mutant: a request that comes while a fetch is under way is not kept.
PendingNever == FALSE
Pending == fetch_pending \/ (fetch_req /\ f_state # "F_IDLE")

FetchIdle ==
  /\ f_state = "F_IDLE"
  /\ IF fetch_req \/ fetch_pending
       THEN /\ f_state' = "F_FETCH" /\ avl_read' = TRUE /\ avl_line' = fetch_line
            /\ beat_cnt' = 0 /\ fetch_pending' = FALSE
       ELSE UNCHANGED <<f_state, avl_read, avl_line, beat_cnt, fetch_pending>>
  /\ UNCHANGED <<buf, wr_sel>>

FetchAddress(ramWait) ==
  /\ f_state = "F_FETCH"
  /\ avl_read' = b_waitreq(ramWait)
  /\ f_state' = IF b_waitreq(ramWait) THEN "F_FETCH" ELSE "F_RECV"
  /\ fetch_pending' = Pending
  /\ UNCHANGED <<avl_line, beat_cnt, buf, wr_sel>>

FetchData(ramRdv) ==
  /\ f_state = "F_RECV"
  /\ IF b_rdv(ramRdv)
       THEN /\ buf' = [buf EXCEPT ![wr_sel][beat_cnt] = avl_line]
            /\ beat_cnt' = beat_cnt + 1
            /\ IF beat_cnt = BEATS - 1 THEN wr_sel' = 1 - wr_sel /\ f_state' = "F_IDLE"
               ELSE UNCHANGED <<wr_sel, f_state>>
       ELSE UNCHANGED <<buf, beat_cnt, wr_sel, f_state>>
  /\ fetch_pending' = Pending
  /\ UNCHANGED <<avl_read, avl_line>>

Fetch(ramWait, ramRdv) == FetchIdle \/ FetchAddress(ramWait) \/ FetchData(ramRdv)
-----------------------------------------------------------------------------
(* Showing *)

VSyncEnds == ~prev_vs /\ vs_out
LineEnds == prev_de /\ ~de_out /\ v_active

\* The line a new fetch is for, if one begins on this edge of the pixel clock.
\* Mutant: lines are not skipped.
FetchForAll ==
  (IF VSyncEnds THEN {field} ELSE {})
  \cup (IF LineEnds /\ display_line + 1 < H THEN {display_line + 1} ELSE {})
FetchFor ==
  (IF VSyncEnds THEN {field} ELSE {})
  \cup (IF LineEnds /\ display_line + 2 < H THEN {display_line + 2} ELSE {})

\* Mutant: the column runs on.
ColumnRunsOn == h_cnt
Column == IF h_cnt < W THEN h_cnt ELSE 0

Show ==
  IF ~fb_active
    THEN /\ fetch_req' = FALSE /\ fetch_line' = 0 /\ display_line' = 0
         /\ rd_sel' = 0 /\ rd_x' = 0 /\ r_out' = Black /\ synced' = FALSE /\ put' = 0
  ELSE IF ~ce_pix THEN UNCHANGED showVars
  ELSE
    /\ fetch_req' = (FetchFor # {})
    /\ \/ FetchFor = {} /\ UNCHANGED <<fetch_line, display_line>>
       \/ \E n \in FetchFor : fetch_line' = n /\ display_line' = n
    /\ rd_sel' = IF LineEnds THEN 1 - rd_sel ELSE rd_sel
    /\ rd_x' = IF de_out THEN Column ELSE rd_x
    /\ r_out' = IF de_out THEN rd_x ELSE Black
    /\ synced' = (synced \/ VSyncEnds)
    /\ put' = IF de_out THEN put + 1 ELSE 0
-----------------------------------------------------------------------------
(* Master A *)

\* A burst begins, a read command is accepted, or a beat goes by.
MasterA(ramWait, ramRdv) ==
  LET newLine == ce_pix /\ LineEnds IN
  IF aLeft = 0
    THEN \/ UNCHANGED <<aBus, aLeft>> /\ aDone' = (aDone /\ ~newLine)
         \/ /\ ~aDone /\ ~newLine
            /\ \E n \in 1 .. MaxBurst, read \in BOOLEAN :
                 aBus' = [read |-> read, write |-> ~read, burst |-> n] /\ aLeft' = n
            /\ aDone' = TRUE
  ELSE
    LET beat == IF aBus.write THEN ~a_waitreq(ramWait) ELSE a_rdv(ramRdv) IN
    /\ aLeft' = IF beat THEN aLeft - 1 ELSE aLeft
    /\ aBus' = IF aLeft' = 0 \/ (aBus.read /\ ~a_waitreq(ramWait)) THEN QuietBus ELSE aBus
    /\ aDone' = ~newLine

Clk ==
  \E ramWait, ramRdv \in BOOLEAN :
    /\ Memory(aBus, bBus, ramWait, ramRdv)
    /\ Arbitrate(aBus, bBus, ramWait, ramRdv)
    /\ Fetch(ramWait, ramRdv)
    /\ MasterA(ramWait, ramRdv)
    /\ Timing /\ Show
    /\ fb_active' \in BOOLEAN

Spec == Init /\ [][Clk]_vars
FairSpec == Spec /\ WF_vars(Clk)
-----------------------------------------------------------------------------
(* Properties *)

\* Type invariant: the counters stay in their ranges, whenever the output is switched.
TypeOK ==
  /\ st \in {"ST_IDLE", "ST_A_RD", "ST_A_WR", "ST_B"} /\ cnt \in Nat /\ owed \in Nat
  /\ asker \in {"A", "B"} /\ slack \in 0 .. MaxWait
  /\ {fb_active, vs_out, de_out, prev_vs, prev_de, avl_read, fetch_req, fetch_pending, synced,
      aDone} \subseteq BOOLEAN
  /\ ce_div \in 0 .. CeDiv - 1 /\ h_cnt \in 0 .. H_TOTAL - 1 /\ v_cnt \in 0 .. V_TOTAL - 1
  /\ {field, wr_sel, rd_sel} \subseteq 0 .. 1
  /\ f_state \in {"F_IDLE", "F_FETCH", "F_RECV"} /\ beat_cnt \in 0 .. BEATS
  /\ {avl_line, fetch_line, display_line} \subseteq 0 .. H - 1
  /\ buf \in [0 .. 1 -> [0 .. BEATS - 1 -> {Garbage} \cup (0 .. H - 1)]]
  /\ rd_x \in 0 .. W - 1 /\ r_out \in {Black} \cup (0 .. W - 1) /\ put \in 0 .. W
  /\ aBus \in [read : BOOLEAN, write : BOOLEAN, burst : 1 .. MaxBurst] /\ aLeft \in 0 .. MaxBurst

\* The arbiter keeps count of the memory: a grant lasts as long as beats of its burst are
\* to come, so a beat goes to the master that asked for it and none arrives unowned.
BurstsStayWhole ==
  /\ owed > 0 => cnt = owed /\ st = (IF asker = "A" THEN "ST_A_RD" ELSE "ST_B")
  /\ st = "ST_B" => cnt = BEATS - beat_cnt
  /\ grant_a => cnt = aLeft

\* While a line is on the screen, the buffer that is read holds all of it and nothing
\* else, although fetches write both buffers by turns and A's bursts come in between;
\* and its columns are put out from left to right, each once.  Until the first vertical
\* sync the buffers may be of an earlier time.
LineOnScreenIsFetched ==
  /\ de_out /\ synced => \A b \in 0 .. BEATS - 1 : buf[rd_sel][b] = display_line
  /\ r_out # Black => r_out = put - 1

\* The data enable goes along with the colours it enables.
ColoursWhenEnabled == fb_active => (de_out <=> r_out # Black)

\* The lines due follow each other as interlacing demands, and while the output stays
\* on every line of the frame is shown again and again.
Scan == INSTANCE InterlacedScan WITH line <- IF synced THEN display_line ELSE -1
ImplementsScan ==
  /\ Scan!ScanSpec
  /\ <>[]fb_active => \A n \in 0 .. H - 1 : []<>(de_out /\ display_line = n)
==============================================================================
