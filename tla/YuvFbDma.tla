------------------------------ MODULE YuvFbDma -------------------------------
(***************************************************************************)
(* rtl/yuv_fb_dma.v, clock by clock: the engine that reads the Y, U and V  *)
(* rows of a frame in bursts, converts them in a pipeline and writes the   *)
(* RGB rows; with the synchronisers of sys_top.v that carry its trigger    *)
(* and its done pulse.  Each step is one rising edge: right-hand sides are *)
(* the registers before the edge.  The memory is external: it keeps a      *)
(* command waiting and delays the beats of a read as it likes.             *)
(*                                                                         *)
(* What travels is named by where it comes from: a beat of a read by its   *)
(* plane, row and number, a pixel by its column and the beats it was made  *)
(* of.  An address is a plane and a row of it.                             *)
(***************************************************************************)
EXTENDS Integers, Sequences

CONSTANTS
  W, H,         \* columns and rows (640 and 480 in the code)
  Lanes,        \* bytes in a beat (8 in the code)
  MaxTriggers   \* bound: triggers given

ASSUME SizeAssumption ==
  /\ {W, H, Lanes, MaxTriggers} \subseteq Nat \ {0}
  /\ Lanes % 2 = 0 /\ W % (2 * Lanes) = 0 /\ H % 2 = 0

YBeats == W \div Lanes
UVBeats == W \div (2 * Lanes)
RgbBeats == (2 * W) \div Lanes
PerBeat == Lanes \div 2        \* pixels in a beat of RGB

Nothing == <<>>
PipeLength == 6                \* pipe_Y/U/V and the five registers of yuv_to_rgb

VARIABLES
  state, row, beat_cnt, proc_x, rgb_wr_px, wr_beat,
  y_addr_reg,                  \* a row of the Y plane
  y_buf, u_buf, v_buf,         \* line buffers, by beat
  rgb_buf,                     \* row buffer, by column
  pipe,                        \* the pipeline, newest first
  avl_read, avl_write, avl_address, avl_writedata,
  done,
  trig_tgl, trig_r,            \* dma_trig_tgl and dma_trig_vid_r
  done_tgl, done_r,            \* dma_done_tgl and dma_done_sys_r
  waited,                      \* memory: the read now asserted has been kept waiting
  burst,                       \* memory: the read burst under way, beats left to deliver
  written,                     \* memory: beats accepted of the write burst under way
  mem,                         \* memory: the RGB rows
  early,                       \* history: rows whose luma was last read in the read's first clock
  triggers, starts, reports    \* history: triggers given, frames begun, ends reported

lineVars == <<y_buf, u_buf, v_buf, rgb_buf>>
countVars == <<row, beat_cnt, proc_x, rgb_wr_px, wr_beat, y_addr_reg>>
syncVars == <<trig_tgl, trig_r, done_tgl, done_r, triggers, starts, reports>>
memoryVars == <<waited, burst, written, mem, early>>
vars == <<state, countVars, lineVars, pipe, avl_read, avl_write, avl_address, avl_writedata,
          done, syncVars, memoryVars>>

Beats(n) == [0 .. n - 1 -> {Nothing}]
Init ==
  /\ state = "IDLE" /\ row = 0 /\ beat_cnt = 0 /\ proc_x = 0 /\ rgb_wr_px = 0 /\ wr_beat = 0
  /\ y_addr_reg \in 0 .. H - 1                                   \* not reset
  /\ y_buf \in Beats(YBeats) /\ u_buf \in Beats(UVBeats) /\ v_buf \in Beats(UVBeats)
  /\ rgb_buf \in Beats(W)
  /\ pipe = [i \in 1 .. PipeLength |-> Nothing]
  /\ avl_read = FALSE /\ avl_write = FALSE
  /\ avl_address = <<"none", 0>> /\ avl_writedata = Nothing
  /\ done = FALSE
  /\ trig_tgl = FALSE /\ trig_r = <<FALSE, FALSE, FALSE>>
  /\ done_tgl = FALSE /\ done_r = <<FALSE, FALSE, FALSE>>
  /\ waited = FALSE /\ burst = [from |-> <<"none", 0>>, next |-> 0, left |-> 0] /\ written = 0
  /\ mem = [r \in 0 .. H - 1 |-> [b \in 0 .. RgbBeats - 1 |-> Nothing]]
  /\ early = {}
  /\ triggers = 0 /\ starts = 0 /\ reports = 0
-----------------------------------------------------------------------------
(* The state machine.  wait is avl_waitrequest, arrived the beat that comes *)
(* with avl_readdatavalid, or Nothing.                                      *)

trigger == trig_r[3] # trig_r[2]
\* Mutant: the pulse is two clocks wide.
dma_doneWide == done_r[3] # done_r[1]
dma_done == done_r[3] # done_r[2]

\* avl_read, avl_write and done are deasserted unless a state says otherwise.
Strobes(read, write, finished) == avl_read' = read /\ avl_write' = write /\ done' = finished
NoPixel == pipe' = <<Nothing>> \o SubSeq(pipe, 1, PipeLength - 1)
Quiet == Strobes(FALSE, FALSE, FALSE) /\ NoPixel /\ UNCHANGED <<avl_address, avl_writedata>>

Idle ==
  /\ state = "IDLE"
  /\ Quiet
  /\ IF trigger THEN row' = 0 /\ state' = "FETCH_U" ELSE UNCHANGED <<row, state>>
  /\ UNCHANGED <<beat_cnt, proc_x, rgb_wr_px, wr_beat, y_addr_reg, lineVars>>

\* A read is asserted until the clock in which it is on the bus and not kept waiting.
Fetch(from, to, address, wait) ==
  /\ state = from
  /\ avl_address' = address
  /\ beat_cnt' = 0
  /\ LET accepted == avl_read /\ ~wait IN
     state' = (IF accepted THEN to ELSE from) /\ Strobes(~accepted, FALSE, FALSE)
  /\ NoPixel
  /\ UNCHANGED <<row, proc_x, rgb_wr_px, wr_beat, lineVars, avl_writedata>>

FetchU(wait) == Fetch("FETCH_U", "RECV_U", <<"u", row \div 2>>, wait) /\ UNCHANGED y_addr_reg
FetchV(wait) == Fetch("FETCH_V", "RECV_V", <<"v", row \div 2>>, wait) /\ UNCHANGED y_addr_reg
FetchY(wait) == Fetch("FETCH_Y", "RECV_Y", <<"y", y_addr_reg>>, wait) /\ y_addr_reg' = row

\* Mutant: one beat more is waited for.
LastBeatLate(beats) == beat_cnt = beats
LastBeat(beats) == beat_cnt = beats - 1

\* The beats of a burst fill a line buffer; the last one ends the state.
Recv(from, to, beats, arrived) ==
  /\ state = from
  /\ Quiet
  /\ IF arrived = Nothing
       THEN UNCHANGED <<state, beat_cnt>>
       ELSE /\ state' = IF LastBeat(beats) THEN to ELSE from
            /\ beat_cnt' = IF LastBeat(beats) THEN beat_cnt ELSE beat_cnt + 1
  /\ UNCHANGED <<row, wr_beat, y_addr_reg, rgb_buf>>

Filled(line, arrived) == IF arrived = Nothing THEN line ELSE [line EXCEPT ![beat_cnt] = arrived]

RecvU(arrived) ==
  /\ Recv("RECV_U", "FETCH_V", UVBeats, arrived)
  /\ u_buf' = Filled(u_buf, arrived)
  /\ UNCHANGED <<y_buf, v_buf, proc_x, rgb_wr_px>>
RecvV(arrived) ==
  /\ Recv("RECV_V", "GUARD", UVBeats, arrived)
  /\ v_buf' = Filled(v_buf, arrived)
  /\ UNCHANGED <<y_buf, u_buf, proc_x, rgb_wr_px>>
RecvY(arrived) ==
  /\ Recv("RECV_Y", "PROCESS", YBeats, arrived)
  /\ y_buf' = Filled(y_buf, arrived)
  /\ IF state' = "PROCESS" THEN proc_x' = 0 /\ rgb_wr_px' = 0 ELSE UNCHANGED <<proc_x, rgb_wr_px>>
  /\ UNCHANGED <<u_buf, v_buf>>

Guard ==
  /\ state = "GUARD"
  /\ Quiet
  /\ y_addr_reg' = row
  /\ state' = "FETCH_Y"
  /\ UNCHANGED <<row, beat_cnt, proc_x, rgb_wr_px, wr_beat, lineVars>>

\* pack_beat: the pixels of one beat of the row buffer.
pack_beat(b) == [i \in 1 .. PerBeat |-> rgb_buf[b * PerBeat + i - 1]]

\* A pixel enters the pipeline per clock, with the chroma of its pair, and the
\* pixels that come out are collected.
Process ==
  /\ state = "PROCESS"
  /\ Strobes(FALSE, FALSE, FALSE)
  /\ LET pixel == <<proc_x, y_buf[proc_x \div Lanes], u_buf[(proc_x \div 2) \div Lanes],
                    v_buf[(proc_x \div 2) \div Lanes]>>
     IN  IF proc_x < W
           THEN pipe' = <<pixel>> \o SubSeq(pipe, 1, PipeLength - 1) /\ proc_x' = proc_x + 1
           ELSE NoPixel /\ UNCHANGED proc_x
  /\ LET out == pipe[PipeLength] IN
     IF out = Nothing
       THEN UNCHANGED <<rgb_buf, rgb_wr_px, wr_beat, avl_writedata, state>>
       ELSE /\ rgb_buf' = [rgb_buf EXCEPT ![rgb_wr_px] = out]
            /\ IF rgb_wr_px = W - 1
                 THEN /\ wr_beat' = 0 /\ avl_writedata' = pack_beat(0) /\ state' = "WRITE"
                      /\ UNCHANGED rgb_wr_px
                 ELSE rgb_wr_px' = rgb_wr_px + 1 /\ UNCHANGED <<wr_beat, avl_writedata, state>>
  /\ UNCHANGED <<row, beat_cnt, y_addr_reg, y_buf, u_buf, v_buf, avl_address>>

\* Mutant: the strobe is not taken back with the last beat.
WriteOnceMore(wait) ==
  /\ state = "WRITE"
  /\ avl_address' = IF avl_write THEN avl_address ELSE <<"rgb", row>>
  /\ LET accepted == avl_write /\ ~wait
         last == wr_beat = RgbBeats - 1
     IN  /\ state' = IF accepted /\ last THEN "NEXT_ROW" ELSE state
         /\ IF accepted /\ ~last
              THEN wr_beat' = wr_beat + 1 /\ avl_writedata' = pack_beat(wr_beat + 1)
              ELSE UNCHANGED <<wr_beat, avl_writedata>>
         /\ Strobes(FALSE, TRUE, FALSE)
  /\ NoPixel
  /\ UNCHANGED <<row, beat_cnt, proc_x, rgb_wr_px, y_addr_reg, lineVars>>

\* The row is written in one burst; the address goes with its first beat.
Write(wait) ==
  /\ state = "WRITE"
  /\ avl_address' = IF avl_write THEN avl_address ELSE <<"rgb", row>>
  /\ LET accepted == avl_write /\ ~wait
         last == wr_beat = RgbBeats - 1
     IN  /\ state' = IF accepted /\ last THEN "NEXT_ROW" ELSE state
         /\ IF accepted /\ ~last
              THEN wr_beat' = wr_beat + 1 /\ avl_writedata' = pack_beat(wr_beat + 1)
              ELSE UNCHANGED <<wr_beat, avl_writedata>>
         /\ Strobes(FALSE, ~(accepted /\ last), FALSE)
  /\ NoPixel
  /\ UNCHANGED <<row, beat_cnt, proc_x, rgb_wr_px, y_addr_reg, lineVars>>

\* Mutant: the chroma is fetched again for the odd rows, not for the even ones.
AfterRowSwapped == IF row % 2 = 0 THEN "FETCH_U" ELSE "FETCH_Y"
\* Two rows share a row of chroma.
AfterRow == IF row % 2 = 1 THEN "FETCH_U" ELSE "FETCH_Y"

\* Mutant: one row too many.
NextRowLate ==
  /\ state = "NEXT_ROW"
  /\ Quiet
  /\ IF row = H THEN state' = "DONE_ST" /\ UNCHANGED row
                    ELSE state' = AfterRow /\ row' = row + 1
  /\ UNCHANGED <<beat_cnt, proc_x, rgb_wr_px, wr_beat, y_addr_reg, lineVars>>

NextRow ==
  /\ state = "NEXT_ROW"
  /\ Quiet
  /\ IF row = H - 1 THEN state' = "DONE_ST" /\ UNCHANGED row
                    ELSE state' = AfterRow /\ row' = row + 1
  /\ UNCHANGED <<beat_cnt, proc_x, rgb_wr_px, wr_beat, y_addr_reg, lineVars>>

Done ==
  /\ state = "DONE_ST"
  /\ Strobes(FALSE, FALSE, TRUE) /\ NoPixel /\ UNCHANGED <<avl_address, avl_writedata>>
  /\ state' = "IDLE"
  /\ UNCHANGED <<countVars, lineVars>>
-----------------------------------------------------------------------------
(* The toggle synchronisers and the memory *)

Shifted(r, bit) == <<bit, r[1], r[2]>>

Synchronise(dma_trigger) ==
  /\ trig_tgl' = (trig_tgl # dma_trigger)
  /\ trig_r' = Shifted(trig_r, trig_tgl)
  /\ done_tgl' = (done_tgl # done)
  /\ done_r' = Shifted(done_r, done_tgl)
  /\ dma_trigger => triggers < MaxTriggers
  /\ triggers' = IF dma_trigger THEN triggers + 1 ELSE triggers
  /\ starts' = IF state = "IDLE" /\ trigger THEN starts + 1 ELSE starts
  /\ reports' = IF dma_done THEN reports + 1 ELSE reports

BurstLength(address) == IF address[1] = "y" THEN YBeats ELSE UVBeats

\* A read is accepted, in the first clock it is on the bus or after it was kept waiting,
\* or the next beat of the one under way is delivered.
ServeRead(wait, valid) ==
  /\ valid => burst.left > 0
  /\ waited' = (avl_read /\ wait)
  /\ burst' = IF avl_read /\ ~wait
                THEN [from |-> avl_address, next |-> 0, left |-> BurstLength(avl_address)]
                ELSE IF valid THEN [burst EXCEPT !.next = @ + 1, !.left = @ - 1] ELSE burst
  /\ early' = IF state = "FETCH_Y" /\ avl_read /\ ~wait
                THEN IF waited THEN early \ {row} ELSE early \cup {row}
                ELSE early
Arrived(valid) == IF valid THEN <<burst.from, burst.next>> ELSE Nothing

\* A beat is written; the memory counts the beats of a burst itself.
ServeWrite(wait) ==
  IF avl_write /\ ~wait
    THEN /\ mem' = [mem EXCEPT ![avl_address[2]][written] = avl_writedata]
         /\ written' = (written + 1) % RgbBeats
    ELSE UNCHANGED <<mem, written>>

Clk(dma_trigger, wait, valid) ==
  /\ \/ Idle \/ FetchU(wait) \/ RecvU(Arrived(valid)) \/ FetchV(wait) \/ RecvV(Arrived(valid))
     \/ Guard \/ FetchY(wait) \/ RecvY(Arrived(valid)) \/ Process \/ Write(wait) \/ NextRow \/ Done
  /\ Synchronise(dma_trigger)
  /\ ServeRead(wait, valid)
  /\ ServeWrite(wait)

Next == \E dma_trigger, wait, valid \in BOOLEAN : Clk(dma_trigger, wait, valid)

\* The memory serves the port again and again: it does not keep a command waiting, nor
\* withhold the beats of a read, forever.
Fairness ==
  /\ WF_vars(Next)
  /\ SF_vars(\E dma_trigger, valid \in BOOLEAN : Clk(dma_trigger, FALSE, valid))
  /\ SF_vars(\E dma_trigger, wait \in BOOLEAN : Clk(dma_trigger, wait, TRUE))

Spec == Init /\ [][Next]_vars
FairSpec == Spec /\ Fairness
-----------------------------------------------------------------------------
(* Properties *)

States == {"IDLE", "FETCH_U", "RECV_U", "FETCH_V", "RECV_V", "GUARD", "FETCH_Y", "RECV_Y",
           "PROCESS", "WRITE", "NEXT_ROW", "DONE_ST"}

\* Type invariant: no counter and no index leaves its range.
TypeOK ==
  /\ state \in States
  /\ row \in 0 .. H - 1 /\ y_addr_reg \in 0 .. H - 1
  /\ beat_cnt \in 0 .. YBeats - 1 /\ wr_beat \in 0 .. RgbBeats - 1
  /\ proc_x \in 0 .. W /\ rgb_wr_px \in 0 .. W - 1
  /\ {avl_read, avl_write, done, trig_tgl, done_tgl, waited} \subseteq BOOLEAN
  /\ avl_address \in ({"none", "y", "u", "v", "rgb"} \X (0 .. H - 1))
  /\ burst.left \in 0 .. YBeats /\ written \in 0 .. RgbBeats - 1

\* The row the luma of row r is read from.  The address of an odd row is a clock late, as
\* no GUARD state precedes it: a memory that accepts the read at once gets the row before.
Luma(r) == IF r % 2 = 1 /\ r \in early THEN r - 1 ELSE r

\* The pixel at column x of row r.
Pixel(r, x) ==
  <<x, <<<<"y", Luma(r)>>, x \div Lanes>>, <<<<"u", r \div 2>>, (x \div 2) \div Lanes>>,
    <<<<"v", r \div 2>>, (x \div 2) \div Lanes>> >>

\* When the engine reports the end of a frame, the output holds every pixel at its
\* place, made of the chroma of its block of four and of its own luma; the rows that
\* have the luma of the row before are just the odd ones whose read the memory accepted
\* in its first clock.
FrameConverted ==
  done => \A r \in 0 .. H - 1, b \in 0 .. RgbBeats - 1, i \in 1 .. PerBeat :
            mem[r][b][i] = Pixel(r, b * PerBeat + i - 1)

\* Bursts are neither doubled nor cut.  A read is never issued twice: while beats are
\* under way the engine waits for them and has nothing on the bus, so no beat ends up
\* in the wrong line buffer.  A write burst has exactly the beats it announced: none is
\* left to write, and none is on the bus, when the engine goes on to the next row.
WholeBursts ==
  /\ burst.left > 0 => ~avl_read /\ ~avl_write /\ state \in {"RECV_U", "RECV_V", "RECV_Y"}
  /\ state # "WRITE" => ~avl_write /\ written = 0

\* Ends of a frame on their way through the synchroniser.
UnderWay(r, bit) ==
  (IF done THEN 1 ELSE 0) + (IF bit # r[1] THEN 1 ELSE 0)
    + (IF r[1] # r[2] THEN 1 ELSE 0) + (IF r[2] # r[3] THEN 1 ELSE 0)

\* No end of a frame is lost or doubled between the engine and the registers: those
\* not yet reported are on their way through the synchroniser.
EveryEndReported ==
  starts = reports + UnderWay(done_r, done_tgl) + (IF state # "IDLE" THEN 1 ELSE 0)

\* A frame that was begun is reported to the registers.
EveryFrameEnds == \A n \in 1 .. MaxTriggers : starts = n ~> reports >= n
==============================================================================
