---------------------------- MODULE YuvFbDma_proofs ----------------------------
(***************************************************************************)
(* Theorems about the DMA engine, for frames and bursts of any size and a  *)
(* memory that delays what it likes: no counter leaves its range, bursts   *)
(* are whole, each end of a frame is reported once, and each frame is      *)
(* converted right, but for the luma of the odd rows whose read the memory *)
(* accepted in its first clock.                                            *)
(***************************************************************************)
EXTENDS YuvFbDma, TLAPS

(* The bus *)

Fetching == {"FETCH_U", "FETCH_V", "FETCH_Y"}
Receiving == {"RECV_U", "RECV_V", "RECV_Y"}
Addresses == {"none", "y", "u", "v", "rgb"} \X (0 .. H - 1)
Beat(plane, r, k) == <<<<plane, r>>, k>>

\* The pipeline is a function of its stages.
Stages(p) == p = [i \in 1 .. PipeLength |-> p[i]]
\* What it is a clock later, x having gone in.
Clocked(q, x, p) == q = <<x>> \o SubSeq(p, 1, PipeLength - 1)

\* TypeOK in two halves, with what it leaves open.
EngineTyped ==
  /\ state \in States
  /\ row \in 0 .. H - 1 /\ y_addr_reg \in 0 .. H - 1
  /\ beat_cnt \in 0 .. YBeats - 1 /\ wr_beat \in 0 .. RgbBeats - 1
  /\ proc_x \in 0 .. W /\ rgb_wr_px \in 0 .. W - 1
  /\ {avl_read, avl_write, done} \subseteq BOOLEAN
  /\ avl_address \in Addresses
  /\ Stages(pipe)
  /\ DOMAIN y_buf = 0 .. YBeats - 1 /\ DOMAIN u_buf = 0 .. UVBeats - 1
  /\ DOMAIN v_buf = 0 .. UVBeats - 1 /\ DOMAIN rgb_buf = 0 .. W - 1
MemoryTyped ==
  /\ {trig_tgl, done_tgl, waited} \subseteq BOOLEAN
  /\ burst \in [from : Addresses, next : Nat, left : Nat] /\ burst.left <= YBeats
  /\ written \in 0 .. RgbBeats - 1
  /\ DOMAIN mem = 0 .. H - 1 /\ \A r \in 0 .. H - 1 : DOMAIN mem[r] = 0 .. RgbBeats - 1
Typed == EngineTyped /\ MemoryTyped

\* A burst under way is what the engine waits for: as many beats of the plane that it
\* has not counted yet.
Awaited(at, plane, beats) ==
  /\ state = at => burst.left = beats - beat_cnt /\ burst.next = beat_cnt /\ beat_cnt < beats
  /\ state = at => burst.from[1] = plane

ReadInv ==
  /\ avl_read => state \in Fetching
  /\ burst.left > 0 => state \in Receiving
  /\ waited => avl_read
  /\ avl_read /\ state = "FETCH_U" => avl_address = <<"u", row \div 2>>
  /\ avl_read /\ state = "FETCH_V" => avl_address = <<"v", row \div 2>>
  /\ avl_read /\ state = "FETCH_Y" => avl_address[1] = "y" /\ y_addr_reg = row
  /\ avl_read /\ state = "FETCH_Y" /\ waited => avl_address = <<"y", row>>
  /\ Awaited("RECV_U", "u", UVBeats) /\ Awaited("RECV_V", "v", UVBeats) /\ Awaited("RECV_Y", "y", YBeats)

WriteInv ==
  /\ state # "WRITE" => ~avl_write /\ written = 0
  /\ state = "WRITE" => written = wr_beat
  /\ state = "WRITE" /\ ~avl_write => wr_beat = 0
  /\ avl_write => avl_address = <<"rgb", row>>

BusInv == Typed /\ ReadInv /\ WriteInv

(* The data *)

AfterU == {"FETCH_V", "RECV_V", "GUARD", "FETCH_Y", "RECV_Y", "PROCESS", "WRITE", "NEXT_ROW"}
AfterV == AfterU \ {"FETCH_V", "RECV_V"}

\* The address of the luma is made up a clock before it is used: when the read is first
\* on the bus it is that of an odd row's predecessor, and from the next clock on the row's.
Behind(r) == IF r % 2 = 1 THEN r - 1 ELSE r
AddressInv ==
  /\ state \in {"FETCH_U", "RECV_U", "FETCH_V", "RECV_V", "GUARD"} => row % 2 = 0
  /\ state \in {"RECV_Y", "PROCESS", "WRITE", "NEXT_ROW"} => y_addr_reg = row
  /\ state = "FETCH_Y" /\ ~avl_read => y_addr_reg = Behind(row)
  /\ state = "FETCH_Y" /\ avl_read /\ ~waited => avl_address = <<"y", Behind(row)>>

\* The line buffers hold the row's beats as far as they have arrived.
UInv ==
  /\ state = "RECV_U" => /\ burst.from = <<"u", row \div 2>>
                         /\ \A k \in 0 .. beat_cnt - 1 : u_buf[k] = Beat("u", row \div 2, k)
  /\ state \in AfterU => \A k \in 0 .. UVBeats - 1 : u_buf[k] = Beat("u", row \div 2, k)
VInv ==
  /\ state = "RECV_V" => /\ burst.from = <<"v", row \div 2>>
                         /\ \A k \in 0 .. beat_cnt - 1 : v_buf[k] = Beat("v", row \div 2, k)
  /\ state \in AfterV => \A k \in 0 .. UVBeats - 1 : v_buf[k] = Beat("v", row \div 2, k)
YInv ==
  /\ state = "RECV_Y" => /\ burst.from = <<"y", Luma(row)>>
                         /\ \A k \in 0 .. beat_cnt - 1 : y_buf[k] = Beat("y", Luma(row), k)
  /\ state = "PROCESS" => \A k \in 0 .. YBeats - 1 : y_buf[k] = Beat("y", Luma(row), k)
LinesInv == UInv /\ VInv /\ YInv

\* After t clocks of a row: the pixel that entered last is in front.
Entered(t) ==
  /\ proc_x = IF t < W THEN t ELSE W
  /\ rgb_wr_px = IF t < PipeLength THEN 0 ELSE t - PipeLength
  /\ \A i \in 1 .. PipeLength : pipe[i] = IF t - i \in 0 .. W - 1 THEN Pixel(row, t - i) ELSE Nothing
PipeInv ==
  /\ state = "PROCESS" => \E t \in 0 .. W + PipeLength - 1 : Entered(t)
  /\ state # "PROCESS" => \A i \in 1 .. PipeLength : pipe[i] = Nothing

RowInv ==
  /\ state = "PROCESS" => \A x \in 0 .. rgb_wr_px - 1 : rgb_buf[x] = Pixel(row, x)
  /\ state = "WRITE" => \A x \in 0 .. W - 1 : rgb_buf[x] = Pixel(row, x)
  /\ state = "WRITE" => avl_writedata = pack_beat(wr_beat)

\* A beat of the output, and a row of it, are the pixels that belong there.
BeatRight(r, b) == \A i \in 1 .. PerBeat : mem[r][b][i] = Pixel(r, b * PerBeat + i - 1)
RowRight(r) == \A b \in 0 .. RgbBeats - 1 : BeatRight(r, b)
MemInv ==
  /\ state # "IDLE" => \A r \in 0 .. row - 1 : RowRight(r)
  /\ state = "WRITE" => \A b \in 0 .. written - 1 : BeatRight(row, b)
  /\ state = "NEXT_ROW" => RowRight(row)
  /\ state = "DONE_ST" \/ done => \A r \in 0 .. H - 1 : RowRight(r)

DataInv == AddressInv /\ LinesInv /\ PipeInv /\ RowInv /\ MemInv

(* The end of a frame on its way *)

Bits == BOOLEAN \X BOOLEAN \X BOOLEAN
SyncInv ==
  /\ done \in BOOLEAN /\ done_tgl \in BOOLEAN /\ done_r \in Bits
  /\ starts \in Nat /\ reports \in Nat
  /\ EveryEndReported
-----------------------------------------------------------------------------
(* Sizes *)

LEMMA QuotientBelow ==
  ASSUME NEW b \in Nat, b > 0, NEW q \in Nat, NEW x \in Nat, x < b * q
  PROVE  x \div b \in Nat /\ x \div b < q
<1>1. x \div b \in Nat /\ x \div b >= 0 /\ b * (x \div b) <= x
  OBVIOUS
<1>2. (x \div b >= q) => b * (x \div b) >= b * q
  BY <1>1
<1> QED BY <1>1, <1>2

LEMMA QuotientExact ==
  ASSUME NEW b \in Nat, b > 0, NEW q \in Nat
  PROVE  (b * q) \div b = q
<1> DEFINE x == b * q
<1>1. x \in Nat
  OBVIOUS
<1>2. x \div b \in Nat /\ b * (x \div b) <= x /\ x < b * (x \div b) + b
  BY <1>1
<1>3. (x \div b >= q + 1) => b * (x \div b) >= b * (q + 1)
  BY <1>1, <1>2
<1>4. b * (q + 1) = x + b
  OBVIOUS
<1>5. (x \div b <= q - 1) => b * (x \div b) <= b * (q - 1)
  BY <1>1, <1>2
<1>6. b * (q - 1) = x - b
  OBVIOUS
<1> QED BY <1>1, <1>2, <1>3, <1>4, <1>5, <1>6

LEMMA Wrap ==
  ASSUME NEW n \in Nat, n > 0, NEW x \in 0 .. n - 1
  PROVE  (x + 1) % n = IF x = n - 1 THEN 0 ELSE x + 1
OBVIOUS

\* Rows and beats in numbers: k beats of chroma, two of luma and four of RGB for each.
Counts(k, m) ==
  /\ Lanes = 2 * m /\ PerBeat = m /\ W = (4 * m) * k
  /\ UVBeats = k /\ YBeats = 2 * k /\ RgbBeats = 4 * k

LEMMA Counted == \E k \in Nat \ {0}, m \in Nat \ {0} : Counts(k, m)
<1>1. W \in Nat /\ W > 0 /\ Lanes \in Nat /\ Lanes > 0 /\ Lanes % 2 = 0 /\ W % (2 * Lanes) = 0
  BY SizeAssumption
<1> DEFINE m == Lanes \div 2
           k == W \div (2 * Lanes)
<1>2. m \in Nat \ {0} /\ Lanes = 2 * m
  BY <1>1
<1>3. k \in Nat /\ W = (2 * Lanes) * k
  BY <1>1
<1>4. W = (4 * m) * k
  <2> HIDE DEF m, k
  <2> QED BY <1>2, <1>3
<1>5. k # 0
  <2> HIDE DEF m, k
  <2> QED BY <1>1, <1>3
<1>6. YBeats = 2 * k
  <2>1. W = Lanes * (2 * k)
    <3> HIDE DEF m, k
    <3> QED BY <1>1, <1>3
  <2>2. (Lanes * (2 * k)) \div Lanes = 2 * k
    <3>1. 2 * k \in Nat
      BY <1>3
    <3> HIDE DEF k
    <3> QED BY <1>1, <3>1, QuotientExact
  <2> HIDE DEF k
  <2> QED BY <2>1, <2>2 DEF YBeats
<1>7. RgbBeats = 4 * k
  <2>1. 2 * W = Lanes * (4 * k) /\ 4 * k \in Nat
    <3> HIDE DEF m, k
    <3> QED BY <1>1, <1>3
  <2>2. (Lanes * (4 * k)) \div Lanes = 4 * k
    <3>1. 4 * k \in Nat
      BY <1>3
    <3> HIDE DEF k
    <3> QED BY <1>1, <3>1, QuotientExact
  <2> HIDE DEF k
  <2> QED BY <2>1, <2>2 DEF RgbBeats
<1>8. PerBeat = m /\ UVBeats = k
  BY DEF PerBeat, UVBeats
<1> QED BY <1>2, <1>3, <1>4, <1>5, <1>6, <1>7, <1>8 DEF Counts

LEMMA Sizes ==
  /\ W \in Nat /\ W > 1 /\ H \in Nat /\ H > 0
  /\ UVBeats \in Nat /\ UVBeats > 0 /\ YBeats \in Nat /\ YBeats >= UVBeats
  /\ RgbBeats \in Nat /\ RgbBeats > 1
<1>1. PICK k \in Nat \ {0}, m \in Nat \ {0} : Counts(k, m)
  BY Counted
<1>2. W > 1 /\ YBeats >= k /\ RgbBeats > 1
  BY <1>1 DEF Counts
<1> QED BY <1>1, <1>2, SizeAssumption DEF Counts

LEMMA RowOfBeats ==
  /\ PerBeat \in Nat /\ PerBeat > 0 /\ RgbBeats * PerBeat = W /\ 2 * PerBeat <= W
  /\ Lanes \in Nat /\ Lanes > 0 /\ H % 2 = 0
<1>1. PICK k \in Nat \ {0}, m \in Nat \ {0} : Counts(k, m)
  BY Counted
<1>2. RgbBeats * PerBeat = W /\ 2 * PerBeat <= W
  BY <1>1 DEF Counts
<1> QED BY <1>1, <1>2, SizeAssumption DEF Counts

\* The beats a pixel is made of, and the pixels of a beat, are inside the row.
LEMMA ColumnsInBeats ==
  /\ \A x \in 0 .. W - 1 : x \div Lanes \in 0 .. YBeats - 1 /\ (x \div 2) \div Lanes \in 0 .. UVBeats - 1
  /\ \A b \in 0 .. RgbBeats - 1, i \in 1 .. PerBeat : b * PerBeat + i - 1 \in 0 .. W - 1
<1>1. PICK k \in Nat \ {0}, m \in Nat \ {0} : Counts(k, m)
  BY Counted
<1>2. ASSUME NEW x \in 0 .. W - 1
      PROVE  x \div Lanes \in 0 .. YBeats - 1 /\ (x \div 2) \div Lanes \in 0 .. UVBeats - 1
  <2>1. x \in Nat /\ x < Lanes * (2 * k) /\ Lanes \in Nat /\ Lanes > 0 /\ 2 * k \in Nat
    BY <1>1, Sizes, RowOfBeats DEF Counts
  <2>2. x \div Lanes \in Nat /\ x \div Lanes < 2 * k
    BY <2>1, QuotientBelow
  <2>3. x \div 2 \in Nat /\ x \div 2 < Lanes * k
    BY <2>1
  <2>4. (x \div 2) \div Lanes \in Nat /\ (x \div 2) \div Lanes < k
    BY <2>1, <2>3, QuotientBelow
  <2> QED BY <1>1, <2>2, <2>4 DEF Counts
<1>3. ASSUME NEW b \in 0 .. RgbBeats - 1, NEW i \in 1 .. PerBeat
      PROVE  b * PerBeat + i - 1 \in 0 .. W - 1
  <2>1. b * PerBeat <= (RgbBeats - 1) * PerBeat /\ b * PerBeat >= 0 /\ b * PerBeat \in Nat
    BY Sizes, RowOfBeats
  <2>2. (RgbBeats - 1) * PerBeat = W - PerBeat
    BY Sizes, RowOfBeats
  <2> QED BY <2>1, <2>2, Sizes, RowOfBeats
<1> QED BY <1>2, <1>3

\* Two rows share a row of chroma.
LEMMA ChromaShared ==
  ASSUME NEW r \in 0 .. H - 1
  PROVE  r \div 2 \in 0 .. H - 1 /\ (r % 2 # 1 => (r + 1) \div 2 = r \div 2)
BY Sizes, RowOfBeats
-----------------------------------------------------------------------------
(* Ends of frames *)

\* When a frame is under way, and when its end is announced.
LEMMA Lifecycle ==
  ASSUME TypeOK, NEW t, NEW wait, NEW valid, Clk(t, wait, valid)
  PROVE  /\ done' = (state = "DONE_ST")
         /\ state' # "IDLE" <=> (state = "IDLE" /\ trigger) \/ state \notin {"IDLE", "DONE_ST"}
<1> USE DEF Strobes, Quiet
<1>1. CASE Idle
  BY <1>1 DEF Idle
<1>2. CASE FetchU(wait) \/ FetchV(wait) \/ FetchY(wait)
  BY <1>2 DEF FetchU, FetchV, FetchY, Fetch
<1>3. CASE RecvU(Arrived(valid)) \/ RecvV(Arrived(valid)) \/ RecvY(Arrived(valid))
  BY <1>3 DEF RecvU, RecvV, RecvY, Recv
<1>4. CASE Guard \/ Process \/ Write(wait) \/ NextRow \/ Done
  BY <1>4 DEF Guard, Process, Write, NextRow, AfterRow, Done
<1> QED BY <1>1, <1>2, <1>3, <1>4 DEF Clk

\* The synchroniser moves every end on by a register.
LEMMA MovesOn ==
  ASSUME SyncInv, TypeOK, NEW t, NEW wait, NEW valid, Clk(t, wait, valid)
  PROVE  UnderWay(done_r, done_tgl)' + (IF dma_done THEN 1 ELSE 0)
           = UnderWay(done_r, done_tgl) + (IF state = "DONE_ST" THEN 1 ELSE 0)
<1>1. done_r' = <<done_tgl, done_r[1], done_r[2]>> /\ done_tgl' = (done_tgl # done)
  BY DEF Clk, Synchronise, Shifted
<1>2. {done, done_tgl, done_r[1], done_r[2], done_r[3]} \subseteq BOOLEAN
  BY DEF SyncInv, Bits
<1>3. done' = (state = "DONE_ST")
  BY Lifecycle
<1>4. done_r'[1] = done_tgl /\ done_r'[2] = done_r[1] /\ done_r'[3] = done_r[2]
  BY <1>1
<1>5. (done_tgl' # done_r'[1]) <=> done
  BY <1>1, <1>2, <1>4
<1> DEFINE a == IF done_tgl # done_r[1] THEN 1 ELSE 0
           b == IF done_r[1] # done_r[2] THEN 1 ELSE 0
           c == IF done_r[2] # done_r[3] THEN 1 ELSE 0
           d == IF done THEN 1 ELSE 0
           e == IF state = "DONE_ST" THEN 1 ELSE 0
<1>6. UnderWay(done_r, done_tgl) = d + a + b + c
  BY DEF UnderWay
<1>7. (IF done' THEN 1 ELSE 0) = e /\ (IF done_tgl' # done_r'[1] THEN 1 ELSE 0) = d
  BY <1>3, <1>5, Zenon
<1>8. (IF done_r'[1] # done_r'[2] THEN 1 ELSE 0) = a /\ (IF done_r'[2] # done_r'[3] THEN 1 ELSE 0) = b
  BY <1>4, Zenon
<1>9. UnderWay(done_r, done_tgl)' = e + d + a + b
  <2> HIDE DEF a, b, d, e
  <2> QED BY <1>7, <1>8, Zenon DEF UnderWay
<1>10. (IF dma_done THEN 1 ELSE 0) = c
  <2>1. (done_r[3] # done_r[2]) <=> (done_r[2] # done_r[3])
    OBVIOUS
  <2> QED BY <2>1, Zenon DEF dma_done
<1>11. {a, b, c, d, e} \subseteq Nat
  OBVIOUS
<1> HIDE DEF a, b, c, d, e
<1>12. UnderWay(done_r, done_tgl)' + c = UnderWay(done_r, done_tgl) + e
  BY <1>6, <1>9, <1>11
<1> QED BY <1>10, <1>12, Zenon DEF e

LEMMA SyncInit == Init => SyncInv
<1> SUFFICES ASSUME Init PROVE SyncInv
  OBVIOUS
<1>1. done = FALSE /\ done_tgl = FALSE /\ done_r = <<FALSE, FALSE, FALSE>> /\ starts = 0 /\ reports = 0 /\ state = "IDLE"
  BY DEF Init
<1>2. UnderWay(done_r, done_tgl) = 0
  <2>1. ~done /\ done_tgl = done_r[1] /\ done_r[1] = done_r[2] /\ done_r[2] = done_r[3]
    BY <1>1
  <2> QED BY <2>1 DEF UnderWay
<1>3. done_r \in Bits
  BY <1>1 DEF Bits
<1>4. done \in BOOLEAN /\ done_tgl \in BOOLEAN
  BY <1>1
<1> QED BY <1>1, <1>2, <1>3, <1>4 DEF SyncInv, EveryEndReported

LEMMA SyncNext == TypeOK /\ SyncInv /\ [Next]_vars => SyncInv'
<1> SUFFICES ASSUME TypeOK, SyncInv, [Next]_vars PROVE SyncInv'
  OBVIOUS
<1>1. ASSUME NEW t \in BOOLEAN, NEW wait \in BOOLEAN, NEW valid \in BOOLEAN, Clk(t, wait, valid)
      PROVE  SyncInv'
  <2>1. Synchronise(t)
    BY <1>1 DEF Clk
  <2>2. done' \in BOOLEAN /\ done_tgl' \in BOOLEAN
    BY <1>1, <2>1, Lifecycle DEF Synchronise
  <2>3. done_r' \in Bits
    BY <2>1 DEF Synchronise, Shifted, SyncInv, Bits
  <2>4. starts' = starts + (IF state = "IDLE" /\ trigger THEN 1 ELSE 0)
        /\ reports' = reports + (IF dma_done THEN 1 ELSE 0)
    BY <2>1 DEF Synchronise, SyncInv
  <2>5. UnderWay(done_r, done_tgl) \in Nat /\ UnderWay(done_r, done_tgl)' \in Nat
    BY DEF UnderWay
  <2>6. EveryEndReported'
    BY <1>1, <2>4, <2>5, MovesOn, Lifecycle DEF SyncInv, EveryEndReported
  <2> QED BY <2>2, <2>3, <2>4, <2>6 DEF SyncInv
<1>2. CASE UNCHANGED vars
  BY <1>2 DEF vars, syncVars, SyncInv, EveryEndReported, UnderWay
<1> QED BY <1>1, <1>2 DEF Next
-----------------------------------------------------------------------------
(* Types *)

\* A clock of the pipeline.
LEMMA ShiftSix ==
  ASSUME NEW p, p = [i \in 1 .. 6 |-> p[i]], NEW x, NEW q, q = <<x>> \o SubSeq(p, 1, 5)
  PROVE  /\ q[1] = x /\ q[2] = p[1] /\ q[3] = p[2] /\ q[4] = p[3] /\ q[5] = p[4] /\ q[6] = p[5]
         /\ q = [i \in 1 .. 6 |-> q[i]]
OBVIOUS

LEMMA Shift ==
  ASSUME NEW p, Stages(p), NEW x, NEW q, Clocked(q, x, p)
  PROVE  /\ Stages(q)
         /\ q[1] = x /\ \A i \in 2 .. PipeLength : q[i] = p[i - 1]
<1>1. p = [i \in 1 .. 6 |-> p[i]]
  BY Zenon DEF PipeLength, Stages
<1>2. q = <<x>> \o SubSeq(p, 1, 5)
  <2>1. PipeLength - 1 = 5
    BY DEF PipeLength
  <2> QED BY <2>1, Zenon DEF Clocked
<1>3. q[1] = x /\ q[2] = p[1] /\ q[3] = p[2] /\ q[4] = p[3] /\ q[5] = p[4] /\ q[6] = p[5]
      /\ q = [i \in 1 .. 6 |-> q[i]]
  BY <1>1, <1>2
<1>4. ASSUME NEW i \in 2 .. 6 PROVE q[i] = p[i - 1]
  <2>1. i \in {2, 3, 4, 5, 6}
    OBVIOUS
  <2>2. q[2] = p[2 - 1] /\ q[3] = p[3 - 1] /\ q[4] = p[4 - 1] /\ q[5] = p[5 - 1] /\ q[6] = p[6 - 1]
    <3>1. 2 - 1 = 1 /\ 3 - 1 = 2 /\ 4 - 1 = 3 /\ 5 - 1 = 4 /\ 6 - 1 = 5
      OBVIOUS
    <3> QED BY <1>3, <3>1, Zenon
  <2> QED BY <2>1, <2>2, Zenon
<1> QED BY <1>3, <1>4, Zenon DEF PipeLength, Stages

LEMMA Delivered == ASSUME NEW valid PROVE (Arrived(valid) = Nothing) <=> ~valid
<1>1. <<burst.from, burst.next>> # <<>>
  OBVIOUS
<1> QED BY <1>1 DEF Arrived, Nothing

LEMMA TypedIsTypeOK == Typed => TypeOK
BY Sizes DEF Typed, EngineTyped, MemoryTyped, TypeOK, Addresses

LEMMA TypedInit == Init => Typed
<1> SUFFICES ASSUME Init PROVE Typed
  OBVIOUS
<1>1. pipe = [i \in 1 .. PipeLength |-> Nothing]
  BY DEF Init
<1>2. Stages(pipe)
  BY <1>1 DEF Stages
<1>3. /\ DOMAIN y_buf = 0 .. YBeats - 1 /\ DOMAIN u_buf = 0 .. UVBeats - 1
      /\ DOMAIN v_buf = 0 .. UVBeats - 1 /\ DOMAIN rgb_buf = 0 .. W - 1
  BY DEF Init, Beats
<1>4. DOMAIN mem = 0 .. H - 1 /\ \A r \in 0 .. H - 1 : DOMAIN mem[r] = 0 .. RgbBeats - 1
  BY DEF Init
<1>5. avl_address \in Addresses /\ burst \in [from : Addresses, next : Nat, left : Nat] /\ burst.left <= YBeats
  BY Sizes DEF Init, Addresses
<1>6. row \in 0 .. H - 1 /\ y_addr_reg \in 0 .. H - 1 /\ beat_cnt \in 0 .. YBeats - 1
      /\ wr_beat \in 0 .. RgbBeats - 1 /\ proc_x \in 0 .. W /\ rgb_wr_px \in 0 .. W - 1
      /\ written \in 0 .. RgbBeats - 1
  BY Sizes DEF Init
<1>7. {avl_read, avl_write, done} \subseteq BOOLEAN /\ {trig_tgl, done_tgl, waited} \subseteq BOOLEAN
      /\ state \in States
  BY DEF Init, States
<1> QED BY <1>2, <1>3, <1>4, <1>5, <1>6, <1>7, Zenon DEF Typed, EngineTyped, MemoryTyped

LEMMA EngineNext ==
  ASSUME Typed, ReadInv, NEW t \in BOOLEAN, NEW wait \in BOOLEAN, NEW valid \in BOOLEAN,
         Clk(t, wait, valid)
  PROVE  EngineTyped'
<1> DEFINE Counters == /\ row' \in 0 .. H - 1 /\ y_addr_reg' \in 0 .. H - 1
                       /\ beat_cnt' \in 0 .. YBeats - 1 /\ wr_beat' \in 0 .. RgbBeats - 1
                       /\ proc_x' \in 0 .. W /\ rgb_wr_px' \in 0 .. W - 1
           Lines == /\ DOMAIN y_buf' = 0 .. YBeats - 1 /\ DOMAIN u_buf' = 0 .. UVBeats - 1
                    /\ DOMAIN v_buf' = 0 .. UVBeats - 1 /\ DOMAIN rgb_buf' = 0 .. W - 1
           Bus == state' \in States /\ {avl_read', avl_write', done'} \subseteq BOOLEAN /\ avl_address' \in Addresses
           Moved == Stages(pipe)'
<1> SUFFICES Counters /\ Lines /\ Bus /\ Moved
  BY DEF EngineTyped
<1>1. ASSUME NEW x, Clocked(pipe', x, pipe) PROVE Moved
  <2>1. Stages(pipe)
    BY DEF Typed, EngineTyped
  <2>2. Stages(pipe')
    BY <1>1, <2>1, Shift, Zenon
  <2> QED BY <2>2 DEF Stages
<1>2. NoPixel => Moved
  BY <1>1 DEF NoPixel, Clocked
<1> USE DEF Typed, EngineTyped, Strobes, Quiet, States
<1>14. /\ row \in 0 .. H - 1 /\ y_addr_reg \in 0 .. H - 1
       /\ beat_cnt \in 0 .. YBeats - 1 /\ wr_beat \in 0 .. RgbBeats - 1
       /\ proc_x \in 0 .. W /\ rgb_wr_px \in 0 .. W - 1
  OBVIOUS
<1>3. CASE Idle
  <2>1. Counters
    BY <1>3, Sizes DEF Idle
  <2>2. Lines /\ Bus
    BY <1>3 DEF Idle, lineVars
  <2> QED BY <1>2, <1>3, <2>1, <2>2 DEF Idle
<1>4. ASSUME NEW from, NEW to \in States, NEW a \in Addresses, Fetch(from, to, a, wait), from \in States,
             y_addr_reg' \in 0 .. H - 1
      PROVE  Counters /\ Lines /\ Bus /\ Moved
  <2>1. Counters
    BY <1>4, Sizes DEF Fetch
  <2>2. Lines
    BY <1>4 DEF Fetch, lineVars
  <2>3. Bus
    BY <1>4 DEF Fetch
  <2> QED BY <1>2, <1>4, <2>1, <2>2, <2>3 DEF Fetch
<1>5. CASE FetchU(wait) \/ FetchV(wait) \/ FetchY(wait)
  <2>1. <<"u", row \div 2>> \in Addresses /\ <<"v", row \div 2>> \in Addresses /\ <<"y", y_addr_reg>> \in Addresses
    BY ChromaShared DEF Addresses
  <2> QED BY <1>4, <1>5, <2>1 DEF FetchU, FetchV, FetchY
<1>6. ASSUME NEW from, NEW to \in States, NEW beats \in Nat, NEW x, Recv(from, to, beats, x), from \in States,
             beats <= YBeats, beat_cnt < beats
      PROVE  beat_cnt' \in 0 .. YBeats - 1 /\ UNCHANGED <<row, wr_beat, y_addr_reg, rgb_buf>> /\ Bus /\ Moved
  <2>1. beat_cnt' \in 0 .. YBeats - 1
    <3>1. beat_cnt' = beat_cnt \/ (beat_cnt # beats - 1 /\ beat_cnt' = beat_cnt + 1)
      BY <1>6 DEF Recv, LastBeat
    <3>2. beat_cnt \in 0 .. YBeats - 1 /\ YBeats \in Nat
      BY Sizes
    <3> HIDE DEF Typed, EngineTyped
    <3> QED BY <1>6, <3>1, <3>2
  <2> QED BY <1>2, <1>6, <2>1 DEF Recv
<1>7. CASE RecvU(Arrived(valid)) \/ RecvV(Arrived(valid))
  <2>1. beat_cnt < UVBeats
    BY <1>7 DEF RecvU, RecvV, Recv, ReadInv, Awaited
  <2>2. beat_cnt' \in 0 .. YBeats - 1 /\ UNCHANGED <<row, wr_beat, y_addr_reg, rgb_buf>> /\ Bus /\ Moved
    BY <1>6, <1>7, <2>1, Sizes DEF RecvU, RecvV
  <2>3. Lines
    BY <1>7, <2>2 DEF RecvU, RecvV, Filled
  <2>4. UNCHANGED <<proc_x, rgb_wr_px>>
    BY <1>7 DEF RecvU, RecvV
  <2> QED BY <2>2, <2>3, <2>4
<1>8. CASE RecvY(Arrived(valid))
  <2>1. beat_cnt < YBeats
    BY <1>8 DEF RecvY, Recv, ReadInv, Awaited
  <2>2. beat_cnt' \in 0 .. YBeats - 1 /\ UNCHANGED <<row, wr_beat, y_addr_reg, rgb_buf>> /\ Bus /\ Moved
    <3>1. Recv("RECV_Y", "PROCESS", YBeats, Arrived(valid))
      BY <1>8 DEF RecvY
    <3>2. YBeats \in Nat /\ YBeats <= YBeats /\ "RECV_Y" \in States /\ "PROCESS" \in States
      BY Sizes
    <3> HIDE DEF Counters, Lines, Bus, Moved, States, Typed, EngineTyped
    <3> QED BY <1>6, <2>1, <3>1, <3>2
  <2>3. Lines
    BY <1>8, <2>2 DEF RecvY, Filled
  <2>4. proc_x' \in 0 .. W /\ rgb_wr_px' \in 0 .. W - 1
    BY <1>8, Sizes DEF RecvY
  <2> QED BY <2>2, <2>3, <2>4
<1>9. CASE Guard
  <2>1. Counters
    BY <1>9 DEF Guard
  <2>2. Lines /\ Bus
    BY <1>9 DEF Guard, lineVars
  <2> QED BY <1>2, <1>9, <2>1, <2>2 DEF Guard
<1>10. CASE Process
  <2>1. Moved
    <3>1. PICK x : Clocked(pipe', x, pipe)
      BY <1>10 DEF Process, NoPixel, Clocked
    <3> QED BY <1>1, <3>1
  <2>2. Counters
    <3>1. UNCHANGED <<row, beat_cnt, y_addr_reg>>
      BY <1>10 DEF Process
    <3>2. proc_x' = proc_x \/ (proc_x < W /\ proc_x' = proc_x + 1)
      BY <1>10 DEF Process
    <3>3. rgb_wr_px' = rgb_wr_px \/ (rgb_wr_px # W - 1 /\ rgb_wr_px' = rgb_wr_px + 1)
      BY <1>10 DEF Process
    <3>4. wr_beat' = wr_beat \/ wr_beat' = 0
      BY <1>10 DEF Process
    <3> HIDE DEF Typed, EngineTyped
    <3> QED BY <1>14, <3>1, <3>2, <3>3, <3>4, Sizes
  <2>3. Lines /\ Bus
    BY <1>10 DEF Process
  <2> QED BY <2>1, <2>2, <2>3
<1>11. CASE Write(wait)
  <2>1. Counters
    BY <1>11, Sizes DEF Write
  <2>2. Lines
    BY <1>11 DEF Write, lineVars
  <2>3. Bus
    BY <1>11 DEF Write, Addresses
  <2> QED BY <1>2, <1>11, <2>1, <2>2, <2>3 DEF Write
<1>12. CASE NextRow
  <2>1. Counters
    <3>1. row' = row \/ (row # H - 1 /\ row' = row + 1)
      BY <1>12 DEF NextRow
    <3>2. UNCHANGED <<beat_cnt, proc_x, rgb_wr_px, wr_beat, y_addr_reg>>
      BY <1>12 DEF NextRow
    <3> HIDE DEF Typed, EngineTyped
    <3> QED BY <1>14, <3>1, <3>2, Sizes
  <2>2. Lines /\ Bus
    BY <1>12 DEF NextRow, AfterRow, lineVars
  <2> QED BY <1>2, <1>12, <2>1, <2>2 DEF NextRow
<1>13. CASE Done
  BY <1>2, <1>13 DEF Done, countVars, lineVars
<1> QED BY <1>3, <1>5, <1>7, <1>8, <1>9, <1>10, <1>11, <1>12, <1>13 DEF Clk

LEMMA MemoryNext ==
  ASSUME Typed, NEW t \in BOOLEAN, NEW wait \in BOOLEAN, NEW valid \in BOOLEAN, Clk(t, wait, valid)
  PROVE  MemoryTyped'
<1>1. Synchronise(t) /\ ServeRead(wait, valid) /\ ServeWrite(wait)
  BY DEF Clk
<1>2. {trig_tgl', done_tgl', waited'} \subseteq BOOLEAN
  BY <1>1 DEF Synchronise, ServeRead, Typed, EngineTyped
<1>3. burst' \in [from : Addresses, next : Nat, left : Nat] /\ burst'.left <= YBeats
  <2>1. BurstLength(avl_address) \in Nat /\ BurstLength(avl_address) <= YBeats
    BY Sizes DEF BurstLength
  <2>2. burst \in [from : Addresses, next : Nat, left : Nat] /\ burst.left <= YBeats /\ avl_address \in Addresses
    BY DEF Typed, MemoryTyped, EngineTyped
  <2>3. CASE avl_read /\ ~wait
    BY <1>1, <2>1, <2>2, <2>3 DEF ServeRead
  <2>4. CASE ~(avl_read /\ ~wait) /\ valid
    <3>1. burst' = [burst EXCEPT !.next = burst.next + 1, !.left = burst.left - 1] /\ burst.left > 0
      BY <1>1, <2>4 DEF ServeRead
    <3>2. burst.next + 1 \in Nat /\ burst.left - 1 \in Nat /\ burst.left - 1 <= YBeats
      BY <2>2, <3>1, Sizes
    <3> QED BY <2>2, <3>1, <3>2
  <2>5. CASE ~(avl_read /\ ~wait) /\ ~valid
    BY <1>1, <2>2, <2>5 DEF ServeRead
  <2> QED BY <2>3, <2>4, <2>5
<1>4. written' \in 0 .. RgbBeats - 1
  BY SMTT(30), <1>1, Wrap, Sizes DEF ServeWrite, Typed, MemoryTyped
<1>5. DOMAIN mem' = 0 .. H - 1 /\ \A r \in 0 .. H - 1 : DOMAIN mem'[r] = 0 .. RgbBeats - 1
  BY <1>1 DEF ServeWrite, Typed, MemoryTyped
<1> QED BY <1>2, <1>3, <1>4, <1>5 DEF MemoryTyped
-----------------------------------------------------------------------------
(* Bursts *)

\* Nothing on the bus and nothing under way.
LEMMA NothingRead ==
  ASSUME ~avl_read', ~waited', ~(burst'.left > 0), state' \notin Receiving
  PROVE  ReadInv'
BY DEF ReadInv, Awaited, Receiving

LEMMA ReadNext ==
  ASSUME Typed, ReadInv, NEW t \in BOOLEAN, NEW wait \in BOOLEAN, NEW valid \in BOOLEAN,
         Clk(t, wait, valid)
  PROVE  ReadInv'
<1>1. ServeRead(wait, valid)
  BY DEF Clk
<1>2. waited' = (avl_read /\ wait)
  BY <1>1 DEF ServeRead
<1>3. valid => state \in Receiving
  BY <1>1 DEF ServeRead, ReadInv
<1>4. ~avl_read /\ ~valid => burst' = burst
  BY <1>1 DEF ServeRead
<1>5. CASE Idle \/ Guard \/ Process \/ Write(wait) \/ NextRow \/ Done
  <2>1. state \notin Fetching \cup Receiving /\ ~avl_read' /\ state' \notin Receiving
    BY <1>5 DEF Idle, Guard, Process, Write, NextRow, AfterRow, Done, Strobes, Quiet, Fetching, Receiving
  <2>2. ~avl_read /\ ~(burst.left > 0)
    BY <2>1 DEF ReadInv
  <2> QED BY <1>2, <1>3, <1>4, <2>1, <2>2, NothingRead
<1>6. ASSUME NEW from \in Fetching, NEW to, NEW a, Fetch(from, to, a, wait)
      PROVE  /\ ~valid /\ state = from /\ beat_cnt' = 0 /\ row' = row /\ avl_address' = a
             /\ \/ avl_read /\ ~wait /\ state' = to /\ ~avl_read' /\ ~waited'
                   /\ burst' = [from |-> avl_address, next |-> 0, left |-> BurstLength(avl_address)]
                \/ (~avl_read \/ wait) /\ state' = from /\ avl_read' /\ ~(burst'.left > 0)
  <2>1. ~valid /\ ~(burst.left > 0) /\ state = from
    BY <1>3, <1>6 DEF Fetch, ReadInv, Fetching, Receiving
  <2>2. CASE avl_read /\ ~wait
    BY <1>1, <1>6, <2>1, <2>2 DEF Fetch, Strobes, ServeRead
  <2>3. CASE ~avl_read \/ wait
    <3>1. burst' = burst
      BY <1>1, <2>1, <2>3 DEF ServeRead
    <3> QED BY <1>6, <2>1, <2>3, <3>1 DEF Fetch, Strobes
  <2> QED BY <2>2, <2>3
<1>7. CASE FetchU(wait)
  <2>1. Fetch("FETCH_U", "RECV_U", <<"u", row \div 2>>, wait)
    BY <1>7 DEF FetchU
  <2>2. avl_read => BurstLength(avl_address) = UVBeats /\ avl_address[1] = "u"
    BY <2>1 DEF Fetch, ReadInv, BurstLength
  <2> QED BY <1>2, <1>6, <2>1, <2>2, Sizes DEF ReadInv, Awaited, Fetching, Receiving
<1>8. CASE FetchV(wait)
  <2>1. Fetch("FETCH_V", "RECV_V", <<"v", row \div 2>>, wait)
    BY <1>8 DEF FetchV
  <2>2. avl_read => BurstLength(avl_address) = UVBeats /\ avl_address[1] = "v"
    BY <2>1 DEF Fetch, ReadInv, BurstLength
  <2> QED BY <1>2, <1>6, <2>1, <2>2, Sizes DEF ReadInv, Awaited, Fetching, Receiving
<1>9. CASE FetchY(wait)
  <2>1. Fetch("FETCH_Y", "RECV_Y", <<"y", y_addr_reg>>, wait) /\ y_addr_reg' = row
    BY <1>9 DEF FetchY
  <2>2. avl_read => BurstLength(avl_address) = YBeats /\ avl_address[1] = "y" /\ y_addr_reg = row
    BY <2>1 DEF Fetch, ReadInv, BurstLength
  <2> QED BY <1>2, <1>6, <2>1, <2>2, Sizes DEF ReadInv, Awaited, Fetching, Receiving
<1>10. ASSUME NEW from \in Receiving, NEW to, to \notin Receiving, NEW beats \in Nat,
              Recv(from, to, beats, Arrived(valid)),
              burst.left = beats - beat_cnt, burst.next = beat_cnt, beat_cnt < beats
       PROVE  /\ ~avl_read' /\ ~waited' /\ burst'.from = burst.from
              /\ \/ state' = to /\ ~(burst'.left > 0)
                 \/ state' = from /\ burst'.left = beats - beat_cnt' /\ burst'.next = beat_cnt' /\ beat_cnt' < beats
  <2>1. ~avl_read /\ ~avl_read'
    BY <1>10 DEF Recv, ReadInv, Fetching, Receiving, Quiet, Strobes
  <2>2. beat_cnt \in Nat
    BY Sizes DEF Typed, EngineTyped
  <2>3. burst \in [from : Addresses, next : Nat, left : Nat]
    BY DEF Typed, MemoryTyped
  <2>4. CASE ~valid
    BY <1>2, <1>4, <1>10, <2>1, <2>4, Delivered DEF Recv
  <2>5. CASE valid
    <3>1. burst' = [burst EXCEPT !.next = burst.next + 1, !.left = burst.left - 1]
      BY <1>1, <2>1, <2>5 DEF ServeRead
    <3>2. burst'.from = burst.from /\ burst'.next = beat_cnt + 1 /\ burst'.left = beats - beat_cnt - 1
      BY <1>10, <2>2, <2>3, <3>1
    <3>3. state' = (IF beat_cnt = beats - 1 THEN to ELSE from)
          /\ beat_cnt' = (IF beat_cnt = beats - 1 THEN beat_cnt ELSE beat_cnt + 1)
      BY <1>10, <2>5, Delivered DEF Recv, LastBeat
    <3>4. CASE beat_cnt = beats - 1
      <4>1. ~(burst'.left > 0) /\ state' = to
        BY <2>2, <3>2, <3>3, <3>4
      <4>2. ~waited'
        BY <1>2, <2>1
      <4> QED BY <2>1, <3>2, <4>1, <4>2
    <3>5. CASE beat_cnt # beats - 1
      <4>1. burst'.left = beats - beat_cnt' /\ burst'.next = beat_cnt' /\ beat_cnt' < beats /\ state' = from
        BY <1>10, <2>2, <3>2, <3>3, <3>5
      <4> QED BY <1>2, <2>1, <3>2, <4>1
    <3> QED BY <3>4, <3>5
  <2> QED BY <2>4, <2>5
<1>11. CASE RecvU(Arrived(valid))
  <2>1. Recv("RECV_U", "FETCH_V", UVBeats, Arrived(valid))
    BY <1>11 DEF RecvU
  <2>2. Awaited("RECV_U", "u", UVBeats) /\ state = "RECV_U"
    BY <2>1 DEF Recv, ReadInv
  <2> QED BY <1>10, <2>1, <2>2, Sizes DEF ReadInv, Awaited, Fetching, Receiving
<1>12. CASE RecvV(Arrived(valid))
  <2>1. Recv("RECV_V", "GUARD", UVBeats, Arrived(valid))
    BY <1>12 DEF RecvV
  <2>2. Awaited("RECV_V", "v", UVBeats) /\ state = "RECV_V"
    BY <2>1 DEF Recv, ReadInv
  <2> QED BY <1>10, <2>1, <2>2, Sizes DEF ReadInv, Awaited, Fetching, Receiving
<1>13. CASE RecvY(Arrived(valid))
  <2>1. Recv("RECV_Y", "PROCESS", YBeats, Arrived(valid))
    BY <1>13 DEF RecvY
  <2>2. Awaited("RECV_Y", "y", YBeats) /\ state = "RECV_Y"
    BY <2>1 DEF Recv, ReadInv
  <2> QED BY <1>10, <2>1, <2>2, Sizes DEF ReadInv, Awaited, Fetching, Receiving
<1> QED BY <1>5, <1>7, <1>8, <1>9, <1>11, <1>12, <1>13 DEF Clk

LEMMA WriteNext ==
  ASSUME Typed, WriteInv, NEW t \in BOOLEAN, NEW wait \in BOOLEAN, NEW valid \in BOOLEAN,
         Clk(t, wait, valid)
  PROVE  WriteInv'
<1>1. ServeWrite(wait)
  BY DEF Clk
<1>2. ~avl_write \/ wait => written' = written
  BY <1>1 DEF ServeWrite
<1>3. state # "WRITE" => ~avl_write /\ written' = 0
  BY <1>2 DEF WriteInv
<1>4. ASSUME state # "WRITE", state' # "WRITE", ~avl_write' PROVE WriteInv'
  BY <1>3, <1>4 DEF WriteInv
<1>5. CASE Idle \/ Guard \/ NextRow \/ Done
  BY <1>4, <1>5 DEF Idle, Guard, NextRow, AfterRow, Done, Quiet, Strobes
<1>6. CASE FetchU(wait) \/ FetchV(wait) \/ FetchY(wait)
  BY <1>4, <1>6 DEF FetchU, FetchV, FetchY, Fetch, Strobes
<1>7. CASE RecvU(Arrived(valid)) \/ RecvV(Arrived(valid)) \/ RecvY(Arrived(valid))
  BY <1>4, <1>7 DEF RecvU, RecvV, RecvY, Recv, Quiet, Strobes
<1>8. CASE Process
  <2>1. state = "PROCESS" /\ ~avl_write' /\ (state' = "WRITE" => wr_beat' = 0)
    BY <1>8 DEF Process, Strobes
  <2> QED BY <1>3, <2>1 DEF WriteInv
<1>9. CASE Write(wait)
  <2>1. written = wr_beat /\ wr_beat \in 0 .. RgbBeats - 1 /\ state = "WRITE"
    BY <1>9 DEF Write, WriteInv, Typed, EngineTyped
  <2>2. CASE ~avl_write \/ wait
    BY <1>2, <1>9, <2>1, <2>2 DEF Write, Strobes, WriteInv
  <2>3. CASE avl_write /\ ~wait
    <3>1. written' = (wr_beat + 1) % RgbBeats
      BY <1>1, <2>1, <2>3 DEF ServeWrite
    <3>2. written' = IF wr_beat = RgbBeats - 1 THEN 0 ELSE wr_beat + 1
      BY <2>1, <3>1, Wrap, Sizes
    <3> QED BY <1>9, <2>1, <2>3, <3>2 DEF Write, Strobes, WriteInv
  <2> QED BY <2>2, <2>3
<1> QED BY <1>5, <1>6, <1>7, <1>8, <1>9 DEF Clk

LEMMA BusInit == Init => BusInv
<1> SUFFICES ASSUME Init PROVE BusInv
  OBVIOUS
<1>1. state = "IDLE" /\ ~avl_read /\ ~avl_write /\ ~waited /\ burst.left = 0 /\ written = 0
  BY DEF Init
<1>2. ReadInv /\ WriteInv
  BY <1>1 DEF ReadInv, WriteInv, Awaited
<1> QED BY <1>2, TypedInit DEF BusInv

\* A step without a clock edge changes nothing.
LEMMA BusStutter == BusInv /\ UNCHANGED vars => BusInv'
<1> SUFFICES ASSUME BusInv, UNCHANGED vars PROVE BusInv'
  OBVIOUS
<1>1. UNCHANGED <<state, row, beat_cnt, proc_x, rgb_wr_px, wr_beat, y_addr_reg, y_buf, u_buf, v_buf,
                  rgb_buf, pipe, avl_read, avl_write, avl_address, done, trig_tgl, done_tgl,
                  waited, burst, written, mem>>
  BY DEF vars, countVars, lineVars, syncVars, memoryVars
<1>2. Typed'
  BY <1>1 DEF BusInv, Typed, EngineTyped, MemoryTyped, Stages
<1>3. ReadInv' /\ WriteInv'
  BY <1>1 DEF BusInv, ReadInv, WriteInv, Awaited
<1> QED BY <1>2, <1>3 DEF BusInv

LEMMA BusNext == BusInv /\ [Next]_vars => BusInv'
<1>1. ASSUME BusInv, NEW t \in BOOLEAN, NEW wait \in BOOLEAN, NEW valid \in BOOLEAN, Clk(t, wait, valid)
      PROVE  BusInv'
  <2>1. EngineTyped' /\ MemoryTyped'
    BY <1>1, EngineNext, MemoryNext DEF BusInv
  <2>2. ReadInv' /\ WriteInv'
    BY <1>1, ReadNext, WriteNext DEF BusInv
  <2> QED BY <2>1, <2>2 DEF BusInv, Typed
<1> QED BY <1>1, BusStutter DEF Next

LEMMA BusInvariance == Spec => []BusInv
BY BusInit, BusNext, PTL DEF Spec

\* No counter and no index of the engine leaves its range, for rows of any size.
THEOREM TypeCorrect == Spec => []TypeOK
<1>1. BusInv => TypeOK
  BY TypedIsTypeOK DEF BusInv
<1> QED BY <1>1, BusInvariance, PTL

\* Read and write bursts are neither doubled nor cut, whatever the memory's delays.
THEOREM BurstsWhole == Spec => []WholeBursts
<1>1. BusInv => WholeBursts
  BY DEF BusInv, ReadInv, WriteInv, WholeBursts, Fetching, Receiving
<1> QED BY <1>1, BusInvariance, PTL

\* The two toggles between the clock domains carry every end of a frame once.
THEOREM EndsReported == Spec => []EveryEndReported
<1>1. SyncInv => EveryEndReported
  BY DEF SyncInv
<1> QED BY <1>1, SyncInit, SyncNext, TypeCorrect, PTL DEF Spec
-----------------------------------------------------------------------------
(* Line buffers *)

\* The beat a read burst delivers has the number the engine counts.
LEMMA Numbered ==
  ASSUME Typed, ReadInv, state \in Receiving, NEW valid \in BOOLEAN
  PROVE  Arrived(valid) = IF valid THEN <<burst.from, beat_cnt>> ELSE Nothing
BY DEF Receiving, ReadInv, Awaited, Arrived

LEMMA LineFilled ==
  ASSUME NEW n \in Nat, NEW k \in 0 .. n - 1, NEW from, NEW line, DOMAIN line = 0 .. n - 1,
         \A j \in 0 .. k - 1 : line[j] = <<from, j>>
  PROVE  \A j \in 0 .. k : [line EXCEPT ![k] = <<from, k>>][j] = <<from, j>>
OBVIOUS

\* A receiving state: what arrived is in the buffer, and the burst is the same.
LEMMA Receives ==
  ASSUME Typed, ReadInv, NEW wait \in BOOLEAN, NEW valid \in BOOLEAN, ServeRead(wait, valid),
         NEW from \in Receiving, NEW to, to \notin Receiving, NEW beats \in Nat,
         Recv(from, to, beats, Arrived(valid)), beat_cnt < beats,
         NEW line, DOMAIN line = 0 .. beats - 1, NEW after, after = Filled(line, Arrived(valid)),
         \A k \in 0 .. beat_cnt - 1 : line[k] = <<burst.from, k>>
  PROVE  /\ row' = row
         /\ \/ /\ state' = from /\ burst'.from = burst.from
               /\ \A k \in 0 .. beat_cnt' - 1 : after[k] = <<burst.from, k>>
            \/ state' = to /\ \A k \in 0 .. beats - 1 : after[k] = <<burst.from, k>>
<1>1. beat_cnt \in Nat /\ beat_cnt \in 0 .. beats - 1
  BY Sizes DEF Typed, EngineTyped
<1>2. ~avl_read /\ state = from /\ row' = row
  BY DEF Recv, ReadInv, Fetching, Receiving
<1>3. CASE ~valid
  <2>1. Arrived(valid) = Nothing
    BY <1>3, Delivered
  <2>2. state' = from /\ beat_cnt' = beat_cnt /\ after = line /\ burst' = burst
    BY <1>2, <1>3, <2>1 DEF Recv, Filled, ServeRead
  <2> QED BY <1>2, <2>2
<1>4. CASE valid
  <2>1. Arrived(valid) = <<burst.from, beat_cnt>> /\ Arrived(valid) # Nothing
    BY <1>2, <1>4, Numbered, Delivered
  <2>2. after = [line EXCEPT ![beat_cnt] = <<burst.from, beat_cnt>>]
    BY <2>1, Zenon DEF Filled
  <2>3. \A k \in 0 .. beat_cnt : after[k] = <<burst.from, k>>
    BY <1>1, <2>2, LineFilled
  <2>4. CASE beat_cnt = beats - 1
    <3>1. state' = to
      BY <2>1, <2>4 DEF Recv, LastBeat
    <3> QED BY <1>2, <2>3, <2>4, <3>1
  <2>5. CASE beat_cnt # beats - 1
    <3>1. state' = from /\ beat_cnt' - 1 = beat_cnt
      BY <1>1, <2>1, <2>5 DEF Recv, LastBeat
    <3>2. burst' = [burst EXCEPT !.next = burst.next + 1, !.left = burst.left - 1]
      BY <1>2, <1>4 DEF ServeRead
    <3>3. burst'.from = burst.from
      BY <3>2 DEF Typed, MemoryTyped
    <3> QED BY <1>2, <2>3, <3>1, <3>3
  <2> QED BY <2>4, <2>5
<1> QED BY <1>3, <1>4

\* A fetching state: the burst accepted is the one on the bus.
LEMMA Fetches ==
  ASSUME NEW wait \in BOOLEAN, NEW valid \in BOOLEAN, ServeRead(wait, valid),
         NEW from, NEW to, NEW a, Fetch(from, to, a, wait)
  PROVE  /\ row' = row /\ beat_cnt' = 0 /\ UNCHANGED lineVars
         /\ state' = from \/ (state' = to /\ avl_read /\ ~wait /\ burst'.from = avl_address)
BY DEF Fetch, ServeRead

LEMMA UNext ==
  ASSUME BusInv, UInv, NEW t \in BOOLEAN, NEW wait \in BOOLEAN, NEW valid \in BOOLEAN,
         Clk(t, wait, valid)
  PROVE  UInv'
<1>1. ServeRead(wait, valid)
  BY DEF Clk
<1>2. ASSUME state' \in {"IDLE", "FETCH_U", "DONE_ST"} PROVE UInv'
  BY <1>2 DEF UInv, AfterU
<1>3. ASSUME state \in AfterU, state' \in AfterU, row' = row, u_buf' = u_buf PROVE UInv'
  BY <1>3 DEF UInv, AfterU
<1>4. CASE Idle \/ Done
  BY <1>2, <1>4 DEF Idle, Done
<1>5. CASE FetchU(wait)
  <2>1. Fetch("FETCH_U", "RECV_U", <<"u", row \div 2>>, wait) /\ state = "FETCH_U"
    BY <1>5 DEF FetchU, Fetch
  <2>2. avl_read => avl_address = <<"u", row \div 2>>
    BY <2>1 DEF BusInv, ReadInv
  <2>3. CASE state' = "FETCH_U"
    BY <1>2, <2>3
  <2>4. CASE state' = "RECV_U"
    <3>1. burst'.from = <<"u", row \div 2>> /\ row' = row /\ beat_cnt' = 0
      BY <1>1, <2>1, <2>2, <2>4, Fetches
    <3> QED BY <2>4, <3>1 DEF UInv, AfterU
  <2> QED BY <1>1, <2>1, <2>3, <2>4, Fetches
<1>6. CASE RecvU(Arrived(valid))
  <2>1. Recv("RECV_U", "FETCH_V", UVBeats, Arrived(valid)) /\ u_buf' = Filled(u_buf, Arrived(valid))
    BY <1>6 DEF RecvU
  <2>2. state = "RECV_U" /\ beat_cnt < UVBeats /\ burst.from = <<"u", row \div 2>> /\ DOMAIN u_buf = 0 .. UVBeats - 1
    BY <2>1 DEF Recv, BusInv, Typed, EngineTyped, ReadInv, Awaited, UInv
  <2>3. \A k \in 0 .. beat_cnt - 1 : u_buf[k] = <<burst.from, k>>
    BY <2>2 DEF UInv, Beat
  <2>4. /\ row' = row
        /\ \/ /\ state' = "RECV_U" /\ burst'.from = burst.from
              /\ \A k \in 0 .. beat_cnt' - 1 : u_buf'[k] = <<burst.from, k>>
           \/ state' = "FETCH_V" /\ \A k \in 0 .. UVBeats - 1 : u_buf'[k] = <<burst.from, k>>
    <3>1. "RECV_U" \in Receiving /\ "FETCH_V" \notin Receiving /\ UVBeats \in Nat /\ Typed /\ ReadInv
      BY Sizes DEF Receiving, BusInv
    <3>2. PICK line, after : line = u_buf /\ after = u_buf'
      OBVIOUS
    <3>3. /\ row' = row
          /\ \/ /\ state' = "RECV_U" /\ burst'.from = burst.from
                /\ \A k \in 0 .. beat_cnt' - 1 : after[k] = <<burst.from, k>>
             \/ state' = "FETCH_V" /\ \A k \in 0 .. UVBeats - 1 : after[k] = <<burst.from, k>>
      <4>1. DOMAIN line = 0 .. UVBeats - 1 /\ after = Filled(line, Arrived(valid))
            /\ \A k \in 0 .. beat_cnt - 1 : line[k] = <<burst.from, k>>
        BY <2>1, <2>2, <2>3, <3>2
      <4> QED BY <1>1, <2>1, <2>2, <3>1, <4>1, Receives
    <3> QED BY <3>2, <3>3
  <2> QED BY <2>2, <2>4 DEF UInv, AfterU, Beat
<1>7. CASE FetchV(wait) \/ FetchY(wait)
  BY <1>1, <1>3, <1>7, Fetches DEF FetchV, FetchY, Fetch, AfterU, lineVars
<1>8. CASE RecvV(Arrived(valid)) \/ RecvY(Arrived(valid))
  BY <1>3, <1>8 DEF RecvV, RecvY, Recv, AfterU
<1>9. CASE Guard \/ Process \/ Write(wait)
  BY <1>3, <1>9 DEF Guard, Process, Write, AfterU, lineVars
<1>10. CASE NextRow
  <2>1. CASE state' = "FETCH_Y"
    <3>1. row % 2 # 1 /\ row' = row + 1 /\ u_buf' = u_buf /\ state = "NEXT_ROW"
      BY <1>10, <2>1 DEF NextRow, AfterRow, lineVars
    <3>2. row' \div 2 = row \div 2
      BY <3>1, ChromaShared DEF BusInv, Typed, EngineTyped
    <3> QED BY <2>1, <3>1, <3>2 DEF UInv, AfterU
  <2> QED BY <1>2, <1>10, <2>1 DEF NextRow, AfterRow
<1> QED BY <1>4, <1>5, <1>6, <1>7, <1>8, <1>9, <1>10 DEF Clk

LEMMA VNext ==
  ASSUME BusInv, VInv, NEW t \in BOOLEAN, NEW wait \in BOOLEAN, NEW valid \in BOOLEAN,
         Clk(t, wait, valid)
  PROVE  VInv'
<1>1. ServeRead(wait, valid)
  BY DEF Clk
<1>2. ASSUME state' \in {"IDLE", "FETCH_U", "RECV_U", "FETCH_V", "DONE_ST"} PROVE VInv'
  BY <1>2 DEF VInv, AfterU, AfterV
<1>3. ASSUME state \in AfterV, state' \in AfterV, row' = row, v_buf' = v_buf PROVE VInv'
  BY <1>3 DEF VInv, AfterU, AfterV
<1>4. CASE Idle \/ Done
  BY <1>2, <1>4 DEF Idle, Done
<1>5. CASE FetchU(wait) \/ RecvU(Arrived(valid))
  BY <1>2, <1>5 DEF FetchU, Fetch, RecvU, Recv
<1>6. CASE FetchV(wait)
  <2>1. Fetch("FETCH_V", "RECV_V", <<"v", row \div 2>>, wait) /\ state = "FETCH_V"
    BY <1>6 DEF FetchV, Fetch
  <2>2. avl_read => avl_address = <<"v", row \div 2>>
    BY <2>1 DEF BusInv, ReadInv
  <2>3. CASE state' = "FETCH_V"
    BY <1>2, <2>3
  <2>4. CASE state' = "RECV_V"
    <3>1. burst'.from = <<"v", row \div 2>> /\ row' = row /\ beat_cnt' = 0
      BY <1>1, <2>1, <2>2, <2>4, Fetches
    <3> QED BY <2>4, <3>1 DEF VInv, AfterU, AfterV
  <2> QED BY <1>1, <2>1, <2>3, <2>4, Fetches
<1>7. CASE RecvV(Arrived(valid))
  <2>1. Recv("RECV_V", "GUARD", UVBeats, Arrived(valid)) /\ v_buf' = Filled(v_buf, Arrived(valid))
    BY <1>7 DEF RecvV
  <2>2. state = "RECV_V" /\ beat_cnt < UVBeats /\ burst.from = <<"v", row \div 2>> /\ DOMAIN v_buf = 0 .. UVBeats - 1
    BY <2>1 DEF Recv, BusInv, Typed, EngineTyped, ReadInv, Awaited, VInv
  <2>3. \A k \in 0 .. beat_cnt - 1 : v_buf[k] = <<burst.from, k>>
    BY <2>2 DEF VInv, Beat
  <2>4. /\ row' = row
        /\ \/ /\ state' = "RECV_V" /\ burst'.from = burst.from
              /\ \A k \in 0 .. beat_cnt' - 1 : v_buf'[k] = <<burst.from, k>>
           \/ state' = "GUARD" /\ \A k \in 0 .. UVBeats - 1 : v_buf'[k] = <<burst.from, k>>
    <3>1. "RECV_V" \in Receiving /\ "GUARD" \notin Receiving /\ UVBeats \in Nat /\ Typed /\ ReadInv
      BY Sizes DEF Receiving, BusInv
    <3>2. PICK line, after : line = v_buf /\ after = v_buf'
      OBVIOUS
    <3>3. /\ row' = row
          /\ \/ /\ state' = "RECV_V" /\ burst'.from = burst.from
                /\ \A k \in 0 .. beat_cnt' - 1 : after[k] = <<burst.from, k>>
             \/ state' = "GUARD" /\ \A k \in 0 .. UVBeats - 1 : after[k] = <<burst.from, k>>
      <4>1. DOMAIN line = 0 .. UVBeats - 1 /\ after = Filled(line, Arrived(valid))
            /\ \A k \in 0 .. beat_cnt - 1 : line[k] = <<burst.from, k>>
        BY <2>1, <2>2, <2>3, <3>2
      <4> QED BY <1>1, <2>1, <2>2, <3>1, <4>1, Receives
    <3> QED BY <3>2, <3>3
  <2> QED BY <2>2, <2>4 DEF VInv, AfterU, AfterV, Beat
<1>8. CASE FetchY(wait)
  BY <1>1, <1>3, <1>8, Fetches DEF FetchY, Fetch, AfterU, AfterV, lineVars
<1>9. CASE RecvY(Arrived(valid))
  BY <1>3, <1>9 DEF RecvY, Recv, AfterU, AfterV
<1>10. CASE Guard \/ Process \/ Write(wait)
  BY <1>3, <1>10 DEF Guard, Process, Write, AfterU, AfterV, lineVars
<1>11. CASE NextRow
  <2>1. CASE state' = "FETCH_Y"
    <3>1. row % 2 # 1 /\ row' = row + 1 /\ v_buf' = v_buf /\ state = "NEXT_ROW"
      BY <1>11, <2>1 DEF NextRow, AfterRow, lineVars
    <3>2. row' \div 2 = row \div 2
      BY <3>1, ChromaShared DEF BusInv, Typed, EngineTyped
    <3> QED BY <2>1, <3>1, <3>2 DEF VInv, AfterU, AfterV
  <2> QED BY <1>2, <1>11, <2>1 DEF NextRow, AfterRow
<1> QED BY <1>4, <1>5, <1>6, <1>7, <1>8, <1>9, <1>10, <1>11 DEF Clk

\* Where the luma of a row comes from is settled when its read is accepted.
LEMMA LumaKept ==
  ASSUME NEW wait \in BOOLEAN, NEW valid \in BOOLEAN, ServeRead(wait, valid)
  PROVE  /\ ~(state = "FETCH_Y" /\ avl_read) =>
              early' = early /\ (\A r : Luma(r)' = Luma(r)) /\ (\A r, x : Pixel(r, x)' = Pixel(r, x))
         /\ \A r : r # row => Luma(r)' = Luma(r) /\ \A x : Pixel(r, x)' = Pixel(r, x)
<1>1. \A r : r # row => (r \in early' <=> r \in early)
  BY DEF ServeRead
<1>2. \A r : r # row => Luma(r)' = Luma(r)
  BY <1>1 DEF Luma
<1>3. \A r : Luma(r)' = Luma(r) => \A x : Pixel(r, x)' = Pixel(r, x)
  BY DEF Pixel
<1>4. ~(state = "FETCH_Y" /\ avl_read) => early' = early
  BY DEF ServeRead
<1>5. early' = early => \A r : Luma(r)' = Luma(r)
  BY DEF Luma
<1> QED BY <1>2, <1>3, <1>4, <1>5

LEMMA AddressNext ==
  ASSUME BusInv, AddressInv, NEW t \in BOOLEAN, NEW wait \in BOOLEAN, NEW valid \in BOOLEAN,
         Clk(t, wait, valid)
  PROVE  AddressInv'
<1>1. row \in Nat /\ waited' = (avl_read /\ wait)
  BY Sizes DEF BusInv, Typed, EngineTyped, Clk, ServeRead
<1>2. CASE Idle \/ Done
  <2>1. state' = "IDLE" \/ (state' = "FETCH_U" /\ row' = 0)
    BY <1>2 DEF Idle, Done
  <2>2. 0 % 2 = 0
    OBVIOUS
  <2> QED BY <2>1, <2>2 DEF AddressInv
<1>3. CASE FetchU(wait) \/ FetchV(wait)
  BY <1>3 DEF FetchU, FetchV, Fetch, AddressInv
<1>4. CASE RecvU(Arrived(valid)) \/ RecvV(Arrived(valid)) \/ RecvY(Arrived(valid))
  BY <1>4 DEF RecvU, RecvV, RecvY, Recv, AddressInv
<1>5. CASE Guard
  BY <1>5 DEF Guard, Quiet, Strobes, AddressInv, Behind
<1>6. CASE FetchY(wait)
  BY <1>1, <1>6 DEF FetchY, Fetch, Strobes, AddressInv, Behind
<1>7. CASE Process \/ Write(wait)
  BY <1>7 DEF Process, Write, AddressInv
<1>8. CASE NextRow
  <2>1. state = "NEXT_ROW" /\ y_addr_reg = row /\ y_addr_reg' = row /\ ~avl_read'
    BY <1>8 DEF NextRow, Quiet, Strobes, AddressInv
  <2>2. CASE state' = "DONE_ST"
    BY <2>2 DEF AddressInv
  <2>3. CASE row % 2 = 1 /\ state' = "FETCH_U" /\ row' = row + 1
    <3>1. row' % 2 = 0
      BY <1>1, <2>3
    <3> QED BY <2>3, <3>1 DEF AddressInv
  <2>4. CASE row % 2 # 1 /\ state' = "FETCH_Y" /\ row' = row + 1
    <3>1. row' % 2 = 1 /\ row' - 1 = row
      BY <1>1, <2>4
    <3> QED BY <2>1, <2>4, <3>1 DEF AddressInv, Behind
  <2> QED BY <1>8, <2>2, <2>3, <2>4 DEF NextRow, AfterRow
<1> QED BY <1>2, <1>3, <1>4, <1>5, <1>6, <1>7, <1>8 DEF Clk

\* A read accepted in its first clock goes to the row the address was made up for, one
\* that was kept waiting to the row itself.
LEMMA YNext ==
  ASSUME BusInv, AddressInv, YInv,
         NEW t \in BOOLEAN, NEW wait \in BOOLEAN, NEW valid \in BOOLEAN, Clk(t, wait, valid)
  PROVE  YInv'
<1>1. ServeRead(wait, valid)
  BY DEF Clk
<1>2. ASSUME state' \notin {"RECV_Y", "PROCESS"} PROVE YInv'
  BY <1>2 DEF YInv
<1>3. CASE Idle \/ Guard \/ Write(wait) \/ NextRow \/ Done
  BY <1>2, <1>3 DEF Idle, Guard, Write, NextRow, AfterRow, Done
<1>4. CASE FetchU(wait) \/ FetchV(wait) \/ RecvU(Arrived(valid)) \/ RecvV(Arrived(valid))
  BY <1>2, <1>4 DEF FetchU, FetchV, Fetch, RecvU, RecvV, Recv
<1>5. CASE FetchY(wait)
  <2>1. Fetch("FETCH_Y", "RECV_Y", <<"y", y_addr_reg>>, wait) /\ state = "FETCH_Y"
    BY <1>5 DEF FetchY, Fetch
  <2>2. avl_read /\ ~wait => avl_address = <<"y", Luma(row)'>>
    <3>0. row' = row
      BY <2>1 DEF Fetch
    <3>1. CASE waited
      BY <1>1, <2>1, <3>0, <3>1 DEF BusInv, ReadInv, ServeRead, Luma
    <3>2. CASE ~waited
      BY <1>1, <2>1, <3>0, <3>2 DEF AddressInv, Behind, ServeRead, Luma
    <3> QED BY <3>1, <3>2
  <2>3. CASE state' = "RECV_Y"
    <3>1. burst'.from = <<"y", Luma(row)'>> /\ row' = row /\ beat_cnt' = 0
      BY <1>1, <2>1, <2>2, <2>3, Fetches
    <3> QED BY <2>3, <3>1 DEF YInv, Luma
  <2> QED BY <1>1, <1>2, <2>1, <2>3, Fetches
<1>6. CASE RecvY(Arrived(valid))
  <2>1. Recv("RECV_Y", "PROCESS", YBeats, Arrived(valid)) /\ y_buf' = Filled(y_buf, Arrived(valid))
    BY <1>6 DEF RecvY
  <2>2. state = "RECV_Y" /\ beat_cnt < YBeats /\ burst.from = <<"y", Luma(row)>> /\ DOMAIN y_buf = 0 .. YBeats - 1
    BY <2>1 DEF Recv, BusInv, Typed, EngineTyped, ReadInv, Awaited, YInv
  <2>3. \A k \in 0 .. beat_cnt - 1 : y_buf[k] = <<burst.from, k>>
    BY <2>2 DEF YInv, Beat
  <2>4. /\ row' = row
        /\ \/ /\ state' = "RECV_Y" /\ burst'.from = burst.from
              /\ \A k \in 0 .. beat_cnt' - 1 : y_buf'[k] = <<burst.from, k>>
           \/ state' = "PROCESS" /\ \A k \in 0 .. YBeats - 1 : y_buf'[k] = <<burst.from, k>>
    <3>1. "RECV_Y" \in Receiving /\ "PROCESS" \notin Receiving /\ YBeats \in Nat /\ Typed /\ ReadInv
      BY Sizes DEF Receiving, BusInv
    <3>2. PICK line, after : line = y_buf /\ after = y_buf'
      OBVIOUS
    <3>3. /\ row' = row
          /\ \/ /\ state' = "RECV_Y" /\ burst'.from = burst.from
                /\ \A k \in 0 .. beat_cnt' - 1 : after[k] = <<burst.from, k>>
             \/ state' = "PROCESS" /\ \A k \in 0 .. YBeats - 1 : after[k] = <<burst.from, k>>
      <4>1. DOMAIN line = 0 .. YBeats - 1 /\ after = Filled(line, Arrived(valid))
            /\ \A k \in 0 .. beat_cnt - 1 : line[k] = <<burst.from, k>>
        BY <2>1, <2>2, <2>3, <3>2
      <4> QED BY <1>1, <2>1, <2>2, <3>1, <4>1, Receives
    <3> QED BY <3>2, <3>3
  <2>5. Luma(row)' = Luma(row)
    <3>1. \A r : Luma(r)' = Luma(r)
      BY <1>1, <2>2, LumaKept
    <3> QED BY <2>4, <3>1 DEF Luma
  <2> QED BY <2>2, <2>4, <2>5 DEF YInv, Beat
<1>7. CASE Process
  <2>1. state = "PROCESS" /\ row' = row /\ y_buf' = y_buf /\ state' # "RECV_Y"
    BY <1>7 DEF Process
  <2>2. Luma(row)' = Luma(row)
    BY <1>1, <2>1, LumaKept DEF Luma
  <2> QED BY <2>1, <2>2 DEF YInv, Beat
<1> QED BY <1>3, <1>4, <1>5, <1>6, <1>7 DEF Clk
-----------------------------------------------------------------------------
(* Pipeline and row buffer *)

\* What enters is the pixel of the column: the line buffers hold this row's beats.
LEMMA PixelEnters ==
  ASSUME LinesInv, state = "PROCESS", NEW x \in 0 .. W - 1
  PROVE  <<x, y_buf[x \div Lanes], u_buf[(x \div 2) \div Lanes], v_buf[(x \div 2) \div Lanes]>> = Pixel(row, x)
<1>1. x \div Lanes \in 0 .. YBeats - 1 /\ (x \div 2) \div Lanes \in 0 .. UVBeats - 1
  BY ColumnsInBeats
<1> QED BY <1>1 DEF LinesInv, UInv, VInv, YInv, AfterU, AfterV, Beat, Pixel

LEMMA IsAPixel == ASSUME NEW r, NEW x PROVE Pixel(r, x) # Nothing
BY DEF Pixel, Nothing

\* A clock of the pipeline: the pixel of clock t goes in, the one of six clocks ago comes out.
LEMMA Flows ==
  ASSUME BusInv, LinesInv, Process, NEW t \in 0 .. W + PipeLength - 1, Entered(t)
  PROVE  /\ row' = row /\ UNCHANGED avl_address
         /\ proc_x' = IF t + 1 < W THEN t + 1 ELSE W
         /\ \A i \in 1 .. PipeLength :
              pipe'[i] = IF t + 1 - i \in 0 .. W - 1 THEN Pixel(row, t + 1 - i) ELSE Nothing
         /\ pipe[PipeLength] = IF t < PipeLength THEN Nothing ELSE Pixel(row, t - PipeLength)
<1> DEFINE Column(n) == IF n \in 0 .. W - 1 THEN Pixel(row, n) ELSE Nothing
<1>1. state = "PROCESS" /\ row' = row /\ UNCHANGED avl_address
  BY DEF Process
<1>2. /\ proc_x = IF t < W THEN t ELSE W
      /\ \A i \in 1 .. PipeLength : pipe[i] = Column(t - i)
  BY DEF Entered
<1>3. t \in Nat /\ t <= W + 5 /\ PipeLength = 6 /\ W \in Nat
  BY Sizes DEF PipeLength
<1>4. pipe' = <<Column(t)>> \o SubSeq(pipe, 1, PipeLength - 1) /\ proc_x' = IF t + 1 < W THEN t + 1 ELSE W
  <2>1. CASE t < W
    <3>1. proc_x = t /\ t \in 0 .. W - 1 /\ t + 1 <= W
      BY <1>2, <1>3, <2>1
    <3>2. <<proc_x, y_buf[proc_x \div Lanes], u_buf[(proc_x \div 2) \div Lanes], v_buf[(proc_x \div 2) \div Lanes]>>
            = Column(t)
      BY <1>1, <3>1, PixelEnters
    <3>3. pipe' = <<Column(t)>> \o SubSeq(pipe, 1, PipeLength - 1) /\ proc_x' = t + 1
      <4> HIDE DEF Column
      <4> QED BY <2>1, <3>1, <3>2 DEF Process
    <3> QED BY <1>3, <3>1, <3>3
  <2>2. CASE ~(t < W)
    <3>1. proc_x = W /\ Column(t) = Nothing
      BY <1>2, <1>3, <2>2
    <3> QED BY <1>3, <2>2, <3>1 DEF Process, NoPixel
  <2> QED BY <2>1, <2>2
<1>5. ASSUME NEW i \in 1 .. PipeLength PROVE pipe'[i] = Column(t + 1 - i)
  <2>1. Stages(pipe)
    BY DEF BusInv, Typed, EngineTyped
  <2>2. pipe'[1] = Column(t) /\ \A j \in 2 .. PipeLength : pipe'[j] = pipe[j - 1]
    <3>1. Clocked(pipe', Column(t), pipe)
      BY <1>4 DEF Clocked
    <3> HIDE DEF Column
    <3> QED BY <2>1, <3>1, Shift
  <2>3. CASE i = 1
    <3>1. t + 1 - i = t
      BY <1>3, <2>3
    <3> HIDE DEF Column
    <3> QED BY <2>2, <2>3, <3>1
  <2>4. CASE i # 1
    <3>1. i \in 2 .. PipeLength /\ i - 1 \in 1 .. PipeLength /\ t - (i - 1) = t + 1 - i
      BY <1>3, <2>4
    <3>2. pipe'[i] = pipe[i - 1] /\ pipe[i - 1] = Column(t - (i - 1))
      <4> HIDE DEF Column
      <4> QED BY <1>2, <2>2, <3>1
    <3> HIDE DEF Column
    <3> QED BY <3>1, <3>2
  <2> QED BY <2>3, <2>4
<1>6. pipe[PipeLength] = IF t < PipeLength THEN Nothing ELSE Pixel(row, t - PipeLength)
  <2>1. pipe[PipeLength] = Column(t - PipeLength)
    BY <1>2, <1>3
  <2>2. t < PipeLength => t - PipeLength \notin 0 .. W - 1
    BY <1>3
  <2>3. ~(t < PipeLength) => t - PipeLength \in 0 .. W - 1
    BY <1>3
  <2> QED BY <2>1, <2>2, <2>3
<1> QED BY <1>1, <1>4, <1>5, <1>6

\* The first beat is packed a clock before the last pixel is in the row buffer, which
\* is right as a row has more than one beat.
LEMMA FirstBeat ==
  ASSUME DOMAIN rgb_buf = 0 .. W - 1, NEW x, rgb_buf' = [rgb_buf EXCEPT ![W - 1] = x]
  PROVE  pack_beat(0) = pack_beat(0)'
<1>1. ASSUME NEW i \in 1 .. PerBeat PROVE rgb_buf'[0 * PerBeat + i - 1] = rgb_buf[0 * PerBeat + i - 1]
  <2>1. 0 * PerBeat + i - 1 \in 0 .. W - 1 /\ 0 * PerBeat + i - 1 # W - 1
    BY RowOfBeats, Sizes
  <2> QED BY <2>1
<1> QED BY <1>1 DEF pack_beat

LEMMA Collects ==
  ASSUME BusInv, LinesInv, PipeInv, RowInv, Process,
         NEW wait \in BOOLEAN, NEW valid \in BOOLEAN, ServeRead(wait, valid)
  PROVE  PipeInv' /\ RowInv'
<1>0. early' = early
  BY LumaKept DEF Process
<1>1. PICK t \in 0 .. W + PipeLength - 1 : Entered(t)
  BY DEF PipeInv, Process
<1>2. /\ row' = row
      /\ proc_x' = IF t + 1 < W THEN t + 1 ELSE W
      /\ \A i \in 1 .. PipeLength :
           pipe'[i] = IF t + 1 - i \in 0 .. W - 1 THEN Pixel(row, t + 1 - i) ELSE Nothing
      /\ pipe[PipeLength] = IF t < PipeLength THEN Nothing ELSE Pixel(row, t - PipeLength)
  BY <1>1, Flows
<1>3. t \in Nat /\ t <= W + 5 /\ PipeLength = 6 /\ W \in Nat /\ W > 1
  BY Sizes DEF PipeLength
<1>4. rgb_wr_px = (IF t < PipeLength THEN 0 ELSE t - PipeLength) /\ state = "PROCESS" /\ DOMAIN rgb_buf = 0 .. W - 1
  BY <1>1 DEF Entered, Process, BusInv, Typed, EngineTyped
<1>5. ASSUME t + 1 <= W + 5, rgb_wr_px' = (IF t + 1 < PipeLength THEN 0 ELSE t + 1 - PipeLength),
             state' = "PROCESS"
      PROVE  PipeInv'
  <2>1. PICK u \in 0 .. W + PipeLength - 1 : u = t + 1
    BY <1>3, <1>5
  <2>2. Entered(u)'
    <3>1. /\ \A i \in 1 .. PipeLength : pipe'[i] = IF u - i \in 0 .. W - 1 THEN Pixel(row, u - i) ELSE Nothing
          /\ proc_x' = IF u < W THEN u ELSE W
      BY <1>2, <2>1
    <3>2. rgb_wr_px' = IF u < PipeLength THEN 0 ELSE u - PipeLength
      BY <1>3, <1>5, <2>1
    <3> QED BY <1>0, <1>2, <3>1, <3>2 DEF Entered, Pixel, Luma
  <2> QED BY <1>5, <2>2 DEF PipeInv
<1>6. CASE t < PipeLength
  <2>1. UNCHANGED <<rgb_buf, rgb_wr_px, state>>
    BY <1>2, <1>6 DEF Process
  <2>2. rgb_wr_px = 0 /\ t + 1 <= W + 5 /\ rgb_wr_px' = (IF t + 1 < PipeLength THEN 0 ELSE t + 1 - PipeLength)
    BY <1>3, <1>4, <1>6, <2>1
  <2>3. RowInv'
    BY <1>4, <2>1, <2>2 DEF RowInv
  <2> QED BY <1>4, <1>5, <2>1, <2>2, <2>3
<1>7. CASE ~(t < PipeLength)
  <2> DEFINE x == rgb_wr_px
  <2>1. x = t - PipeLength /\ x \in 0 .. W - 1 /\ pipe[PipeLength] = Pixel(row, x)
    BY <1>2, <1>3, <1>4, <1>7
  <2>2. rgb_buf' = [rgb_buf EXCEPT ![x] = Pixel(row, x)]
    BY <2>1, IsAPixel DEF Process
  <2>3. \A c \in 0 .. x : rgb_buf'[c] = Pixel(row, c)
    <3>1. \A c \in 0 .. x - 1 : rgb_buf[c] = Pixel(row, c)
      BY <1>4 DEF RowInv
    <3> HIDE DEF x
    <3> QED BY <1>3, <1>4, <2>1, <2>2, <3>1
  <2>4. CASE x = W - 1
    <3>1. state' = "WRITE" /\ wr_beat' = 0 /\ avl_writedata' = pack_beat(0)
      BY <2>1, <2>4, IsAPixel DEF Process
    <3>2. RowInv'
      <4>1. avl_writedata' = pack_beat(wr_beat)'
        <5>1. avl_writedata' = pack_beat(0)'
          BY <1>4, <2>2, <2>4, <3>1, FirstBeat
        <5> QED BY <3>1, <5>1 DEF pack_beat
      <4>2. \A c \in 0 .. W - 1 : rgb_buf'[c] = Pixel(row, c)
        BY <2>3, <2>4
      <4> QED BY <1>0, <1>2, <3>1, <4>1, <4>2 DEF RowInv, Pixel, Luma
    <3>3. PipeInv'
      <4>1. \A i \in 1 .. PipeLength : t + 1 - i \notin 0 .. W - 1
        BY <1>3, <2>1, <2>4
      <4> QED BY <1>2, <3>1, <4>1 DEF PipeInv
    <3> QED BY <3>2, <3>3
  <2>5. CASE x # W - 1
    <3>1. state' = "PROCESS" /\ rgb_wr_px' = x + 1
      BY <1>4, <2>1, <2>5, IsAPixel DEF Process
    <3>2. t + 1 <= W + 5 /\ rgb_wr_px' = (IF t + 1 < PipeLength THEN 0 ELSE t + 1 - PipeLength)
      <4> HIDE DEF x
      <4> QED BY <1>3, <1>7, <2>1, <2>5, <3>1
    <3>3. RowInv'
      <4>1. \A c \in 0 .. rgb_wr_px' - 1 : rgb_buf'[c] = Pixel(row, c)
        <5> HIDE DEF x
        <5> QED BY <2>1, <2>3, <3>1
      <4> QED BY <1>0, <1>2, <3>1, <4>1 DEF RowInv, Pixel, Luma
    <3> QED BY <1>5, <3>1, <3>2, <3>3
  <2> QED BY <2>4, <2>5
<1> QED BY <1>6, <1>7

\* Away from PROCESS and WRITE there is nothing in the pipeline and nothing to write.
LEMMA PipeNext ==
  ASSUME BusInv, LinesInv, PipeInv, RowInv,
         NEW t \in BOOLEAN, NEW wait \in BOOLEAN, NEW valid \in BOOLEAN, Clk(t, wait, valid)
  PROVE  PipeInv'
<1>1. ASSUME NoPixel, state # "PROCESS" PROVE \A i \in 1 .. PipeLength : pipe'[i] = Nothing
  <2>1. Clocked(pipe', Nothing, pipe)
    BY <1>1 DEF NoPixel, Clocked
  <2>2. Stages(pipe)
    BY DEF BusInv, Typed, EngineTyped
  <2>3. pipe'[1] = Nothing /\ \A i \in 2 .. PipeLength : pipe'[i] = pipe[i - 1]
    BY <2>1, <2>2, Shift
  <2>4. \A i \in 1 .. PipeLength : pipe[i] = Nothing
    BY <1>1 DEF PipeInv
  <2> QED BY <2>3, <2>4 DEF PipeLength
<1>2. ASSUME NoPixel, state # "PROCESS", state' # "PROCESS" PROVE PipeInv'
  BY <1>1, <1>2 DEF PipeInv
<1>3. CASE Idle \/ Guard \/ NextRow \/ Done
  BY <1>2, <1>3 DEF Idle, Guard, NextRow, AfterRow, Done, Quiet
<1>4. CASE FetchU(wait) \/ FetchV(wait) \/ FetchY(wait)
  BY <1>2, <1>4 DEF FetchU, FetchV, FetchY, Fetch
<1>5. CASE RecvU(Arrived(valid)) \/ RecvV(Arrived(valid))
  BY <1>2, <1>5 DEF RecvU, RecvV, Recv, Quiet
<1>6. CASE RecvY(Arrived(valid))
  <2>1. NoPixel /\ state = "RECV_Y"
    BY <1>6 DEF RecvY, Recv, Quiet
  <2>2. CASE state' = "PROCESS"
    <3>1. proc_x' = 0 /\ rgb_wr_px' = 0 /\ \A i \in 1 .. PipeLength : pipe'[i] = Nothing
      BY <1>1, <1>6, <2>1, <2>2 DEF RecvY
    <3>2. PICK u \in 0 .. W + PipeLength - 1 : u = 0
      BY Sizes DEF PipeLength
    <3>3. Entered(u)'
      <4>1. \A i \in 1 .. PipeLength : u - i \notin 0 .. W - 1
        BY <3>2, Sizes DEF PipeLength
      <4>2. u < W /\ u < PipeLength
        BY <3>2, Sizes DEF PipeLength
      <4> QED BY <3>1, <3>2, <4>1, <4>2 DEF Entered
    <3> QED BY <2>2, <3>3 DEF PipeInv
  <2> QED BY <1>2, <2>1, <2>2
<1>7. CASE Process
  BY <1>7, Collects DEF Clk
<1>8. CASE Write(wait)
  BY <1>2, <1>8 DEF Write
<1> QED BY <1>3, <1>4, <1>5, <1>6, <1>7, <1>8 DEF Clk

LEMMA RowNext ==
  ASSUME BusInv, LinesInv, PipeInv, RowInv,
         NEW t \in BOOLEAN, NEW wait \in BOOLEAN, NEW valid \in BOOLEAN, Clk(t, wait, valid)
  PROVE  RowInv'
<1>1. ASSUME state' \notin {"PROCESS", "WRITE"} PROVE RowInv'
  BY <1>1 DEF RowInv
<1>2. CASE Idle \/ Guard \/ NextRow \/ Done
  BY <1>1, <1>2 DEF Idle, Guard, NextRow, AfterRow, Done
<1>3. CASE FetchU(wait) \/ FetchV(wait) \/ FetchY(wait)
  BY <1>1, <1>3 DEF FetchU, FetchV, FetchY, Fetch
<1>4. CASE RecvU(Arrived(valid)) \/ RecvV(Arrived(valid))
  BY <1>1, <1>4 DEF RecvU, RecvV, Recv
<1>5. CASE RecvY(Arrived(valid))
  <2>1. state' = "PROCESS" => rgb_wr_px' = 0
    BY <1>5 DEF RecvY
  <2>2. state' \in {"RECV_Y", "PROCESS"}
    BY <1>5 DEF RecvY, Recv
  <2> QED BY <2>1, <2>2 DEF RowInv
<1>6. CASE Process
  BY <1>6, Collects DEF Clk
<1>7. CASE Write(wait)
  <2>1. state = "WRITE" /\ row' = row /\ rgb_buf' = rgb_buf /\ early' = early
    BY <1>7, LumaKept DEF Write, lineVars, Clk
  <2>2. \A b : pack_beat(b)' = pack_beat(b)
    BY <2>1 DEF pack_beat
  <2>3. avl_writedata' = pack_beat(wr_beat')
    BY <1>7, <2>1 DEF Write, RowInv
  <2>4. (\A x \in 0 .. W - 1 : rgb_buf[x] = Pixel(row, x))'
    BY <2>1 DEF RowInv, Pixel, Luma
  <2>5. state' \in {"WRITE", "NEXT_ROW"}
    BY <1>7 DEF Write
  <2>6. (avl_writedata = pack_beat(wr_beat))'
    BY <2>1, <2>3 DEF pack_beat
  <2> QED BY <2>4, <2>5, <2>6 DEF RowInv
<1> QED BY <1>2, <1>3, <1>4, <1>5, <1>6, <1>7 DEF Clk
-----------------------------------------------------------------------------
(* The output *)

\* An accepted beat is the pixels that belong there, and no other beat is touched.
LEMMA Written ==
  ASSUME BusInv, RowInv, NEW wait \in BOOLEAN, ServeWrite(wait), avl_write, ~wait
  PROVE  /\ \A i \in 1 .. PerBeat : mem'[row][written][i] = Pixel(row, written * PerBeat + i - 1)
         /\ \A r \in 0 .. H - 1, b \in 0 .. RgbBeats - 1 :
              ~(r = row /\ b = written) => mem'[r][b] = mem[r][b]
<1>1. /\ state = "WRITE" /\ avl_address = <<"rgb", row>> /\ row \in 0 .. H - 1
      /\ written = wr_beat /\ written \in 0 .. RgbBeats - 1
      /\ DOMAIN mem = 0 .. H - 1 /\ \A r \in 0 .. H - 1 : DOMAIN mem[r] = 0 .. RgbBeats - 1
  BY DEF BusInv, WriteInv, Typed, EngineTyped, MemoryTyped
<1>2. mem' = [mem EXCEPT ![row][written] = avl_writedata]
  BY <1>1 DEF ServeWrite
<1>3. mem'[row][written] = avl_writedata
  BY <1>1, <1>2
<1>4. avl_writedata = pack_beat(written)
  BY <1>1 DEF RowInv
<1>5. ASSUME NEW i \in 1 .. PerBeat PROVE mem'[row][written][i] = Pixel(row, written * PerBeat + i - 1)
  <2>1. written * PerBeat + i - 1 \in 0 .. W - 1
    BY <1>1, ColumnsInBeats
  <2>2. pack_beat(written)[i] = rgb_buf[written * PerBeat + i - 1]
    BY DEF pack_beat
  <2>3. \A x \in 0 .. W - 1 : rgb_buf[x] = Pixel(row, x)
    BY <1>1 DEF RowInv
  <2> QED BY <1>3, <1>4, <2>1, <2>2, <2>3
<1>6. ASSUME NEW r \in 0 .. H - 1, NEW b \in 0 .. RgbBeats - 1, ~(r = row /\ b = written)
      PROVE  mem'[r][b] = mem[r][b]
  BY <1>1, <1>2, <1>6
<1> QED BY <1>5, <1>6

\* Rows are finished in their order, beats of a row in theirs; nothing finished is touched.
LEMMA MemNext ==
  ASSUME BusInv, RowInv, MemInv,
         NEW t \in BOOLEAN, NEW wait \in BOOLEAN, NEW valid \in BOOLEAN, Clk(t, wait, valid)
  PROVE  MemInv'
<1>1. ServeWrite(wait)
  BY DEF Clk
<1>2. done' <=> state = "DONE_ST"
  <2>1. done' = (state = "DONE_ST")
    BY Lifecycle, TypedIsTypeOK DEF BusInv
  <2> QED BY <2>1, Zenon
<1>3. ~avl_write \/ wait => mem' = mem /\ written' = written
  BY <1>1 DEF ServeWrite
<1>4. ASSUME mem' = mem, early' = early
      PROVE  (\A r : RowRight(r)' = RowRight(r)) /\ (\A r, b : BeatRight(r, b)' = BeatRight(r, b))
  BY <1>4 DEF RowRight, BeatRight, Pixel, Luma
<1>15. ~(state = "FETCH_Y" /\ avl_read) => early' = early
  BY LumaKept DEF Clk
<1>16. ASSUME mem' = mem, NEW r, r # row PROVE RowRight(r)' = RowRight(r)
  <2>1. \A x : Pixel(r, x)' = Pixel(r, x)
    BY <1>16, LumaKept DEF Clk
  <2> QED BY <1>16, <2>1 DEF RowRight, BeatRight
<1>5. /\ row \in 0 .. H - 1 /\ H \in Nat /\ RgbBeats \in Nat /\ RgbBeats > 1
  BY Sizes DEF BusInv, Typed, EngineTyped
<1>6. state # "WRITE" => ~avl_write /\ mem' = mem /\ written = 0 /\ written' = 0
  BY <1>3 DEF BusInv, WriteInv
<1>7. CASE Idle
  <2>1. state = "IDLE" /\ (state' = "IDLE" \/ (state' = "FETCH_U" /\ row' = 0))
    BY <1>7 DEF Idle
  <2>2. ~done' /\ (state' # "IDLE" => \A r \in 0 .. row' - 1 : RowRight(r)')
    BY <1>2, <2>1
  <2> QED BY <2>1, <2>2 DEF MemInv
<1>8. ASSUME state \notin {"IDLE", "WRITE", "DONE_ST"}, state' \notin {"IDLE", "NEXT_ROW", "DONE_ST"}, row' = row
      PROVE  MemInv'
  <2>1. ASSUME NEW r \in 0 .. row - 1 PROVE RowRight(r)'
    <3>1. r # row /\ mem' = mem /\ RowRight(r)
      BY <1>5, <1>6, <1>8 DEF MemInv
    <3> QED BY <1>16, <3>1
  <2>2. ~done' /\ \A b \in 0 .. written' - 1 : FALSE
    BY <1>2, <1>6, <1>8
  <2> QED BY <1>8, <2>1, <2>2 DEF MemInv
<1>9. CASE FetchU(wait) \/ FetchV(wait) \/ FetchY(wait)
  BY <1>8, <1>9 DEF FetchU, FetchV, FetchY, Fetch
<1>10. CASE RecvU(Arrived(valid)) \/ RecvV(Arrived(valid)) \/ RecvY(Arrived(valid))
  BY <1>8, <1>10 DEF RecvU, RecvV, RecvY, Recv
<1>11. CASE Guard \/ Process
  BY <1>8, <1>11 DEF Guard, Process
<1>12. CASE Write(wait)
  <2>1. state = "WRITE" /\ row' = row /\ written = wr_beat /\ written \in 0 .. RgbBeats - 1 /\ early' = early
    BY <1>12, <1>15 DEF Write, BusInv, WriteInv, Typed, MemoryTyped
  <2>2. /\ \A r \in 0 .. row - 1 : RowRight(r)
        /\ \A b \in 0 .. written - 1 : BeatRight(row, b)
    BY <2>1 DEF MemInv
  <2>3. CASE ~avl_write \/ wait
    <3>1. mem' = mem /\ written' = written /\ state' = "WRITE"
      BY <1>3, <1>12, <2>3 DEF Write
    <3> QED BY <1>2, <1>4, <2>1, <2>2, <3>1 DEF MemInv, BeatRight, Pixel, Luma
  <2>4. CASE avl_write /\ ~wait
    <3>1. ASSUME NEW r \in 0 .. row - 1 PROVE RowRight(r)'
      <4>1. r \in 0 .. H - 1 /\ r # row
        BY <1>5
      <4> QED BY <1>1, <2>1, <2>2, <2>4, <4>1, Written DEF RowRight, BeatRight, Pixel, Luma
    <3>2. ASSUME NEW b \in 0 .. written PROVE \A i \in 1 .. PerBeat : mem'[row][b][i] = Pixel(row, b * PerBeat + i - 1)
      <4>1. CASE b = written
        BY <1>1, <2>4, <4>1, Written
      <4>2. CASE b # written
        <5>1. b \in 0 .. written - 1 /\ b \in 0 .. RgbBeats - 1
          BY <1>5, <2>1, <4>2
        <5> QED BY <1>1, <1>5, <2>2, <2>4, <4>2, <5>1, Written DEF BeatRight
      <4> QED BY <4>1, <4>2
    <3>3. CASE written = RgbBeats - 1
      <4>1. state' = "NEXT_ROW"
        BY <1>12, <2>1, <2>4, <3>3 DEF Write
      <4>2. RowRight(row)'
        BY <2>1, <3>2, <3>3 DEF RowRight, BeatRight, Pixel, Luma
      <4> QED BY <1>2, <2>1, <3>1, <4>1, <4>2 DEF MemInv
    <3>4. CASE written # RgbBeats - 1
      <4>1. state' = "WRITE"
        BY <1>12, <2>1, <2>4, <3>4 DEF Write
      <4>2. written' - 1 = written
        <5>1. written' = (written + 1) % RgbBeats
          BY <1>1, <2>4 DEF ServeWrite
        <5> QED BY <1>5, <2>1, <3>4, <5>1, Wrap
      <4>3. \A b \in 0 .. written' - 1 : BeatRight(row, b)'
        BY <2>1, <3>2, <4>2 DEF BeatRight, Pixel, Luma
      <4> QED BY <1>2, <2>1, <3>1, <4>1, <4>3 DEF MemInv
    <3> QED BY <3>3, <3>4
  <2> QED BY <2>3, <2>4
<1>13. CASE NextRow
  <2>1. state = "NEXT_ROW"
    BY <1>13 DEF NextRow
  <2>2. \A r \in 0 .. row : RowRight(r)'
    BY <1>4, <1>5, <1>6, <1>15, <2>1 DEF MemInv
  <2>3. CASE row = H - 1
    <3>1. state' = "DONE_ST" /\ row' = row
      BY <1>13, <2>3 DEF NextRow
    <3> QED BY <1>2, <1>5, <2>1, <2>2, <2>3, <3>1 DEF MemInv
  <2>4. CASE row # H - 1
    <3>1. state' \in {"FETCH_U", "FETCH_Y"} /\ row' = row + 1
      BY <1>13, <2>4 DEF NextRow, AfterRow
    <3>2. ~done' /\ row' - 1 = row
      BY <1>2, <1>5, <2>1, <3>1
    <3> QED BY <2>2, <3>1, <3>2 DEF MemInv
  <2> QED BY <2>3, <2>4
<1>14. CASE Done
  <2>1. state = "DONE_ST" /\ state' = "IDLE"
    BY <1>14 DEF Done
  <2>2. \A r \in 0 .. H - 1 : RowRight(r)'
    BY <1>4, <1>6, <1>15, <2>1 DEF MemInv
  <2> QED BY <2>1, <2>2 DEF MemInv
<1> QED BY <1>7, <1>9, <1>10, <1>11, <1>12, <1>13, <1>14 DEF Clk

LEMMA DataInit == Init => DataInv
<1> SUFFICES ASSUME Init PROVE DataInv
  OBVIOUS
<1>1. state = "IDLE" /\ done = FALSE /\ pipe = [i \in 1 .. PipeLength |-> Nothing]
  BY DEF Init
<1>2. PipeInv
  BY <1>1 DEF PipeInv
<1> QED BY <1>1, <1>2 DEF DataInv, LinesInv, UInv, VInv, YInv, AfterU, AfterV, RowInv, MemInv,
                                  AddressInv

LEMMA DataNext == BusInv /\ DataInv /\ [Next]_vars => DataInv'
<1>1. ASSUME BusInv, DataInv, NEW t \in BOOLEAN, NEW wait \in BOOLEAN, NEW valid \in BOOLEAN,
             Clk(t, wait, valid)
      PROVE  DataInv'
  <2>1. AddressInv /\ LinesInv /\ PipeInv /\ RowInv /\ MemInv
    BY <1>1 DEF DataInv
  <2>2. LinesInv'
    BY <1>1, <2>1, UNext, VNext, YNext DEF LinesInv
  <2>3. AddressInv' /\ PipeInv' /\ RowInv' /\ MemInv'
    BY <1>1, <2>1, AddressNext, PipeNext, RowNext, MemNext
  <2> QED BY <2>2, <2>3 DEF DataInv
<1>2. ASSUME DataInv, UNCHANGED vars PROVE DataInv'
  <2>1. UNCHANGED <<state, row, beat_cnt, proc_x, rgb_wr_px, wr_beat, y_buf, u_buf, v_buf, rgb_buf, pipe,
                    y_addr_reg, avl_read, avl_address, avl_writedata, done, waited, burst, written, mem, early>>
    BY <1>2 DEF vars, countVars, lineVars, syncVars, memoryVars
  <2>2. LinesInv'
    BY <1>2, <2>1 DEF DataInv, LinesInv, UInv, VInv, YInv, Luma
  <2>3. PipeInv'
    BY <1>2, <2>1 DEF DataInv, PipeInv, Entered, Pixel, Luma
  <2>4. RowInv'
    BY <1>2, <2>1 DEF DataInv, RowInv, pack_beat, Pixel, Luma
  <2>5. MemInv'
    BY <1>2, <2>1 DEF DataInv, MemInv, RowRight, BeatRight, Pixel, Luma
  <2>6. AddressInv'
    BY <1>2, <2>1 DEF DataInv, AddressInv
  <2> QED BY <2>2, <2>3, <2>4, <2>5, <2>6 DEF DataInv
<1> QED BY <1>1, <1>2 DEF Next

\* Whatever the memory does, every frame the engine reports the end of is converted right
\* to the last pixel, each odd row whose read was accepted at once apart: that one has
\* the luma of the row before.
THEOREM FrameRight == Spec => []FrameConverted
<1>1. DataInv => FrameConverted
  BY DEF DataInv, MemInv, RowRight, BeatRight, FrameConverted
<1>2. BusInv /\ DataInv /\ [Next]_vars => DataInv'
  BY DataNext
<1> QED BY <1>1, <1>2, DataInit, BusInvariance, PTL DEF Spec
================================================================================
