----------------------------- MODULE Mp4CtrlRegs -----------------------------
(***************************************************************************)
(* rtl/mp4_ctrl_regs.v, the lightweight AXI3 slave between the ARM and the *)
(* video hardware, clock by clock.  Each step is one rising edge of clk:   *)
(* the right-hand sides are the registers before the edge.  The ARM's      *)
(* bridge is external: it raises a valid signal with an address or data at *)
(* any time, holds it until the slave is ready, and may have a second      *)
(* write under way before the first is answered.                           *)
(*                                                                         *)
(* A 32-bit word is the set of its bits that are 1 and that the properties *)
(* tell apart; an address is a word index (byte offset / 4).               *)
(***************************************************************************)
EXTENDS Naturals

CONSTANTS ReadWords,    \* word indices that are read
          WriteWords,   \* word indices that are written
          Data,         \* words that are written
          Pulses,       \* the inputs that may pulse besides fb_vbl
          MaxAhead      \* writes under way at once, and modulus of their numbers

R == INSTANCE CtrlRegs WITH latch <- {}, bufSel <- FALSE, nextSel <- FALSE

ASSUME WordAssumption == ReadWords \cup WriteWords \subseteq Nat
ASSUME DataAssumption == Data \subseteq SUBSET {R!SelBit, R!TrigBit}
ASSUME PulseAssumption == Pulses \subseteq {R!DoneBit, R!FileBit}
ASSUME AheadAssumption == MaxAhead \in Nat \ {0}

Txn == 0 .. MaxAhead           \* number of a write, modulo MaxAhead + 1

VARIABLES
  fb_vbl_d,                    \* fb_vbl one clock ago
  latched,                     \* fb_vbl_latch, dma_done_latch, file_selected_latch
  rvalid, rdata,               \* read response
  aw_pend, aw_lat,             \* address of the write being collected
  w_pend, wd_lat,              \* data of the write being collected
  bvalid,                      \* write response
  buf_sel, next_buf_sel, dma_trigger, cmd_switchres,
  base,                        \* yuv_y_base .. yuv_rgb_base, words 4 to 7
  ar, aw, w,                   \* the master's channels: the valid beats, as sets
  fb_vbl,                      \* input from the scaler
  sent, answered,              \* the master's writes: addresses sent, answers taken
  dataSent,                    \* data beats sent
  owed                         \* history: pulses that no status read has reported

slaveVars == <<fb_vbl_d, latched, rvalid, rdata, aw_pend, aw_lat, w_pend, wd_lat, bvalid,
               buf_sel, next_buf_sel, dma_trigger, cmd_switchres, base>>
masterVars == <<ar, aw, w, fb_vbl, sent, answered, dataSent>>
vars == <<slaveVars, masterVars, owed>>

Init ==
  /\ fb_vbl_d = FALSE /\ latched = {} /\ rvalid = FALSE /\ rdata = {}
  /\ aw_pend = FALSE /\ aw_lat = [word |-> 0, txn |-> 0]
  /\ w_pend = FALSE /\ wd_lat = [data |-> {}, txn |-> 0]
  /\ bvalid = FALSE /\ buf_sel = FALSE /\ next_buf_sel = FALSE
  /\ dma_trigger = FALSE /\ cmd_switchres = FALSE
  /\ base = [i \in 4 .. 7 |-> {}]
  /\ ar = {} /\ aw = {} /\ w = {} /\ fb_vbl = FALSE
  /\ sent = 0 /\ answered = 0 /\ dataSent = 0 /\ owed = {}
-----------------------------------------------------------------------------
arready == ~rvalid
awready == ~aw_pend /\ ~bvalid
\* Mutants are wrong variants of the definition that follows them; the runs must tell
\* them apart from it.  wready: data is taken while data is pending.
wreadyAlways == ~bvalid
wready == ~w_pend /\ ~bvalid

\* The word a read is accepted for on this edge, if any; only bits 5 to 2 of the
\* byte address are decoded.
ReadAccepted == IF arready THEN {a % 16 : a \in ar} ELSE {}
StatusReadNow == 0 \in ReadAccepted

Bit(b, on) == IF on THEN {b} ELSE {}

\* Mutant: the status bits are one place too high.
ReadbackShifted(word) == IF word = 0 THEN {b + 1 : b \in latched} ELSE {}
Readback(word) ==
  CASE word = 0 -> latched
    [] word = 2 -> Bit(R!SelBit, buf_sel) \cup Bit(R!TrigBit, dma_trigger)
    [] word = 3 -> Bit(R!SelBit, cmd_switchres)
    [] word \in 4 .. 7 -> base[word]
    [] OTHER -> {}

\* Mutant: the clear wins over a pulse.
LatchesClearWins(pulses) ==
  LET rise == pulses \cup Bit(R!VblBit, fb_vbl /\ ~fb_vbl_d) IN
  /\ fb_vbl_d' = fb_vbl
  /\ latched' = IF StatusReadNow THEN {} ELSE latched \cup rise
  /\ owed' = rise \cup (IF StatusReadNow THEN owed \ rdata' ELSE owed)

\* The sticky latches: a pulse wins over the clear of a status read.
Latches(pulses) ==
  LET rise == pulses \cup Bit(R!VblBit, fb_vbl /\ ~fb_vbl_d) IN
  /\ fb_vbl_d' = fb_vbl
  /\ latched' = rise \cup (IF StatusReadNow THEN {} ELSE latched)
  /\ owed' = rise \cup (IF StatusReadNow THEN owed \ rdata' ELSE owed)

ReadPath(rready) ==
  /\ rvalid' = (ReadAccepted # {} \/ (rvalid /\ ~rready))
  /\ rdata' = IF ReadAccepted = {} THEN rdata
              ELSE Readback(CHOOSE word \in ReadAccepted : TRUE)

\* The register write happens once both halves have arrived; only bits 4 to 2 of the
\* byte address are decoded.
Performs(word) == aw_pend /\ w_pend /\ aw_lat.word % 8 = word

\* Mutant: a staged selection is not held back.
CommittedAtOnce == next_buf_sel
\* The selection that is shown from the next clock on.
Committed == IF R!VblBit \in latched THEN next_buf_sel ELSE buf_sel

WritePath(bready) ==
  /\ buf_sel' = Committed
  /\ next_buf_sel' = IF Performs(2) THEN R!SelBit \in wd_lat.data ELSE next_buf_sel
  /\ dma_trigger' = (Performs(2) /\ R!TrigBit \in wd_lat.data)
  /\ cmd_switchres' = (Performs(3) /\ R!SelBit \in wd_lat.data)
  /\ base' = [i \in 4 .. 7 |-> IF Performs(i) THEN wd_lat.data ELSE base[i]]
  /\ IF aw_pend /\ w_pend
       THEN aw_pend' = FALSE /\ w_pend' = FALSE /\ UNCHANGED <<aw_lat, wd_lat>>
       ELSE /\ aw_pend' = (aw_pend \/ (awready /\ aw # {}))
            /\ aw_lat' = IF awready /\ aw # {} THEN CHOOSE a \in aw : TRUE ELSE aw_lat
            /\ w_pend' = (w_pend \/ (wready /\ w # {}))
            /\ wd_lat' = IF wready /\ w # {} THEN CHOOSE d \in w : TRUE ELSE wd_lat
  /\ bvalid' = ((aw_pend /\ w_pend) \/ (bvalid /\ ~bready))

\* The bridge: a beat that was not accepted is held, otherwise a new one may start.
NextTxn(n) == (n + 1) % (MaxAhead + 1)
ReadChannel ==
  IF ar # {} /\ ~arready THEN UNCHANGED ar
  ELSE ar' \in {{}} \cup {{a} : a \in ReadWords}
AddressChannel ==
  IF aw # {} /\ ~awready THEN UNCHANGED <<aw, sent>>
  ELSE \/ aw' = {} /\ UNCHANGED sent
       \/ /\ NextTxn(sent) # answered
          /\ aw' \in {{[word |-> a, txn |-> sent]} : a \in WriteWords}
          /\ sent' = NextTxn(sent)
DataChannel ==
  IF w # {} /\ ~wready THEN UNCHANGED <<w, dataSent>>
  ELSE \/ w' = {} /\ UNCHANGED dataSent
       \/ /\ NextTxn(dataSent) # answered
          /\ w' \in {{[data |-> d, txn |-> dataSent]} : d \in Data}
          /\ dataSent' = NextTxn(dataSent)
ResponseChannel(bready) == answered' = IF bvalid /\ bready THEN NextTxn(answered) ELSE answered

Clk ==
  \E pulses \in SUBSET Pulses, rready, bready \in BOOLEAN :
    /\ ReadPath(rready)
    /\ Latches(pulses)
    /\ WritePath(bready)
    /\ ReadChannel /\ AddressChannel /\ DataChannel /\ ResponseChannel(bready)
    /\ fb_vbl' \in BOOLEAN

Spec == Init /\ [][Clk]_vars
-----------------------------------------------------------------------------
(* Properties *)

Beats(f) == {{}} \cup {{x} : x \in f}

\* Type invariant: a read never answers with a bit that no register has, and a channel
\* carries one beat at most.
TypeOK ==
  /\ latched \subseteq R!StatusBits /\ owed \subseteq R!StatusBits
  /\ {fb_vbl_d, fb_vbl, rvalid, aw_pend, w_pend, bvalid, buf_sel, next_buf_sel, dma_trigger,
      cmd_switchres} \subseteq BOOLEAN
  /\ rdata \in (SUBSET R!StatusBits) \cup SUBSET {R!SelBit, R!TrigBit}
  /\ base \in [4 .. 7 -> Data \cup {{}}]
  /\ {sent, answered, dataSent} \subseteq Txn
  /\ ar \in Beats(ReadWords)
  /\ aw \in Beats([word : WriteWords, txn : Txn])
  /\ w \in Beats([data : Data, txn : Txn])

\* The latches exist so that the ARM cannot miss a one-clock pulse: a pulse that no
\* status read has reported is still latched, even one that arrives on the very clock
\* of a read, and the latches report nothing that did not happen.
PulsesNeitherLostNorInvented == owed = latched

\* The two halves of a write arrive in any order and the next write may already be
\* under way, yet data is only ever written to the address it was sent with.
WriteHalvesMatch == aw_pend /\ w_pend => aw_lat.txn = wd_lat.txn

\* Software may take the registers for CtrlRegs: each access takes effect at one
\* instant.  The selection shown is ahead of buf_sel by the one clock that the
\* blanking latch needs to commit it.
Access == INSTANCE CtrlRegs WITH
  latch <- latched, nextSel <- next_buf_sel, bufSel <- Committed
ImplementsAccess == Access!RegSpec
==============================================================================
