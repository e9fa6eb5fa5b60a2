-------------------------- MODULE Mp4CtrlRegs_proofs --------------------------
(***************************************************************************)
(* Theorems about the AXI slave of the registers, for all words read and   *)
(* written and any number of writes under way: no pulse is lost, the       *)
(* halves of writes match, and software may take it for CtrlRegs.          *)
(***************************************************************************)
EXTENDS Mp4CtrlRegs, TLAPS

\* The halves of a write.  The write that the slave collects or answers is number
\* `answered`; a channel that has delivered its half of it is one write ahead.
Turn(taken) == IF taken \/ bvalid THEN NextTxn(answered) ELSE answered

AddressHalf ==
  /\ aw_pend => aw_lat.txn = answered
  /\ aw = {} => sent = Turn(aw_pend)
  /\ \A a \in aw : a.txn = Turn(aw_pend) /\ sent = NextTxn(Turn(aw_pend))
DataHalf ==
  /\ w_pend => wd_lat.txn = answered
  /\ w = {} => dataSent = Turn(w_pend)
  /\ \A d \in w : d.txn = Turn(w_pend) /\ dataSent = NextTxn(Turn(w_pend))
Halves ==
  /\ {aw_pend, w_pend, bvalid} \subseteq BOOLEAN
  /\ bvalid => ~aw_pend /\ ~w_pend
  /\ AddressHalf /\ DataHalf

\* TypeOK, with the types of the halves that were taken.
IInv == TypeOK /\ wd_lat.data \in Data \cup {{}}
-----------------------------------------------------------------------------
(* The words *)

LEMMA Bits ==
  /\ R!StatusBits = {2, 3, 5} /\ R!SelBit = 0 /\ R!TrigBit = 1
  /\ R!VblBit = 2 /\ R!DoneBit = 3 /\ R!FileBit = 5
BY DEF R!StatusBits, R!SelBit, R!TrigBit, R!VblBit, R!DoneBit, R!FileBit

LEMMA NextInRange == ASSUME NEW n \in Txn PROVE NextTxn(n) \in Txn
BY AheadAssumption DEF NextTxn, Txn

\* What a read answers with.
LEMMA ReadbackTyped ==
  ASSUME IInv, NEW word
  PROVE  Readback(word) \in (SUBSET R!StatusBits) \cup SUBSET {R!SelBit, R!TrigBit}
<1>1. latched \subseteq R!StatusBits
  BY DEF IInv, TypeOK
<1>2. ASSUME NEW b \in {R!SelBit, R!TrigBit}, NEW on PROVE Bit(b, on) \subseteq {R!SelBit, R!TrigBit}
  BY DEF Bit
<1>3. word \in 4 .. 7 => base[word] \subseteq {R!SelBit, R!TrigBit}
  BY DataAssumption DEF IInv, TypeOK
<1>4. Bit(R!SelBit, buf_sel) \cup Bit(R!TrigBit, dma_trigger) \subseteq {R!SelBit, R!TrigBit}
  BY DEF Bit
<1>5. Bit(R!SelBit, cmd_switchres) \subseteq {R!SelBit, R!TrigBit}
  BY <1>2
<1>6. \/ word = 0 /\ Readback(word) = latched
      \/ word = 2 /\ Readback(word) = Bit(R!SelBit, buf_sel) \cup Bit(R!TrigBit, dma_trigger)
      \/ word = 3 /\ Readback(word) = Bit(R!SelBit, cmd_switchres)
      \/ word \in 4 .. 7 /\ Readback(word) = base[word]
      \/ Readback(word) = {}
  BY SMT DEF Readback
<1> QED BY <1>1, <1>3, <1>4, <1>5, <1>6

\* One beat at most is on the read channel, so a status read is answered with the latches.
LEMMA StatusReadAnswered ==
  ASSUME TypeOK, StatusReadNow, NEW rready, ReadPath(rready)
  PROVE  rdata' = latched
<1>1. PICK a : ar = {a}
  BY DEF TypeOK, Beats, StatusReadNow, ReadAccepted
<1>2. ReadAccepted = {0}
  BY <1>1 DEF StatusReadNow, ReadAccepted
<1>3. (CHOOSE word \in ReadAccepted : TRUE) = 0
  BY <1>2
<1>4. rdata' = Readback(0)
  BY <1>2, <1>3 DEF ReadPath
<1> QED BY <1>4 DEF Readback
-----------------------------------------------------------------------------
(* Types *)

LEMMA TypedInit == Init => IInv
<1> SUFFICES ASSUME Init PROVE IInv
  OBVIOUS
<1>1. base \in [4 .. 7 -> Data \cup {{}}]
  BY DEF Init
<1>2. {sent, answered, dataSent} \subseteq Txn
  BY AheadAssumption DEF Init, Txn
<1> QED BY <1>1, <1>2 DEF Init, IInv, TypeOK, Beats

LEMMA TypedNext == IInv /\ [Clk]_vars => IInv'
<1> SUFFICES ASSUME IInv, [Clk]_vars PROVE IInv'
  OBVIOUS
<1>1. CASE Clk
  <2>1. PICK pulses \in SUBSET Pulses, rready \in BOOLEAN, bready \in BOOLEAN :
          /\ ReadPath(rready) /\ Latches(pulses) /\ WritePath(bready)
          /\ ReadChannel /\ AddressChannel /\ DataChannel /\ ResponseChannel(bready)
          /\ fb_vbl' \in BOOLEAN
    BY <1>1 DEF Clk
  <2>2. latched' \subseteq R!StatusBits /\ owed' \subseteq R!StatusBits /\ fb_vbl_d' \in BOOLEAN
    <3>1. pulses \cup Bit(R!VblBit, fb_vbl /\ ~fb_vbl_d) \subseteq R!StatusBits
      BY PulseAssumption, <2>1, Bits DEF Bit
    <3>2. latched \subseteq R!StatusBits /\ owed \subseteq R!StatusBits /\ fb_vbl \in BOOLEAN
      BY DEF IInv, TypeOK
    <3> QED BY <2>1, <3>1, <3>2 DEF Latches
  <2>3. rvalid' \in BOOLEAN /\ rdata' \in (SUBSET R!StatusBits) \cup SUBSET {R!SelBit, R!TrigBit}
    <3>1. rdata \in (SUBSET R!StatusBits) \cup SUBSET {R!SelBit, R!TrigBit}
      BY DEF IInv, TypeOK
    <3> QED BY <2>1, <3>1, ReadbackTyped DEF ReadPath
  <2>4. wd_lat'.data \in Data \cup {{}}
    <3>1. w \in Beats([data : Data, txn : Txn]) /\ wd_lat.data \in Data \cup {{}}
      BY DEF IInv, TypeOK
    <3>2. ASSUME w # {} PROVE (CHOOSE d \in w : TRUE).data \in Data
      BY <3>1, <3>2 DEF Beats
    <3> QED BY <2>1, <3>1, <3>2 DEF WritePath
  <2>5. {aw_pend', w_pend', bvalid'} \subseteq BOOLEAN
    BY <2>1 DEF WritePath, IInv, TypeOK
  <2>6. {buf_sel', next_buf_sel', dma_trigger', cmd_switchres'} \subseteq BOOLEAN
    <3>1. Committed \in BOOLEAN
      BY Zenon DEF Committed, IInv, TypeOK
    <3>2. next_buf_sel' \in BOOLEAN
      <4>1. CASE Performs(2)
        <5>1. next_buf_sel' = (R!SelBit \in wd_lat.data)
          BY <2>1, <4>1 DEF WritePath
        <5> QED BY <5>1
      <4>2. CASE ~Performs(2)
        <5>1. next_buf_sel' = next_buf_sel
          BY <2>1, <4>2 DEF WritePath
        <5> QED BY <5>1, Zenon DEF IInv, TypeOK
      <4> QED BY <4>1, <4>2
    <3>3. dma_trigger' \in BOOLEAN /\ cmd_switchres' \in BOOLEAN
      BY <2>1, Zenon DEF WritePath
    <3> QED BY <2>1, <3>1, <3>2, <3>3, Zenon DEF WritePath
  <2>7. base' \in [4 .. 7 -> Data \cup {{}}]
    BY <2>1 DEF WritePath, IInv, TypeOK
  <2>8. ar' \in Beats(ReadWords)
    BY <2>1 DEF ReadChannel, IInv, TypeOK, Beats
  <2>9. sent' \in Txn /\ aw' \in Beats([word : WriteWords, txn : Txn])
    BY <2>1, NextInRange DEF AddressChannel, IInv, TypeOK, Beats
  <2>10. dataSent' \in Txn /\ w' \in Beats([data : Data, txn : Txn])
    BY <2>1, NextInRange DEF DataChannel, IInv, TypeOK, Beats
  <2>11. answered' \in Txn
    BY <2>1, NextInRange DEF ResponseChannel, IInv, TypeOK
  <2> QED BY <2>1, <2>2, <2>3, <2>4, <2>5, <2>6, <2>7, <2>8, <2>9, <2>10, <2>11 DEF IInv, TypeOK
<1>2. CASE UNCHANGED vars
  BY <1>2 DEF vars, slaveVars, masterVars, IInv, TypeOK
<1> QED BY <1>1, <1>2

(* The readback has no bit that no register has, the channels carry one beat at most, *)
(* and the numbers of the writes stay in their range, however many are under way.     *)
THEOREM TypeCorrect == Spec => []TypeOK
<1>1. IInv => TypeOK
  BY DEF IInv
<1> QED BY <1>1, TypedInit, TypedNext, PTL DEF Spec
-----------------------------------------------------------------------------
(* Pulses *)

(* A one-clock pulse is latched until a status read has reported it, and nothing else is. *)
THEOREM NoPulseLost == Spec => []PulsesNeitherLostNorInvented
<1> DEFINE P == PulsesNeitherLostNorInvented
<1>1. Init => P
  BY DEF Init, PulsesNeitherLostNorInvented
<1>2. TypeOK /\ P /\ [Clk]_vars => P'
  <2> SUFFICES ASSUME TypeOK, P, [Clk]_vars PROVE P'
    OBVIOUS
  <2>1. CASE Clk
    <3>1. PICK pulses, rready : ReadPath(rready) /\ Latches(pulses)
      BY <2>1 DEF Clk
    <3>2. StatusReadNow => owed \ rdata' = {}
      BY <3>1, StatusReadAnswered DEF PulsesNeitherLostNorInvented
    <3> QED BY <3>1, <3>2 DEF Latches, PulsesNeitherLostNorInvented
  <2>2. CASE UNCHANGED vars
    BY <2>2 DEF vars, slaveVars, PulsesNeitherLostNorInvented
  <2> QED BY <2>1, <2>2
<1> QED BY <1>1, <1>2, TypeCorrect, PTL DEF Spec
-----------------------------------------------------------------------------
(* Writes *)

LEMMA HalvesInit == Init => Halves
BY DEF Init, Halves, AddressHalf, DataHalf, Turn

\* A channel only starts the next half when the last is taken.
LEMMA HalvesNext == TypeOK /\ Halves /\ [Clk]_vars => Halves'
<1> SUFFICES ASSUME TypeOK, Halves, [Clk]_vars PROVE Halves'
  OBVIOUS
<1>1. CASE Clk
  <2>1. PICK bready \in BOOLEAN :
          WritePath(bready) /\ AddressChannel /\ DataChannel /\ ResponseChannel(bready)
    BY <1>1 DEF Clk
  <2>2. {aw_pend', w_pend', bvalid'} \subseteq BOOLEAN /\ (bvalid' => ~aw_pend' /\ ~w_pend')
    BY <2>1 DEF WritePath, Halves, awready, wready
  <2>3. (aw_pend /\ w_pend) \/ bvalid => Turn(aw_pend)' = Turn(aw_pend) /\ Turn(w_pend)' = Turn(w_pend)
    BY <2>1, <2>2 DEF WritePath, ResponseChannel, Turn, Halves, awready, wready
  <2>4. ~(aw_pend /\ w_pend) /\ ~bvalid => ~bvalid' /\ answered' = answered
    BY <2>1 DEF WritePath, ResponseChannel, Halves
  <2>5. AddressHalf'
    <3> DEFINE before == Turn(aw_pend)
               after == Turn(aw_pend)'
    <3>1. \A a \in aw : aw = {a}
      BY DEF TypeOK, Beats
    <3>2. aw = {} \/ \E a : aw = {a} /\ a.txn = before /\ sent = NextTxn(before)
      BY <3>1 DEF Halves, AddressHalf
    <3>3. aw = {} => sent = before
      BY DEF Halves, AddressHalf
    <3>4. aw_pend' => aw_lat'.txn = answered'
      <4>1. CASE (aw_pend' /\ aw_pend)
        BY <2>1, <2>2, <2>3, <2>4, <4>1 DEF WritePath, ResponseChannel, Halves, AddressHalf, awready
      <4>2. CASE aw_pend' /\ ~aw_pend
        <5>1. awready /\ aw # {} /\ aw_lat' = (CHOOSE a \in aw : TRUE)
          BY <2>1, <4>2 DEF WritePath
        <5>2. ~bvalid /\ before = answered /\ answered' = answered
          BY <2>1, <4>2, <5>1 DEF awready, Turn, ResponseChannel
        <5> QED BY <3>2, <5>1, <5>2
      <4> QED BY <4>1, <4>2
    <3>5. CASE aw # {} /\ ~awready
      <4>1. after = before
        BY <2>1, <2>2, <2>3, <2>4, <3>5 DEF WritePath, Turn, Halves, awready
      <4>2. UNCHANGED <<aw, sent>>
        BY <2>1, <3>5 DEF AddressChannel
      <4>3. NextTxn(after) = NextTxn(Turn(aw_pend))'
        BY DEF NextTxn
      <4> QED BY <3>2, <3>4, <3>5, <4>1, <4>2, <4>3 DEF AddressHalf
    <3>6. CASE aw = {} \/ awready
      <4>1. sent = after
        <5>1. CASE aw = {}
          <6>1. after = before
            <7>1. CASE ~(aw_pend /\ w_pend) /\ ~bvalid
              <8>1. aw_pend' = aw_pend
                BY <2>1, <5>1, <7>1 DEF WritePath, TypeOK
              <8> QED BY <2>4, <7>1, <8>1 DEF Turn
            <7> QED BY <2>3, <7>1
          <6> QED BY <3>3, <5>1, <6>1
        <5>2. CASE aw # {}
          <6>1. awready /\ ~aw_pend /\ ~bvalid
            BY <3>6, <5>2 DEF awready
          <6>2. aw_pend' /\ answered' = answered
            BY <2>1, <5>2, <6>1 DEF WritePath, ResponseChannel
          <6>3. before = answered /\ after = NextTxn(before)
            BY <6>1, <6>2 DEF Turn
          <6> QED BY <3>2, <5>2, <6>3
        <5> QED BY <5>1, <5>2
      <4>2. \/ aw' = {} /\ sent' = after
            \/ \E a : aw' = {a} /\ a.txn = after /\ sent' = NextTxn(after)
        BY <2>1, <3>6, <4>1 DEF AddressChannel
      <4>3. NextTxn(after) = NextTxn(Turn(aw_pend))'
        BY DEF NextTxn
      <4> QED BY <3>4, <4>1, <4>2, <4>3 DEF AddressHalf
    <3> QED BY <3>5, <3>6
  <2>6. DataHalf'
    <3> DEFINE before == Turn(w_pend)
               after == Turn(w_pend)'
    <3>1. \A d \in w : w = {d}
      BY DEF TypeOK, Beats
    <3>2. w = {} \/ \E d : w = {d} /\ d.txn = before /\ dataSent = NextTxn(before)
      BY <3>1 DEF Halves, DataHalf
    <3>3. w = {} => dataSent = before
      BY DEF Halves, DataHalf
    <3>4. w_pend' => wd_lat'.txn = answered'
      <4>1. CASE (w_pend' /\ w_pend)
        BY <2>1, <2>2, <2>3, <2>4, <4>1 DEF WritePath, ResponseChannel, Halves, DataHalf, wready
      <4>2. CASE w_pend' /\ ~w_pend
        <5>1. wready /\ w # {} /\ wd_lat' = (CHOOSE d \in w : TRUE)
          BY <2>1, <4>2 DEF WritePath
        <5>2. ~bvalid /\ before = answered /\ answered' = answered
          BY <2>1, <4>2, <5>1 DEF wready, Turn, ResponseChannel
        <5> QED BY <3>2, <5>1, <5>2
      <4> QED BY <4>1, <4>2
    <3>5. CASE w # {} /\ ~wready
      <4>1. after = before
        BY <2>1, <2>2, <2>3, <2>4, <3>5 DEF WritePath, Turn, Halves, wready
      <4>2. UNCHANGED <<w, dataSent>>
        BY <2>1, <3>5 DEF DataChannel
      <4>3. NextTxn(after) = NextTxn(Turn(w_pend))'
        BY DEF NextTxn
      <4> QED BY <3>2, <3>4, <3>5, <4>1, <4>2, <4>3 DEF DataHalf
    <3>6. CASE w = {} \/ wready
      <4>1. dataSent = after
        <5>1. CASE w = {}
          <6>1. after = before
            <7>1. CASE ~(aw_pend /\ w_pend) /\ ~bvalid
              <8>1. w_pend' = w_pend
                BY <2>1, <5>1, <7>1 DEF WritePath, TypeOK
              <8> QED BY <2>4, <7>1, <8>1 DEF Turn
            <7> QED BY <2>3, <7>1
          <6> QED BY <3>3, <5>1, <6>1
        <5>2. CASE w # {}
          <6>1. wready /\ ~w_pend /\ ~bvalid
            BY <3>6, <5>2 DEF wready
          <6>2. w_pend' /\ answered' = answered
            BY <2>1, <5>2, <6>1 DEF WritePath, ResponseChannel
          <6>3. before = answered /\ after = NextTxn(before)
            BY <6>1, <6>2 DEF Turn
          <6> QED BY <3>2, <5>2, <6>3
        <5> QED BY <5>1, <5>2
      <4>2. \/ w' = {} /\ dataSent' = after
            \/ \E d : w' = {d} /\ d.txn = after /\ dataSent' = NextTxn(after)
        BY <2>1, <3>6, <4>1 DEF DataChannel
      <4>3. NextTxn(after) = NextTxn(Turn(w_pend))'
        BY DEF NextTxn
      <4> QED BY <3>4, <4>1, <4>2, <4>3 DEF DataHalf
    <3> QED BY <3>5, <3>6
  <2> QED BY <2>2, <2>5, <2>6 DEF Halves
<1>2. CASE UNCHANGED vars
  BY <1>2 DEF vars, slaveVars, masterVars, Halves, AddressHalf, DataHalf, Turn
<1> QED BY <1>1, <1>2

(* Whatever the order and the lead of the channels, data is written to the address it *)
(* was sent with.                                                                     *)
THEOREM HalvesMatch == Spec => []WriteHalvesMatch
<1>1. Halves => WriteHalvesMatch
  BY DEF Halves, AddressHalf, DataHalf, WriteHalvesMatch
<1> QED BY <1>1, HalvesInit, HalvesNext, TypeCorrect, PTL DEF Spec
-----------------------------------------------------------------------------
(* The registers as software sees them *)

LEMMA Names == Access!VblBit = R!VblBit /\ Access!StatusBits = R!StatusBits
BY DEF Access!VblBit, R!VblBit, Access!StatusBits, R!StatusBits, Access!DoneBit, R!DoneBit,
       Access!FileBit, R!FileBit

LEMMA StepIsAccess == TypeOK /\ TypeOK' /\ [Clk]_vars => [Access!RegNext]_Access!regVars
<1> SUFFICES ASSUME TypeOK, TypeOK', [Clk]_vars PROVE [Access!RegNext]_Access!regVars
  OBVIOUS
<1>1. CASE Clk
  <2>1. PICK pulses \in SUBSET Pulses, bready \in BOOLEAN : Latches(pulses) /\ WritePath(bready)
    BY <1>1 DEF Clk
  <2> DEFINE rise == pulses \cup Bit(R!VblBit, fb_vbl /\ ~fb_vbl_d)
  <2>2. rise \in SUBSET Access!StatusBits
    BY PulseAssumption, <2>1, Bits, Names DEF Bit
  <2>3. StatusReadNow \in BOOLEAN /\ next_buf_sel' \in BOOLEAN
    BY DEF StatusReadNow, TypeOK
  <2>4. latched' = rise \cup (IF StatusReadNow THEN {} ELSE latched)
    BY <2>1 DEF Latches
  <2>5. Committed' = IF Access!VblBit \in latched' THEN next_buf_sel' ELSE Committed
    BY <2>1, Names DEF Committed, WritePath
  <2>6. Access!RegStep(rise, StatusReadNow, next_buf_sel')
    BY <2>4, <2>5 DEF Access!RegStep
  <2> QED BY <2>2, <2>3, <2>6 DEF Access!RegNext
<1>2. CASE UNCHANGED vars
  BY <1>2 DEF vars, slaveVars, Access!regVars, Committed
<1> QED BY <1>1, <1>2

(* The clocked slave implements the registers that software is written against: what  *)
(* is composed with CtrlRegs may rely on an access being one step.                     *)
THEOREM Implements == Spec => ImplementsAccess
<1>1. Init => Access!RegInit
  BY DEF Init, Access!RegInit, Committed
<1> QED BY <1>1, StepIsAccess, TypeCorrect, PTL DEF Spec, ImplementsAccess, Access!RegSpec
==============================================================================
