-------------------------- MODULE GroovyLink_proofs --------------------------
(***************************************************************************)
(* What holds of the stream for every size of a frame and of its sound,    *)
(* whatever the network loses, repeats or lets overtake: the ranges of the *)
(* server's counters, that a header is not taken for data, that no packet  *)
(* uses a freed block, and how the frames end.                             *)
(* The argument: full packets leave the count of a transfer a multiple of  *)
(* the packet's size, so a packet as short as a command can end it only if *)
(* it is as long as the last chunk.  After a packet that opens or closes a *)
(* session only openings follow.  Server and queue are in step byte by     *)
(* byte, or what is left falls short of the frame's length.  And as long   *)
(* as nothing is lost, the frame before a duplicate is the one in DDR.     *)
(***************************************************************************)
EXTENDS GroovyLink, SequenceTheorems, TLAPS

Commands == {"close", "init", "switchres", "audio", "raw", "dup", "lz4"}

WellFormed(p) == /\ p.kind \in Commands => p.len = CmdLen[p.kind]
                 /\ p.kind \notin Commands => 0 < p.len /\ p.len <= Mtu
                 /\ p.kind = "audio" => p.arg = AudioBytes
                 /\ p.kind = "lz4" => p.arg \in Lz4Bytes
                 /\ p.kind \in {"raw", "dup"} => p.arg = 0

Packets == {p \in [kind: Commands \cup {"rgb", "pcm"}, frame: 0..MaxFrame, arg: Nat,
                   len: Nat, mine: BOOLEAN] : WellFormed(p)}

\* What the server may read in the bytes of a packet.
Readable == {q \in [kind: Commands \cup {"rgb", "pcm"}, frame: 0..MaxFrame, arg: Nat,
                    len: Nat, mine: BOOLEAN] :
               /\ 0 < q.len /\ q.len <= Mtu
               /\ q.kind = "audio" => q.arg \in {0, AudioBytes}
               /\ q.kind = "lz4" => q.arg \in {0} \cup Lz4Bytes
               /\ q.kind \in {"raw", "dup"} => q.arg = 0}

ClTyped == cl \in [at: {"off", "wait", "up"}, frame: 0..MaxFrame, delta: BOOLEAN, audio: BOOLEAN,
                   lz4: BOOLEAN, mode: BOOLEAN, heard: 0..MaxFrame]
NetTyped == net \in Seq(Packets)
AcksTyped == acks \subseteq {"init", "frame"}
SvType == [blitting: 0..2, priority: BOOLEAN, lz4: BOOLEAN, hps: BOOLEAN]
SvTyped == sv \in SvType
PocType == [live: BOOLEAN, bytes_len: {0, RgbBytes}, lz4_len: {0} \cup Lz4Bytes,
            audio_len: {0, AudioBytes}, bytes_recv: Nat, frame_recv: 0..MaxFrame,
            frame_ddr: 0..MaxFrame, announced: Nat, own: BOOLEAN, held: 0..MaxFrame]
PocTyped == poc \in PocType
Priority == sv.priority <=> sv.blitting /= 0
Counted == sv.blitting /= 0 => /\ poc.bytes_recv % Mtu = 0
                               /\ poc.bytes_recv = 0 \/ poc.bytes_recv < Expected

FaultsTyped == faults \in [lost: Nat, odd: Nat, sess: Nat, gone: Nat, late: Nat]

IInv == ClTyped /\ NetTyped /\ AcksTyped /\ FaultsTyped /\ SvTyped /\ PocTyped /\ Priority /\ Counted

-----------------------------------------------------------------------------
(* Lengths *)

LEMMA Sizes ==
  /\ RgbBytes \in Nat \ {0}
  /\ AudioBytes \in Nat \ {0}
  /\ \A n \in Lz4Bytes : n \in Nat \ {0}
BY SizeAssumption

\* A packet no longer than a command, after full packets only, ends a transfer only if
\* it is as long as the last chunk.
LEMMA ShortIsNoData ==
  ASSUME NEW e \in Nat, NEW r \in Nat, r % 1472 = 0, NEW l \in Nat, 0 < l, l <= 26, l /= e % 1472
  PROVE  r + l /= e
<1>1. ASSUME r + l = e PROVE FALSE
  <2>1. e % 1472 = l
    BY <1>1
  <2> QED BY <2>1
<1> QED BY <1>1

LEMMA ExpectedNat ==
  ASSUME PocTyped, SvTyped
  PROVE  Expected \in Nat
<1>1. /\ poc.bytes_len \in {0, RgbBytes}
      /\ poc.audio_len \in {0, AudioBytes}
      /\ poc.lz4_len \in {0} \cup Lz4Bytes
  BY DEF PocTyped, PocType
<1>2. Expected \in {poc.bytes_len, poc.lz4_len, poc.audio_len}
  BY DEF Expected
<1> QED BY <1>1, <1>2, Sizes

\* A command that meets a transfer breaks it and is taken for a command, unless it is
\* as long as the transfer's last chunk.
LEMMA CommandBreaks ==
  ASSUME IInv, NEW p \in Packets, p.kind \in Commands, sv.blitting /= 0, p.len /= Expected % Mtu
  PROVE  Broken(p) /\ TakenForCommand(p)
<1>1. p.len \in Nat /\ 0 < p.len /\ p.len <= 26
  BY DEF Packets, WellFormed, Commands, CmdLen
<1>2. poc.bytes_recv \in Nat /\ poc.bytes_recv % 1472 = 0
  BY DEF IInv, Counted, PocTyped, PocType, Mtu
<1>3. Expected \in Nat
  BY ExpectedNat DEF IInv
<1>4. poc.bytes_recv + p.len /= Expected
  BY <1>1, <1>2, <1>3, ShortIsNoData DEF Mtu
<1> QED BY <1>1, <1>4 DEF Broken, TakenForCommand, Mtu

-----------------------------------------------------------------------------
(* The client and the network: only well-formed packets are ever under way *)

LEMMA CmdWellFormed ==
  ASSUME BoundAssumption, NEW kind \in Commands, NEW f \in 0..MaxFrame, NEW arg \in Nat,
         kind = "audio" => arg = AudioBytes, kind = "lz4" => arg \in Lz4Bytes,
         kind \in {"raw", "dup"} => arg = 0
  PROVE  Cmd(kind, f, arg) \in Packets
<1>1. CmdLen[kind] \in Nat
  BY DEF CmdLen, Commands
<1> QED BY <1>1 DEF Cmd, Packets, WellFormed

LEMMA PiecewiseTyped ==
  ASSUME NEW k \in Nat, NEW S, NEW s, s = [i \in 1..k |-> s[i]], \A i \in 1..k : s[i] \in S
  PROVE  s \in Seq(S)
<1>1. s \in [1..k -> S]
  OBVIOUS
<1> QED BY <1>1

LEMMA StreamWellFormed ==
  ASSUME BoundAssumption, NEW kind \in {"rgb", "pcm"}, NEW f \in 0..MaxFrame, NEW n \in Nat \ {0}
  PROVE  SendStream(kind, f, n) \in Seq(Packets)
<1> DEFINE k == (n + 1472 - 1) \div 1472
           s == SendStream(kind, f, n)
<1>1. k \in Nat
  OBVIOUS
<1>2. ASSUME NEW i \in 1..k PROVE s[i] \in Packets
  <2> DEFINE pos == (i - 1) * 1472
             l == IF n - pos >= 1472 THEN 1472 ELSE n - pos
  <2>1. pos \in Nat /\ pos < n
    OBVIOUS
  <2>2. l \in Nat /\ 0 < l /\ l <= 1472
    BY <2>1
  <2>3. s[i] = [kind |-> kind, frame |-> f, arg |-> pos, len |-> l, mine |-> TRUE]
    BY <1>1 DEF SendStream, Mtu
  <2> QED BY <2>1, <2>2, <2>3 DEF Packets, WellFormed, Commands, Mtu
<1>3. s = [i \in 1..k |-> s[i]]
  BY DEF SendStream, Mtu
<1> HIDE DEF k, s
<1>4. s \in Seq(Packets)
  BY <1>1, <1>2, <1>3, PiecewiseTyped
<1> QED BY <1>4 DEF s

LEMMA DisownedWellFormed ==
  ASSUME NEW s \in Seq(Packets)
  PROVE  Disowned(s) \in Seq(Packets)
<1>1. ASSUME NEW i \in 1..Len(s) PROVE Disowned(s)[i] \in Packets
  <2>1. s[i] \in Packets
    OBVIOUS
  <2>2. Disowned(s)[i] = [s[i] EXCEPT !.mine = FALSE]
    BY DEF Disowned
  <2> QED BY <2>1, <2>2 DEF Packets, WellFormed
<1>2. Disowned(s) = [i \in 1..Len(s) |-> Disowned(s)[i]]
  BY DEF Disowned
<1> QED BY <1>1, <1>2

LEMMA SwapWellFormed ==
  ASSUME NEW s \in Seq(Packets), Len(s) >= 2
  PROVE  <<s[2], s[1]>> \o SubSeq(s, 3, Len(s)) \in Seq(Packets)
<1>1. s[1] \in Packets /\ s[2] \in Packets
  OBVIOUS
<1>2. SubSeq(s, 3, Len(s)) \in Seq(Packets)
  BY SubSeqProperties
<1>3. <<s[2], s[1]>> \in Seq(Packets)
  BY <1>1
<1> QED BY <1>2, <1>3

\* The server's part of the invariant does not read what client and network change.
ServerInv == SvTyped /\ PocTyped /\ Priority /\ Counted

LEMMA ServerUnmoved ==
  ASSUME ServerInv, UNCHANGED <<sv, poc>>
  PROVE  ServerInv'
BY DEF ServerInv, SvTyped, SvType, PocTyped, PocType, Priority, Counted, Expected

LEMMA InvParts == IInv <=> ClTyped /\ NetTyped /\ AcksTyped /\ FaultsTyped /\ ServerInv
BY DEF IInv, ServerInv

LEMMA NewClientTyped ==
  NewClient \in [at: {"off", "wait", "up"}, frame: 0..MaxFrame, delta: BOOLEAN, audio: BOOLEAN,
                lz4: BOOLEAN, mode: BOOLEAN, heard: 0..MaxFrame]
BY BoundAssumption DEF NewClient

LEMMA InitIInv == Init => IInv
<1> SUFFICES ASSUME Init PROVE IInv
  OBVIOUS
<1>1. ClTyped
  BY NewClientTyped DEF Init, ClTyped
<1>2. NetTyped /\ AcksTyped /\ FaultsTyped
  BY DEF Init, NetTyped, AcksTyped, FaultsTyped
<1>3. SvTyped /\ Priority /\ Counted
  BY DEF Init, SvTyped, SvType, Priority, Counted
<1>4. PocTyped
  BY BoundAssumption DEF Init, PocTyped, PocType, Fresh
<1> QED BY <1>1, <1>2, <1>3, <1>4 DEF IInv

LEMMA SendTyped ==
  ASSUME NetTyped, NEW s \in Seq(Packets), Send(s)
  PROVE  NetTyped'
BY DEF NetTyped, Send

LEMMA BlitTyped ==
  ASSUME IInv, CmdBlit
  PROVE  ClTyped' /\ NetTyped'
<1> DEFINE f == cl.frame + 1
<1>1. cl.frame \in 0..MaxFrame /\ f \in 0..MaxFrame
  BY BoundAssumption DEF IInv, ClTyped, CmdBlit
<1>2. ClTyped'
  <2>1. cl' = [cl EXCEPT !.frame = f, !.delta = TRUE] \/ cl' = [cl EXCEPT !.frame = f]
    BY DEF CmdBlit
  <2> QED BY <1>1, <2>1 DEF IInv, ClTyped
<1>3. NetTyped'
  <2>1. ASSUME NEW n \in Lz4Bytes, Send(<<Cmd("lz4", f, n)>> \o SendStream("rgb", f, n))
        PROVE  NetTyped'
    <3>1. n \in Nat \ {0}
      BY Sizes
    <3>2. Cmd("lz4", f, n) \in Packets
      BY BoundAssumption, <1>1, <3>1, CmdWellFormed DEF Commands
    <3>3. SendStream("rgb", f, n) \in Seq(Packets)
      BY BoundAssumption, <1>1, <3>1, StreamWellFormed
    <3>4. <<Cmd("lz4", f, n)>> \o SendStream("rgb", f, n) \in Seq(Packets)
      BY <3>2, <3>3
    <3> QED BY <2>1, <3>4, SendTyped DEF IInv
  <2>2. ASSUME Send(<<Cmd("raw", f, 0)>> \o SendStream("rgb", f, RgbBytes))
        PROVE  NetTyped'
    <3>1. Cmd("raw", f, 0) \in Packets
      BY BoundAssumption, <1>1, CmdWellFormed DEF Commands
    <3>2. SendStream("rgb", f, RgbBytes) \in Seq(Packets)
      BY BoundAssumption, <1>1, Sizes, StreamWellFormed
    <3>3. <<Cmd("raw", f, 0)>> \o SendStream("rgb", f, RgbBytes) \in Seq(Packets)
      BY <3>1, <3>2
    <3> QED BY <2>2, <3>3, SendTyped DEF IInv
  <2>3. ASSUME Send(<<Cmd("dup", f, 0)>>)
        PROVE  NetTyped'
    <3>1. Cmd("dup", f, 0) \in Packets
      BY BoundAssumption, <1>1, CmdWellFormed DEF Commands
    <3>2. <<Cmd("dup", f, 0)>> \in Seq(Packets)
      BY <3>1
    <3> QED BY <2>3, <3>2, SendTyped DEF IInv
  <2> QED BY <2>1, <2>2, <2>3 DEF CmdBlit
<1> QED BY <1>2, <1>3

\* Every fault is counted, and none is taken back.
LEMMA FaultCounted ==
  ASSUME FaultsTyped, NEW kind \in {"lost", "odd", "sess", "gone", "late"}, Fault(kind)
  PROVE  /\ FaultsTyped'
         /\ faults'.lost = IF kind = "lost" THEN faults.lost + 1 ELSE faults.lost
         /\ faults'.odd = IF kind = "odd" THEN faults.odd + 1 ELSE faults.odd
         /\ faults'.sess = IF kind = "sess" THEN faults.sess + 1 ELSE faults.sess
BY DEF FaultsTyped, Fault

LEMMA FaultsKept ==
  ASSUME FaultsTyped, Client \/ Network
  PROVE  FaultsTyped' /\ (faults'.sess = 0 => faults.sess = 0)
<1>1. CASE UNCHANGED faults
  BY <1>1 DEF FaultsTyped
<1>2. CASE \E kind \in {"lost", "odd", "sess", "gone", "late"} : Fault(kind)
  <2>1. PICK kind \in {"lost", "odd", "sess", "gone", "late"} : Fault(kind)
    BY <1>2
  <2>2. /\ FaultsTyped'
        /\ faults'.sess = IF kind = "sess" THEN faults.sess + 1 ELSE faults.sess
    BY <2>1, FaultCounted
  <2>3. faults.sess \in Nat
    BY DEF FaultsTyped
  <2> QED BY <2>2, <2>3
<1> QED BY <1>1, <1>2 DEF Client, CmdInit, Connect, GiveUp, CmdSwitchres, CmdBlit, CmdAudio, WaitSync, CmdClose,
                          Network, Lose, LoseAnswer, Repeat, Overtake, Vanish, OutOfOrder

LEMMA ClientStep ==
  ASSUME IInv, Client
  PROVE  IInv'
<1> USE DEF IInv
<1> ServerInv
  BY InvParts
<1>0. FaultsTyped'
  BY FaultsKept
<1>1. CASE CmdInit
  <2>1. ClTyped'
    <3>1. PICK lz4 \in BOOLEAN : cl' = [NewClient EXCEPT !.at = "wait", !.lz4 = lz4]
      BY <1>1 DEF CmdInit
    <3> QED BY <3>1, NewClientTyped DEF ClTyped
  <2>2. NetTyped'
    <3>1. PICK lz4 \in BOOLEAN : net' = Append(Disowned(net), Cmd("init", 0, IF lz4 THEN 1 ELSE 0))
      BY <1>1 DEF CmdInit
    <3>2. Cmd("init", 0, IF lz4 THEN 1 ELSE 0) \in Packets
      BY BoundAssumption, CmdWellFormed DEF Commands
    <3> QED BY <3>1, <3>2, DisownedWellFormed DEF NetTyped
  <2>3. AcksTyped' /\ ServerInv'
    BY <1>1, ServerUnmoved DEF CmdInit, AcksTyped
  <2> QED BY <1>0, <2>1, <2>2, <2>3, InvParts, PTL
<1>2. CASE Connect
  <2>1. ClTyped' /\ NetTyped' /\ AcksTyped' /\ ServerInv'
    BY <1>2, ServerUnmoved DEF Connect, ClTyped, NetTyped, AcksTyped
  <2> QED BY <1>0, <2>1, InvParts, PTL
<1>3. CASE GiveUp
  <2>1. ClTyped' /\ NetTyped' /\ AcksTyped' /\ ServerInv'
    BY <1>3, NewClientTyped, ServerUnmoved DEF GiveUp, ClTyped, NetTyped, AcksTyped
  <2> QED BY <1>0, <2>1, InvParts, PTL
<1>4. CASE CmdSwitchres
  <2>1. ClTyped' /\ AcksTyped' /\ ServerInv'
    BY <1>4, ServerUnmoved DEF CmdSwitchres, ClTyped, AcksTyped
  <2>2. <<Cmd("switchres", 0, 0)>> \in Seq(Packets)
    BY BoundAssumption, CmdWellFormed DEF Commands
  <2>3. NetTyped'
    BY <1>4, <2>2, SendTyped DEF CmdSwitchres
  <2> QED BY <1>0, <2>1, <2>3, InvParts, PTL
<1>5. CASE CmdBlit
  <2>1. AcksTyped' /\ ServerInv'
    BY <1>5, ServerUnmoved DEF CmdBlit, AcksTyped
  <2> QED BY <1>0, <1>5, <2>1, BlitTyped, InvParts, PTL
<1>6. CASE CmdAudio
  <2>1. ClTyped' /\ AcksTyped' /\ ServerInv'
    BY <1>6, ServerUnmoved DEF CmdAudio, ClTyped, AcksTyped
  <2>2. Cmd("audio", 0, AudioBytes) \in Packets
    BY BoundAssumption, Sizes, CmdWellFormed DEF Commands
  <2>3. SendStream("pcm", 0, AudioBytes) \in Seq(Packets)
    BY BoundAssumption, Sizes, StreamWellFormed
  <2>4. <<Cmd("audio", 0, AudioBytes)>> \o SendStream("pcm", 0, AudioBytes) \in Seq(Packets)
    BY <2>2, <2>3
  <2>5. NetTyped'
    BY <1>6, <2>4, SendTyped DEF CmdAudio
  <2> QED BY <1>0, <2>1, <2>5, InvParts, PTL
<1>7. CASE WaitSync
  <2>1. ClTyped' /\ NetTyped' /\ AcksTyped' /\ ServerInv'
    BY <1>7, ServerUnmoved DEF WaitSync, ClTyped, NetTyped, AcksTyped
  <2> QED BY <1>0, <2>1, InvParts, PTL
<1>8. CASE CmdClose
  <2>1. ClTyped' /\ AcksTyped' /\ ServerInv'
    BY <1>8, NewClientTyped, ServerUnmoved DEF CmdClose, ClTyped, AcksTyped
  <2>2. <<Cmd("close", 0, 0)>> \in Seq(Packets)
    BY BoundAssumption, CmdWellFormed DEF Commands
  <2>3. NetTyped'
    BY <1>8, <2>2, SendTyped DEF CmdClose
  <2> QED BY <1>0, <2>1, <2>3, InvParts, PTL
<1> QED BY <1>1, <1>2, <1>3, <1>4, <1>5, <1>6, <1>7, <1>8 DEF Client

LEMMA NetworkStep ==
  ASSUME IInv, Network
  PROVE  IInv'
<1> USE DEF IInv
<1> ServerInv
  BY InvParts
<1>0. FaultsTyped'
  BY FaultsKept
<1>1. UNCHANGED <<sv, poc>>
  BY DEF Network, Lose, LoseAnswer, Repeat, Overtake, Vanish
<1>2. ServerInv'
  BY <1>1, ServerUnmoved
<1>3. CASE Lose
  <2>1. ClTyped' /\ NetTyped' /\ AcksTyped'
    BY <1>3 DEF Lose, ClTyped, NetTyped, AcksTyped
  <2> QED BY <1>0, <1>2, <2>1, InvParts, PTL
<1>4. CASE LoseAnswer
  <2>1. ClTyped' /\ NetTyped' /\ AcksTyped'
    BY <1>4 DEF LoseAnswer, ClTyped, NetTyped, AcksTyped
  <2> QED BY <1>0, <1>2, <2>1, InvParts, PTL
<1>5. CASE Repeat
  <2>1. <<Head(net)>> \o net \in Seq(Packets)
    BY <1>5 DEF Repeat, NetTyped
  <2>2. ClTyped' /\ NetTyped' /\ AcksTyped'
    BY <1>5, <2>1 DEF Repeat, ClTyped, NetTyped, AcksTyped
  <2> QED BY <1>0, <1>2, <2>2, InvParts, PTL
<1>6. CASE Overtake
  <2>1. ClTyped' /\ NetTyped' /\ AcksTyped'
    BY <1>6, SwapWellFormed DEF Overtake, ClTyped, NetTyped, AcksTyped
  <2> QED BY <1>0, <1>2, <2>1, InvParts, PTL
<1>7. CASE Vanish
  <2>1. ClTyped' /\ NetTyped' /\ AcksTyped'
    BY <1>7, NewClientTyped DEF Vanish, ClTyped, NetTyped, AcksTyped
  <2> QED BY <1>0, <1>2, <2>1, InvParts, PTL
<1> QED BY <1>3, <1>4, <1>5, <1>6, <1>7 DEF Network

-----------------------------------------------------------------------------
(* The server *)

LEMMA PacketsReadable == Packets \subseteq Readable
<1> SUFFICES ASSUME NEW p \in Packets PROVE p \in Readable
  OBVIOUS
<1>1. 0 < p.len /\ p.len <= Mtu
  BY DEF Packets, WellFormed, CmdLen, Commands, Mtu
<1> QED BY <1>1 DEF Packets, WellFormed, Readable

\* Whatever the bytes of a chunk spell is readable, and is no chunk.
LEMMA SpelledReadable ==
  ASSUME NEW p \in Packets, p.kind \in {"rgb", "pcm"}, NEW q \in Spelled(p)
  PROVE  q \in Readable
<1>1. PICK k \in {k \in DOMAIN Spelling : p.len \in Spelling[k]} :
        q \in [kind: {k}, frame: 0..MaxFrame, arg: SpelledArg[k], len: {p.len}, mine: {p.mine}]
  BY DEF Spelled
<1>2. k \in Commands
  BY DEF Spelling, Commands
<1>3. 0 < p.len /\ p.len <= Mtu /\ p.len \in Nat /\ p.mine \in BOOLEAN
  BY DEF Packets, WellFormed, Commands
<1>4. q = [kind |-> k, frame |-> q.frame, arg |-> q.arg, len |-> p.len, mine |-> p.mine]
      /\ q.frame \in 0..MaxFrame /\ q.arg \in SpelledArg[k] /\ q.kind = k
  BY <1>1
<1>5. /\ SpelledArg[k] \subseteq Nat
      /\ k = "audio" => SpelledArg[k] = {0, AudioBytes}
      /\ k = "lz4" => SpelledArg[k] = {0} \cup Lz4Bytes
      /\ k \in {"raw", "dup"} => SpelledArg[k] = {0}
  BY <1>2, Sizes DEF SpelledArg, Commands
<1> HIDE DEF Spelled
<1>6. q.len = p.len /\ q.mine = p.mine
  BY <1>4
<1> QED BY <1>2, <1>3, <1>4, <1>5, <1>6 DEF Readable

LEMMA ReadingsReadable ==
  ASSUME NEW p \in Packets, NEW q \in Readings(p)
  PROVE  q \in Readable
BY PacketsReadable, SpelledReadable DEF Readings

LEMMA BlockTyped ==
  ASSUME ServerInv
  PROVE  /\ Block \in PocType
         /\ Marked \in PocType
<1>1. Expected \in Nat
  BY ExpectedNat DEF ServerInv
<1>2. Announce(poc, Expected) \in PocType
  BY <1>1 DEF Announce, ServerInv, PocTyped, PocType
<1>3. Marked \in PocType
  BY <1>2 DEF Marked, ServerInv, PocTyped
<1> QED BY <1>3 DEF Block, ServerInv, PocTyped

LEMMA SvUpdate ==
  ASSUME NEW s \in SvType, NEW n \in 0..2, NEW q \in BOOLEAN
  PROVE  /\ [s EXCEPT !.blitting = n, !.priority = q] \in SvType
         /\ [s EXCEPT !.blitting = n, !.priority = q].blitting = n
         /\ [s EXCEPT !.blitting = n, !.priority = q].priority = q
BY DEF SvType

LEMMA IdleTyped ==
  ASSUME ServerInv
  PROVE  Idle \in SvType /\ Idle.blitting = 0 /\ ~Idle.priority
<1>1. sv \in SvType /\ 0 \in 0..2 /\ FALSE \in BOOLEAN
  BY DEF ServerInv, SvTyped
<1>2. Idle \in SvType /\ Idle.blitting = 0 /\ Idle.priority = FALSE
  BY <1>1, SvUpdate, Zenon DEF Idle
<1> QED BY <1>2

LEMMA ServerIdle ==
  ASSUME ServerInv
  PROVE  Server \in SvType /\ Server.blitting = 0 /\ ~Server.priority
<1>1. CASE sv.blitting = 0
  BY <1>1 DEF Server, ServerInv, SvTyped, Priority
<1>2. CASE sv.blitting /= 0
  BY <1>2, IdleTyped DEF Server
<1> QED BY <1>1, <1>2

\* What the server is left with when no transfer goes on.
LEMMA IdleKeeps ==
  ASSUME PocTyped', SvTyped', sv'.blitting = 0, ~sv'.priority
  PROVE  ServerInv'
<1>1. Priority'
  BY DEF Priority
<1>2. Counted'
  BY DEF Counted
<1> QED BY <1>1, <1>2 DEF ServerInv

\* A transfer that starts has received nothing.
LEMMA StartKeeps ==
  ASSUME ServerInv, PocTyped', poc'.bytes_recv = 0, NEW n \in {1, 2},
         sv' = [Server EXCEPT !.blitting = n, !.priority = TRUE]
  PROVE  ServerInv'
<1>1. SvTyped' /\ sv'.blitting = n /\ sv'.priority
  <2>1. sv' \in SvType /\ sv'.blitting = n /\ sv'.priority = TRUE
    <3>1. Server \in SvType /\ n \in 0..2 /\ TRUE \in BOOLEAN
      BY ServerIdle
    <3> QED BY <3>1, SvUpdate, Zenon
  <2> QED BY <2>1 DEF SvTyped
<1>2. Priority'
  BY <1>1 DEF Priority
<1>3. Counted'
  BY DEF Counted, Mtu
<1> QED BY <1>1, <1>2, <1>3 DEF ServerInv

\* What a chunk that does not end the transfer leaves of the count.
LEMMA ChunkKeepsCount ==
  ASSUME ServerInv, NEW p \in Readable, sv.blitting /= 0, ~Broken(p),
         poc.bytes_recv + p.len < Expected
  PROVE  (poc.bytes_recv + p.len) % Mtu = 0
<1>1. p.len \in Nat /\ p.len <= Mtu
  BY DEF Readable
<1>2. poc.bytes_recv \in Nat /\ poc.bytes_recv % Mtu = 0 /\ Expected \in Nat
  BY ExpectedNat DEF ServerInv, Counted, PocTyped, PocType
<1>3. p.len = Mtu
  BY <1>1, <1>2 DEF Broken, Mtu
<1> QED BY <1>2, <1>3 DEF Mtu

LEMMA RawKeeps ==
  ASSUME ServerInv, NEW p \in Readable, setBlitRaw(p)
  PROVE  ServerInv'
<1> DEFINE recv == poc.bytes_recv + p.len
           b == [poc EXCEPT !.bytes_recv = recv, !.own = poc.own /\ InPlace(p)]
           followed == IF sv.hps THEN b ELSE Announce(b, recv)
<1>1. p.len \in Nat /\ recv \in Nat
  BY DEF Readable, ServerInv, PocTyped, PocType
<1>2. (poc.own /\ InPlace(p)) \in BOOLEAN
  BY DEF InPlace
<1>3. b \in PocType
      /\ b.bytes_recv = recv /\ b.bytes_len = poc.bytes_len /\ b.lz4_len = poc.lz4_len
      /\ b.audio_len = poc.audio_len
  BY <1>1, <1>2 DEF ServerInv, PocTyped, PocType
<1> HIDE DEF b
<1>4. Announce(b, recv) \in PocType
      /\ Announce(b, recv).bytes_recv = recv /\ Announce(b, recv).bytes_len = poc.bytes_len
      /\ Announce(b, recv).lz4_len = poc.lz4_len /\ Announce(b, recv).audio_len = poc.audio_len
  BY <1>1, <1>3 DEF Announce, PocType
<1>5. PICK e \in {b, Announce(b, recv)} : poc' = e \/ \E h \in {0, b.frame_recv} : poc' = [e EXCEPT !.held = h]
  BY DEF setBlitRaw, b
<1>6. PocTyped' /\ /\ poc'.bytes_recv = recv /\ poc'.bytes_len = poc.bytes_len
                  /\ poc'.lz4_len = poc.lz4_len /\ poc'.audio_len = poc.audio_len
  <2>1. e \in PocType /\ b.frame_recv \in 0..MaxFrame /\ 0 \in 0..MaxFrame
    BY <1>3, <1>4, BoundAssumption DEF PocType
  <2>2. /\ e.bytes_recv = recv /\ e.bytes_len = poc.bytes_len
        /\ e.lz4_len = poc.lz4_len /\ e.audio_len = poc.audio_len
    BY <1>3, <1>4
  <2> QED BY <1>5, <2>1, <2>2 DEF PocTyped, PocType
<1>7. CASE recv < Expected
  <2>1. sv' = sv
    BY <1>7 DEF setBlitRaw
  <2>2. Expected' = Expected /\ poc'.bytes_recv = recv
    BY <1>6, <2>1 DEF Expected
  <2>3. recv % Mtu = 0
    BY <1>7, ChunkKeepsCount DEF setBlitRaw
  <2>4. Counted'
    BY <1>7, <2>2, <2>3 DEF Counted
  <2> QED BY <1>6, <2>1, <2>4 DEF ServerInv, SvTyped, SvType, Priority
<1>8. CASE ~(recv < Expected)
  <2>1. sv' = Idle
    BY <1>8 DEF setBlitRaw
  <2> QED BY <1>6, <2>1, IdleTyped, IdleKeeps DEF SvTyped
<1> QED BY <1>7, <1>8

LEMMA RawAudioKeeps ==
  ASSUME ServerInv, NEW p \in Readable, setBlitRawAudio(p)
  PROVE  ServerInv'
<1> DEFINE recv == poc.bytes_recv + p.len
<1>1. p.len \in Nat /\ recv \in Nat /\ poc.audio_len \in Nat
  BY Sizes DEF Readable, ServerInv, PocTyped, PocType
<1>2. poc' = [poc EXCEPT !.bytes_recv = recv] /\ sv.blitting = 2 /\ ~Broken(p)
  BY DEF setBlitRawAudio
<1>3. PocTyped' /\ poc'.bytes_recv = recv /\ poc'.audio_len = poc.audio_len
  BY <1>1, <1>2 DEF ServerInv, PocTyped, PocType
<1>4. CASE recv < poc.audio_len
  <2>1. sv' = sv
    BY <1>1, <1>4 DEF setBlitRawAudio
  <2>2. Expected' = Expected /\ Expected = poc.audio_len
    BY <1>2, <1>3, <2>1 DEF Expected
  <2>3. recv % Mtu = 0
    BY <1>2, <1>4, <2>2, ChunkKeepsCount
  <2>4. Counted'
    BY <1>3, <1>4, <2>2, <2>3 DEF Counted
  <2> QED BY <1>3, <2>1, <2>4 DEF ServerInv, SvTyped, SvType, Priority
<1>5. CASE ~(recv < poc.audio_len)
  <2>1. sv' = Idle
    BY <1>1, <1>5 DEF setBlitRawAudio
  <2> QED BY <1>3, <2>1, IdleTyped, IdleKeeps DEF SvTyped
<1> QED BY <1>4, <1>5

LEMMA PollKeepsServer ==
  ASSUME IInv, NEW p \in Readable, process_packet(p)
  PROVE  ServerInv' /\ AcksTyped'
<1> ServerInv
  BY InvParts
<1>1. AcksTyped'
  BY DEF IInv, AcksTyped, process_packet, DropBroken, SkipNoModeline, setBlitRaw, setBlitRawAudio,
         setInit, setClose, setSwitchres, setBlitAudio, setBlit, setBlitDup, IgnoreChunk, Acknowledge
<1>2. Block \in PocType /\ Marked \in PocType
  BY BlockTyped
<1>3. p.frame \in 0..MaxFrame /\ p.arg \in Nat
  BY DEF Readable
<1>4. CASE DropBroken(p)
  <2>1. PocTyped' /\ sv' = Idle
    BY <1>2, <1>4 DEF DropBroken, PocTyped
  <2> QED BY <1>1, <2>1, IdleTyped, IdleKeeps DEF SvTyped
<1>5. CASE SkipNoModeline(p)
  <2>1. PocTyped' /\ sv' = Idle
    BY <1>5 DEF SkipNoModeline, ServerInv, PocTyped
  <2> QED BY <1>1, <2>1, IdleTyped, IdleKeeps DEF SvTyped
<1>6. CASE setBlitRaw(p)
  BY <1>1, <1>6, RawKeeps
<1>7. CASE setBlitRawAudio(p)
  BY <1>1, <1>7, RawAudioKeeps
<1>8. CASE setInit(p)
  <2>1. PocTyped'
    BY <1>8, BoundAssumption DEF setInit, Fresh, PocTyped, PocType
  <2>2. sv' = [Server EXCEPT !.blitting = 0, !.lz4 = (p.arg = 1)] /\ (p.arg = 1) \in BOOLEAN
    BY <1>8 DEF setInit
  <2>3. SvTyped' /\ sv'.blitting = 0 /\ ~sv'.priority
    BY <2>2, ServerIdle DEF SvTyped, SvType
  <2> QED BY <1>1, <2>1, <2>3, IdleKeeps
<1>9. CASE setClose(p)
  <2>1. PocTyped'
    BY <1>2, <1>9 DEF setClose, PocTyped, PocType
  <2>2. SvTyped' /\ sv'.blitting = 0 /\ ~sv'.priority
    BY <1>9, ServerIdle DEF setClose, SvTyped, SvType
  <2> QED BY <1>1, <2>1, <2>2, IdleKeeps
<1>10. CASE setSwitchres(p)
  <2>1. PocTyped'
    BY <1>2, <1>10 DEF setSwitchres, PocTyped, PocType
  <2>2. SvTyped' /\ sv'.blitting = 0 /\ ~sv'.priority
    BY <1>10, ServerIdle DEF setSwitchres, SvTyped
  <2> QED BY <1>1, <2>1, <2>2, IdleKeeps
<1>11. CASE setBlitAudio(p)
  <2>1. p.arg \in {0, AudioBytes}
    BY <1>11 DEF setBlitAudio, Readable
  <2>2. PocTyped' /\ poc'.bytes_recv = 0
    BY <1>2, <1>11, <2>1 DEF setBlitAudio, PocTyped, PocType
  <2> QED BY <1>1, <1>11, <2>2, StartKeeps DEF setBlitAudio
<1>12. CASE setBlit(p)
  <2> DEFINE size == IF sv.lz4 THEN p.arg ELSE 0
             b == [Block EXCEPT !.frame_recv = p.frame, !.bytes_recv = 0, !.own = TRUE, !.held = 0,
                                !.lz4_len = size]
  <2>1. size \in {0} \cup Lz4Bytes
    BY <1>12 DEF setBlit, Header, Readable
  <2>2. b \in PocType /\ b.bytes_recv = 0
    <3> HIDE DEF size
    <3>1. 0 \in 0..MaxFrame
      BY BoundAssumption
    <3> QED BY <1>2, <1>3, <2>1, <3>1 DEF PocType
  <2>3. poc' \in {Restart(b), Announce(b, 0)}
    BY <1>12 DEF setBlit
  <2>4. PocTyped' /\ poc'.bytes_recv = 0
    <3> HIDE DEF b
    <3> QED BY <2>2, <2>3 DEF Restart, Announce, PocTyped, PocType
  <2> QED BY <1>1, <1>12, <2>4, StartKeeps DEF setBlit
<1>13. CASE setBlitDup(p)
  <2> DEFINE h == IF Held(p.frame) THEN p.frame ELSE 0
             b == [Block EXCEPT !.frame_recv = p.frame, !.bytes_recv = poc.bytes_len, !.lz4_len = 0, !.held = h]
  <2>1. poc.bytes_len \in Nat /\ h \in 0..MaxFrame
    BY <1>3, Sizes, BoundAssumption DEF ServerInv, PocTyped, PocType
  <2>2. b \in PocType
    <3> HIDE DEF h
    <3> QED BY <1>2, <1>3, <2>1 DEF PocType
  <2>3. PocTyped'
    <3>1. poc' = Announce(b, poc.bytes_len)
      BY <1>13 DEF setBlitDup
    <3> HIDE DEF b
    <3> QED BY <2>1, <2>2, <3>1 DEF Announce, PocTyped, PocType
  <2>4. sv' = Idle
    BY <1>13 DEF setBlitDup
  <2> QED BY <1>1, <2>3, <2>4, IdleTyped, IdleKeeps DEF SvTyped
<1>14. CASE IgnoreChunk(p)
  <2>1. PocTyped' /\ sv' = Server
    BY <1>2, <1>14 DEF IgnoreChunk, PocTyped
  <2> QED BY <1>1, <2>1, ServerIdle, IdleKeeps DEF SvTyped
<1> QED BY <1>4, <1>5, <1>6, <1>7, <1>8, <1>9, <1>10, <1>11, <1>12, <1>13, <1>14 DEF process_packet

\* What a poll does, to whatever it takes the packet for.
LEMMA PollReads ==
  ASSUME IInv, groovy_poll
  PROVE  /\ net \in Seq(Packets) /\ net /= <<>> /\ Head(net) \in Packets
         /\ net' = Tail(net) /\ Tail(net) \in Seq(Packets) /\ cl' = cl /\ faults' = faults
         /\ \E q \in Readable : q \in Readings(Head(net)) /\ process_packet(q)
<1>1. net \in Seq(Packets) /\ net /= <<>> /\ net' = Tail(net) /\ cl' = cl /\ faults' = faults
  BY DEF groovy_poll, IInv, NetTyped
<1>2. Head(net) \in Packets /\ Tail(net) \in Seq(Packets)
  BY <1>1
<1>3. PICK q \in Readings(Head(net)) : process_packet(q)
  BY DEF groovy_poll
<1>4. q \in Readable
  BY <1>2, ReadingsReadable
<1> QED BY <1>1, <1>2, <1>3, <1>4

LEMMA PollStep ==
  ASSUME IInv, groovy_poll
  PROVE  IInv'
<1>1. PICK q \in Readable : process_packet(q)
  BY PollReads
<1>2. ServerInv' /\ AcksTyped'
  BY <1>1, PollKeepsServer
<1>3. ClTyped' /\ NetTyped' /\ FaultsTyped'
  BY PollReads DEF IInv, ClTyped, NetTyped, FaultsTyped
<1> QED BY <1>2, <1>3, InvParts, PTL

LEMMA NextIInv == IInv /\ [Next]_vars => IInv'
<1> SUFFICES ASSUME IInv, [Next]_vars PROVE IInv'
  OBVIOUS
<1>1. CASE groovy_poll
  BY <1>1, PollStep
<1>2. CASE Client
  BY <1>2, ClientStep
<1>3. CASE Network
  BY <1>3, NetworkStep
<1>4. CASE groovy_send_joystick \/ UNCHANGED vars
  <2>1. ClTyped' /\ NetTyped' /\ AcksTyped' /\ FaultsTyped' /\ ServerInv'
    BY <1>4, InvParts, ServerUnmoved
       DEF vars, groovy_send_joystick, ClTyped, NetTyped, AcksTyped, FaultsTyped
  <2> QED BY <2>1, InvParts, PTL
<1> QED BY <1>1, <1>2, <1>3, <1>4 DEF Next

LEMMA Invariance == Spec => []IInv
BY InitIInv, NextIInv, PTL DEF Spec

-----------------------------------------------------------------------------
(* Theorems *)

\* The counts and flags of client and server keep to their ranges, and the server
\* gives priority to a transfer exactly while there is one, for every size of a
\* frame and every fault of the network.
THEOREM TypeCorrect == Spec => []TypeOK
<1>1. IInv => TypeOK
  <2> SUFFICES ASSUME IInv PROVE TypeOK
    OBVIOUS
  <2>1. Expected \in Nat
    BY ExpectedNat DEF IInv
  <2>2. poc.bytes_recv < Expected + Mtu \/ sv.blitting = 0
    BY <2>1 DEF IInv, Counted, PocTyped, PocType, Mtu
  <2>3. poc.frame_ddr \in 0..MaxFrame /\ poc.frame_recv \in 0..MaxFrame
    BY DEF IInv, PocTyped, PocType
  <2> QED BY <2>2, <2>3 DEF IInv, ClTyped, AcksTyped, SvTyped, SvType, Priority, TypeOK
<1> QED BY <1>1, Invariance, PTL

\* For every size of a frame and of its sound, whatever was lost, repeated or overtaken
\* before it and whatever the chunks before it spelled: a header that the server receives
\* starts the frame it announces, unless it is as long as the last chunk of the transfer
\* it meets (the test for short packets of process_packet).
THEOREM HeadersStartFrames == Spec => HeaderStartsFrame
<1>1. ASSUME IInv, Handled({"raw", "lz4", "dup"}), ~PassesForTail
      PROVE  poc'.frame_recv = Head(net).frame
  <2> DEFINE p == Head(net)
  <2>1. p \in Packets /\ p.kind \in {"raw", "lz4", "dup"} /\ process_packet(p)
    <3>1. p \in Packets /\ p.kind \in {"raw", "lz4", "dup"} /\ \E q \in Readings(p) : process_packet(q)
      BY <1>1, PollReads DEF Handled
    <3> QED BY <3>1 DEF Readings
  <2>2. Block \in PocType /\ p.frame \in 0..MaxFrame
    BY <1>1, <2>1, BlockTyped, InvParts DEF Packets
  <2>0. sv.blitting /= 0 => p.len /= Expected % Mtu
    BY <1>1 DEF PassesForTail
  <2> HIDE DEF p
  <2>3. sv.blitting /= 0 => Broken(p) /\ TakenForCommand(p)
    BY <1>1, <2>0, <2>1, CommandBreaks DEF Commands
  <2>4. ~DropBroken(p) /\ ~SkipNoModeline(p) /\ ~setBlitRaw(p) /\ ~setBlitRawAudio(p)
    BY <2>3 DEF DropBroken, Broken, SkipNoModeline, setBlitRaw, setBlitRawAudio
  <2>5. setBlit(p) \/ setBlitDup(p)
    BY <2>1, <2>4 DEF process_packet, setInit, setClose, setSwitchres, setBlitAudio, IgnoreChunk
  <2>6. CASE setBlit(p)
    <3> DEFINE b == [Block EXCEPT !.frame_recv = p.frame, !.bytes_recv = 0, !.own = TRUE,
                                  !.held = 0, !.lz4_len = IF sv.lz4 THEN p.arg ELSE 0]
    <3>1. poc' \in {Restart(b), Announce(b, 0)}
      BY <2>6 DEF setBlit
    <3>2. b.frame_recv = p.frame /\ Restart(b).frame_recv = b.frame_recv
                                /\ Announce(b, 0).frame_recv = b.frame_recv
      BY <2>2 DEF PocType, Restart, Announce
    <3> QED BY <3>1, <3>2 DEF p
  <2>7. CASE setBlitDup(p)
    BY <2>2, <2>7 DEF setBlitDup, Announce, PocType, p
  <2> QED BY <2>5, <2>6, <2>7
<1>2. IInv => (Handled({"raw", "lz4", "dup"}) /\ ~PassesForTail => poc'.frame_recv = Head(net).frame)
  BY <1>1
<1> QED BY <1>2, Invariance, PTL DEF HeaderStartsFrame

-----------------------------------------------------------------------------
(* Sessions: what follows an opening or closing packet in the queue *)

\* After the packet that opens or closes a session only openings follow: a client
\* sends no more until its opening is answered, and nothing after its closing.
OpensLast(s) == \A i, k \in 1..Len(s) : i < k /\ s[i].kind \in {"init", "close"} => s[k].kind = "init"
OnlyOpens(s) == \A i \in 1..Len(s) : s[i].kind = "init"
NoSession(s) == \A i \in 1..Len(s) : s[i].kind \notin {"init", "close"}
OwnLast(s) == \A i \in 1..Len(s) : s[i].mine = FALSE \/ (s[i].kind = "init" /\ i = Len(s))

SessionInv == /\ OpensLast(net)
              /\ ~poc.live => OnlyOpens(net)
              /\ cl.at = "up" => poc.live /\ NoSession(net)
              /\ cl.at = "wait" => OwnLast(net)
              /\ cl.at = "wait" /\ acks /= {} => net = <<>> /\ poc.live

LEMMA TailKeepsOrder ==
  ASSUME NEW s \in Seq(Packets), s /= <<>>
  PROVE  /\ OpensLast(s) => OpensLast(Tail(s))
         /\ OpensLast(s) /\ Head(s).kind \in {"init", "close"} => OnlyOpens(Tail(s))
         /\ OnlyOpens(s) => OnlyOpens(Tail(s)) /\ Head(s).kind = "init"
         /\ NoSession(s) => NoSession(Tail(s)) /\ Head(s).kind \notin {"init", "close"}
         /\ OwnLast(s) => OwnLast(Tail(s))
         /\ OwnLast(s) => Head(s).mine = FALSE \/ (Tail(s) = <<>> /\ Head(s).kind = "init")
<1>0. /\ \A i \in 1..Len(Tail(s)) : i + 1 = Len(s) => i = Len(Tail(s))
      /\ 1 = Len(s) => Len(Tail(s)) = 0
  <2>1. \A m \in Nat, n \in Nat : n = m - 1 =>
          (\A i \in 1..n : i + 1 = m => i = n) /\ (1 = m => n = 0)
    OBVIOUS
  <2>2. Len(s) \in Nat /\ Len(Tail(s)) \in Nat /\ Len(Tail(s)) = Len(s) - 1
    OBVIOUS
  <2> QED BY <2>1, <2>2, Zenon
<1>1. /\ Len(s) \in Nat /\ 1 <= Len(s) /\ Len(Tail(s)) = Len(s) - 1 /\ Head(s) = s[1]
      /\ Tail(s) \in Seq(Packets)
      /\ \A i \in 1..Len(Tail(s)) : Tail(s)[i] = s[i + 1]
  OBVIOUS
<1>2. Len(Tail(s)) = 0 => Tail(s) = <<>>
  BY <1>1, EmptySeq
<1>3. \A i \in 1..Len(Tail(s)) : i + 1 \in 1..Len(s) /\ 1 < i + 1
  BY <1>1
<1>4. 1 \in 1..Len(s)
  BY <1>1
<1>5. OpensLast(s) => OpensLast(Tail(s))
  BY <1>1, <1>3 DEF OpensLast
<1>6. OpensLast(s) /\ Head(s).kind \in {"init", "close"} => OnlyOpens(Tail(s))
  BY <1>1, <1>3, <1>4 DEF OpensLast, OnlyOpens
<1>7. OnlyOpens(s) => OnlyOpens(Tail(s)) /\ Head(s).kind = "init"
  BY <1>1, <1>3, <1>4 DEF OnlyOpens
<1>8. NoSession(s) => NoSession(Tail(s)) /\ Head(s).kind \notin {"init", "close"}
  BY <1>1, <1>3, <1>4 DEF NoSession
<1>9. OwnLast(s) => OwnLast(Tail(s))
  BY <1>0, <1>1, <1>3, Zenon DEF OwnLast
<1>10. OwnLast(s) => Head(s).mine = FALSE \/ (Tail(s) = <<>> /\ Head(s).kind = "init")
  BY <1>0, <1>1, <1>2, <1>4, Zenon DEF OwnLast
<1> QED BY <1>5, <1>6, <1>7, <1>8, <1>9, <1>10

\* What a connected client sends in the course of its session.
LEMMA SendKeepsOrder ==
  ASSUME NEW s \in Seq(Packets), NEW t \in Seq(Packets), NoSession(s), NoSession(t)
  PROVE  OpensLast(s \o t) /\ NoSession(s \o t)
<1>1. /\ Len(s) \in Nat /\ Len(t) \in Nat /\ Len(s \o t) = Len(s) + Len(t)
      /\ \A i \in 1..Len(s \o t) : (s \o t)[i] = IF i <= Len(s) THEN s[i] ELSE t[i - Len(s)]
  OBVIOUS
<1>2. \A i \in 1..Len(s \o t) : IF i <= Len(s) THEN i \in 1..Len(s) ELSE i - Len(s) \in 1..Len(t)
  BY <1>1
<1>3. NoSession(s \o t)
  BY <1>1, <1>2 DEF NoSession
<1>4. OpensLast(s \o t)
  BY <1>3 DEF OpensLast, NoSession
<1> QED BY <1>3, <1>4

LEMMA CloseKeepsOrder ==
  ASSUME NEW s \in Seq(Packets), NEW p \in Packets, NoSession(s)
  PROVE  OpensLast(s \o <<p>>)
<1>1. /\ Len(s) \in Nat /\ Len(s \o <<p>>) = Len(s) + 1
      /\ \A i \in 1..Len(s) : (s \o <<p>>)[i] = s[i]
  OBVIOUS
<1>2. ASSUME NEW i \in 1..Len(s \o <<p>>), NEW k \in 1..Len(s \o <<p>>), i < k
      PROVE  (s \o <<p>>)[i].kind \notin {"init", "close"}
  <2>1. i \in 1..Len(s)
    BY <1>1, <1>2
  <2> QED BY <1>1, <2>1 DEF NoSession
<1> QED BY <1>2 DEF OpensLast

LEMMA OpenKeepsOrder ==
  ASSUME NEW s \in Seq(Packets), NEW p \in Packets, p.kind = "init", OpensLast(s)
  PROVE  /\ OpensLast(Append(Disowned(s), p))
         /\ OnlyOpens(s) => OnlyOpens(Append(Disowned(s), p))
         /\ OwnLast(Append(Disowned(s), p))
<1> DEFINE t == Append(Disowned(s), p)
<1>1. Disowned(s) \in Seq(Packets) /\ Len(Disowned(s)) = Len(s) /\ Len(s) \in Nat
  BY DisownedWellFormed DEF Disowned
<1>2. \A i \in 1..Len(s) : Disowned(s)[i].kind = s[i].kind /\ Disowned(s)[i].mine = FALSE
  <2> SUFFICES ASSUME NEW i \in 1..Len(s)
               PROVE  Disowned(s)[i].kind = s[i].kind /\ Disowned(s)[i].mine = FALSE
    OBVIOUS
  <2>1. s[i] \in Packets /\ Disowned(s)[i] = [s[i] EXCEPT !.mine = FALSE]
    BY DEF Disowned
  <2> QED BY <2>1 DEF Packets
<1>3. /\ Len(t) = Len(s) + 1 /\ t[Len(t)] = p
      /\ \A i \in 1..Len(s) : t[i] = Disowned(s)[i]
  BY <1>1
<1> HIDE DEF t
<1>4. \A i \in 1..Len(t) : i = Len(t) \/ i \in 1..Len(s)
  BY <1>1, <1>3
<1>5. OwnLast(t)
  BY <1>2, <1>3, <1>4 DEF OwnLast
<1>6. OnlyOpens(s) => OnlyOpens(t)
  BY <1>2, <1>3, <1>4 DEF OnlyOpens
<1>7. OpensLast(t)
  <2> SUFFICES ASSUME NEW i \in 1..Len(t), NEW k \in 1..Len(t), i < k, t[i].kind \in {"init", "close"}
               PROVE  t[k].kind = "init"
    BY DEF OpensLast
  <2>1. i \in 1..Len(s)
    BY <1>1, <1>3, <1>4
  <2> QED BY <1>2, <1>3, <1>4, <2>1 DEF OpensLast
<1> QED BY <1>5, <1>6, <1>7 DEF t

LEMMA InitSession == Init => SessionInv
<1> SUFFICES ASSUME Init PROVE SessionInv
  OBVIOUS
<1>1. net = <<>> /\ poc.live /\ cl.at = "off"
  BY DEF Init, Fresh, NewClient
<1> QED BY <1>1 DEF SessionInv, OpensLast, OnlyOpens

LEMMA StreamNoSession ==
  ASSUME NEW kind \in {"rgb", "pcm"}, NEW f, NEW n \in Nat \ {0}
  PROVE  NoSession(SendStream(kind, f, n))
<1> DEFINE k == (n + 1472 - 1) \div 1472
<1>1. k \in Nat
  OBVIOUS
<1>2. Len(SendStream(kind, f, n)) = k
  BY <1>1 DEF SendStream, Mtu
<1>3. \A i \in 1..k : SendStream(kind, f, n)[i].kind = kind
  BY DEF SendStream, Mtu
<1> QED BY <1>2, <1>3 DEF NoSession

\* What a connected client adds to the queue, but for the packet that closes.
LEMMA SentInSession ==
  ASSUME IInv, SessionInv, cl.at = "up", NEW s \in Seq(Packets), NoSession(s), Send(s),
         cl'.at = "up", UNCHANGED <<acks, sv, poc>>
  PROVE  SessionInv'
<1>1. net \in Seq(Packets) /\ NoSession(net) /\ poc.live /\ net' = net \o s
  BY DEF IInv, NetTyped, SessionInv, Send
<1>2. OpensLast(net') /\ NoSession(net')
  BY <1>1, SendKeepsOrder
<1> QED BY <1>1, <1>2 DEF SessionInv

LEMMA HeaderAndStream ==
  ASSUME NEW kind \in Commands \ {"init", "close"}, NEW f \in 0..MaxFrame, NEW arg \in Nat,
         NEW data \in {"rgb", "pcm"}, NEW n \in Nat \ {0}, NEW g \in 0..MaxFrame,
         kind = "audio" => arg = AudioBytes, kind = "lz4" => arg \in Lz4Bytes,
         kind \in {"raw", "dup"} => arg = 0
  PROVE  LET h == <<Cmd(kind, f, arg)>> IN
           /\ h \in Seq(Packets) /\ NoSession(h)
           /\ h \o SendStream(data, g, n) \in Seq(Packets)
           /\ NoSession(h \o SendStream(data, g, n))
<1> DEFINE h == <<Cmd(kind, f, arg)>>
<1>1. Cmd(kind, f, arg) \in Packets /\ Cmd(kind, f, arg).kind = kind
  BY BoundAssumption, CmdWellFormed DEF Cmd
<1>2. h \in Seq(Packets) /\ Len(h) = 1 /\ h[1] = Cmd(kind, f, arg)
  BY <1>1
<1>3. NoSession(h)
  BY <1>1, <1>2 DEF NoSession
<1>4. SendStream(data, g, n) \in Seq(Packets) /\ NoSession(SendStream(data, g, n))
  BY BoundAssumption, StreamWellFormed, StreamNoSession
<1> HIDE DEF h
<1>5. h \o SendStream(data, g, n) \in Seq(Packets)
  BY <1>2, <1>4
<1>6. NoSession(h \o SendStream(data, g, n))
  BY <1>2, <1>3, <1>4, SendKeepsOrder
<1> QED BY <1>2, <1>3, <1>5, <1>6 DEF h

LEMMA ClientSession ==
  ASSUME IInv, SessionInv, Client
  PROVE  SessionInv'
<1>1. CASE CmdInit
  <2>1. PICK a \in Nat : net' = Append(Disowned(net), Cmd("init", 0, a))
    BY <1>1 DEF CmdInit
  <2>2. Cmd("init", 0, a) \in Packets /\ Cmd("init", 0, a).kind = "init"
    BY BoundAssumption, CmdWellFormed DEF Commands, Cmd
  <2>3. /\ OpensLast(net') /\ OwnLast(net')
        /\ OnlyOpens(net) => OnlyOpens(net')
    BY <2>1, <2>2, OpenKeepsOrder DEF SessionInv, IInv, NetTyped
  <2>4. acks' = {} /\ cl'.at = "wait" /\ poc' = poc
    BY <1>1 DEF CmdInit, NewClient
  <2> QED BY <2>3, <2>4 DEF SessionInv
<1>2. CASE Connect
  <2>1. net = <<>> /\ poc.live /\ net' = net /\ poc' = poc
    BY <1>2 DEF Connect, Answered, SessionInv
  <2>2. cl'.at = "up"
    BY <1>2 DEF Connect, IInv, ClTyped
  <2> QED BY <2>1, <2>2 DEF SessionInv, OpensLast, NoSession
<1>3. CASE GiveUp
  BY <1>3 DEF GiveUp, NewClient, SessionInv
<1>4. CASE CmdSwitchres
  <2>1. <<Cmd("switchres", 0, 0)>> \in Seq(Packets) /\ NoSession(<<Cmd("switchres", 0, 0)>>)
    BY BoundAssumption, HeaderAndStream DEF Commands
  <2>2. cl'.at = "up"
    BY <1>4 DEF CmdSwitchres, IInv, ClTyped
  <2> QED BY <1>4, <2>1, <2>2, SentInSession DEF CmdSwitchres
<1>5. CASE CmdBlit
  <2> DEFINE f == cl.frame + 1
  <2>1. cl.at = "up" /\ UNCHANGED <<acks, sv, poc>>
    BY <1>5 DEF CmdBlit
  <2>2. f \in 0..MaxFrame
    BY <1>5, BoundAssumption DEF CmdBlit, IInv, ClTyped
  <2>3. cl' = [cl EXCEPT !.frame = f, !.delta = TRUE] \/ cl' = [cl EXCEPT !.frame = f]
    BY <1>5 DEF CmdBlit
  <2>4. cl'.at = "up"
    <3> HIDE DEF f
    <3> QED BY <2>1, <2>3 DEF IInv, ClTyped
  <2>5. ASSUME NEW n \in Lz4Bytes, Send(<<Cmd("lz4", f, n)>> \o SendStream("rgb", f, n))
        PROVE  SessionInv'
    <3> HIDE DEF f
    <3>1. n \in Nat \ {0}
      BY Sizes
    <3>2. /\ <<Cmd("lz4", f, n)>> \o SendStream("rgb", f, n) \in Seq(Packets)
          /\ NoSession(<<Cmd("lz4", f, n)>> \o SendStream("rgb", f, n))
      BY <2>2, <3>1, HeaderAndStream DEF Commands
    <3> QED BY <2>1, <2>4, <2>5, <3>2, SentInSession
  <2>6. ASSUME Send(<<Cmd("raw", f, 0)>> \o SendStream("rgb", f, RgbBytes))
        PROVE  SessionInv'
    <3> HIDE DEF f
    <3>1. /\ <<Cmd("raw", f, 0)>> \o SendStream("rgb", f, RgbBytes) \in Seq(Packets)
          /\ NoSession(<<Cmd("raw", f, 0)>> \o SendStream("rgb", f, RgbBytes))
      BY <2>2, Sizes, HeaderAndStream DEF Commands
    <3> QED BY <2>1, <2>4, <2>6, <3>1, SentInSession
  <2>7. ASSUME Send(<<Cmd("dup", f, 0)>>)
        PROVE  SessionInv'
    <3> HIDE DEF f
    <3>1. <<Cmd("dup", f, 0)>> \in Seq(Packets) /\ NoSession(<<Cmd("dup", f, 0)>>)
      BY <2>2, BoundAssumption, HeaderAndStream DEF Commands
    <3> QED BY <2>1, <2>4, <2>7, <3>1, SentInSession
  <2> QED BY <1>5, <2>5, <2>6, <2>7 DEF CmdBlit
<1>6. CASE CmdAudio
  <2>1. cl'.at = "up"
    BY <1>6 DEF CmdAudio, IInv, ClTyped
  <2>2. /\ <<Cmd("audio", 0, AudioBytes)>> \o SendStream("pcm", 0, AudioBytes) \in Seq(Packets)
        /\ NoSession(<<Cmd("audio", 0, AudioBytes)>> \o SendStream("pcm", 0, AudioBytes))
    BY BoundAssumption, Sizes, HeaderAndStream DEF Commands
  <2> QED BY <1>6, <2>1, <2>2, SentInSession DEF CmdAudio
<1>7. CASE WaitSync
  <2>1. cl'.at = "up"
    BY <1>7 DEF WaitSync, IInv, ClTyped
  <2> QED BY <1>7, <2>1 DEF WaitSync, SessionInv
<1>8. CASE CmdClose
  <2>1. net \in Seq(Packets) /\ NoSession(net) /\ poc.live /\ poc' = poc /\ cl'.at = "off"
    BY <1>8 DEF CmdClose, IInv, NetTyped, SessionInv, NewClient
  <2>2. Cmd("close", 0, 0) \in Packets
    BY BoundAssumption, CmdWellFormed DEF Commands
  <2>3. OpensLast(net')
    BY <1>8, <2>1, <2>2, CloseKeepsOrder DEF CmdClose, Send
  <2> QED BY <2>1, <2>3 DEF SessionInv
<1> QED BY <1>1, <1>2, <1>3, <1>4, <1>5, <1>6, <1>7, <1>8 DEF Client

\* Repeating or overtaking leaves the sessions apart: the packets are of one.
LEMMA RepeatKeepsOrder ==
  ASSUME NEW s \in Seq(Packets), s /= <<>>, ~Session(Head(s)), OpensLast(s)
  PROVE  LET r == <<Head(s)>> \o s IN
           OpensLast(r) /\ (NoSession(s) => NoSession(r)) /\ (OwnLast(s) => OwnLast(r)) /\ ~OnlyOpens(s)
<1> DEFINE r == <<Head(s)>> \o s
<1>1. /\ Len(s) \in Nat /\ 1 <= Len(s) /\ Len(r) = Len(s) + 1 /\ Head(s) = s[1]
      /\ r[1] = s[1] /\ \A i \in 2..Len(r) : r[i] = s[i - 1]
  OBVIOUS
<1>2. s[1].kind \notin {"init", "close"} /\ 1 \in 1..Len(s)
  BY <1>1 DEF Session
<1> HIDE DEF r
<1>3. \A i \in 1..Len(r) : i = 1 \/ (i \in 2..Len(r) /\ i - 1 \in 1..Len(s))
  BY <1>1
<1>4. ~OnlyOpens(s)
  BY <1>2 DEF OnlyOpens
<1>5. NoSession(s) => NoSession(r)
  BY <1>1, <1>2, <1>3 DEF NoSession
<1>6. OwnLast(s) => OwnLast(r)
  <2>1. \A i \in 2..Len(r) : i - 1 = Len(s) => i = Len(r)
    BY <1>1
  <2>2. OwnLast(s) => s[1].mine = FALSE
    BY <1>2 DEF OwnLast
  <2> QED BY <1>1, <1>2, <1>3, <2>1, <2>2, Zenon DEF OwnLast
<1>7. OpensLast(r)
  <2> SUFFICES ASSUME NEW i \in 1..Len(r), NEW k \in 1..Len(r), i < k, r[i].kind \in {"init", "close"}
               PROVE  r[k].kind = "init"
    BY DEF OpensLast
  <2>1. i /= 1 /\ k /= 1 /\ i - 1 < k - 1
    BY <1>1, <1>2
  <2> QED BY <1>1, <1>3, <2>1 DEF OpensLast
<1> QED BY <1>4, <1>5, <1>6, <1>7 DEF r

LEMMA FromThird ==
  ASSUME NEW S, NEW s \in Seq(S), NEW n \in Nat, n = Len(s), n >= 2
  PROVE  /\ SubSeq(s, 3, n) \in Seq(S)
         /\ Len(SubSeq(s, 3, n)) = n - 2
         /\ \A i \in 1..(n - 2) : SubSeq(s, 3, n)[i] = s[i + 2]
<1>1. SubSeq(s, 3, n) \in Seq(S)
  BY SubSeqProperties
<1>2. Len(SubSeq(s, 3, n)) = n - 2
  OBVIOUS
<1>3. \A i \in 1..(n - 2) : SubSeq(s, 3, n)[i] = s[i + 2]
  OBVIOUS
<1> QED BY <1>1, <1>2, <1>3

LEMMA SwapKeepsOrder ==
  ASSUME NEW s \in Seq(Packets), Len(s) >= 2, ~Session(s[1]), ~Session(s[2]), OpensLast(s)
  PROVE  LET r == <<s[2], s[1]>> \o SubSeq(s, 3, Len(s)) IN
           OpensLast(r) /\ (NoSession(s) => NoSession(r)) /\ (OwnLast(s) => OwnLast(r)) /\ ~OnlyOpens(s)
<1> DEFINE t == SubSeq(s, 3, Len(s))
           r == <<s[2], s[1]>> \o t
<1>1. Len(s) \in Nat /\ 1 \in 1..Len(s) /\ 2 \in 1..Len(s)
  OBVIOUS
<1>2. t \in Seq(Packets) /\ Len(t) = Len(s) - 2 /\ \A i \in 1..Len(t) : t[i] = s[i + 2]
  BY <1>1, FromThird
<1> HIDE DEF t
<1>3. /\ Len(r) = Len(s) /\ r[1] = s[2] /\ r[2] = s[1]
      /\ \A i \in 3..Len(r) : r[i] = t[i - 2]
  BY <1>1, <1>2
<1> HIDE DEF r
<1>4. \A i \in 3..Len(r) : r[i] = s[i] /\ i \in 1..Len(s)
  BY <1>1, <1>2, <1>3
<1>5. \A i \in 1..Len(r) : i = 1 \/ i = 2 \/ i \in 3..Len(r)
  BY <1>1, <1>3
<1>6. s[1].kind \notin {"init", "close"} /\ s[2].kind \notin {"init", "close"}
  BY DEF Session
<1>7. ~OnlyOpens(s)
  BY <1>1, <1>6 DEF OnlyOpens
<1>8. NoSession(s) => NoSession(r)
  BY <1>3, <1>4, <1>5, <1>6 DEF NoSession
<1>9. OwnLast(s) => OwnLast(r)
  <2>1. OwnLast(s) => s[1].mine = FALSE /\ s[2].mine = FALSE
    BY <1>1, <1>6, Zenon DEF OwnLast
  <2> QED BY <1>3, <1>4, <1>5, <2>1, Zenon DEF OwnLast
<1>10. OpensLast(r)
  <2> SUFFICES ASSUME NEW i \in 1..Len(r), NEW k \in 1..Len(r), i < k, r[i].kind \in {"init", "close"}
               PROVE  r[k].kind = "init"
    BY DEF OpensLast
  <2>1. i \in 3..Len(r) /\ k \in 3..Len(r)
    BY <1>3, <1>5, <1>6
  <2> QED BY <1>4, <2>1 DEF OpensLast
<1> QED BY <1>7, <1>8, <1>9, <1>10 DEF r, t

LEMMA NetworkSession ==
  ASSUME IInv, SessionInv, Network, faults'.sess = 0
  PROVE  SessionInv'
<1> net \in Seq(Packets)
  BY DEF IInv, NetTyped
<1>1. CASE Lose
  BY <1>1, TailKeepsOrder DEF Lose, SessionInv
<1>2. CASE LoseAnswer
  BY <1>2 DEF LoseAnswer, SessionInv
<1>3. CASE Repeat
  <2>1. ~Session(Head(net))
    <3>1. Session(Head(net)) => Fault("sess")
      BY <1>3 DEF Repeat, OutOfOrder
    <3>2. faults.sess \in Nat
      BY DEF IInv, FaultsTyped
    <3> QED BY <3>1, <3>2, FaultCounted DEF IInv
  <2> QED BY <1>3, <2>1, RepeatKeepsOrder DEF Repeat, SessionInv
<1>4. CASE Overtake
  <2>1. ~Session(net[1]) /\ ~Session(net[2])
    <3>1. Session(net[1]) \/ Session(net[2]) => Fault("sess")
      BY <1>4 DEF Overtake, OutOfOrder
    <3>2. faults.sess \in Nat
      BY DEF IInv, FaultsTyped
    <3> QED BY <3>1, <3>2, FaultCounted DEF IInv
  <2> QED BY <1>4, <2>1, SwapKeepsOrder DEF Overtake, SessionInv
<1>5. CASE Vanish
  BY <1>5 DEF Vanish, NewClient, SessionInv
<1> QED BY <1>1, <1>2, <1>3, <1>4, <1>5 DEF Network

\* A command that is not taken for a chunk interrupts the transfer it meets.
LEMMA CommandInterrupts ==
  ASSUME NEW p, p.kind \in Commands, ~TakenForChunk(p), sv.blitting /= 0
  PROVE  Broken(p) /\ TakenForCommand(p)
BY DEF TakenForChunk, AsCommand, Commands, CmdLen

\* Only an opening brings the block to life, only a closing frees it, and only a
\* packet of the client's own socket is answered to it.
LEMMA PollLife ==
  ASSUME IInv, NEW p \in Packets, process_packet(p), ~TakenForChunk(p)
  PROVE  /\ p.kind = "init" => poc'.live = TRUE
         /\ p.kind \notin {"init", "close"} => poc'.live = poc.live
         /\ acks' = acks \/ p.mine = TRUE
<1>1. p.kind = "init" => setInit(p)
  <2>1. p.kind = "init" => (sv.blitting /= 0 => Broken(p) /\ TakenForCommand(p))
    BY CommandInterrupts DEF Commands
  <2> QED BY <2>1 DEF process_packet, DropBroken, Broken, SkipNoModeline, setBlitRaw, setBlitRawAudio,
                      setClose, setSwitchres, setBlitAudio, setBlit, setBlitDup, Header, Duplicate, IgnoreChunk
<1>2. p.kind = "init" => poc'.live = TRUE
  BY <1>1 DEF setInit, Fresh
<1>3. Block.live = poc.live /\ Marked.live = poc.live
  BY DEF Block, Marked, Announce, IInv, PocTyped, PocType
<1>4. p.kind \notin {"init", "close"} => poc'.live = poc.live
  <2> SUFFICES ASSUME p.kind \notin {"init", "close"} PROVE poc'.live = poc.live
    OBVIOUS
  <2> poc \in PocType /\ Block \in PocType
    BY BlockTyped, InvParts DEF IInv, PocTyped
  <2>1. CASE DropBroken(p)
    BY <1>3, <2>1 DEF DropBroken
  <2>2. CASE SkipNoModeline(p) \/ IgnoreChunk(p)
    BY <1>3, <2>2 DEF SkipNoModeline, IgnoreChunk
  <2>3. CASE setBlitRaw(p)
    BY <2>3 DEF setBlitRaw, Announce, PocType
  <2>4. CASE setBlitRawAudio(p)
    BY <2>4 DEF setBlitRawAudio, PocType
  <2>5. CASE setSwitchres(p)
    BY <1>3, <2>5 DEF setSwitchres, PocType
  <2>6. CASE setBlitAudio(p)
    BY <1>3, <2>6 DEF setBlitAudio, PocType
  <2>7. CASE setBlit(p)
    BY <1>3, <2>7 DEF setBlit, Restart, Announce, PocType
  <2>8. CASE setBlitDup(p)
    BY <1>3, <2>8 DEF setBlitDup, Announce, PocType
  <2> QED BY <2>1, <2>2, <2>3, <2>4, <2>5, <2>6, <2>7, <2>8 DEF process_packet, setInit, setClose
<1>5. acks' = acks \/ p.mine = TRUE
  <2>1. p.mine \in BOOLEAN
    BY DEF Packets
  <2> QED BY <2>1, Zenon DEF process_packet, DropBroken, SkipNoModeline, setBlitRaw, setBlitRawAudio,
         setInit, setClose, setSwitchres, setBlitAudio, setBlit, setBlitDup, IgnoreChunk, Acknowledge
<1> QED BY <1>2, <1>4, <1>5

LEMMA PollSession ==
  ASSUME IInv, SessionInv, groovy_poll, process_packet(Head(net)), ~TakenForChunk(Head(net))
  PROVE  SessionInv'
<1> DEFINE p == Head(net)
<1>1. net \in Seq(Packets) /\ net /= <<>> /\ p \in Packets /\ process_packet(p) /\ net' = Tail(net) /\ cl' = cl
  BY PollReads
<1>2. /\ p.kind = "init" => poc'.live = TRUE
      /\ p.kind \notin {"init", "close"} => poc'.live = poc.live
      /\ acks' = acks \/ p.mine = TRUE
  BY <1>1, PollLife
<1>3. /\ OpensLast(net) => OpensLast(Tail(net))
      /\ OpensLast(net) /\ p.kind \in {"init", "close"} => OnlyOpens(Tail(net))
      /\ OnlyOpens(net) => OnlyOpens(Tail(net)) /\ p.kind = "init"
      /\ NoSession(net) => NoSession(Tail(net)) /\ p.kind \notin {"init", "close"}
      /\ OwnLast(net) => OwnLast(Tail(net))
      /\ OwnLast(net) => p.mine = FALSE \/ (Tail(net) = <<>> /\ p.kind = "init")
  BY <1>1, TailKeepsOrder
<1> HIDE DEF p
<1>4. OpensLast(net') /\ (~poc'.live => OnlyOpens(net'))
  BY <1>1, <1>2, <1>3 DEF SessionInv
<1>5. cl'.at = "up" => poc'.live /\ NoSession(net')
  BY <1>1, <1>2, <1>3 DEF SessionInv
<1>6. cl'.at = "wait" => OwnLast(net')
  BY <1>1, <1>3 DEF SessionInv
<1>7. cl'.at = "wait" /\ acks' /= {} => net' = <<>> /\ poc'.live
  BY <1>1, <1>2, <1>3 DEF SessionInv
<1> QED BY <1>4, <1>5, <1>6, <1>7 DEF SessionInv

\* In a session a packet is what it was sent for.
LEMMA PollInSession ==
  ASSUME IInv, groovy_poll, InSession'
  PROVE  InSession /\ process_packet(Head(net)) /\ ~TakenForChunk(Head(net)) /\ uses' = uses \cup Uses(Head(net))
<1>1. PICK q \in Readings(Head(net)) : /\ process_packet(q)
                                      /\ mixed' = (mixed \/ q /= Head(net) \/ TakenForChunk(q))
                                      /\ uses' = uses \cup Uses(q)
  BY DEF groovy_poll
<1>2. faults'.sess = 0 /\ ~mixed' /\ faults' = faults
  BY PollReads DEF InSession
<1>3. ~mixed /\ q = Head(net) /\ ~TakenForChunk(q)
  BY <1>1, <1>2, Zenon
<1> QED BY <1>1, <1>2, <1>3 DEF InSession

LEMMA OthersInSession ==
  ASSUME IInv, Client \/ Network, UNCHANGED history, InSession'
  PROVE  InSession
BY FaultsKept DEF InSession, history, IInv

LEMMA NextSession ==
  ASSUME IInv, InSession => SessionInv, [Next]_vars, InSession'
  PROVE  SessionInv'
<1>1. CASE groovy_poll
  BY <1>1, PollInSession, PollSession
<1>2. CASE Client /\ UNCHANGED history
  BY <1>2, OthersInSession, ClientSession
<1>3. CASE Network /\ UNCHANGED history
  BY <1>3, OthersInSession, NetworkSession DEF InSession
<1>4. CASE groovy_send_joystick \/ UNCHANGED vars
  <2>1. UNCHANGED <<net, poc, cl, acks, faults, mixed>>
    BY <1>4 DEF vars, groovy_send_joystick
  <2> QED BY <2>1 DEF InSession, SessionInv, OpensLast, OnlyOpens, NoSession, OwnLast
<1> QED BY <1>1, <1>2, <1>3, <1>4 DEF Next

LEMMA SessionInvariance == Spec => [](IInv /\ (InSession => SessionInv))
<1>1. IInv /\ (InSession => SessionInv) /\ [Next]_vars => (InSession => SessionInv)'
  BY NextSession
<1> QED BY <1>1, InitSession, Invariance, PTL DEF Spec

\* For every size of a frame and of its sound: as long as the packets that open and close
\* sessions keep their order and the chunks are not taken for commands, the block that
\* CMD_CLOSE has freed is used by no packet and not freed again, whatever else is lost,
\* repeated or overtaken; the keys, the joysticks and the logo do use it.
THEOREM FreedByNoPacket == Spec => []FreedUsedByNoPacket
<1>1. Init => FreedUsedByNoPacket
  BY DEF Init, FreedUsedByNoPacket
<1>2. ASSUME IInv, InSession => SessionInv, FreedUsedByNoPacket, [Next]_vars
      PROVE  FreedUsedByNoPacket'
  <2> SUFFICES ASSUME InSession'
               PROVE  uses' \subseteq {"input"} \cup (IF Screensaver THEN {"logo"} ELSE {})
    BY DEF FreedUsedByNoPacket
  <2>1. CASE groovy_poll
    <3>1. InSession /\ uses' = uses \cup Uses(Head(net)) /\ net \in Seq(Packets) /\ net /= <<>>
      BY <1>2, <2>1, PollInSession, PollReads
    <3>2. ~poc.live => Head(net).kind = "init"
      BY <1>2, <3>1, TailKeepsOrder DEF SessionInv
    <3>3. Uses(Head(net)) \subseteq (IF Screensaver THEN {"logo"} ELSE {})
      BY <3>2 DEF Uses
    <3> QED BY <1>2, <3>1, <3>3 DEF FreedUsedByNoPacket
  <2>2. CASE (Client \/ Network) /\ UNCHANGED history
    BY <1>2, <2>2, OthersInSession DEF FreedUsedByNoPacket, history
  <2>3. CASE groovy_send_joystick \/ UNCHANGED vars
    BY <1>2, <2>3 DEF groovy_send_joystick, vars, InSession, FreedUsedByNoPacket
  <2> QED BY <1>2, <2>1, <2>2, <2>3 DEF Next
<1>3. IInv /\ (InSession => SessionInv) /\ FreedUsedByNoPacket /\ [Next]_vars => FreedUsedByNoPacket'
  BY <1>2
<1> QED BY <1>1, <1>3, SessionInvariance, PTL DEF Spec

-----------------------------------------------------------------------------
(* The ends of frames.  Part one: the frames of a session are sent the way *)
(* its opening said, and the FPGA is told of each under its own number.    *)

Within(s) == {s[i] : i \in 1..Len(s)}

ModeInv ==
  /\ \A p \in Within(net) : Header(p) => (p.kind = "lz4" <=> sv.lz4)
  /\ cl.at = "up" => cl.lz4 = sv.lz4
  /\ cl.at = "wait" => \A p \in Within(net) : p.mine => (p.arg = 1 <=> cl.lz4)
  /\ cl.at = "wait" /\ acks /= {} => cl.lz4 = sv.lz4

LEMMA WithinTail ==
  ASSUME NEW s \in Seq(Packets), s /= <<>>
  PROVE  Within(Tail(s)) \subseteq Within(s) /\ Head(s) \in Within(s)
<1>1. /\ Len(s) \in Nat /\ 1 <= Len(s) /\ Len(Tail(s)) = Len(s) - 1 /\ Head(s) = s[1]
      /\ \A i \in 1..Len(Tail(s)) : Tail(s)[i] = s[i + 1]
  OBVIOUS
<1>2. 1 \in 1..Len(s) /\ \A i \in 1..Len(Tail(s)) : i + 1 \in 1..Len(s)
  BY <1>1
<1> QED BY <1>1, <1>2 DEF Within

LEMMA WithinBoth ==
  ASSUME NEW s \in Seq(Packets), NEW t \in Seq(Packets)
  PROVE  s \o t \in Seq(Packets) /\ Within(s \o t) \subseteq Within(s) \cup Within(t)
<1>1. /\ Len(s) \in Nat /\ Len(t) \in Nat /\ Len(s \o t) = Len(s) + Len(t)
      /\ \A i \in 1..Len(s \o t) : (s \o t)[i] = IF i <= Len(s) THEN s[i] ELSE t[i - Len(s)]
  OBVIOUS
<1>2. \A i \in 1..Len(s \o t) : IF i <= Len(s) THEN i \in 1..Len(s) ELSE i - Len(s) \in 1..Len(t)
  BY <1>1
<1>3. s \o t \in Seq(Packets)
  OBVIOUS
<1> QED BY <1>1, <1>2, <1>3 DEF Within

LEMMA WithinOne ==
  ASSUME NEW p \in Packets
  PROVE  Within(<<p>>) = {p} /\ <<p>> \in Seq(Packets)
BY DEF Within

LEMMA WithinStream ==
  ASSUME NEW kind \in {"rgb", "pcm"}, NEW f, NEW n \in Nat \ {0}
  PROVE  \A p \in Within(SendStream(kind, f, n)) : p.kind = kind
<1> DEFINE k == (n + 1472 - 1) \div 1472
<1>1. k \in Nat
  OBVIOUS
<1>2. Len(SendStream(kind, f, n)) = k
  BY <1>1 DEF SendStream, Mtu
<1>3. \A i \in 1..k : SendStream(kind, f, n)[i].kind = kind
  BY DEF SendStream, Mtu
<1> QED BY <1>2, <1>3 DEF Within

LEMMA WithinDisowned ==
  ASSUME NEW s \in Seq(Packets), NEW p \in Within(Disowned(s))
  PROVE  p.mine = FALSE /\ \E q \in Within(s) : p.kind = q.kind
<1>1. Len(Disowned(s)) = Len(s) /\ Len(s) \in Nat
  BY DEF Disowned
<1>2. PICK i \in 1..Len(s) : p = Disowned(s)[i]
  BY <1>1 DEF Within
<1>3. s[i] \in Packets /\ s[i] \in Within(s) /\ p = [s[i] EXCEPT !.mine = FALSE]
  BY <1>2 DEF Disowned, Within
<1> QED BY <1>3 DEF Packets

LEMMA WithinMixed ==
  ASSUME NEW s \in Seq(Packets)
  PROVE  /\ s /= <<>> => Within(<<Head(s)>> \o s) \subseteq Within(s)
         /\ Len(s) >= 2 => Within(<<s[2], s[1]>> \o SubSeq(s, 3, Len(s))) \subseteq Within(s)
<1>1. ASSUME s /= <<>> PROVE Within(<<Head(s)>> \o s) \subseteq Within(s)
  <2>1. Head(s) \in Packets /\ Head(s) \in Within(s)
    BY <1>1, WithinTail
  <2> QED BY <2>1, WithinOne, WithinBoth
<1>2. ASSUME Len(s) >= 2 PROVE Within(<<s[2], s[1]>> \o SubSeq(s, 3, Len(s))) \subseteq Within(s)
  <2> DEFINE t == SubSeq(s, 3, Len(s))
             h == <<s[2], s[1]>>
  <2>1. Len(s) \in Nat /\ 1 \in 1..Len(s) /\ 2 \in 1..Len(s)
    BY <1>2
  <2>2. t \in Seq(Packets) /\ Len(t) = Len(s) - 2 /\ \A i \in 1..Len(t) : t[i] = s[i + 2]
    BY <1>2, <2>1, FromThird
  <2>3. \A i \in 1..Len(t) : i + 2 \in 1..Len(s)
    BY <2>1, <2>2
  <2>4. Within(t) \subseteq Within(s)
    <3> HIDE DEF t
    <3> QED BY <2>2, <2>3 DEF Within
  <2>5. h \in Seq(Packets) /\ Within(h) \subseteq Within(s)
    BY <2>1 DEF Within
  <2> HIDE DEF t, h
  <2>6. Within(h \o t) \subseteq Within(h) \cup Within(t)
    BY <2>2, <2>5, WithinBoth
  <2> QED BY <2>4, <2>5, <2>6 DEF t, h
<1> QED BY <1>1, <1>2

\* Only an opening and a closing packet change the way of the session's frames.
LEMMA PollMode ==
  ASSUME IInv, NEW p \in Packets, process_packet(p), ~TakenForChunk(p)
  PROVE  /\ p.kind = "init" => (sv'.lz4 <=> p.arg = 1)
         /\ p.kind \notin {"init", "close"} => sv'.lz4 = sv.lz4
<1>1. p.kind = "init" => setInit(p)
  <2>1. p.kind = "init" => (sv.blitting /= 0 => Broken(p) /\ TakenForCommand(p))
    BY CommandInterrupts DEF Commands
  <2> QED BY <2>1 DEF process_packet, DropBroken, Broken, SkipNoModeline, setBlitRaw, setBlitRawAudio,
                      setClose, setSwitchres, setBlitAudio, setBlit, setBlitDup, Header, Duplicate, IgnoreChunk
<1>2. sv \in SvType /\ Server \in SvType /\ Idle.lz4 = sv.lz4 /\ Server.lz4 = sv.lz4
  BY ServerIdle, InvParts DEF IInv, SvTyped, SvType, Server, Idle
<1>3. p.kind = "init" => (sv'.lz4 <=> p.arg = 1)
  BY <1>1, <1>2 DEF setInit, SvType
<1>4. p.kind \notin {"init", "close"} => sv'.lz4 = sv.lz4
  BY <1>2, Zenon DEF process_packet, DropBroken, SkipNoModeline, setBlitRaw, setBlitRawAudio, setInit, setClose,
              setSwitchres, setBlitDup, IgnoreChunk, setBlitAudio, setBlit, SvType
<1> QED BY <1>3, <1>4

LEMMA ModeInit == Init => ModeInv
BY DEF Init, ModeInv, Within, NewClient

\* What a connected client sends is of its session's way.
LEMMA SentInMode ==
  ASSUME IInv, ModeInv, cl.at = "up", NEW s \in Seq(Packets), Send(s),
         \A p \in Within(s) : Header(p) => (p.kind = "lz4" <=> cl.lz4),
         cl'.at /= "wait", cl'.at = "up" => cl'.lz4 = cl.lz4, sv' = sv
  PROVE  ModeInv'
<1>1. net \in Seq(Packets) /\ net' = net \o s
  BY DEF IInv, NetTyped, Send
<1>2. Within(net') \subseteq Within(net) \cup Within(s)
  BY <1>1, WithinBoth
<1> QED BY <1>2 DEF ModeInv, Header

LEMMA ClientMode ==
  ASSUME IInv, SessionInv, ModeInv, Client
  PROVE  ModeInv'
<1>0. net \in Seq(Packets)
  BY DEF IInv, NetTyped
<1>1. CASE CmdInit
  <2>1. PICK lz4 \in BOOLEAN : /\ cl' = [NewClient EXCEPT !.at = "wait", !.lz4 = lz4]
                               /\ net' = Append(Disowned(net), Cmd("init", 0, IF lz4 THEN 1 ELSE 0))
    BY <1>1 DEF CmdInit
  <2>2. cl'.at = "wait" /\ cl'.lz4 = lz4 /\ acks' = {} /\ sv' = sv
    BY <1>1, <2>1 DEF CmdInit, NewClient
  <2> DEFINE c == Cmd("init", 0, IF lz4 THEN 1 ELSE 0)
  <2>3. c \in Packets /\ c.kind = "init" /\ c.arg = IF lz4 THEN 1 ELSE 0
    BY BoundAssumption, CmdWellFormed DEF Commands, Cmd
  <2> HIDE DEF c
  <2>4. net' = Disowned(net) \o <<c>> /\ Disowned(net) \in Seq(Packets)
    BY <1>0, <2>1, <2>3, DisownedWellFormed, AppendIsConcat DEF c
  <2>5. Within(net') \subseteq Within(Disowned(net)) \cup {c}
    BY <2>3, <2>4, WithinOne, WithinBoth
  <2>6. \A p \in Within(net') : Header(p) => (p.kind = "lz4" <=> sv'.lz4)
    <3> SUFFICES ASSUME NEW p \in Within(net'), Header(p) PROVE p.kind = "lz4" <=> sv.lz4
      BY <2>2, Zenon
    <3>1. p \in Within(Disowned(net))
      BY <2>3, <2>5 DEF Header
    <3>2. PICK q \in Within(net) : p.kind = q.kind
      BY <1>0, <3>1, WithinDisowned
    <3> QED BY <3>2 DEF ModeInv, Header
  <2>7. \A p \in Within(net') : p.mine => (p.arg = 1 <=> cl'.lz4)
    <3>1. c.arg = 1 <=> lz4
      BY <2>3
    <3>2. \A p \in Within(Disowned(net)) : p.mine = FALSE
      BY <1>0, WithinDisowned
    <3> QED BY <2>2, <2>5, <3>1, <3>2
  <2> QED BY <2>2, <2>6, <2>7 DEF ModeInv, Header
<1>2. CASE Connect \/ WaitSync
  <2>1. cl'.at = "up" /\ cl'.lz4 = cl.lz4 /\ cl.lz4 = sv.lz4 /\ net' = net /\ sv' = sv
    BY <1>2 DEF Connect, WaitSync, Answered, IInv, ClTyped, ModeInv
  <2> QED BY <2>1 DEF ModeInv, Header
<1>3. CASE GiveUp
  BY <1>3 DEF GiveUp, NewClient, ModeInv, Header
<1>4. CASE CmdSwitchres
  <2>1. Cmd("switchres", 0, 0) \in Packets /\ Cmd("switchres", 0, 0).kind = "switchres"
    BY BoundAssumption, CmdWellFormed DEF Commands, Cmd
  <2>2. cl'.at = "up" /\ cl'.lz4 = cl.lz4 /\ cl.at = "up" /\ sv' = sv /\ Send(<<Cmd("switchres", 0, 0)>>)
    BY <1>4 DEF CmdSwitchres, IInv, ClTyped
  <2> QED BY <2>1, <2>2, WithinOne, SentInMode DEF Header
<1>5. CASE CmdBlit
  <2> DEFINE f == cl.frame + 1
  <2>1. cl.at = "up" /\ sv' = sv /\ f \in 0..MaxFrame
    BY <1>5, BoundAssumption DEF CmdBlit, IInv, ClTyped
  <2>2. cl' = [cl EXCEPT !.frame = f, !.delta = TRUE] \/ cl' = [cl EXCEPT !.frame = f]
    BY <1>5 DEF CmdBlit
  <2> HIDE DEF f
  <2>3. cl'.at = "up" /\ cl'.lz4 = cl.lz4
    BY <2>1, <2>2 DEF IInv, ClTyped
  <2>4. ASSUME NEW h \in Packets, h.kind \in {"lz4", "raw"}, h.kind = "lz4" <=> cl.lz4, NEW n \in Nat \ {0},
               Send(<<h>> \o SendStream("rgb", f, n))
        PROVE  ModeInv'
    <3>1. SendStream("rgb", f, n) \in Seq(Packets)
      BY <2>1, BoundAssumption, StreamWellFormed
    <3> DEFINE t == SendStream("rgb", f, n)
    <3>2. \A p \in Within(t) : p.kind = "rgb"
      BY WithinStream
    <3> HIDE DEF t
    <3>3. <<h>> \o t \in Seq(Packets) /\ Within(<<h>> \o t) \subseteq {h} \cup Within(t)
      <4>1. <<h>> \in Seq(Packets) /\ Within(<<h>>) = {h} /\ t \in Seq(Packets)
        BY <3>1, WithinOne DEF t
      <4> DEFINE s == <<h>>
      <4> HIDE DEF s
      <4>2. s \o t \in Seq(Packets) /\ Within(s \o t) \subseteq Within(s) \cup Within(t)
        BY <4>1, WithinBoth DEF s
      <4> QED BY <4>1, <4>2 DEF s
    <3>4. \A p \in Within(<<h>> \o t) : Header(p) => (p.kind = "lz4" <=> cl.lz4)
      BY <2>4, <3>2, <3>3 DEF Header
    <3> QED BY <2>1, <2>3, <2>4, <3>3, <3>4, SentInMode DEF t
  <2>5. \/ \E n \in Lz4Bytes : cl.lz4 /\ Send(<<Cmd("lz4", f, n)>> \o SendStream("rgb", f, n))
        \/ ~cl.lz4 /\ Send(<<Cmd("raw", f, 0)>> \o SendStream("rgb", f, RgbBytes))
        \/ ~cl.lz4 /\ Send(<<Cmd("dup", f, 0)>>)
    BY <1>5 DEF CmdBlit, f
  <2>6. CASE \E n \in Lz4Bytes : cl.lz4 /\ Send(<<Cmd("lz4", f, n)>> \o SendStream("rgb", f, n))
    <3>1. PICK n \in Lz4Bytes : cl.lz4 /\ Send(<<Cmd("lz4", f, n)>> \o SendStream("rgb", f, n))
      BY <2>6
    <3>2. n \in Nat \ {0}
      BY Sizes
    <3>3. Cmd("lz4", f, n) \in Packets /\ Cmd("lz4", f, n).kind = "lz4"
      BY <2>1, <3>2, BoundAssumption, CmdWellFormed DEF Commands, Cmd
    <3> QED BY <2>4, <3>1, <3>2, <3>3
  <2>7. CASE ~cl.lz4 /\ Send(<<Cmd("raw", f, 0)>> \o SendStream("rgb", f, RgbBytes))
    <3>1. Cmd("raw", f, 0) \in Packets /\ Cmd("raw", f, 0).kind = "raw"
      BY <2>1, BoundAssumption, CmdWellFormed DEF Commands, Cmd
    <3> QED BY <2>4, <2>7, <3>1, Sizes
  <2>8. CASE ~cl.lz4 /\ Send(<<Cmd("dup", f, 0)>>)
    <3>1. Cmd("dup", f, 0) \in Packets /\ Cmd("dup", f, 0).kind = "dup"
      BY <2>1, BoundAssumption, CmdWellFormed DEF Commands, Cmd
    <3> QED BY <2>1, <2>3, <2>8, <3>1, WithinOne, SentInMode
  <2> QED BY <2>5, <2>6, <2>7, <2>8
<1>6. CASE CmdAudio
  <2>1. Cmd("audio", 0, AudioBytes) \in Packets /\ Cmd("audio", 0, AudioBytes).kind = "audio"
    BY BoundAssumption, Sizes, CmdWellFormed DEF Commands, Cmd
  <2>2. cl'.at = "up" /\ cl'.lz4 = cl.lz4 /\ cl.at = "up" /\ sv' = sv
        /\ Send(<<Cmd("audio", 0, AudioBytes)>> \o SendStream("pcm", 0, AudioBytes))
    BY <1>6 DEF CmdAudio, IInv, ClTyped
  <2> DEFINE t == SendStream("pcm", 0, AudioBytes)
             h == Cmd("audio", 0, AudioBytes)
  <2>3. t \in Seq(Packets) /\ \A p \in Within(t) : p.kind = "pcm"
    BY BoundAssumption, Sizes, StreamWellFormed, WithinStream
  <2>4. h \in Packets /\ h.kind = "audio" /\ Send(<<h>> \o t)
    BY <2>1, <2>2
  <2> HIDE DEF t, h
  <2>5. <<h>> \o t \in Seq(Packets) /\ Within(<<h>> \o t) \subseteq {h} \cup Within(t)
    <3>1. <<h>> \in Seq(Packets) /\ Within(<<h>>) = {h}
      BY <2>4, WithinOne
    <3> DEFINE s == <<h>>
    <3> HIDE DEF s
    <3>2. s \o t \in Seq(Packets) /\ Within(s \o t) \subseteq Within(s) \cup Within(t)
      BY <2>3, <3>1, WithinBoth DEF s
    <3> QED BY <3>1, <3>2 DEF s
  <2>6. \A p \in Within(<<h>> \o t) : ~Header(p)
    BY <2>3, <2>4, <2>5 DEF Header
  <2> QED BY <2>2, <2>4, <2>5, <2>6, SentInMode
<1>7. CASE CmdClose
  <2>1. Cmd("close", 0, 0) \in Packets /\ Cmd("close", 0, 0).kind = "close"
    BY BoundAssumption, CmdWellFormed DEF Commands, Cmd
  <2>2. cl'.at = "off" /\ cl.at = "up" /\ sv' = sv /\ Send(<<Cmd("close", 0, 0)>>)
    BY <1>7 DEF CmdClose, NewClient
  <2> QED BY <2>1, <2>2, WithinOne, SentInMode DEF Header
<1> QED BY <1>1, <1>2, <1>3, <1>4, <1>5, <1>6, <1>7 DEF Client

LEMMA NetworkMode ==
  ASSUME IInv, SessionInv, ModeInv, Network
  PROVE  ModeInv'
<1>0. net \in Seq(Packets)
  BY DEF IInv, NetTyped
<1>1. CASE LoseAnswer
  BY <1>1 DEF LoseAnswer, ModeInv, Header
<1>2. CASE Vanish
  BY <1>2 DEF Vanish, NewClient, ModeInv, Header
<1>3. CASE Lose \/ Repeat \/ Overtake
  <2>1. cl' = cl /\ sv' = sv /\ acks' = acks /\ Within(net') \subseteq Within(net)
    BY <1>0, <1>3, WithinTail, WithinMixed DEF Lose, Repeat, Overtake
  <2> QED BY <2>1 DEF ModeInv, Header
<1> QED BY <1>1, <1>2, <1>3 DEF Network

LEMMA PollKeepsMode ==
  ASSUME IInv, SessionInv, ModeInv, groovy_poll, process_packet(Head(net)), ~TakenForChunk(Head(net))
  PROVE  ModeInv'
<1> DEFINE p == Head(net)
<1>1. net \in Seq(Packets) /\ net /= <<>> /\ p \in Packets /\ process_packet(p) /\ net' = Tail(net) /\ cl' = cl
  BY PollReads
<1>2. /\ p.kind = "init" => (sv'.lz4 <=> p.arg = 1)
      /\ p.kind \notin {"init", "close"} => sv'.lz4 = sv.lz4
      /\ acks' = acks \/ p.mine = TRUE
  BY <1>1, PollMode, PollLife
<1>3. Within(net') \subseteq Within(net) /\ p \in Within(net)
  BY <1>1, WithinTail
<1>4. /\ OpensLast(net) /\ p.kind \in {"init", "close"} => OnlyOpens(net')
      /\ NoSession(net) => p.kind \notin {"init", "close"}
      /\ OwnLast(net) => p.mine = FALSE \/ (net' = <<>> /\ p.kind = "init")
  BY <1>1, TailKeepsOrder
<1> HIDE DEF p
<1>5. \A q \in Within(net') : Header(q) => (q.kind = "lz4" <=> sv'.lz4)
  <2>1. CASE p.kind \in {"init", "close"}
    BY <1>4, <2>1 DEF SessionInv, OnlyOpens, Within, Header
  <2>2. CASE p.kind \notin {"init", "close"}
    BY <1>2, <1>3, <2>2 DEF ModeInv
  <2> QED BY <2>1, <2>2
<1>6. cl'.at = "up" => cl'.lz4 = sv'.lz4
  BY <1>1, <1>2, <1>4 DEF SessionInv, ModeInv
<1>7. cl'.at = "wait" => \A q \in Within(net') : q.mine => (q.arg = 1 <=> cl'.lz4)
  BY <1>1, <1>3 DEF ModeInv
<1>8. cl'.at = "wait" /\ acks' /= {} => cl'.lz4 = sv'.lz4
  <2> SUFFICES ASSUME cl.at = "wait", acks' /= {} PROVE cl.lz4 = sv'.lz4
    BY <1>1
  <2>1. p.mine = TRUE /\ p.kind = "init"
    BY <1>1, <1>2, <1>4 DEF SessionInv
  <2>2. cl.lz4 \in BOOLEAN /\ sv'.lz4 \in BOOLEAN
    <3>1. ServerInv'
      BY <1>1, PacketsReadable, PollKeepsServer
    <3> QED BY <3>1 DEF IInv, ClTyped, ServerInv, SvTyped, SvType
  <2> QED BY <1>2, <1>3, <2>1, <2>2 DEF ModeInv
<1> QED BY <1>5, <1>6, <1>7, <1>8 DEF ModeInv, Header

\* While pixels come in, no end is noted; the FPGA follows the frame from its header
\* on, or has been told nothing of it yet.
EndInv ==
  /\ sv.blitting = 1 =>
       /\ ended = "none"
       /\ sv.hps => poc.announced = 0
       /\ ~sv.hps => poc.frame_ddr = poc.frame_recv
       /\ sv.lz4 => poc.lz4_len > 0
  /\ ended \in {"whole", "torn", "kept", "stale"} => poc.frame_ddr = poc.frame_recv

LEMMA EndInit == Init => EndInv
BY DEF Init, EndInv

\* The steps that leave the server's frame alone, and those after which it has none.
LEMMA EndKept ==
  ASSUME EndInv, poc'.frame_ddr = poc.frame_ddr, poc'.frame_recv = poc.frame_recv,
         ended' \in {ended, "marked", "none"}, sv'.blitting /= 1
  PROVE  EndInv'
BY DEF EndInv

LEMMA RawEnds ==
  ASSUME ServerInv, EndInv, NEW p \in Packets, setBlitRaw(p)
  PROVE  /\ EndInv'
         /\ poc.bytes_recv + p.len < Expected => ended' = ended /\ sv' = sv /\ poc'.held = poc.held
         /\ ~(poc.bytes_recv + p.len < Expected) =>
              /\ sv'.blitting = 0 /\ ended' = IF poc.own /\ InPlace(p) THEN "whole" ELSE "torn"
              /\ poc.own /\ InPlace(p) => poc'.held = poc.frame_recv
         /\ poc'.bytes_recv = poc.bytes_recv + p.len /\ poc'.own = (poc.own /\ InPlace(p))
         /\ poc'.frame_recv = poc.frame_recv /\ poc'.bytes_len = poc.bytes_len /\ poc'.lz4_len = poc.lz4_len
<1> DEFINE recv == poc.bytes_recv + p.len
           b == [poc EXCEPT !.bytes_recv = recv, !.own = poc.own /\ InPlace(p)]
           followed == IF sv.hps THEN b ELSE Announce(b, recv)
<1>1. poc \in PocType /\ sv \in SvType /\ Expected \in Nat /\ p.len \in Nat /\ recv \in Nat /\ sv.blitting = 1
  BY ExpectedNat DEF ServerInv, PocTyped, SvTyped, setBlitRaw, Packets, WellFormed, CmdLen, Commands, PocType
<1>2. /\ b.bytes_recv = recv /\ b.own = (poc.own /\ InPlace(p)) /\ b.frame_recv = poc.frame_recv
      /\ b.bytes_len = poc.bytes_len /\ b.lz4_len = poc.lz4_len /\ b.frame_ddr = poc.frame_ddr
      /\ b.announced = poc.announced /\ b.held = poc.held
  BY <1>1 DEF PocType, InPlace
<1> DEFINE a == Announce(b, recv)
<1>3. /\ a.bytes_recv = recv /\ a.own = (poc.own /\ InPlace(p)) /\ a.frame_recv = poc.frame_recv
      /\ a.bytes_len = poc.bytes_len /\ a.lz4_len = poc.lz4_len /\ a.frame_ddr = poc.frame_recv
      /\ a.held = poc.held
  BY <1>1 DEF PocType, Announce, InPlace
<1>4. CASE recv < Expected
  <2>1. poc' = followed /\ sv' = sv /\ ended' = ended
    BY <1>4 DEF setBlitRaw
  <2> HIDE DEF b, a, recv
  <2>2. poc' = IF sv.hps THEN b ELSE a
    BY <2>1 DEF a, b, recv
  <2> QED BY <1>1, <1>2, <1>3, <1>4, <2>1, <2>2 DEF EndInv, recv
<1>5. CASE ~(recv < Expected)
  <2> DEFINE e == IF followed.announced < Expected THEN a ELSE followed
  <2>1. /\ poc' = [e EXCEPT !.held = IF b.own THEN b.frame_recv ELSE 0]
        /\ sv' = Idle /\ ended' = IF b.own THEN "whole" ELSE "torn"
    BY <1>5 DEF setBlitRaw
  <2>2. poc.bytes_len > 0 /\ Expected > 0
    BY <1>1 DEF setBlitRaw, EndInv, Expected, ServerInv, PocTyped, PocType
  <2>3. sv.hps => poc.announced = 0
    BY <1>1 DEF EndInv
  <2>9. a \in PocType
    BY <1>1 DEF PocType, Announce, InPlace
  <2> HIDE DEF b, a, recv
  <2>10. e = a
    BY <1>2, <2>2, <2>3 DEF a, recv
  <2> HIDE DEF e
  <2>4. /\ poc'.held = (IF b.own THEN b.frame_recv ELSE 0)
        /\ poc'.bytes_recv = a.bytes_recv /\ poc'.own = a.own /\ poc'.frame_recv = a.frame_recv
        /\ poc'.bytes_len = a.bytes_len /\ poc'.lz4_len = a.lz4_len /\ poc'.frame_ddr = a.frame_ddr
    BY <2>1, <2>9, <2>10 DEF PocType
  <2>5. sv'.blitting = 0
    BY <2>1, IdleTyped
  <2>6. ended' = IF poc.own /\ InPlace(p) THEN "whole" ELSE "torn"
    BY <1>2, <2>1, Zenon
  <2>7. EndInv'
    BY <1>3, <2>4, <2>5 DEF EndInv
  <2>8. poc.own /\ InPlace(p) => poc'.held = poc.frame_recv
    BY <1>2, <2>4
  <2> QED BY <1>3, <1>5, <2>4, <2>5, <2>6, <2>7, <2>8, Zenon DEF recv
<1> QED BY <1>4, <1>5

\* What a command finds of the frame: the mark of a loss leaves its numbers as they are.
LEMMA BlockEnds ==
  ASSUME ServerInv, EndInv
  PROVE  /\ Marked \in PocType /\ Block \in PocType
         /\ Marked.frame_recv = poc.frame_recv /\ Marked.frame_ddr = poc.frame_ddr
         /\ Marked.bytes_len = poc.bytes_len
         /\ Block.frame_recv = poc.frame_recv /\ Block.frame_ddr = poc.frame_ddr
         /\ Block.bytes_len = poc.bytes_len
         /\ HowEnded \in {ended, "marked"} /\ Ended \in {ended, "marked"}
<1>1. Marked \in PocType /\ Block \in PocType
  BY BlockTyped
<1>2. /\ Marked.frame_recv = poc.frame_recv /\ Marked.frame_ddr = poc.frame_ddr
      /\ Marked.bytes_len = poc.bytes_len
  BY DEF Marked, Announce, ServerInv, PocTyped, PocType, EndInv
<1> QED BY <1>1, <1>2 DEF Block, HowEnded, Ended

LEMMA PollEnds ==
  ASSUME IInv, ModeInv, EndInv, NEW p \in Packets, p \in Within(net), process_packet(p)
  PROVE  EndInv'
<1> ServerInv
  BY InvParts
<1>1. /\ Marked \in PocType /\ Block \in PocType
      /\ Marked.frame_recv = poc.frame_recv /\ Marked.frame_ddr = poc.frame_ddr
      /\ Block.frame_recv = poc.frame_recv /\ Block.frame_ddr = poc.frame_ddr
      /\ HowEnded \in {ended, "marked"} /\ Ended \in {ended, "marked"}
  BY BlockEnds
<1>2. /\ poc \in PocType /\ sv \in SvType /\ Server \in SvType /\ Server.blitting = 0
      /\ Idle.blitting = 0 /\ Server.lz4 = sv.lz4 /\ Server.hps = sv.hps
  BY ServerIdle, IdleTyped DEF ServerInv, PocTyped, SvTyped, SvType, Server, Idle
<1>3. CASE DropBroken(p)
  BY <1>1, <1>2, <1>3, EndKept DEF DropBroken
<1>4. CASE SkipNoModeline(p)
  BY <1>2, <1>4, EndKept DEF SkipNoModeline
<1>5. CASE setBlitRaw(p)
  BY <1>5, RawEnds
<1>6. CASE setBlitRawAudio(p)
  <2>1. sv'.blitting /= 1
    BY <1>2, <1>6 DEF setBlitRawAudio
  <2> QED BY <1>2, <1>6, <2>1, EndKept DEF setBlitRawAudio, PocType
<1>7. CASE setInit(p)
  <2>1. sv'.blitting = 0 /\ ended' = "none"
    BY <1>2, <1>7 DEF setInit, SvType
  <2> QED BY <2>1 DEF EndInv
<1>8. CASE setClose(p)
  <2>1. sv'.blitting = 0 /\ ended' = Ended
    BY <1>2, <1>8 DEF setClose, SvType
  <2> QED BY <1>1, <1>8, <2>1, EndKept DEF setClose, PocType
<1>9. CASE setSwitchres(p)
  BY <1>1, <1>2, <1>9, EndKept DEF setSwitchres, PocType
<1>10. CASE setBlitAudio(p)
  <2>1. sv'.blitting = 2 /\ ended' = Ended
    BY <1>2, <1>10 DEF setBlitAudio, SvType
  <2> QED BY <1>1, <1>10, <2>1, EndKept DEF setBlitAudio, PocType
<1>11. CASE setBlit(p)
  <2> DEFINE b == [Block EXCEPT !.frame_recv = p.frame, !.bytes_recv = 0, !.own = TRUE,
                                !.held = 0, !.lz4_len = IF sv.lz4 THEN p.arg ELSE 0]
  <2>1. ended' = "none" /\ poc' = (IF sv.hps THEN Restart(b) ELSE Announce(b, 0))
        /\ sv' = [Server EXCEPT !.blitting = 1, !.priority = TRUE] /\ Header(p)
    BY <1>11 DEF setBlit
  <2>2. sv'.hps = sv.hps /\ sv'.lz4 = sv.lz4
    BY <1>2, <2>1 DEF SvType
  <2>3. sv.lz4 => p.arg \in Nat \ {0}
    <3>1. sv.lz4 => p.kind = "lz4"
      BY <2>1 DEF ModeInv
    <3> QED BY <3>1, Sizes DEF Packets, WellFormed
  <2>4. /\ Restart(b).announced = 0 /\ Restart(b).lz4_len = b.lz4_len
        /\ Announce(b, 0).frame_ddr = b.frame_recv /\ Announce(b, 0).frame_recv = b.frame_recv
        /\ Announce(b, 0).lz4_len = b.lz4_len
        /\ b.lz4_len = IF sv.lz4 THEN p.arg ELSE 0
    BY <1>1 DEF PocType, Restart, Announce
  <2> HIDE DEF b
  <2> QED BY <2>1, <2>2, <2>3, <2>4 DEF EndInv
<1>12. CASE setBlitDup(p)
  <2>1. poc'.frame_ddr = poc'.frame_recv
    BY <1>1, <1>12 DEF setBlitDup, Announce, PocType
  <2>2. sv'.blitting = 0
    BY <1>2, <1>12 DEF setBlitDup
  <2> QED BY <2>1, <2>2 DEF EndInv
<1>13. CASE IgnoreChunk(p)
  BY <1>1, <1>2, <1>13, EndKept DEF IgnoreChunk
<1> QED BY <1>3, <1>4, <1>5, <1>6, <1>7, <1>8, <1>9, <1>10, <1>11, <1>12, <1>13 DEF process_packet

-----------------------------------------------------------------------------
(* Part two: what the frames hold, when the network is mild.               *)

\* From its place i on, s holds the rest of frame f, of n bytes in all, from byte pos on,
\* and then a command, if anything.
Chunks(s, i, f, pos, n) ==
  \A k \in Nat : LET at == pos + k * Mtu IN
    /\ at < n => /\ i + k <= Len(s)
                 /\ s[i + k].kind = "rgb" /\ s[i + k].frame = f /\ s[i + k].arg = at
                 /\ s[i + k].len = IF n - at >= Mtu THEN Mtu ELSE n - at
    /\ at >= n /\ (k = 0 \/ at - Mtu < n) /\ i + k <= Len(s) => s[i + k].kind \in Commands

LEMMA ChunksTail ==
  ASSUME NEW s \in Seq(Packets), s /= <<>>, NEW i \in Nat \ {0}, NEW f, NEW pos \in Nat, NEW n \in Nat,
         Chunks(s, i + 1, f, pos, n)
  PROVE  Chunks(Tail(s), i, f, pos, n)
<1>1. /\ Len(s) \in Nat /\ Len(Tail(s)) = Len(s) - 1
      /\ \A j \in 1..Len(Tail(s)) : Tail(s)[j] = s[j + 1]
  OBVIOUS
<1>2. SUFFICES ASSUME NEW k \in Nat
               PROVE  LET at == pos + k * Mtu IN
                 /\ at < n => /\ i + k <= Len(Tail(s))
                              /\ Tail(s)[i + k].kind = "rgb" /\ Tail(s)[i + k].frame = f
                              /\ Tail(s)[i + k].arg = at
                              /\ Tail(s)[i + k].len = IF n - at >= Mtu THEN Mtu ELSE n - at
                 /\ at >= n /\ (k = 0 \/ at - Mtu < n) /\ i + k <= Len(Tail(s)) =>
                      Tail(s)[i + k].kind \in Commands
  BY DEF Chunks
<1>3. LET at == pos + k * Mtu IN
        /\ at < n => /\ (i + 1) + k <= Len(s)
                     /\ s[(i + 1) + k].kind = "rgb" /\ s[(i + 1) + k].frame = f /\ s[(i + 1) + k].arg = at
                     /\ s[(i + 1) + k].len = IF n - at >= Mtu THEN Mtu ELSE n - at
        /\ at >= n /\ (k = 0 \/ at - Mtu < n) /\ (i + 1) + k <= Len(s) => s[(i + 1) + k].kind \in Commands
  BY DEF Chunks
<1>4. (i + 1) + k <= Len(s) <=> i + k <= Len(Tail(s))
  BY <1>1
<1>5. i + k <= Len(Tail(s)) => Tail(s)[i + k] = s[(i + 1) + k]
  <2>1. i + k <= Len(Tail(s)) => i + k \in 1..Len(Tail(s)) /\ (i + k) + 1 = (i + 1) + k
    BY <1>1
  <2> QED BY <1>1, <2>1
<1> QED BY <1>3, <1>4, <1>5

LEMMA ChunksAdvance ==
  ASSUME NEW s \in Seq(Packets), NEW i \in Nat, NEW f, NEW pos \in Nat, NEW n \in Nat,
         Chunks(s, i, f, pos, n), pos < n
  PROVE  Chunks(s, i + 1, f, pos + Mtu, n)
<1>1. SUFFICES ASSUME NEW k \in Nat
               PROVE  LET at == (pos + Mtu) + k * Mtu IN
                 /\ at < n => /\ (i + 1) + k <= Len(s)
                              /\ s[(i + 1) + k].kind = "rgb" /\ s[(i + 1) + k].frame = f
                              /\ s[(i + 1) + k].arg = at
                              /\ s[(i + 1) + k].len = IF n - at >= Mtu THEN Mtu ELSE n - at
                 /\ at >= n /\ (k = 0 \/ at - Mtu < n) /\ (i + 1) + k <= Len(s) =>
                      s[(i + 1) + k].kind \in Commands
  BY DEF Chunks
<1> DEFINE at == (pos + Mtu) + k * Mtu
<1>2. PICK j \in Nat : j = k + 1
  OBVIOUS
<1>3. i + j = (i + 1) + k /\ pos + j * Mtu = at /\ j /= 0 /\ (k = 0 => at - Mtu < n)
  BY <1>2 DEF Mtu
<1> HIDE DEF at
<1>4. LET a == pos + j * Mtu IN
        /\ a < n => /\ i + j <= Len(s)
                    /\ s[i + j].kind = "rgb" /\ s[i + j].frame = f /\ s[i + j].arg = a
                    /\ s[i + j].len = IF n - a >= Mtu THEN Mtu ELSE n - a
        /\ a >= n /\ (j = 0 \/ a - Mtu < n) /\ i + j <= Len(s) => s[i + j].kind \in Commands
  BY Zenon DEF Chunks
<1>5. /\ at < n => /\ (i + 1) + k <= Len(s)
                   /\ s[(i + 1) + k].kind = "rgb" /\ s[(i + 1) + k].frame = f /\ s[(i + 1) + k].arg = at
                   /\ s[(i + 1) + k].len = IF n - at >= Mtu THEN Mtu ELSE n - at
      /\ at >= n /\ (j = 0 \/ at - Mtu < n) /\ (i + 1) + k <= Len(s) => s[(i + 1) + k].kind \in Commands
  BY <1>3, <1>4
<1> QED BY <1>3, <1>5, Zenon DEF at

LEMMA ChunksAppend ==
  ASSUME NEW s \in Seq(Packets), NEW t \in Seq(Packets), t /= <<>>, t[1].kind \in Commands,
         NEW i \in Nat, i <= Len(s) + 1, NEW f, NEW pos \in Nat, NEW n \in Nat, Chunks(s, i, f, pos, n), i > 0
  PROVE  Chunks(s \o t, i, f, pos, n)
<1>1. /\ Len(s) \in Nat /\ Len(t) \in Nat /\ Len(s \o t) = Len(s) + Len(t) /\ 1 <= Len(t)
      /\ \A j \in 1..Len(s) : (s \o t)[j] = s[j]
      /\ (s \o t)[Len(s) + 1] = t[1]
  OBVIOUS
<1> DEFINE u == s \o t
<1> HIDE DEF u
<1>2. SUFFICES ASSUME NEW k \in Nat
               PROVE  LET at == pos + k * Mtu IN
                 /\ at < n => /\ i + k <= Len(u)
                              /\ u[i + k].kind = "rgb" /\ u[i + k].frame = f /\ u[i + k].arg = at
                              /\ u[i + k].len = IF n - at >= Mtu THEN Mtu ELSE n - at
                 /\ at >= n /\ (k = 0 \/ at - Mtu < n) /\ i + k <= Len(u) => u[i + k].kind \in Commands
  BY DEF Chunks, u
<1> DEFINE at == pos + k * Mtu
<1> HIDE DEF at
<1>3. /\ at < n => /\ i + k <= Len(s)
                   /\ s[i + k].kind = "rgb" /\ s[i + k].frame = f /\ s[i + k].arg = at
                   /\ s[i + k].len = IF n - at >= Mtu THEN Mtu ELSE n - at
      /\ at >= n /\ (k = 0 \/ at - Mtu < n) /\ i + k <= Len(s) => s[i + k].kind \in Commands
  BY Zenon DEF Chunks, at
<1>4. i + k <= Len(s) => i + k <= Len(u) /\ u[i + k] = s[i + k]
  <2>1. i + k <= Len(s) => i + k <= Len(u) /\ i + k \in 1..Len(s)
    BY <1>1 DEF u
  <2> QED BY <1>1, <2>1 DEF u
<1>5. ASSUME k = 0 \/ at - Mtu < n, i + k <= Len(u), ~(i + k <= Len(s))
      PROVE  u[i + k].kind \in Commands
  <2>1. CASE k = 0
    <3>1. i + k = Len(s) + 1
      BY <1>1, <1>5, <2>1
    <3> QED BY <1>1, <3>1 DEF u
  <2>2. CASE k /= 0
    <3>1. k - 1 \in Nat /\ pos + (k - 1) * Mtu = at - Mtu
      BY <2>2 DEF Mtu, at
    <3>2. i + (k - 1) <= Len(s)
      BY <1>5, <2>2, <3>1 DEF Chunks
    <3>3. i + k = Len(s) + 1
      BY <1>1, <1>5, <3>1, <3>2
    <3> QED BY <1>1, <3>3 DEF u
  <2> QED BY <2>1, <2>2
<1> QED BY <1>3, <1>4, <1>5, Zenon DEF at

LEMMA ChunksDisowned ==
  ASSUME NEW s \in Seq(Packets), NEW i \in Nat \ {0}, NEW f, NEW pos \in Nat, NEW n \in Nat, Chunks(s, i, f, pos, n)
  PROVE  Chunks(Disowned(s), i, f, pos, n)
<1>1. /\ Len(s) \in Nat /\ Len(Disowned(s)) = Len(s)
      /\ \A j \in 1..Len(s) : /\ Disowned(s)[j].kind = s[j].kind /\ Disowned(s)[j].frame = s[j].frame
                              /\ Disowned(s)[j].arg = s[j].arg /\ Disowned(s)[j].len = s[j].len
  <2>1. Len(s) \in Nat /\ Len(Disowned(s)) = Len(s)
    BY DEF Disowned
  <2>2. ASSUME NEW j \in 1..Len(s)
        PROVE  /\ Disowned(s)[j].kind = s[j].kind /\ Disowned(s)[j].frame = s[j].frame
               /\ Disowned(s)[j].arg = s[j].arg /\ Disowned(s)[j].len = s[j].len
    <3>1. s[j] \in Packets /\ Disowned(s)[j] = [s[j] EXCEPT !.mine = FALSE]
      BY DEF Disowned
    <3> QED BY <3>1 DEF Packets
  <2> QED BY <2>1, <2>2
<1> DEFINE u == Disowned(s)
<1> HIDE DEF u
<1>2. SUFFICES ASSUME NEW k \in Nat
               PROVE  LET at == pos + k * Mtu IN
                 /\ at < n => /\ i + k <= Len(u)
                              /\ u[i + k].kind = "rgb" /\ u[i + k].frame = f /\ u[i + k].arg = at
                              /\ u[i + k].len = IF n - at >= Mtu THEN Mtu ELSE n - at
                 /\ at >= n /\ (k = 0 \/ at - Mtu < n) /\ i + k <= Len(u) => u[i + k].kind \in Commands
  BY DEF Chunks, u
<1> DEFINE at == pos + k * Mtu
<1> HIDE DEF at
<1>3. /\ at < n => /\ i + k <= Len(s)
                   /\ s[i + k].kind = "rgb" /\ s[i + k].frame = f /\ s[i + k].arg = at
                   /\ s[i + k].len = IF n - at >= Mtu THEN Mtu ELSE n - at
      /\ at >= n /\ (k = 0 \/ at - Mtu < n) /\ i + k <= Len(s) => s[i + k].kind \in Commands
  BY Zenon DEF Chunks, at
<1>4. i + k <= Len(s) => i + k \in 1..Len(s)
  BY <1>1
<1>5. Len(u) = Len(s)
  BY <1>1 DEF u
<1>6. i + k <= Len(s) => /\ u[i + k].kind = s[i + k].kind /\ u[i + k].frame = s[i + k].frame
                         /\ u[i + k].arg = s[i + k].arg /\ u[i + k].len = s[i + k].len
  BY <1>1, <1>4 DEF u
<1> QED BY <1>3, <1>5, <1>6, Zenon DEF at

LEMMA ChunksSent ==
  ASSUME NEW f \in 0..MaxFrame, NEW n \in Nat \ {0}
  PROVE  Chunks(SendStream("rgb", f, n), 1, f, 0, n)
<1> DEFINE m == (n + 1472 - 1) \div 1472
           u == SendStream("rgb", f, n)
<1>1. m \in Nat /\ Len(u) = m
  BY DEF SendStream, Mtu
<1>2. ASSUME NEW j \in 1..m
      PROVE  /\ u[j].kind = "rgb" /\ u[j].frame = f /\ u[j].arg = (j - 1) * 1472
             /\ u[j].len = IF n - (j - 1) * 1472 >= 1472 THEN 1472 ELSE n - (j - 1) * 1472
  BY DEF SendStream, Mtu
<1> HIDE DEF u
<1>3. SUFFICES ASSUME NEW k \in Nat
               PROVE  /\ 0 + k * 1472 < n =>
                           /\ 1 + k <= Len(u)
                           /\ u[1 + k].kind = "rgb" /\ u[1 + k].frame = f /\ u[1 + k].arg = 0 + k * 1472
                           /\ u[1 + k].len = IF n - (0 + k * 1472) >= 1472 THEN 1472 ELSE n - (0 + k * 1472)
                      /\ 0 + k * 1472 >= n => ~(1 + k <= Len(u))
  BY DEF Chunks, Mtu, u
<1>4. ASSUME 0 + k * 1472 < n
      PROVE  1 + k \in 1..m /\ ((1 + k) - 1) * 1472 = 0 + k * 1472
  BY <1>4
<1>5. ASSUME 0 + k * 1472 >= n PROVE ~(1 + k <= m)
  BY <1>5
<1> QED BY <1>1, <1>2, <1>4, <1>5

LEMMA ChunksPrepend ==
  ASSUME NEW s \in Seq(Packets), NEW t \in Seq(Packets), NEW i \in Nat \ {0}, NEW f, NEW pos \in Nat,
         NEW n \in Nat, Chunks(t, i, f, pos, n)
  PROVE  Chunks(s \o t, Len(s) + i, f, pos, n)
<1>1. /\ Len(s) \in Nat /\ Len(t) \in Nat /\ Len(s \o t) = Len(s) + Len(t)
      /\ \A j \in 1..Len(t) : (s \o t)[Len(s) + j] = t[j]
  OBVIOUS
<1> DEFINE u == s \o t
           o == Len(s) + i
<1> HIDE DEF u, o
<1>2. SUFFICES ASSUME NEW k \in Nat
               PROVE  LET at == pos + k * Mtu IN
                 /\ at < n => /\ o + k <= Len(u)
                              /\ u[o + k].kind = "rgb" /\ u[o + k].frame = f /\ u[o + k].arg = at
                              /\ u[o + k].len = IF n - at >= Mtu THEN Mtu ELSE n - at
                 /\ at >= n /\ (k = 0 \/ at - Mtu < n) /\ o + k <= Len(u) => u[o + k].kind \in Commands
  BY DEF Chunks, u, o
<1> DEFINE at == pos + k * Mtu
<1> HIDE DEF at
<1>3. /\ at < n => /\ i + k <= Len(t)
                   /\ t[i + k].kind = "rgb" /\ t[i + k].frame = f /\ t[i + k].arg = at
                   /\ t[i + k].len = IF n - at >= Mtu THEN Mtu ELSE n - at
      /\ at >= n /\ (k = 0 \/ at - Mtu < n) /\ i + k <= Len(t) => t[i + k].kind \in Commands
  BY Zenon DEF Chunks, at
<1>4. i + k <= Len(t) <=> o + k <= Len(u)
  BY <1>1 DEF u, o
<1>5. i + k <= Len(t) => u[o + k] = t[i + k]
  <2>1. i + k <= Len(t) => i + k \in 1..Len(t) /\ o + k = Len(s) + (i + k)
    BY <1>1 DEF o
  <2> QED BY <1>1, <2>1 DEF u
<1> QED BY <1>3, <1>4, <1>5, Zenon DEF at

\* Each frame announced in the queue is there to its last byte.
Size(h) == IF h.kind = "lz4" THEN h.arg ELSE RgbBytes
Complete(s) ==
  \A i \in 1..Len(s) : s[i].kind \in {"raw", "lz4"} => Chunks(s, i + 1, s[i].frame, 0, Size(s[i]))

LEMMA SizeNat ==
  ASSUME NEW h \in Packets
  PROVE  Size(h) \in Nat
BY Sizes DEF Size, Packets

LEMMA CompleteTail ==
  ASSUME NEW s \in Seq(Packets), s /= <<>>, Complete(s)
  PROVE  Complete(Tail(s))
<1>1. /\ Len(s) \in Nat /\ Len(Tail(s)) = Len(s) - 1
      /\ \A i \in 1..Len(Tail(s)) : Tail(s)[i] = s[i + 1]
  OBVIOUS
<1>2. ASSUME NEW i \in 1..Len(Tail(s)), Tail(s)[i].kind \in {"raw", "lz4"}
      PROVE  Chunks(Tail(s), i + 1, Tail(s)[i].frame, 0, Size(Tail(s)[i]))
  <2>1. Tail(s)[i] = s[i + 1] /\ i + 1 \in 1..Len(s) /\ s[i + 1] \in Packets /\ i + 1 \in Nat \ {0}
    BY <1>1
  <2>2. Chunks(s, (i + 1) + 1, s[i + 1].frame, 0, Size(s[i + 1]))
    BY <1>2, <2>1 DEF Complete
  <2> QED BY <2>1, <2>2, ChunksTail, SizeNat
<1> QED BY <1>2 DEF Complete

LEMMA CompleteBoth ==
  ASSUME NEW s \in Seq(Packets), NEW t \in Seq(Packets), t /= <<>>, t[1].kind \in Commands,
         Complete(s), Complete(t)
  PROVE  Complete(s \o t)
<1>1. /\ Len(s) \in Nat /\ Len(t) \in Nat /\ Len(s \o t) = Len(s) + Len(t)
      /\ \A j \in 1..Len(s) : (s \o t)[j] = s[j]
      /\ \A j \in 1..Len(t) : (s \o t)[Len(s) + j] = t[j]
  OBVIOUS
<1>2. ASSUME NEW i \in 1..Len(s \o t), (s \o t)[i].kind \in {"raw", "lz4"}
      PROVE  Chunks(s \o t, i + 1, (s \o t)[i].frame, 0, Size((s \o t)[i]))
  <2>1. CASE i <= Len(s)
    <3>1. i \in 1..Len(s) /\ i + 1 <= Len(s) + 1 /\ i + 1 \in Nat /\ i + 1 > 0
      BY <1>1, <2>1
    <3>2. s[i] \in Packets /\ (s \o t)[i] = s[i]
      BY <1>1, <3>1
    <3>3. Chunks(s, i + 1, s[i].frame, 0, Size(s[i]))
      BY <1>2, <3>1, <3>2 DEF Complete
    <3> QED BY <3>1, <3>2, <3>3, ChunksAppend, SizeNat
  <2>2. CASE ~(i <= Len(s))
    <3>1. PICK j \in 1..Len(t) : i = Len(s) + j
      <4>1. i - Len(s) \in 1..Len(t) /\ i = Len(s) + (i - Len(s))
        BY <1>1, <2>2
      <4> QED BY <4>1
    <3>2. t[j] \in Packets /\ (s \o t)[i] = t[j] /\ j + 1 \in Nat \ {0} /\ i + 1 = Len(s) + (j + 1)
      BY <1>1, <3>1
    <3>3. Chunks(t, j + 1, t[j].frame, 0, Size(t[j]))
      BY <1>2, <3>1, <3>2 DEF Complete
    <3> QED BY <3>2, <3>3, ChunksPrepend, SizeNat
  <2> QED BY <2>1, <2>2
<1> QED BY <1>2 DEF Complete

LEMMA CompleteDisowned ==
  ASSUME NEW s \in Seq(Packets), Complete(s)
  PROVE  Complete(Disowned(s))
<1>1. Len(s) \in Nat /\ Len(Disowned(s)) = Len(s)
  BY DEF Disowned
<1>2. ASSUME NEW i \in 1..Len(s), Disowned(s)[i].kind \in {"raw", "lz4"}
      PROVE  Chunks(Disowned(s), i + 1, Disowned(s)[i].frame, 0, Size(Disowned(s)[i]))
  <2>1. s[i] \in Packets /\ Disowned(s)[i] = [s[i] EXCEPT !.mine = FALSE] /\ i + 1 \in Nat \ {0}
    BY <1>1 DEF Disowned
  <2>2. Disowned(s)[i].kind = s[i].kind /\ Disowned(s)[i].frame = s[i].frame /\ Disowned(s)[i].arg = s[i].arg
    BY <2>1 DEF Packets
  <2>3. Chunks(s, i + 1, s[i].frame, 0, Size(s[i]))
    BY <1>2, <2>2 DEF Complete
  <2>4. Size(Disowned(s)[i]) = Size(s[i])
    BY <2>2 DEF Size
  <2> QED BY <2>1, <2>2, <2>3, <2>4, ChunksDisowned, SizeNat
<1> QED BY <1>1, <1>2 DEF Complete

\* A packet that announces no pixels is complete by itself, and so is sound.
Announces(s) == \E p \in Within(s) : p.kind \in {"raw", "lz4"}

LEMMA CompleteOther ==
  ASSUME NEW s \in Seq(Packets), ~Announces(s)
  PROVE  Complete(s)
BY DEF Complete, Within, Announces

LEMMA ConcatAt ==
  ASSUME NEW o \in Seq(Packets), NEW t \in Seq(Packets)
  PROVE  /\ Len(o) \in Nat /\ Len(t) \in Nat /\ Len(o \o t) = Len(o) + Len(t)
         /\ \A i \in 1..Len(o \o t) : (o \o t)[i] = IF i <= Len(o) THEN o[i] ELSE t[i - Len(o)]
OBVIOUS

LEMMA OneBefore ==
  ASSUME NEW o \in Seq(Packets), Len(o) = 1, NEW t \in Seq(Packets)
  PROVE  /\ Len(t) \in Nat /\ Len(o \o t) = Len(t) + 1 /\ (o \o t)[1] = o[1]
         /\ \A j \in 2..Len(o \o t) : (o \o t)[j] = t[j - 1] /\ j - 1 \in 1..Len(t)
<1>0. /\ Len(o) \in Nat /\ Len(t) \in Nat /\ Len(o \o t) = Len(o) + Len(t)
      /\ \A i \in 1..Len(o \o t) : (o \o t)[i] = IF i <= Len(o) THEN o[i] ELSE t[i - Len(o)]
  BY ConcatAt, Zenon
<1>1. /\ Len(t) \in Nat /\ Len(o \o t) = Len(t) + 1
      /\ \A i \in 1..Len(t) + 1 : (o \o t)[i] = IF i <= Len(o) THEN o[i] ELSE t[i - Len(o)]
  BY <1>0
<1>2. 1 \in 1..Len(t) + 1 /\ 1 <= 1
      /\ \A j \in 2..Len(t) + 1 : j \in 1..Len(t) + 1 /\ ~(j <= 1) /\ j - 1 \in 1..Len(t)
  BY <1>1
<1> QED BY <1>1, <1>2

LEMMA CompleteSent ==
  ASSUME NEW h \in Packets, h.kind \in {"raw", "lz4"}, NEW n \in Nat \ {0}, Size(h) = n
  PROVE  Complete(<<h>> \o SendStream("rgb", h.frame, n))
<1> DEFINE st == SendStream("rgb", h.frame, n)
           t == <<h>> \o st
           o == <<h>>
<1>1. h.frame \in 0..MaxFrame
  BY DEF Packets
<1>2. st \in Seq(Packets) /\ Chunks(st, 1, h.frame, 0, n) /\ \A p \in Within(st) : p.kind = "rgb"
  BY <1>1, BoundAssumption, StreamWellFormed, ChunksSent, WithinStream
<1>3. o \in Seq(Packets) /\ Len(o) = 1 /\ o[1] = h
  OBVIOUS
<1> HIDE DEF st, o
<1>4. Chunks(o \o st, 1 + 1, h.frame, 0, n)
  <2>1. o \in Seq(Packets) /\ st \in Seq(Packets) /\ Chunks(st, 1, h.frame, 0, n)
    BY <1>2, <1>3, Zenon
  <2>2. 1 \in Nat \ {0} /\ 0 \in Nat /\ n \in Nat
    OBVIOUS
  <2>3. Chunks(o \o st, Len(o) + 1, h.frame, 0, n)
    BY <2>1, <2>2, ChunksPrepend, Zenon
  <2> QED BY <1>3, <2>3, Zenon
<1>5. /\ Len(st) \in Nat /\ Len(o \o st) = Len(st) + 1 /\ (o \o st)[1] = h
      /\ \A j \in 2..Len(o \o st) : (o \o st)[j] = st[j - 1] /\ j - 1 \in 1..Len(st)
  <2>1. o \in Seq(Packets) /\ st \in Seq(Packets) /\ Len(o) = 1
    BY <1>2, <1>3
  <2> QED BY <1>3, <2>1, OneBefore
<1>6. ASSUME NEW i \in 1..Len(o \o st), (o \o st)[i].kind \in {"raw", "lz4"}
      PROVE  i = 1
  <2>1. i = 1 \/ i \in 2..Len(o \o st)
    BY <1>5
  <2> QED BY <1>2, <1>5, <1>6, <2>1 DEF Within
<1>7. Complete(o \o st)
  BY <1>4, <1>5, <1>6 DEF Complete
<1> QED BY <1>7 DEF st, o

Mild == faults.lost <= 1 /\ faults.odd = 0

\* The server and the queue are in step, byte by byte; or one chunk of the frame is lost,
\* and what is left can no longer reach its length.
InStep ==
  sv.blitting = 1 /\ poc.bytes_len > 0 =>
    \/ /\ poc.own /\ poc.bytes_recv < Expected
       /\ Chunks(net, 1, poc.frame_recv, poc.bytes_recv, Expected)
    \/ faults.lost = 1 /\ Chunks(net, 1, poc.frame_recv, poc.bytes_recv + Mtu, Expected)

WholeInv ==
  /\ faults.odd = 0 => Complete(net)
  /\ Mild => InStep /\ ended /= "torn"

LEMMA WholeInit == Init => WholeInv
BY DEF Init, WholeInv, Complete, InStep

LEMMA InStepTyped ==
  ASSUME IInv
  PROVE  net \in Seq(Packets) /\ Expected \in Nat /\ poc.bytes_recv \in Nat /\ poc.bytes_recv + Mtu \in Nat
<1>1. Expected \in Nat
  BY ExpectedNat DEF IInv
<1>2. poc.bytes_recv \in Nat
  BY DEF IInv, PocTyped, PocType
<1> QED BY <1>1, <1>2 DEF IInv, NetTyped, Mtu

\* What is added behind a command leaves what is under way as it is.
LEMMA SentWhole ==
  ASSUME IInv, WholeInv, NEW s \in Seq(Packets), NEW t \in Seq(Packets), t /= <<>>, t[1].kind \in Commands,
         Complete(t), s = net \/ s = Disowned(net), net' = s \o t,
         UNCHANGED <<sv, poc, faults, ended>>
  PROVE  WholeInv'
<1>1. net \in Seq(Packets) /\ Expected \in Nat /\ poc.bytes_recv \in Nat /\ poc.bytes_recv + Mtu \in Nat
  BY InStepTyped
<1>2. faults.odd = 0 => Complete(net')
  <2>1. Complete(net) => Complete(s)
    BY <1>1, CompleteDisowned
  <2> QED BY <2>1, CompleteBoth DEF WholeInv
<1>3. ASSUME NEW f, NEW pos \in Nat, Chunks(net, 1, f, pos, Expected)
      PROVE  Chunks(net', 1, f, pos, Expected)
  <2>1. 1 \in Nat \ {0} /\ 1 \in Nat /\ 1 > 0 /\ 1 <= Len(s) + 1
    OBVIOUS
  <2>2. Chunks(s, 1, f, pos, Expected)
    BY <1>1, <1>3, <2>1, ChunksDisowned
  <2> QED BY <1>1, <2>1, <2>2, ChunksAppend
<1>4. Expected' = Expected
  BY DEF Expected
<1>5. Mild => InStep'
  BY <1>1, <1>3, <1>4 DEF InStep, WholeInv
<1> QED BY <1>2, <1>5 DEF WholeInv, Mild

LEMMA ClientWhole ==
  ASSUME IInv, WholeInv, Client
  PROVE  WholeInv'
<1>0. net \in Seq(Packets)
  BY DEF IInv, NetTyped
<1>1. ASSUME NEW h \in Packets, h.kind \in Commands \ {"raw", "lz4"}
      PROVE  /\ <<h>> \in Seq(Packets) /\ <<h>> /= <<>> /\ <<h>>[1].kind \in Commands /\ Complete(<<h>>)
  <2>1. <<h>> \in Seq(Packets) /\ Within(<<h>>) = {h}
    BY WithinOne
  <2>2. ~Announces(<<h>>)
    BY <1>1, <2>1 DEF Announces
  <2> QED BY <1>1, <2>1, <2>2, CompleteOther
<1>2. CASE CmdInit
  <2>1. PICK c \in Packets : c.kind = "init" /\ net' = Append(Disowned(net), c)
    <3>1. \A a \in {0, 1} : Cmd("init", 0, a) \in Packets /\ Cmd("init", 0, a).kind = "init"
      BY BoundAssumption, CmdWellFormed DEF Commands, Cmd
    <3> QED BY <1>2, <3>1 DEF CmdInit
  <2>2. Disowned(net) \in Seq(Packets) /\ net' = Disowned(net) \o <<c>>
    BY <1>0, <2>1, DisownedWellFormed, AppendIsConcat
  <2>3. UNCHANGED <<sv, poc, faults, ended>>
    BY <1>2 DEF CmdInit
  <2> QED BY <1>1, <2>1, <2>2, <2>3, SentWhole DEF Commands
<1>3. CASE Connect \/ WaitSync \/ GiveUp
  <2>1. net' = net /\ sv' = sv /\ poc' = poc /\ ended' = ended
    BY <1>3 DEF Connect, WaitSync, GiveUp
  <2>2. faults'.lost = faults.lost /\ faults'.odd = faults.odd
    <3>1. UNCHANGED faults \/ Fault("late")
      BY <1>3 DEF Connect, WaitSync, GiveUp
    <3> QED BY <3>1, FaultCounted DEF IInv
  <2> QED BY <2>1, <2>2 DEF WholeInv, Mild, InStep, Expected
<1>4. ASSUME NEW h \in Packets, h.kind \in Commands \ {"raw", "lz4"}, Send(<<h>>),
             UNCHANGED <<sv, poc, faults, ended>>
      PROVE  WholeInv'
  <2>1. net' = net \o <<h>>
    BY <1>4 DEF Send
  <2> QED BY <1>0, <1>1, <1>4, <2>1, SentWhole
<1>5. CASE CmdSwitchres
  <2>1. Cmd("switchres", 0, 0) \in Packets /\ Cmd("switchres", 0, 0).kind = "switchres"
    BY BoundAssumption, CmdWellFormed DEF Commands, Cmd
  <2> QED BY <1>4, <1>5, <2>1 DEF CmdSwitchres, Commands
<1>6. CASE CmdClose
  <2>1. Cmd("close", 0, 0) \in Packets /\ Cmd("close", 0, 0).kind = "close"
    BY BoundAssumption, CmdWellFormed DEF Commands, Cmd
  <2> QED BY <1>4, <1>6, <2>1 DEF CmdClose, Commands
<1>7. ASSUME NEW h \in Packets, h.kind \in Commands, NEW st \in Seq(Packets), Complete(<<h>> \o st),
             Send(<<h>> \o st), UNCHANGED <<sv, poc, faults, ended>>
      PROVE  WholeInv'
  <2> DEFINE o == <<h>>
  <2>1. o \in Seq(Packets) /\ Len(o) = 1 /\ o[1] = h
    BY <1>7
  <2> HIDE DEF o
  <2>2. o \o st \in Seq(Packets) /\ o \o st /= <<>> /\ (o \o st)[1] = h
    <3>1. o \o st \in Seq(Packets)
      BY <1>7, <2>1, WithinBoth
    <3>2. Len(o \o st) = Len(st) + 1 /\ Len(st) \in Nat /\ (o \o st)[1] = h
      BY <1>7, <2>1, OneBefore
    <3> QED BY <3>1, <3>2
  <2>3. net' = net \o (o \o st) /\ Complete(o \o st)
    BY <1>7 DEF Send, o
  <2> QED BY <1>0, <1>7, <2>2, <2>3, SentWhole
<1>8. CASE CmdAudio
  <2> DEFINE h == Cmd("audio", 0, AudioBytes)
             st == SendStream("pcm", 0, AudioBytes)
  <2>1. h \in Packets /\ h.kind = "audio" /\ st \in Seq(Packets) /\ \A p \in Within(st) : p.kind = "pcm"
    BY BoundAssumption, Sizes, CmdWellFormed, StreamWellFormed, WithinStream DEF Commands, Cmd
  <2>2. Send(<<h>> \o st) /\ UNCHANGED <<sv, poc, faults, ended>>
    BY <1>8 DEF CmdAudio
  <2> HIDE DEF h, st
  <2>3. Complete(<<h>> \o st)
    <3> DEFINE o == <<h>>
    <3>1. o \in Seq(Packets) /\ Within(o) = {h}
      BY <2>1, WithinOne
    <3> HIDE DEF o
    <3>2. Within(o \o st) \subseteq {h} \cup Within(st)
      BY <2>1, <3>1, WithinBoth
    <3>3. Complete(o \o st)
      <4>1. ~Announces(o \o st)
        BY <2>1, <3>2 DEF Announces
      <4>2. o \o st \in Seq(Packets)
        BY <2>1, <3>1, WithinBoth
      <4> QED BY <4>1, <4>2, CompleteOther
    <3> QED BY <3>3 DEF o
  <2> QED BY <1>7, <2>1, <2>2, <2>3 DEF Commands
<1>9. CASE CmdBlit
  <2> DEFINE f == cl.frame + 1
  <2>1. f \in 0..MaxFrame /\ UNCHANGED <<sv, poc, faults, ended>>
    BY <1>9, BoundAssumption DEF CmdBlit, IInv, ClTyped
  <2>2. \/ \E n \in Lz4Bytes : Send(<<Cmd("lz4", f, n)>> \o SendStream("rgb", f, n))
        \/ Send(<<Cmd("raw", f, 0)>> \o SendStream("rgb", f, RgbBytes))
        \/ Send(<<Cmd("dup", f, 0)>>)
    BY <1>9 DEF CmdBlit
  <2> HIDE DEF f
  <2>3. CASE \E n \in Lz4Bytes : Send(<<Cmd("lz4", f, n)>> \o SendStream("rgb", f, n))
    <3>1. PICK n \in Lz4Bytes : Send(<<Cmd("lz4", f, n)>> \o SendStream("rgb", f, n))
      BY <2>3
    <3> DEFINE h == Cmd("lz4", f, n)
    <3>2. n \in Nat \ {0}
      BY Sizes
    <3>3. h \in Packets
      BY <2>1, <3>2, BoundAssumption, CmdWellFormed DEF Commands
    <3>4. h.kind = "lz4" /\ h.frame = f /\ Size(h) = n
      BY DEF Cmd, Size
    <3>5. Send(<<h>> \o SendStream("rgb", h.frame, n)) /\ SendStream("rgb", h.frame, n) \in Seq(Packets)
      BY <2>1, <3>1, <3>2, <3>4, BoundAssumption, StreamWellFormed
    <3> HIDE DEF h
    <3>6. Complete(<<h>> \o SendStream("rgb", h.frame, n))
      BY <3>2, <3>3, <3>4, CompleteSent
    <3> QED BY <1>7, <2>1, <3>3, <3>4, <3>5, <3>6 DEF Commands
  <2>4. CASE Send(<<Cmd("raw", f, 0)>> \o SendStream("rgb", f, RgbBytes))
    <3> DEFINE h == Cmd("raw", f, 0)
    <3>3. h \in Packets
      BY <2>1, BoundAssumption, CmdWellFormed DEF Commands
    <3>4. h.kind = "raw" /\ h.frame = f /\ Size(h) = RgbBytes
      BY DEF Cmd, Size
    <3>5. /\ Send(<<h>> \o SendStream("rgb", h.frame, RgbBytes))
          /\ SendStream("rgb", h.frame, RgbBytes) \in Seq(Packets)
      BY <2>1, <2>4, <3>4, Sizes, BoundAssumption, StreamWellFormed
    <3> HIDE DEF h
    <3>6. Complete(<<h>> \o SendStream("rgb", h.frame, RgbBytes))
      BY <3>3, <3>4, Sizes, CompleteSent
    <3> QED BY <1>7, <2>1, <3>3, <3>4, <3>5, <3>6 DEF Commands
  <2>5. CASE Send(<<Cmd("dup", f, 0)>>)
    <3>1. Cmd("dup", f, 0) \in Packets /\ Cmd("dup", f, 0).kind = "dup"
      BY <2>1, BoundAssumption, CmdWellFormed DEF Commands, Cmd
    <3> QED BY <1>4, <2>1, <2>5, <3>1 DEF Commands
  <2> QED BY <2>2, <2>3, <2>4, <2>5
<1> QED BY <1>2, <1>3, <1>5, <1>6, <1>8, <1>9 DEF Client

\* The packet at the front of a frame's rest is its next chunk, or a command.
LEMMA NextChunk ==
  ASSUME NEW s \in Seq(Packets), s /= <<>>, NEW f, NEW pos \in Nat, NEW n \in Nat, Chunks(s, 1, f, pos, n)
  PROVE  /\ pos < n => /\ Head(s).kind = "rgb" /\ Head(s).frame = f /\ Head(s).arg = pos
                       /\ Head(s).len = IF n - pos >= Mtu THEN Mtu ELSE n - pos
                       /\ Chunks(Tail(s), 1, f, pos + Mtu, n)
         /\ pos >= n => Head(s).kind \in Commands
<1>1. 0 \in Nat /\ pos + 0 * Mtu = pos /\ 1 + 0 = 1 /\ 1 <= Len(s) /\ Head(s) = s[1]
  BY DEF Mtu
<1>2. LET at == pos + 0 * Mtu IN
        /\ at < n => /\ 1 + 0 <= Len(s)
                     /\ s[1 + 0].kind = "rgb" /\ s[1 + 0].frame = f /\ s[1 + 0].arg = at
                     /\ s[1 + 0].len = IF n - at >= Mtu THEN Mtu ELSE n - at
        /\ at >= n /\ (0 = 0 \/ at - Mtu < n) /\ 1 + 0 <= Len(s) => s[1 + 0].kind \in Commands
  BY <1>1, Zenon DEF Chunks
<1>3. ASSUME pos < n PROVE Chunks(Tail(s), 1, f, pos + Mtu, n)
  <2>1. 1 \in Nat \ {0} /\ 1 \in Nat /\ pos + Mtu \in Nat
    BY DEF Mtu
  <2>2. Chunks(s, 1 + 1, f, pos + Mtu, n)
    BY <1>3, <2>1, ChunksAdvance
  <2> QED BY <2>1, <2>2, ChunksTail
<1> QED BY <1>1, <1>2, <1>3

\* In a session packets that are repeated or overtaken are counted as odd.
LEMMA OddCounted ==
  ASSUME FaultsTyped, Repeat \/ Overtake, faults'.sess = 0
  PROVE  faults'.odd /= 0
<1>1. Fault("sess") \/ Fault("odd")
  BY DEF Repeat, Overtake, OutOfOrder
<1>2. faults.sess \in Nat /\ faults.odd \in Nat
  BY DEF FaultsTyped
<1> QED BY <1>1, <1>2, FaultCounted

LEMMA NetworkWhole ==
  ASSUME IInv, EndInv, WholeInv, Network, faults'.sess = 0
  PROVE  WholeInv'
<1>0. net \in Seq(Packets) /\ Expected \in Nat /\ poc.bytes_recv \in Nat /\ poc.bytes_recv + Mtu \in Nat
  BY InStepTyped
<1> FaultsTyped /\ faults.lost \in Nat
  BY DEF IInv, FaultsTyped
<1>1. UNCHANGED <<sv, poc, ended>> /\ Expected' = Expected
  BY DEF Network, Lose, LoseAnswer, Repeat, Overtake, Vanish, Expected
<1>2. CASE Lose
  <2>1. faults'.lost = faults.lost + 1 /\ faults'.odd = faults.odd /\ net /= <<>> /\ net' = Tail(net)
    BY <1>2, FaultCounted DEF Lose
  <2>2. faults.odd = 0 => Complete(net')
    BY <1>0, <2>1, CompleteTail DEF WholeInv
  <2>3. Mild' => Mild /\ faults.lost = 0 /\ faults'.lost = 1
    BY <2>1 DEF Mild
  <2>4. ASSUME Mild, sv.blitting = 1, poc.bytes_len > 0, faults.lost = 0
        PROVE  Chunks(net', 1, poc.frame_recv, poc.bytes_recv + Mtu, Expected)
    <3>1. poc.bytes_recv < Expected /\ Chunks(net, 1, poc.frame_recv, poc.bytes_recv, Expected)
      BY <2>4 DEF WholeInv, InStep
    <3> QED BY <1>0, <2>1, <3>1, NextChunk
  <2>5. Mild' => InStep'
    BY <1>1, <2>3, <2>4 DEF InStep
  <2> QED BY <1>1, <2>1, <2>2, <2>3, <2>5 DEF WholeInv
<1>3. CASE LoseAnswer
  <2>1. faults'.lost = faults.lost + 1 /\ faults'.odd = faults.odd /\ net' = net
    BY <1>3, FaultCounted DEF LoseAnswer
  <2>2. Mild' => Mild /\ faults.lost = 0
    BY <2>1 DEF Mild
  <2> QED BY <1>1, <2>1, <2>2 DEF WholeInv, InStep
<1>4. CASE Repeat \/ Overtake
  <2>1. faults'.odd /= 0
    BY <1>4, OddCounted
  <2> QED BY <2>1 DEF WholeInv, Mild
<1>5. CASE Vanish
  <2>1. faults'.lost = faults.lost /\ faults'.odd = faults.odd /\ net' = net
    BY <1>5, FaultCounted DEF Vanish
  <2> QED BY <1>1, <2>1 DEF WholeInv, InStep, Mild
<1> QED BY <1>2, <1>3, <1>4, <1>5 DEF Network

\* A chunk keeps the server in step, or shows that something is lost before the frame
\* could end with it.
LEMMA RawInStep ==
  ASSUME IInv, EndInv, WholeInv, Mild, net /= <<>>, setBlitRaw(Head(net)), ~TakenForChunk(Head(net)),
         net' = Tail(net), faults' = faults
  PROVE  InStep' /\ ended' /= "torn"
<1> DEFINE p == Head(net)
           n == Expected
           r == poc.bytes_recv
<1>0. net \in Seq(Packets) /\ n \in Nat /\ r \in Nat /\ r + Mtu \in Nat /\ p \in Packets /\ ServerInv
  BY InStepTyped, InvParts
<1>1. sv.blitting = 1 /\ poc.bytes_len > 0 /\ ~Broken(p)
  BY DEF setBlitRaw
<1>2. /\ r + p.len < n => ended' = ended /\ sv' = sv
      /\ ~(r + p.len < n) => sv'.blitting = 0 /\ ended' = IF poc.own /\ InPlace(p) THEN "whole" ELSE "torn"
      /\ poc'.bytes_recv = r + p.len /\ poc'.own = (poc.own /\ InPlace(p))
      /\ poc'.frame_recv = poc.frame_recv /\ poc'.bytes_len = poc.bytes_len /\ poc'.lz4_len = poc.lz4_len
  BY <1>0, RawEnds
<1>3. r + p.len < n => Expected' = n
  BY <1>1, <1>2 DEF Expected
<1>4. ended = "none"
  BY <1>1 DEF EndInv
<1>5. CASE poc.own /\ r < n /\ Chunks(net, 1, poc.frame_recv, r, n)
  <2>1. /\ p.kind = "rgb" /\ p.frame = poc.frame_recv /\ p.arg = r
        /\ p.len = (IF n - r >= Mtu THEN Mtu ELSE n - r)
        /\ Chunks(net', 1, poc.frame_recv, r + Mtu, n)
    BY <1>0, <1>5, NextChunk
  <2> HIDE DEF p, n, r
  <2>2. InPlace(p)
    BY <2>1 DEF InPlace, r
  <2>3. CASE r + p.len < n
    <3>1. p.len = Mtu
      BY <1>0, <1>5, <2>1, <2>3 DEF Mtu
    <3> QED BY <1>2, <1>3, <1>4, <1>5, <2>1, <2>2, <2>3, <3>1 DEF InStep
  <2>4. CASE ~(r + p.len < n)
    BY <1>2, <1>5, <2>2, <2>4 DEF InStep
  <2> QED BY <2>3, <2>4
<1>6. CASE faults.lost = 1 /\ Chunks(net, 1, poc.frame_recv, r + Mtu, n)
  <2>1. r + Mtu < n
    <3>1. r + Mtu >= n => p.kind \in Commands
      BY <1>0, <1>6, NextChunk
    <3>2. p.kind \notin Commands
      BY <1>1, CommandInterrupts
    <3> QED BY <1>0, <3>1, <3>2
  <2>2. /\ p.len = (IF n - (r + Mtu) >= Mtu THEN Mtu ELSE n - (r + Mtu))
        /\ Chunks(net', 1, poc.frame_recv, (r + Mtu) + Mtu, n)
    BY <1>0, <1>6, <2>1, NextChunk
  <2>3. p.len = Mtu
    <3>1. p.len < Mtu => r + p.len = n
      BY <1>1 DEF Broken
    <3> HIDE DEF p, n, r
    <3> QED BY <1>0, <2>1, <2>2, <3>1 DEF Mtu
  <2> HIDE DEF p, n, r
  <2>4. r + p.len < n
    BY <1>0, <2>1, <2>3
  <2> QED BY <1>2, <1>3, <1>4, <1>6, <2>2, <2>3, <2>4 DEF InStep
<1>7. \/ poc.own /\ r < n /\ Chunks(net, 1, poc.frame_recv, r, n)
      \/ faults.lost = 1 /\ Chunks(net, 1, poc.frame_recv, r + Mtu, n)
  BY <1>1 DEF WholeInv, InStep
<1> QED BY <1>5, <1>6, <1>7

LEMMA SizesPositive == \A z \in Lz4Bytes \cup {RgbBytes} : z > 0
<1>1. RgbBytes > 0
  BY Sizes
<1>2. ASSUME NEW z \in Lz4Bytes PROVE z > 0
  <2>1. z \in Nat \ {0}
    BY Sizes
  <2> QED BY <2>1
<1> QED BY <1>1, <1>2

\* A header that starts a frame finds all of it behind itself.
LEMMA BlitInStep ==
  ASSUME IInv, ModeInv, EndInv, WholeInv, Mild, net /= <<>>, setBlit(Head(net)), net' = Tail(net)
  PROVE  InStep' /\ ended' /= "torn"
<1> DEFINE p == Head(net)
           b == [Block EXCEPT !.frame_recv = p.frame, !.bytes_recv = 0, !.own = TRUE,
                              !.held = 0, !.lz4_len = IF sv.lz4 THEN p.arg ELSE 0]
<1>0. net \in Seq(Packets) /\ p \in Packets /\ ServerInv /\ 1 \in 1..Len(net) /\ p = net[1] /\ p \in Within(net)
  BY InStepTyped, InvParts, WithinTail
<1>1. /\ Header(p) /\ ~Duplicate(p) /\ ended' = "none"
      /\ poc' = (IF sv.hps THEN Restart(b) ELSE Announce(b, 0))
      /\ sv' = [Server EXCEPT !.blitting = 1, !.priority = TRUE]
  BY DEF setBlit
<1>2. p.kind \in {"raw", "lz4"} /\ (p.kind = "lz4" <=> sv.lz4)
  BY <1>0, <1>1 DEF ModeInv, Header, Duplicate
<1>3. sv'.lz4 = sv.lz4 /\ sv'.blitting = 1
  BY <1>0, <1>1, ServerIdle DEF SvType, Server, Idle, ServerInv, SvTyped
<1>4. Block \in PocType
  BY <1>0, BlockTyped
<1>5. /\ poc'.bytes_recv = 0 /\ poc'.own = TRUE /\ poc'.frame_recv = p.frame
      /\ poc'.bytes_len = Block.bytes_len /\ poc'.lz4_len = (IF sv.lz4 THEN p.arg ELSE 0)
  <2> HIDE DEF p
  <2> QED BY <1>1, <1>4 DEF PocType, Restart, Announce
<1>6. Block.bytes_len > 0 => Expected' = Size(p)
  <2>1. Block.bytes_len \in {0, RgbBytes}
    BY <1>4 DEF PocType
  <2> HIDE DEF p
  <2> QED BY <1>2, <1>3, <1>5, <2>1 DEF Expected, Size
<1>7. Chunks(net', 1, p.frame, 0, Size(p)) /\ Size(p) > 0
  <2>1. Chunks(net, 1 + 1, net[1].frame, 0, Size(net[1]))
    BY <1>0, <1>2 DEF WholeInv, Mild, Complete
  <2>2. 1 \in Nat \ {0} /\ 0 \in Nat /\ Size(p) \in Nat
    BY <1>0, SizeNat
  <2>3. Chunks(Tail(net), 1, net[1].frame, 0, Size(net[1]))
    BY <1>0, <2>1, <2>2, ChunksTail
  <2>4. Size(p) > 0
    <3>1. WellFormed(p)
      BY <1>0 DEF Packets
    <3> HIDE DEF p
    <3>2. p.kind = "lz4" => p.arg \in Lz4Bytes
      BY <3>1, Zenon DEF WellFormed
    <3>3. Size(p) \in Lz4Bytes \cup {RgbBytes}
      BY <3>2 DEF Size
    <3> QED BY <3>3, SizesPositive, Zenon
  <2> QED BY <1>0, <2>3, <2>4
<1> HIDE DEF p
<1> QED BY <1>1, <1>3, <1>5, <1>6, <1>7 DEF InStep

\* After any packet but a header and a chunk of pixels no frame is under way.
LEMMA FrameLeft ==
  ASSUME IInv, NEW p \in Packets, process_packet(p), ~setBlitRaw(p), ~setBlit(p)
  PROVE  /\ sv'.blitting /= 1 /\ ended' \in {ended, "marked", "none", "kept", "stale"}
         /\ ~setBlitDup(p) => ended' \in {ended, "marked", "none"}
<1>1. /\ sv \in SvType /\ Server \in SvType /\ Server.blitting = 0 /\ Idle.blitting = 0
      /\ HowEnded \in {ended, "marked"} /\ Ended \in {ended, "marked"}
  BY InvParts, ServerIdle, IdleTyped DEF ServerInv, SvTyped, HowEnded, Ended
<1>2. sv'.blitting /= 1
  <2>1. CASE DropBroken(p) \/ SkipNoModeline(p) \/ setBlitDup(p) \/ setSwitchres(p) \/ IgnoreChunk(p)
    BY <1>1, <2>1 DEF DropBroken, SkipNoModeline, setBlitDup, setSwitchres, IgnoreChunk
  <2>2. CASE setBlitRawAudio(p)
    BY <1>1, <2>2 DEF setBlitRawAudio
  <2>3. CASE setInit(p)
    BY <1>1, <2>3 DEF setInit, SvType
  <2>4. CASE setClose(p)
    BY <1>1, <2>4 DEF setClose, SvType
  <2>5. CASE setBlitAudio(p)
    BY <1>1, <2>5 DEF setBlitAudio, SvType
  <2> QED BY <2>1, <2>2, <2>3, <2>4, <2>5 DEF process_packet
<1>3. /\ ended' \in {ended, "marked", "none", "kept", "stale"}
      /\ ~setBlitDup(p) => ended' \in {ended, "marked", "none"}
  <2>1. CASE setBlitDup(p)
    BY <2>1 DEF setBlitDup
  <2>2. CASE ~setBlitDup(p)
    BY <1>1, <2>2 DEF process_packet, DropBroken, SkipNoModeline, setBlitRawAudio, setInit,
             setClose, setSwitchres, setBlitAudio, IgnoreChunk
  <2> QED BY <2>1, <2>2
<1> QED BY <1>2, <1>3

LEMMA PollWhole ==
  ASSUME IInv, ModeInv, EndInv, WholeInv, groovy_poll, process_packet(Head(net)), ~TakenForChunk(Head(net))
  PROVE  WholeInv'
<1> DEFINE p == Head(net)
<1>1. net \in Seq(Packets) /\ net /= <<>> /\ p \in Packets /\ process_packet(p) /\ net' = Tail(net) /\ faults' = faults
  BY PollReads
<1>2. faults'.odd = 0 => Complete(net')
  BY <1>1, CompleteTail DEF WholeInv
<1>3. ASSUME Mild PROVE InStep' /\ ended' /= "torn"
  <2>1. CASE setBlitRaw(p)
    BY <1>1, <1>3, <2>1, RawInStep
  <2>2. CASE setBlit(p)
    BY <1>1, <1>3, <2>2, BlitInStep
  <2>3. CASE ~setBlitRaw(p) /\ ~setBlit(p)
    <3>2. sv'.blitting /= 1 /\ ended' \in {ended, "marked", "none", "kept", "stale"}
      BY <1>1, <2>3, FrameLeft
    <3>3. ended' /= "torn"
      BY <1>3, <3>2 DEF WholeInv
    <3> QED BY <3>2, <3>3 DEF InStep
  <2> QED BY <2>1, <2>2, <2>3
<1> QED BY <1>1, <1>2, <1>3 DEF WholeInv, Mild

-----------------------------------------------------------------------------
(* Part three: what lies in DDR when a duplicate comes.                    *)

\* The frame that DDR holds whole, or will when what is under way has come.
Shown == IF sv.blitting = 1 THEN poc.frame_recv ELSE poc.held

\* The frame before place i of the queue s is f: g is Shown.
Before(s, i, g, f) ==
  \/ \E j \in 1..(i - 1) : Header(s[j]) /\ s[j].frame = f /\ \A k \in (j + 1)..(i - 1) : ~Header(s[k])
  \/ g = f /\ \A k \in 1..(i - 1) : ~Header(s[k])

\* The modeline is there, n bytes of a frame, or comes before place i.
ModeSet(s, i, n) == n > 0 \/ \E j \in 1..(i - 1) : s[j].kind = "switchres"

Modelines(s, n) == \A i \in 1..Len(s) : Header(s[i]) => ModeSet(s, i, n)
Duplicates(s, g) ==
  \A i \in 1..Len(s) : s[i].kind = "dup" => s[i].frame > 1 /\ Before(s, i, g, s[i].frame - 1)

\* The client knows of a modeline, and of a frame to repeat, only when it has sent them.
Ahead(s, n, g) == /\ cl.at /= "up" => ~cl.mode /\ ~cl.delta
                  /\ cl.mode => ModeSet(s, Len(s) + 1, n)
                  /\ cl.delta => cl.frame > 0 /\ Before(s, Len(s) + 1, g, cl.frame)

DupInv == /\ Modelines(net, poc.bytes_len)
          /\ Duplicates(net, Shown)
          /\ Ahead(net, poc.bytes_len, Shown)
          /\ sv.blitting = 1 => poc.bytes_len > 0

Clean == faults.lost = 0 /\ faults.odd = 0
KeptInv == Clean => DupInv /\ ended /= "stale"

LEMMA KeptInit == Init => KeptInv
BY DEF Init, NewClient, KeptInv, DupInv, Modelines, Duplicates, Ahead

LEMMA BeforeTail ==
  ASSUME NEW s \in Seq(Packets), s /= <<>>, NEW i \in 1..Len(s), NEW g, NEW h, NEW f,
         h = (IF Header(Head(s)) THEN Head(s).frame ELSE g), Before(s, i + 1, g, f)
  PROVE  Before(Tail(s), i, h, f)
<1>1. /\ Len(s) \in Nat /\ Head(s) = s[1] /\ Len(Tail(s)) = Len(s) - 1
      /\ \A k \in 1..Len(Tail(s)) : Tail(s)[k] = s[k + 1]
  OBVIOUS
<1>2. \A k \in 1..(i - 1) : Tail(s)[k] = s[k + 1] /\ k + 1 \in 1..i
  BY <1>1
<1> DEFINE t == Tail(s)
<1> HIDE DEF t
<1>3. CASE \E j \in 1..i : Header(s[j]) /\ s[j].frame = f /\ \A k \in (j + 1)..i : ~Header(s[k])
  <2>1. PICK j \in 1..i : Header(s[j]) /\ s[j].frame = f /\ \A k \in (j + 1)..i : ~Header(s[k])
    BY <1>3
  <2>2. CASE j = 1
    <3>1. h = f
      BY <1>1, <2>1, <2>2
    <3>2. \A k \in 1..(i - 1) : ~Header(t[k])
      <4>1. \A k \in 1..(i - 1) : k + 1 \in (j + 1)..i
        BY <2>2
      <4> QED BY <1>2, <2>1, <4>1 DEF t
    <3> QED BY <3>1, <3>2 DEF Before, t
  <2>3. CASE j /= 1
    <3>1. PICK m \in 1..(i - 1) : j = m + 1
      <4>1. j - 1 \in 1..(i - 1) /\ j = (j - 1) + 1
        BY <2>3
      <4> QED BY <4>1
    <3>2. Header(t[m]) /\ t[m].frame = f
      BY <1>2, <2>1, <3>1 DEF t
    <3>3. \A k \in (m + 1)..(i - 1) : k \in 1..(i - 1) /\ k + 1 \in (j + 1)..i
      BY <3>1
    <3>4. \A k \in (m + 1)..(i - 1) : ~Header(t[k])
      BY <1>2, <2>1, <3>3 DEF t
    <3> QED BY <3>2, <3>4 DEF Before, t
  <2> QED BY <2>2, <2>3
<1>4. CASE g = f /\ \A k \in 1..i : ~Header(s[k])
  <2>1. h = f
    <3>1. 1 \in 1..i
      OBVIOUS
    <3> QED BY <1>1, <1>4, <3>1
  <2>2. \A k \in 1..(i - 1) : ~Header(t[k])
    BY <1>2, <1>4 DEF t
  <2> QED BY <2>1, <2>2 DEF Before, t
<1>5. (i + 1) - 1 = i
  OBVIOUS
<1> QED BY <1>3, <1>4, <1>5 DEF Before

LEMMA ModeTail ==
  ASSUME NEW s \in Seq(Packets), s /= <<>>, NEW i \in 1..Len(s), NEW n, NEW m, n > 0 => m > 0,
         Head(s).kind = "switchres" => m > 0, ModeSet(s, i + 1, n)
  PROVE  ModeSet(Tail(s), i, m)
<1>1. /\ Len(s) \in Nat /\ Head(s) = s[1] /\ Len(Tail(s)) = Len(s) - 1
      /\ \A k \in 1..Len(Tail(s)) : Tail(s)[k] = s[k + 1]
  OBVIOUS
<1>2. CASE \E j \in 1..i : s[j].kind = "switchres"
  <2>1. PICK j \in 1..i : s[j].kind = "switchres"
    BY <1>2
  <2>2. CASE j /= 1
    <3>1. j - 1 \in 1..(i - 1) /\ j - 1 \in 1..Len(Tail(s)) /\ (j - 1) + 1 = j
      BY <1>1, <2>2
    <3>2. Tail(s)[j - 1].kind = "switchres"
      BY <1>1, <2>1, <3>1
    <3> QED BY <3>1, <3>2 DEF ModeSet
  <2> QED BY <1>1, <2>1, <2>2 DEF ModeSet
<1>3. (i + 1) - 1 = i
  OBVIOUS
<1> QED BY <1>2, <1>3 DEF ModeSet

\* Once the first packet is dealt with, the rest is as well prepared as it was.
LEMMA DupTail ==
  ASSUME NEW s \in Seq(Packets), s /= <<>>, NEW n, NEW m, NEW g, NEW h, n > 0 => m > 0,
         Head(s).kind = "switchres" => m > 0,
         h = (IF Header(Head(s)) THEN Head(s).frame ELSE g),
         Modelines(s, n), Duplicates(s, g), Ahead(s, n, g)
  PROVE  Modelines(Tail(s), m) /\ Duplicates(Tail(s), h) /\ Ahead(Tail(s), m, h)
<1>1. /\ Len(s) \in Nat /\ Len(Tail(s)) = Len(s) - 1 /\ Len(Tail(s)) + 1 \in 1..Len(s)
      /\ (Len(Tail(s)) + 1) + 1 = Len(s) + 1
      /\ \A i \in 1..Len(Tail(s)) : Tail(s)[i] = s[i + 1] /\ i \in 1..Len(s) /\ i + 1 \in 1..Len(s)
  OBVIOUS
<1>2. Modelines(Tail(s), m)
  BY <1>1, ModeTail DEF Modelines
<1>3. Duplicates(Tail(s), h)
  <2> SUFFICES ASSUME NEW i \in 1..Len(Tail(s)), Tail(s)[i].kind = "dup"
               PROVE  Tail(s)[i].frame > 1 /\ Before(Tail(s), i, h, Tail(s)[i].frame - 1)
    BY DEF Duplicates
  <2>1. s[i + 1].frame > 1 /\ Before(s, i + 1, g, s[i + 1].frame - 1)
    BY <1>1 DEF Duplicates
  <2> QED BY <1>1, <2>1, BeforeTail
<1>4. Ahead(Tail(s), m, h)
  <2>1. cl.mode => ModeSet(Tail(s), Len(Tail(s)) + 1, m)
    BY <1>1, ModeTail DEF Ahead
  <2>2. cl.delta => Before(Tail(s), Len(Tail(s)) + 1, h, cl.frame)
    BY <1>1, BeforeTail DEF Ahead
  <2> QED BY <2>1, <2>2 DEF Ahead
<1> QED BY <1>2, <1>3, <1>4

\* What is behind a place of the queue changes nothing of what is before it.
LEMMA SameBefore ==
  ASSUME NEW s, NEW t, NEW i \in Nat \ {0}, \A k \in 1..(i - 1) : t[k].kind = s[k].kind /\ t[k].frame = s[k].frame,
         NEW g, NEW n
  PROVE  /\ \A f : Before(s, i, g, f) => Before(t, i, g, f)
         /\ ModeSet(s, i, n) => ModeSet(t, i, n)
<1>1. \A k \in 1..(i - 1) : Header(t[k]) <=> Header(s[k])
  BY DEF Header
<1>2. \A j \in 1..(i - 1) : \A k \in (j + 1)..(i - 1) : k \in 1..(i - 1)
  OBVIOUS
<1> QED BY <1>1, <1>2 DEF Before, ModeSet

LEMMA DisownedSame ==
  ASSUME NEW s \in Seq(Packets)
  PROVE  /\ Disowned(s) \in Seq(Packets) /\ Len(Disowned(s)) = Len(s)
         /\ \A k \in 1..Len(s) : Disowned(s)[k].kind = s[k].kind /\ Disowned(s)[k].frame = s[k].frame
<1>1. Disowned(s) \in Seq(Packets) /\ Len(Disowned(s)) = Len(s)
  BY DisownedWellFormed DEF Disowned
<1>2. ASSUME NEW k \in 1..Len(s)
      PROVE  Disowned(s)[k].kind = s[k].kind /\ Disowned(s)[k].frame = s[k].frame
  <2>1. s[k] \in Packets /\ Disowned(s)[k] = [s[k] EXCEPT !.mine = FALSE]
    BY DEF Disowned
  <2> QED BY <2>1 DEF Packets
<1> QED BY <1>1, <1>2

\* Only the first packet of what is sent may be a header, of the frame after the client's.
Fits(t) == \A i \in 1..Len(t) : Header(t[i]) =>
             i = 1 /\ cl.mode /\ (t[i].kind = "dup" => cl.delta /\ t[i].frame = cl.frame + 1)

LEMMA SentFits ==
  ASSUME IInv, DupInv, NEW s \in Seq(Packets), s = net \/ s = Disowned(net),
         NEW t \in Seq(Packets), Fits(t)
  PROVE  Modelines(s \o t, poc.bytes_len) /\ Duplicates(s \o t, Shown)
<1> DEFINE u == s \o t
           n == poc.bytes_len
           g == Shown
<1>1. /\ net \in Seq(Packets) /\ Len(s) = Len(net) /\ Len(net) \in Nat
      /\ \A k \in 1..Len(net) : s[k].kind = net[k].kind /\ s[k].frame = net[k].frame
  <2>1. net \in Seq(Packets) /\ Len(net) \in Nat
    BY DEF IInv, NetTyped
  <2> QED BY <2>1, DisownedSame
<1>2. /\ Len(u) = Len(s) + Len(t) /\ Len(t) \in Nat
      /\ \A i \in 1..Len(u) : u[i] = IF i <= Len(s) THEN s[i] ELSE t[i - Len(s)]
  BY ConcatAt
<1> HIDE DEF u, n, g
<1>3. ASSUME NEW i \in 1..(Len(net) + 1)
      PROVE  /\ \A f : Before(net, i, g, f) => Before(u, i, g, f)
             /\ ModeSet(net, i, n) => ModeSet(u, i, n)
  <2>1. \A k \in 1..(i - 1) : k \in 1..Len(net) /\ k \in 1..Len(u) /\ k <= Len(s)
    BY <1>1, <1>2
  <2>2. \A k \in 1..(i - 1) : u[k].kind = net[k].kind /\ u[k].frame = net[k].frame
    BY <1>1, <1>2, <2>1
  <2>3. i \in Nat \ {0}
    OBVIOUS
  <2> QED BY <2>2, <2>3, SameBefore
<1>4. ASSUME NEW i \in 1..Len(u), Header(u[i])
      PROVE  ModeSet(u, i, n) /\ (u[i].kind = "dup" => u[i].frame > 1 /\ Before(u, i, g, u[i].frame - 1))
  <2>1. CASE i <= Len(s)
    <3>1. i \in 1..Len(net) /\ i \in 1..(Len(net) + 1) /\ u[i].kind = net[i].kind /\ u[i].frame = net[i].frame
      BY <1>1, <1>2, <2>1
    <3>2. Header(net[i])
      BY <1>4, <3>1 DEF Header
    <3> QED BY <1>3, <3>1, <3>2 DEF DupInv, Modelines, Duplicates, n, g
  <2>2. CASE ~(i <= Len(s))
    <3>1. PICK j \in 1..Len(t) : i = Len(s) + j
      <4>1. i - Len(s) \in 1..Len(t) /\ i = Len(s) + (i - Len(s))
        BY <1>1, <1>2, <2>2
      <4> QED BY <4>1
    <3>2. u[i] = t[j]
      BY <1>1, <1>2, <2>2, <3>1
    <3>3. j = 1 /\ cl.mode /\ (t[j].kind = "dup" => cl.delta /\ t[j].frame = cl.frame + 1)
      BY <1>4, <3>2 DEF Fits
    <3>4. i = Len(net) + 1 /\ i \in 1..(Len(net) + 1)
      BY <1>1, <3>1, <3>3
    <3>5. ModeSet(u, i, n)
      BY <1>3, <3>3, <3>4 DEF DupInv, Ahead, n
    <3>6. ASSUME u[i].kind = "dup" PROVE u[i].frame > 1 /\ Before(u, i, g, u[i].frame - 1)
      <4>1. cl.delta /\ u[i].frame = cl.frame + 1
        BY <3>2, <3>3, <3>6
      <4>2. cl.frame > 0 /\ Before(u, i, g, cl.frame)
        BY <1>3, <3>4, <4>1 DEF DupInv, Ahead, g
      <4>3. cl.frame \in Nat
        BY BoundAssumption DEF IInv, ClTyped
      <4>4. u[i].frame > 1 /\ u[i].frame - 1 = cl.frame
        BY <4>1, <4>2, <4>3
      <4> QED BY <4>2, <4>4
    <3> QED BY <3>5, <3>6
  <2> QED BY <2>1, <2>2
<1>5. \A i \in 1..Len(u) : u[i].kind = "dup" => Header(u[i])
  BY DEF Header
<1> QED BY <1>4, <1>5 DEF Modelines, Duplicates, u, n, g

\* The client's own part, after it has sent t.
LEMMA AheadSent ==
  ASSUME IInv, DupInv, NEW t \in Seq(Packets), cl'.at = "up",
         cl'.mode => cl.mode \/ (Len(t) = 1 /\ t[1].kind = "switchres"),
         cl'.delta => \/ cl.delta /\ cl'.frame = cl.frame /\ \A i \in 1..Len(t) : ~Header(t[i])
                      \/ /\ cl'.frame > 0 /\ t /= <<>> /\ Header(t[1]) /\ t[1].frame = cl'.frame
                         /\ \A i \in 2..Len(t) : ~Header(t[i])
  PROVE  LET u == net \o t IN
           /\ cl'.mode => ModeSet(u, Len(u) + 1, poc.bytes_len)
           /\ cl'.delta => cl'.frame > 0 /\ Before(u, Len(u) + 1, Shown, cl'.frame)
<1> DEFINE u == net \o t
           n == poc.bytes_len
           g == Shown
           l == Len(net)
<1>1. net \in Seq(Packets) /\ l \in Nat /\ Len(t) \in Nat /\ Len(u) = l + Len(t)
      /\ \A i \in 1..Len(u) : u[i] = IF i <= l THEN net[i] ELSE t[i - l]
  <2>1. net \in Seq(Packets)
    BY DEF IInv, NetTyped
  <2> QED BY <2>1, ConcatAt
<1> HIDE DEF u, n, g, l
<1>2. \A k \in 1..l : k \in 1..Len(u) /\ k <= l /\ u[k] = net[k]
  BY <1>1
<1>3. \A i \in 1..Len(t) : l + i \in 1..Len(u) /\ ~(l + i <= l) /\ u[l + i] = t[i]
  BY <1>1
<1>4. \A k \in 1..Len(u) : k \in 1..l \/ \E i \in 1..Len(t) : k = l + i
  <2>1. \A k \in 1..Len(u) : k \in 1..l \/ (k - l \in 1..Len(t) /\ k = l + (k - l))
    BY <1>1
  <2> QED BY <2>1
<1>5. cl'.mode => ModeSet(u, Len(u) + 1, n)
  <2>1. CASE cl.mode
    <3>1. ModeSet(net, l + 1, n)
      BY <2>1 DEF DupInv, Ahead, l, n
    <3>2. \A j \in 1..((l + 1) - 1) : j \in 1..l /\ j \in 1..((Len(u) + 1) - 1)
      BY <1>1
    <3> QED BY <1>2, <3>1, <3>2 DEF ModeSet
  <2>2. CASE Len(t) = 1 /\ t[1].kind = "switchres"
    <3>1. l + 1 \in 1..((Len(u) + 1) - 1)
      BY <1>1, <2>2
    <3>2. u[l + 1].kind = "switchres"
      BY <1>3, <2>2
    <3> QED BY <3>1, <3>2 DEF ModeSet
  <2> QED BY <2>1, <2>2
<1>6. cl'.delta => cl'.frame > 0 /\ Before(u, Len(u) + 1, g, cl'.frame)
  <2>0. (Len(u) + 1) - 1 = Len(u) /\ (l + 1) - 1 = l
    BY <1>1
  <2>1. CASE cl.delta /\ cl'.frame = cl.frame /\ \A i \in 1..Len(t) : ~Header(t[i])
    <3>1. cl.frame > 0 /\ Before(net, l + 1, g, cl.frame)
      BY <2>1 DEF DupInv, Ahead, l, g
    <3>2. CASE \E j \in 1..l : Header(net[j]) /\ net[j].frame = cl.frame /\ \A k \in (j + 1)..l : ~Header(net[k])
      <4>1. PICK j \in 1..l : Header(net[j]) /\ net[j].frame = cl.frame /\ \A k \in (j + 1)..l : ~Header(net[k])
        BY <3>2
      <4>2. \A k \in (j + 1)..Len(u) : k \in 1..Len(u) /\ (k \in 1..l => k \in (j + 1)..l)
        BY <1>1
      <4>3. \A k \in (j + 1)..Len(u) : ~Header(u[k])
        <5> SUFFICES ASSUME NEW k \in (j + 1)..Len(u) PROVE ~Header(u[k])
          OBVIOUS
        <5>1. CASE k \in 1..l
          BY <1>2, <4>1, <4>2, <5>1
        <5>2. CASE k \notin 1..l
          <6>1. PICK i \in 1..Len(t) : k = l + i
            BY <1>4, <4>2, <5>2
          <6> QED BY <1>3, <2>1, <6>1
        <5> QED BY <5>1, <5>2
      <4>4. j \in 1..Len(u) /\ Header(u[j]) /\ u[j].frame = cl.frame
        BY <1>2, <4>1
      <4> QED BY <2>0, <2>1, <3>1, <4>3, <4>4 DEF Before
    <3>3. CASE g = cl.frame /\ \A k \in 1..l : ~Header(net[k])
      <4>1. \A k \in 1..Len(u) : ~Header(u[k])
        BY <1>2, <1>3, <1>4, <2>1, <3>3
      <4> QED BY <2>0, <2>1, <3>1, <3>3, <4>1 DEF Before
    <3> QED BY <2>0, <3>1, <3>2, <3>3 DEF Before
  <2>2. CASE /\ cl'.frame > 0 /\ t /= <<>> /\ Header(t[1]) /\ t[1].frame = cl'.frame
             /\ \A i \in 2..Len(t) : ~Header(t[i])
    <3>0. Len(t) /= 0
      BY <2>2, EmptySeq
    <3>1. 1 \in 1..Len(t) /\ l + 1 \in 1..Len(u) /\ Header(u[l + 1]) /\ u[l + 1].frame = cl'.frame
      BY <1>1, <1>3, <2>2, <3>0
    <3>2. \A k \in ((l + 1) + 1)..Len(u) : k \in 1..Len(u) /\ k \notin 1..l /\ k /= l + 1
      BY <1>1
    <3>3. \A k \in ((l + 1) + 1)..Len(u) : \E i \in 2..Len(t) : u[k] = t[i]
      <4>1. \A k \in ((l + 1) + 1)..Len(u) : \E i \in 1..Len(t) : k = l + i
        BY <1>4, <3>2
      <4>2. \A i \in 1..Len(t) : i = 1 \/ i \in 2..Len(t)
        BY <1>1
      <4> QED BY <1>3, <3>2, <4>1, <4>2
    <3>4. \A k \in ((l + 1) + 1)..Len(u) : ~Header(u[k])
      BY <2>2, <3>3
    <3> QED BY <2>0, <2>2, <3>1, <3>4 DEF Before
  <2> QED BY <2>1, <2>2
<1> QED BY <1>5, <1>6 DEF u, n, g, l

\* A client that sends, by what it sends.
LEMMA SentDup ==
  ASSUME IInv, DupInv, NEW t \in Seq(Packets), net' = net \o t, Fits(t), UNCHANGED <<sv, poc>>,
         \/ cl' = NewClient
         \/ /\ cl'.at = "up"
            /\ cl'.mode => cl.mode \/ (Len(t) = 1 /\ t[1].kind = "switchres")
            /\ cl'.delta => \/ cl.delta /\ cl'.frame = cl.frame /\ \A i \in 1..Len(t) : ~Header(t[i])
                            \/ /\ cl'.frame > 0 /\ t /= <<>> /\ Header(t[1]) /\ t[1].frame = cl'.frame
                               /\ \A i \in 2..Len(t) : ~Header(t[i])
  PROVE  DupInv'
<1>1. Modelines(net', poc.bytes_len) /\ Duplicates(net', Shown)
  <2>1. net \in Seq(Packets)
    BY DEF IInv, NetTyped
  <2> QED BY <2>1, SentFits
<1>2. Shown' = Shown /\ poc'.bytes_len = poc.bytes_len
  BY DEF Shown
<1>3. Ahead(net, poc.bytes_len, Shown)'
  <2>1. CASE cl' = NewClient
    BY <2>1 DEF Ahead, NewClient
  <2>2. CASE cl' /= NewClient
    <3>1. /\ cl'.mode => ModeSet(net', Len(net') + 1, poc.bytes_len)
          /\ cl'.delta => cl'.frame > 0 /\ Before(net', Len(net') + 1, Shown, cl'.frame)
      BY <2>2, AheadSent
    <3> QED BY <1>2, <2>2, <3>1 DEF Ahead, ModeSet, Before, Header
  <2> QED BY <2>1, <2>2
<1>4. (Modelines(net, poc.bytes_len))' /\ (Duplicates(net, Shown))'
  BY <1>1, <1>2 DEF Modelines, Duplicates, ModeSet, Before, Header
<1> QED BY <1>2, <1>3, <1>4 DEF DupInv

LEMMA StreamNoHeader ==
  ASSUME NEW kind \in {"rgb", "pcm"}, NEW f \in 0..MaxFrame, NEW n \in Nat \ {0}
  PROVE  /\ SendStream(kind, f, n) \in Seq(Packets)
         /\ \A i \in 1..Len(SendStream(kind, f, n)) : ~Header(SendStream(kind, f, n)[i])
<1>1. SendStream(kind, f, n) \in Seq(Packets)
  BY BoundAssumption, StreamWellFormed
<1>2. \A p \in Within(SendStream(kind, f, n)) : p.kind = kind
  BY WithinStream
<1> QED BY <1>1, <1>2 DEF Within, Header

\* A command, and the stream behind it, if any.
LEMMA OneHeader ==
  ASSUME NEW h \in Packets, NEW st \in Seq(Packets), \A i \in 1..Len(st) : ~Header(st[i])
  PROVE  LET t == <<h>> \o st IN
           t \in Seq(Packets) /\ t /= <<>> /\ t[1] = h /\ \A i \in 2..Len(t) : ~Header(t[i])
<1> DEFINE o == <<h>>
<1>1. o \in Seq(Packets) /\ Len(o) = 1 /\ o[1] = h
  OBVIOUS
<1> HIDE DEF o
<1>2. /\ Len(st) \in Nat /\ Len(o \o st) = Len(st) + 1 /\ (o \o st)[1] = h
      /\ \A j \in 2..Len(o \o st) : (o \o st)[j] = st[j - 1] /\ j - 1 \in 1..Len(st)
  BY <1>1, OneBefore
<1>3. o \o st \in Seq(Packets)
  BY <1>1, WithinBoth
<1>4. o \o st /= <<>>
  BY <1>2
<1> QED BY <1>1, <1>2, <1>3, <1>4 DEF o

LEMMA ClientDup ==
  ASSUME IInv, DupInv, Client
  PROVE  DupInv'
<1>0. net \in Seq(Packets)
  BY DEF IInv, NetTyped
<1>1. CASE CmdInit
  <2>1. PICK c \in Packets : c.kind = "init" /\ net' = Append(Disowned(net), c)
    <3>1. \A a \in {0, 1} : Cmd("init", 0, a) \in Packets /\ Cmd("init", 0, a).kind = "init"
      BY BoundAssumption, CmdWellFormed DEF Commands, Cmd
    <3> QED BY <1>1, <3>1 DEF CmdInit
  <2>2. Disowned(net) \in Seq(Packets) /\ net' = Disowned(net) \o <<c>> /\ <<c>> \in Seq(Packets)
    BY <1>0, <2>1, DisownedWellFormed, AppendIsConcat
  <2>3. Fits(<<c>>)
    BY <2>1 DEF Fits, Header
  <2>4. Modelines(net', poc.bytes_len) /\ Duplicates(net', Shown)
    BY <2>2, <2>3, SentFits
  <2>5. UNCHANGED <<sv, poc>> /\ cl'.at = "wait" /\ ~cl'.mode /\ ~cl'.delta
    BY <1>1 DEF CmdInit, NewClient
  <2>6. Shown' = Shown
    BY <2>5 DEF Shown
  <2> QED BY <2>4, <2>5, <2>6 DEF DupInv, Modelines, Duplicates, Ahead, ModeSet, Before, Header
<1>2. CASE Connect \/ WaitSync \/ GiveUp
  <2>1. UNCHANGED <<net, sv, poc>>
    BY <1>2 DEF Connect, WaitSync, GiveUp
  <2>2. \/ cl' = NewClient
        \/ cl'.at = "up" /\ cl'.mode = cl.mode /\ cl'.delta = cl.delta /\ cl'.frame = cl.frame
    BY <1>2 DEF Connect, WaitSync, GiveUp, IInv, ClTyped
  <2>3. Ahead(net, poc.bytes_len, Shown)'
    BY <2>1, <2>2 DEF Ahead, NewClient, Shown, ModeSet, Before, Header, DupInv
  <2> QED BY <2>1, <2>3 DEF DupInv, Shown, Modelines, Duplicates, ModeSet, Before, Header
<1>3. CASE CmdSwitchres
  <2> DEFINE c == Cmd("switchres", 0, 0)
  <2>1. c \in Packets /\ c.kind = "switchres"
    BY BoundAssumption, CmdWellFormed DEF Commands, Cmd
  <2>2. /\ net' = net \o <<c>> /\ UNCHANGED <<sv, poc>> /\ cl.at = "up"
        /\ cl' = [cl EXCEPT !.mode = TRUE, !.delta = FALSE]
    BY <1>3 DEF CmdSwitchres, Send
  <2>3. cl'.at = "up" /\ ~cl'.delta
    BY <2>2 DEF IInv, ClTyped
  <2> HIDE DEF c
  <2>4. Fits(<<c>>) /\ <<c>> \in Seq(Packets) /\ Len(<<c>>) = 1 /\ <<c>>[1].kind = "switchres"
    BY <2>1 DEF Fits, Header
  <2> QED BY <2>2, <2>3, <2>4, SentDup
<1>4. CASE CmdClose
  <2> DEFINE c == Cmd("close", 0, 0)
  <2>1. c \in Packets /\ c.kind = "close"
    BY BoundAssumption, CmdWellFormed DEF Commands, Cmd
  <2>2. net' = net \o <<c>> /\ UNCHANGED <<sv, poc>> /\ cl' = NewClient
    BY <1>4 DEF CmdClose, Send
  <2> HIDE DEF c
  <2>3. Fits(<<c>>) /\ <<c>> \in Seq(Packets)
    BY <2>1 DEF Fits, Header
  <2> QED BY <2>2, <2>3, SentDup
<1>5. CASE CmdAudio
  <2> DEFINE h == Cmd("audio", 0, AudioBytes)
             st == SendStream("pcm", 0, AudioBytes)
             t == <<h>> \o st
  <2>1. h \in Packets /\ h.kind = "audio"
    BY BoundAssumption, Sizes, CmdWellFormed DEF Commands, Cmd
  <2>2. st \in Seq(Packets) /\ \A i \in 1..Len(st) : ~Header(st[i])
    <3>1. 0 \in 0..MaxFrame /\ AudioBytes \in Nat \ {0} /\ "pcm" \in {"rgb", "pcm"}
      BY BoundAssumption, Sizes
    <3> QED BY <3>1, StreamNoHeader, Zenon
  <2>3. /\ net' = net \o t /\ UNCHANGED <<sv, poc>> /\ cl.at = "up"
        /\ cl' = [cl EXCEPT !.heard = cl.frame]
    BY <1>5 DEF CmdAudio, Send
  <2>4. cl'.at = "up" /\ cl'.mode = cl.mode /\ cl'.delta = cl.delta /\ cl'.frame = cl.frame
    BY <2>3 DEF IInv, ClTyped
  <2> HIDE DEF h, st
  <2>5. t \in Seq(Packets) /\ t /= <<>> /\ t[1] = h /\ \A i \in 2..Len(t) : ~Header(t[i])
    BY <2>1, <2>2, OneHeader
  <2> HIDE DEF t
  <2>6. \A i \in 1..Len(t) : i = 1 \/ i \in 2..Len(t)
    OBVIOUS
  <2>7. \A i \in 1..Len(t) : ~Header(t[i])
    BY <2>1, <2>5, <2>6 DEF Header
  <2>8. Fits(t)
    BY <2>7 DEF Fits
  <2> QED BY <2>3, <2>4, <2>5, <2>7, <2>8, SentDup
<1>6. CASE CmdBlit
  <2> DEFINE f == cl.frame + 1
  <2>1. /\ f \in 0..MaxFrame /\ f > 0 /\ cl.frame \in Nat /\ cl.at = "up" /\ cl.mode /\ UNCHANGED <<sv, poc>>
    BY <1>6, BoundAssumption DEF CmdBlit, IInv, ClTyped
  <2>2. cl' = [cl EXCEPT !.frame = f, !.delta = TRUE] \/ cl' = [cl EXCEPT !.frame = f]
    BY <1>6 DEF CmdBlit
  <2>3. \/ \E n \in Lz4Bytes : Send(<<Cmd("lz4", f, n)>> \o SendStream("rgb", f, n))
        \/ Send(<<Cmd("raw", f, 0)>> \o SendStream("rgb", f, RgbBytes))
        \/ Send(<<Cmd("dup", f, 0)>>) /\ cl.delta
    BY <1>6 DEF CmdBlit
  <2> HIDE DEF f
  <2>4. cl'.at = "up" /\ cl'.mode = cl.mode /\ cl'.frame = f
    BY <2>1, <2>2 DEF IInv, ClTyped
  <2>5. ASSUME NEW h \in Packets, h.kind \in {"raw", "lz4", "dup"}, h.frame = f, h.kind = "dup" => cl.delta,
               NEW st \in Seq(Packets), \A i \in 1..Len(st) : ~Header(st[i]), Send(<<h>> \o st)
        PROVE  DupInv'
    <3> DEFINE t == <<h>> \o st
    <3>1. t \in Seq(Packets) /\ t /= <<>> /\ t[1] = h /\ \A i \in 2..Len(t) : ~Header(t[i])
      BY <2>5, OneHeader
    <3>2. net' = net \o t
      BY <2>5 DEF Send
    <3> HIDE DEF t
    <3>3. \A i \in 1..Len(t) : i = 1 \/ i \in 2..Len(t)
      OBVIOUS
    <3>4. Fits(t)
      BY <2>1, <2>5, <3>1, <3>3 DEF Fits, f
    <3>5. Header(t[1]) /\ t[1].frame = cl'.frame /\ cl'.frame > 0
      BY <2>1, <2>4, <2>5, <3>1 DEF Header
    <3> QED BY <2>1, <2>4, <3>1, <3>2, <3>4, <3>5, SentDup
  <2>6. ASSUME NEW n \in Lz4Bytes, Send(<<Cmd("lz4", f, n)>> \o SendStream("rgb", f, n))
        PROVE  DupInv'
    <3>1. n \in Nat \ {0}
      BY Sizes
    <3>2. Cmd("lz4", f, n) \in Packets /\ Cmd("lz4", f, n).kind = "lz4" /\ Cmd("lz4", f, n).frame = f
      BY <2>1, <3>1, BoundAssumption, CmdWellFormed DEF Commands, Cmd
    <3> QED BY <2>1, <2>5, <2>6, <3>1, <3>2, StreamNoHeader
  <2>7. ASSUME Send(<<Cmd("raw", f, 0)>> \o SendStream("rgb", f, RgbBytes))
        PROVE  DupInv'
    <3>1. Cmd("raw", f, 0) \in Packets /\ Cmd("raw", f, 0).kind = "raw" /\ Cmd("raw", f, 0).frame = f
      BY <2>1, BoundAssumption, CmdWellFormed DEF Commands, Cmd
    <3> QED BY <2>1, <2>5, <2>7, <3>1, Sizes, StreamNoHeader
  <2>8. ASSUME Send(<<Cmd("dup", f, 0)>>), cl.delta
        PROVE  DupInv'
    <3>1. Cmd("dup", f, 0) \in Packets /\ Cmd("dup", f, 0).kind = "dup" /\ Cmd("dup", f, 0).frame = f
      BY <2>1, BoundAssumption, CmdWellFormed DEF Commands, Cmd
    <3> DEFINE e == << >>
               h == Cmd("dup", f, 0)
    <3>2. e \in Seq(Packets) /\ \A i \in 1..Len(e) : ~Header(e[i])
      OBVIOUS
    <3>3. <<h>> \o e = <<h>>
      BY <3>1
    <3>4. Send(<<h>> \o e)
      BY <2>8, <3>3
    <3> HIDE DEF e, h
    <3> QED BY <2>5, <2>8, <3>1, <3>2, <3>4 DEF h
  <2> QED BY <2>3, <2>6, <2>7, <2>8
<1> QED BY <1>1, <1>2, <1>3, <1>4, <1>5, <1>6 DEF Client

LEMMA NetworkDup ==
  ASSUME IInv, KeptInv, Network, faults'.sess = 0
  PROVE  KeptInv'
<1> FaultsTyped /\ faults.lost \in Nat
  BY DEF IInv, FaultsTyped
<1>1. CASE Lose \/ LoseAnswer
  <2>1. faults'.lost /= 0
    BY <1>1, FaultCounted DEF Lose, LoseAnswer
  <2> QED BY <2>1 DEF KeptInv, Clean
<1>2. CASE Repeat \/ Overtake
  BY <1>2, OddCounted DEF KeptInv, Clean
<1>3. CASE Vanish
  <2>1. faults'.lost = faults.lost /\ faults'.odd = faults.odd
    BY <1>3, FaultCounted DEF Vanish
  <2>2. UNCHANGED <<net, sv, poc, ended>> /\ ~cl'.mode /\ ~cl'.delta
    BY <1>3 DEF Vanish, NewClient
  <2> QED BY <2>1, <2>2 DEF KeptInv, Clean, DupInv, Shown, Modelines, Duplicates, Ahead, ModeSet, Before, Header
<1> QED BY <1>1, <1>2, <1>3 DEF Network

\* While a frame comes in and nothing is lost, the next packet is its next chunk.
LEMMA CleanChunk ==
  ASSUME IInv, EndInv, WholeInv, Clean, DupInv, sv.blitting = 1, net /= <<>>, process_packet(Head(net))
  PROVE  /\ Head(net).kind = "rgb" /\ setBlitRaw(Head(net)) /\ poc.own /\ InPlace(Head(net))
<1> DEFINE p == Head(net)
           n == Expected
           r == poc.bytes_recv
<1>1. net \in Seq(Packets) /\ n \in Nat /\ r \in Nat
  BY InStepTyped
<1>2. poc.own /\ r < n /\ Chunks(net, 1, poc.frame_recv, r, n) /\ poc.bytes_len > 0
  BY DEF WholeInv, Mild, Clean, InStep, DupInv
<1>3. /\ p.kind = "rgb" /\ p.frame = poc.frame_recv /\ p.arg = r
      /\ p.len = (IF n - r >= Mtu THEN Mtu ELSE n - r)
  BY <1>1, <1>2, NextChunk
<1> HIDE DEF p, n, r
<1>4. p.len < Mtu => r + p.len = n
  BY <1>1, <1>2, <1>3 DEF Mtu
<1>5. ~Broken(p)
  BY <1>4 DEF Broken, n, r
<1>6. InPlace(p)
  BY <1>3 DEF InPlace, r
<1>7. setBlitRaw(p)
  <2>1. p.kind = "rgb" /\ process_packet(p) /\ sv.blitting = 1
    BY <1>3 DEF p
  <2> QED BY <1>2, <1>5, <2>1
          DEF process_packet, DropBroken, SkipNoModeline, setBlitRawAudio, setInit, setClose, setSwitchres,
              setBlitAudio, setBlit, setBlitDup, IgnoreChunk, AsCommand, Header, Duplicate
<1> QED BY <1>2, <1>3, <1>6, <1>7 DEF p

\* What the packet leaves to the packets behind it.
LEMMA PollShown ==
  ASSUME IInv, EndInv, WholeInv, Clean, DupInv, ended /= "stale", net /= <<>>,
         process_packet(Head(net)), ~TakenForChunk(Head(net)), Head(net).kind \notin {"init", "close"}
  PROVE  /\ Shown' = IF Header(Head(net)) THEN Head(net).frame ELSE Shown
         /\ poc.bytes_len > 0 => poc'.bytes_len > 0
         /\ Head(net).kind = "switchres" => poc'.bytes_len > 0
         /\ sv'.blitting = 1 => poc'.bytes_len > 0
         /\ ended' /= "stale"
<1> DEFINE p == Head(net)
<1>1. p \in Packets /\ ServerInv /\ poc \in PocType /\ p.frame \in 0..MaxFrame /\ 1 \in 1..Len(net) /\ p = net[1]
  <2>1. net \in Seq(Packets)
    BY DEF IInv, NetTyped
  <2>2. p \in Packets /\ 1 \in 1..Len(net) /\ p = net[1]
    BY <2>1
  <2> QED BY <2>2, InvParts DEF Packets, IInv, PocTyped
<1>2. sv.blitting /= 1 => Marked = poc /\ Block = poc
  BY DEF Marked, Block
<1>3. RgbBytes > 0
  BY SizesPositive
<1>4. p.kind \in Commands /\ sv.blitting /= 0 => Broken(p) /\ TakenForCommand(p)
  BY CommandInterrupts
<1>5. CASE sv.blitting = 1
  <2>1. p.kind = "rgb" /\ setBlitRaw(p) /\ poc.own /\ InPlace(p) /\ poc.bytes_len > 0
    BY <1>5, CleanChunk DEF DupInv
  <2>2. /\ poc.bytes_recv + p.len < Expected => ended' = ended /\ sv' = sv /\ poc'.held = poc.held
        /\ ~(poc.bytes_recv + p.len < Expected) =>
              /\ sv'.blitting = 0 /\ ended' = IF poc.own /\ InPlace(p) THEN "whole" ELSE "torn"
              /\ poc.own /\ InPlace(p) => poc'.held = poc.frame_recv
        /\ poc'.frame_recv = poc.frame_recv /\ poc'.bytes_len = poc.bytes_len
    BY <1>1, <2>1, RawEnds
  <2> HIDE DEF p
  <2>3. ~Header(p) /\ p.kind /= "switchres" /\ Shown = poc.frame_recv
    BY <1>5, <2>1 DEF Header, Shown
  <2>4. Shown' = poc.frame_recv /\ ended' /= "stale"
    BY <1>5, <2>1, <2>2 DEF Shown
  <2> QED BY <2>1, <2>2, <2>3, <2>4 DEF p
<1>6. CASE sv.blitting /= 1 /\ Header(p)
  <2>1. poc.bytes_len > 0
    BY <1>1, <1>6 DEF DupInv, Modelines, ModeSet
  <2> HIDE DEF p
  <2>2. setBlit(p) \/ setBlitDup(p)
    <3>1. p.kind \in {"raw", "lz4", "dup"} /\ process_packet(p)
      BY <1>6 DEF Header, p
    <3> QED BY <1>4, <3>1 DEF process_packet, DropBroken, SkipNoModeline, Broken, setBlitRaw, setBlitRawAudio,
                              setInit, setClose, setSwitchres, setBlitAudio, IgnoreChunk, Commands
  <2>3. CASE setBlit(p)
    <3> DEFINE b == [poc EXCEPT !.frame_recv = p.frame, !.bytes_recv = 0, !.own = TRUE,
                                !.held = 0, !.lz4_len = IF sv.lz4 THEN p.arg ELSE 0]
    <3>1. /\ poc' = (IF sv.hps THEN Restart(b) ELSE Announce(b, 0)) /\ ended' = "none"
          /\ sv' = [Server EXCEPT !.blitting = 1, !.priority = TRUE]
      BY <1>2, <1>6, <2>3 DEF setBlit
    <3>2. poc'.frame_recv = p.frame /\ poc'.bytes_len = poc.bytes_len
      BY <1>1, <3>1 DEF PocType, Restart, Announce
    <3>3. sv'.blitting = 1
      BY <1>1, <3>1, ServerIdle DEF SvType
    <3> QED BY <1>6, <2>1, <3>1, <3>2, <3>3 DEF Shown, p
  <2>4. CASE setBlitDup(p)
    <3>1. p.kind = "dup" /\ p.frame > 1 /\ Before(net, 1, Shown, p.frame - 1)
      <4>1. p.kind = "dup"
        BY <2>4 DEF setBlitDup, Duplicate
      <4> QED BY <1>1, <4>1 DEF DupInv, Duplicates, p
    <3>2. poc.held = p.frame - 1
      <4>1. \A j \in 1..(1 - 1) : FALSE
        OBVIOUS
      <4> QED BY <1>6, <3>1, <4>1 DEF Before, Shown
    <3>3. Held(p.frame)
      <4>1. p.frame - 1 /= 0
        BY <1>1, <3>1
      <4> QED BY <1>2, <1>6, <3>2, <4>1 DEF Held
    <3>4. /\ poc' = Announce([poc EXCEPT !.frame_recv = p.frame, !.bytes_recv = poc.bytes_len, !.lz4_len = 0,
                                         !.held = p.frame], poc.bytes_len)
          /\ ended' = "kept" /\ sv' = Idle
      BY <1>2, <1>6, <2>4, <3>3 DEF setBlitDup
    <3>5. poc'.held = p.frame /\ poc'.bytes_len = poc.bytes_len
      BY <1>1, <3>4 DEF PocType, Announce
    <3>6. sv'.blitting = 0
      BY <1>1, <3>4, IdleTyped
    <3> QED BY <1>6, <2>1, <3>4, <3>5, <3>6 DEF Shown, p
  <2> QED BY <2>2, <2>3, <2>4
<1>7. CASE sv.blitting /= 1 /\ ~Header(p)
  <2> HIDE DEF p
  <2>1. ~setBlitRaw(p) /\ ~setBlit(p) /\ ~setBlitDup(p) /\ ~setInit(p) /\ ~setClose(p) /\ process_packet(p)
    BY <1>7 DEF setBlitRaw, setBlit, setBlitDup, Duplicate, Header, setInit, setClose, p
  <2>2. sv'.blitting /= 1 /\ ended' \in {ended, "marked", "none"}
    BY <1>1, <2>1, FrameLeft
  <2>3. poc'.held = poc.held /\ (poc.bytes_len > 0 => poc'.bytes_len > 0)
    <3>1. CASE DropBroken(p) \/ SkipNoModeline(p) \/ IgnoreChunk(p)
      BY <1>2, <1>7, <3>1 DEF DropBroken, SkipNoModeline, IgnoreChunk
    <3>2. CASE setBlitRawAudio(p)
      BY <1>1, <3>2 DEF setBlitRawAudio, PocType
    <3>3. CASE setSwitchres(p)
      <4>1. poc' = [poc EXCEPT !.bytes_len = RgbBytes, !.bytes_recv = 0, !.announced = 0]
        BY <1>2, <1>7, <3>3 DEF setSwitchres
      <4> QED BY <1>1, <1>3, <4>1 DEF PocType
    <3>4. CASE setBlitAudio(p)
      <4>1. poc' = [poc EXCEPT !.audio_len = p.arg, !.bytes_recv = 0]
        BY <1>2, <1>7, <3>4 DEF setBlitAudio
      <4> QED BY <1>1, <4>1 DEF PocType
    <3> QED BY <2>1, <3>1, <3>2, <3>3, <3>4 DEF process_packet
  <2>5. p.kind = "switchres" => poc'.bytes_len > 0
    <3> SUFFICES ASSUME p.kind = "switchres" PROVE poc'.bytes_len > 0
      OBVIOUS
    <3>1. setSwitchres(p)
      BY <1>4, <2>1 DEF process_packet, DropBroken, SkipNoModeline, Broken, setBlitRawAudio, setBlitAudio,
                        IgnoreChunk, Commands
    <3> QED BY <1>1, <1>2, <1>3, <1>7, <3>1 DEF setSwitchres, PocType
  <2> QED BY <1>7, <2>2, <2>3, <2>5 DEF Shown, p
<1> QED BY <1>5, <1>6, <1>7

LEMMA PollDup ==
  ASSUME IInv, SessionInv, EndInv, WholeInv, KeptInv, groovy_poll,
         process_packet(Head(net)), ~TakenForChunk(Head(net))
  PROVE  KeptInv'
<1>1. net \in Seq(Packets) /\ net /= <<>> /\ Head(net) \in Packets /\ net' = Tail(net) /\ cl' = cl /\ faults' = faults
  BY PollReads
<1> SUFFICES ASSUME Clean PROVE DupInv' /\ ended' /= "stale"
  BY <1>1 DEF KeptInv, Clean
<1>2. DupInv /\ ended /= "stale"
  BY DEF KeptInv
<1>3. CASE Head(net).kind \in {"init", "close"}
  <2>1. OnlyOpens(net') /\ cl.at /= "up"
    BY <1>1, <1>3, TailKeepsOrder DEF SessionInv
  <2>2. ~setBlitRaw(Head(net)) /\ ~setBlit(Head(net)) /\ ~setBlitDup(Head(net))
    <3>1. sv.blitting = 1 => Head(net).kind = "rgb"
      BY <1>1, <1>2, CleanChunk
    <3> QED BY <1>3, <3>1 DEF setBlitRaw, setBlit, setBlitDup, Header, Duplicate
  <2>3. sv'.blitting /= 1 /\ ended' \in {ended, "marked", "none"}
    BY <1>1, <2>2, FrameLeft
  <2>4. ~cl'.mode /\ ~cl'.delta
    BY <1>1, <1>2, <2>1 DEF DupInv, Ahead
  <2> QED BY <1>2, <2>1, <2>3, <2>4 DEF DupInv, OnlyOpens, Modelines, Duplicates, Ahead, Header
<1>4. CASE Head(net).kind \notin {"init", "close"}
  <2>1. /\ Shown' = IF Header(Head(net)) THEN Head(net).frame ELSE Shown
        /\ poc.bytes_len > 0 => poc'.bytes_len > 0
        /\ Head(net).kind = "switchres" => poc'.bytes_len > 0
        /\ sv'.blitting = 1 => poc'.bytes_len > 0
        /\ ended' /= "stale"
    BY <1>1, <1>2, <1>4, PollShown
  <2> DEFINE h == Shown'
             m == poc'.bytes_len
  <2>2. Modelines(Tail(net), m) /\ Duplicates(Tail(net), h) /\ Ahead(Tail(net), m, h)
    <3>1. Modelines(net, poc.bytes_len) /\ Duplicates(net, Shown) /\ Ahead(net, poc.bytes_len, Shown)
      BY <1>2 DEF DupInv
    <3> HIDE DEF h, m
    <3> QED BY <1>1, <2>1, <3>1, DupTail DEF h, m
  <2>3. (Modelines(net, poc.bytes_len))' /\ (Duplicates(net, Shown))' /\ (Ahead(net, poc.bytes_len, Shown))'
    BY <1>1, <2>2 DEF Modelines, Duplicates, Ahead, ModeSet, Before, Header
  <2> QED BY <2>1, <2>3 DEF DupInv
<1> QED BY <1>3, <1>4

-----------------------------------------------------------------------------
InvInSession == SessionInv /\ ModeInv /\ EndInv /\ WholeInv /\ KeptInv

LEMMA NextEnds ==
  ASSUME IInv, InSession => InvInSession, [Next]_vars, InSession'
  PROVE  InvInSession'
<1>1. CASE groovy_poll
  <2>1. /\ InvInSession /\ process_packet(Head(net)) /\ ~TakenForChunk(Head(net))
        /\ Head(net) \in Packets /\ Head(net) \in Within(net)
    BY <1>1, PollInSession, PollReads, WithinTail
  <2>2. SessionInv'
    BY <1>1, <2>1, PollSession DEF InvInSession
  <2>3. ModeInv' /\ EndInv'
    BY <1>1, <2>1, PollKeepsMode, PollEnds DEF InvInSession
  <2>4. WholeInv' /\ KeptInv'
    BY <1>1, <2>1, PollWhole, PollDup DEF InvInSession
  <2> QED BY <2>2, <2>3, <2>4 DEF InvInSession
<1>2. CASE Client /\ UNCHANGED history
  <2>1. InvInSession /\ UNCHANGED <<sv, poc, ended>>
    BY <1>2, OthersInSession
       DEF Client, CmdInit, Connect, GiveUp, CmdSwitchres, CmdBlit, CmdAudio, WaitSync, CmdClose
  <2>2. EndInv'
    BY <2>1 DEF EndInv, InvInSession
  <2>3. faults'.lost = faults.lost /\ faults'.odd = faults.odd
    <3>1. UNCHANGED faults \/ Fault("late")
      BY <1>2 DEF Client, CmdInit, Connect, GiveUp, CmdSwitchres, CmdBlit, CmdAudio, WaitSync, CmdClose
    <3> QED BY <3>1, FaultCounted DEF IInv
  <2>4. KeptInv'
    BY <1>2, <2>1, <2>3, ClientDup DEF KeptInv, Clean, InvInSession
  <2> QED BY <1>2, <2>1, <2>2, <2>4, ClientSession, ClientMode, ClientWhole DEF InvInSession
<1>3. CASE Network /\ UNCHANGED history
  <2>1. InvInSession /\ UNCHANGED <<sv, poc, ended>> /\ faults'.sess = 0
    BY <1>3, OthersInSession DEF InSession, Network, Lose, LoseAnswer, Repeat, Overtake, Vanish
  <2>2. EndInv'
    BY <2>1 DEF EndInv, InvInSession
  <2> QED BY <1>3, <2>1, <2>2, NetworkSession, NetworkMode, NetworkWhole, NetworkDup DEF InvInSession
<1>4. CASE groovy_send_joystick \/ UNCHANGED vars
  <2>1. UNCHANGED <<cl, net, acks, sv, poc, faults, ended, mixed>>
    BY <1>4 DEF vars, groovy_send_joystick
  <2>2. InvInSession
    BY <2>1 DEF InSession
  <2>3. SessionInv' /\ ModeInv' /\ EndInv'
    BY <2>1, <2>2 DEF InvInSession, SessionInv, OpensLast, OnlyOpens, NoSession, OwnLast, ModeInv, Header, EndInv
  <2>4. WholeInv'
    BY <2>1, <2>2 DEF InvInSession, WholeInv, Mild, InStep, Expected, Complete
  <2>5. KeptInv'
    BY <2>1, <2>2 DEF InvInSession, KeptInv, Clean, DupInv, Shown, Modelines, Duplicates, Ahead, ModeSet, Before, Header
  <2> QED BY <2>3, <2>4, <2>5 DEF InvInSession
<1> QED BY <1>1, <1>2, <1>3, <1>4 DEF Next

\* For every size of a frame, raw or compressed, in one piece or as it comes, and as long
\* as the packets that open and close sessions keep their order and chunks and commands
\* are not taken for each other: a frame that the server ends without the mark of a loss
\* has reached the FPGA under its own number; and if no more than one packet is lost and
\* none is repeated or reordered, every byte is the frame's own, in its place, and a
\* duplicate shows the frame before it, unless that one packet was lost before.
THEOREM FramesWhole == Spec => []FramesEndWhole
<1>1. Init => InvInSession
  BY InitSession, ModeInit, EndInit, WholeInit, KeptInit DEF InvInSession
<1>2. IInv /\ (InSession => InvInSession) /\ [Next]_vars => (InSession => InvInSession)'
  BY NextEnds
<1>3. IInv /\ (InSession => InvInSession) => FramesEndWhole
  <2> SUFFICES ASSUME IInv, InvInSession, InSession, ended \in {"whole", "torn", "kept", "stale"}
               PROVE  /\ poc.frame_ddr = poc.frame_recv
                      /\ faults.lost <= 1 /\ faults.odd = 0 =>
                           ended /= "torn" /\ (ended = "stale" => faults.lost = 1)
    BY DEF FramesEndWhole
  <2>1. faults.lost \in Nat /\ (faults.lost <= 1 => faults.lost = 0 \/ faults.lost = 1)
    BY DEF IInv, FaultsTyped
  <2> QED BY <2>1 DEF InvInSession, EndInv, WholeInv, KeptInv, Mild, Clean
<1> QED BY <1>1, <1>2, <1>3, Invariance, PTL DEF Spec

=============================================================================
