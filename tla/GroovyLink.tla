------------------------------ MODULE GroovyLink ------------------------------
(***************************************************************************)
(* The stream of frames and sound between an emulator and the MiSTer: the  *)
(* client library (api/groovymister.cpp) as its wrapper and RetroArch use  *)
(* it, the UDP path, and the packet handler of the server (groovy.cpp).    *)
(* Nothing in a chunk says which frame it is of or where it belongs; the   *)
(* server tells chunks from commands by its own state and by lengths.      *)
(* Lengths are the real ones, contents are reduced to where a chunk is     *)
(* from.                                                                   *)
(***************************************************************************)
EXTENDS Integers, Sequences

CONSTANTS RgbBytes,     \* bytes of a raw frame
          Lz4Bytes,     \* the sizes a compressed frame may have
          AudioBytes,   \* bytes of sound sent with a frame
          Screensaver,  \* doScreensaver: the logo moves while nobody is connected
          MaxFrame,     \* bound: frames of a session
          Window,       \* bound: packets in flight when the client sends more
          MaxFaults     \* bound: packets and answers lost, packets repeated or overtaken,
                        \* clients that vanish without a word, answers that come late

ASSUME BoundAssumption == MaxFrame \in Nat

\* Bytes of a full packet: the client's default, and what the server counts on.
Mtu == 1472

ASSUME SizeAssumption ==
  /\ \A n \in {RgbBytes, AudioBytes} \cup Lz4Bytes : n \in Nat \ {0}
  /\ Screensaver \in BOOLEAN

VARIABLES cl,     \* the client: its state, m_frame, m_delta_enabled, fpga.audio
          net,    \* packets on their way to the server, those in its socket too
          acks,   \* answers on their way to the client's socket
          sv,     \* the server: isBlitting, isCorePriority, blitCompression, hpsBlit
          poc,    \* the server's block for the session
          faults, \* what the network has done so far
          ended,  \* how the server's last transfer of pixels ended
          mixed,  \* history: a chunk was taken for a command, or a command for a chunk
          uses    \* history: how the block was used after it had been freed
history == <<mixed, uses>>
vars == <<cl, net, acks, sv, poc, faults, ended, mixed, uses>>

(***************************************************************************)
(* Packets                                                                 *)
(***************************************************************************)
CmdLen == [close |-> 1, init |-> 5, switchres |-> 26, audio |-> 3, raw |-> 8, dup |-> 9, lz4 |-> 12]

Cmd(kind, frame, arg) ==
  [kind |-> kind, frame |-> frame, arg |-> arg, len |-> CmdLen[kind], mine |-> TRUE]

SendStream(kind, frame, size) ==
  [i \in 1..((size + Mtu - 1) \div Mtu) |->
     LET pos == (i - 1) * Mtu IN
       [kind |-> kind, frame |-> frame, arg |-> pos,
        len |-> IF size - pos >= Mtu THEN Mtu ELSE size - pos, mine |-> TRUE]]

\* The client's new socket does not get what is answered to the old one.
Disowned(s) == [i \in 1..Len(s) |-> [s[i] EXCEPT !.mine = FALSE]]

\* The block after calloc. "announced" stands for PoC_pixels_ddr, or PoC_bytes_lz4_ddr;
\* "own" notes whether all that was received since the header is in its place, "held"
\* the frame that DDR holds whole, or 0.
Fresh == [live |-> TRUE, bytes_len |-> 0, lz4_len |-> 0, audio_len |-> 0, bytes_recv |-> 0,
          frame_recv |-> 0, frame_ddr |-> 0, announced |-> 0, own |-> TRUE, held |-> 0]

NewClient == [at |-> "off", frame |-> 0, delta |-> FALSE, audio |-> FALSE, lz4 |-> FALSE, mode |-> FALSE, heard |-> 0]

Init == /\ cl = NewClient
        /\ net = <<>>
        /\ acks = {}
        /\ \E hps \in BOOLEAN : sv = [blitting |-> 0, priority |-> FALSE, lz4 |-> FALSE, hps |-> hps]
        /\ poc = Fresh
        /\ faults = [lost |-> 0, odd |-> 0, sess |-> 0, gone |-> 0, late |-> 0]
        /\ ended = "none"
        /\ mixed = FALSE /\ uses = {}

\* One more fault of a kind: lost, odd (out of order, or twice), sess (the same for the
\* packets that open and close sessions), gone, late.
Fault(kind) == /\ faults.lost + faults.odd + faults.sess + faults.gone + faults.late < MaxFaults
               /\ faults' = [faults EXCEPT ![kind] = @ + 1]

(***************************************************************************)
(* The client                                                              *)
(***************************************************************************)
Send(packets) == /\ Len(net) <= Window
                 /\ net' = net \o packets

\* CmdInit opens a new socket, sends and waits up to 60 ms for any answer.
CmdInit == /\ cl.at = "off"
           /\ Len(net) <= Window
           /\ \E lz4 \in BOOLEAN : /\ cl' = [NewClient EXCEPT !.at = "wait", !.lz4 = lz4]
                                   /\ net' = Append(Disowned(net), Cmd("init", 0, IF lz4 THEN 1 ELSE 0))
           /\ acks' = {}
           /\ UNCHANGED <<sv, poc, faults, ended>>

AnsweredAnyway == TRUE
Answered == acks /= {}
Connect == /\ cl.at = "wait"
           /\ Answered
           /\ cl' = [cl EXCEPT !.at = "up"]
           /\ acks' = {}
           /\ UNCHANGED <<net, sv, poc, faults, ended>>

\* No answer in time: the connection is given up, and CmdClose sends nothing. The
\* answer may still be on its way, a fault of the network like the others.
GiveUp == /\ cl.at = "wait"
          /\ acks = {}
          /\ \/ /\ \A i \in 1..Len(net) : ~net[i].mine
                /\ UNCHANGED faults
             \/ /\ \E i \in 1..Len(net) : net[i].mine
                /\ Fault("late")
          /\ cl' = NewClient
          /\ UNCHANGED <<net, acks, sv, poc, ended>>

CmdSwitchres == /\ cl.at = "up"
                /\ ~cl.mode
                /\ Send(<<Cmd("switchres", 0, 0)>>)
                /\ cl' = [cl EXCEPT !.mode = TRUE, !.delta = FALSE]
                /\ UNCHANGED <<acks, sv, poc, faults, ended>>

\* A raw frame equal to the one before is sent as a header alone.
CmdBlit == /\ cl.at = "up"
           /\ cl.mode
           /\ cl.frame < MaxFrame
           /\ LET f == cl.frame + 1 IN
                /\ \/ /\ cl.lz4
                      /\ \E n \in Lz4Bytes : Send(<<Cmd("lz4", f, n)>> \o SendStream("rgb", f, n))
                      /\ cl' = [cl EXCEPT !.frame = f, !.delta = TRUE]
                   \/ /\ ~cl.lz4
                      /\ Send(<<Cmd("raw", f, 0)>> \o SendStream("rgb", f, RgbBytes))
                      /\ cl' = [cl EXCEPT !.frame = f, !.delta = TRUE]
                   \/ /\ ~cl.lz4
                      /\ cl.delta
                      /\ Send(<<Cmd("dup", f, 0)>>)
                      /\ cl' = [cl EXCEPT !.frame = f]
           /\ UNCHANGED <<acks, sv, poc, faults, ended>>

\* The application sends the sound of a frame at most once.
CmdAudio == /\ cl.at = "up"
            /\ cl.audio
            /\ cl.heard < cl.frame
            /\ Send(<<Cmd("audio", 0, AudioBytes)>> \o SendStream("pcm", 0, AudioBytes))
            /\ cl' = [cl EXCEPT !.heard = cl.frame]
            /\ UNCHANGED <<acks, sv, poc, faults, ended>>

\* WaitSync polls; only an answer to a frame newer than the last one counts.
WaitSync == /\ cl.at = "up"
            /\ acks /= {}
            /\ cl' = [cl EXCEPT !.audio = cl.audio \/ "frame" \in acks]
            /\ acks' = {}
            /\ UNCHANGED <<net, sv, poc, faults, ended>>

CmdClose == /\ cl.at = "up"
            /\ Send(<<Cmd("close", 0, 0)>>)
            /\ cl' = NewClient
            /\ UNCHANGED <<acks, sv, poc, faults, ended>>

(***************************************************************************)
(* The network                                                             *)
(***************************************************************************)
Session(p) == p.kind \in {"init", "close"}

OutOfOrder(packets) == Fault(IF \E p \in packets : Session(p) THEN "sess" ELSE "odd")

Lose == /\ net /= <<>>
        /\ net' = Tail(net)
        /\ Fault("lost")
        /\ UNCHANGED <<cl, acks, sv, poc, ended>>

LoseAnswer == /\ \E a \in acks : acks' = acks \ {a}
              /\ Fault("lost")
              /\ UNCHANGED <<cl, net, sv, poc, ended>>

Repeat == /\ net /= <<>>
          /\ net' = <<Head(net)>> \o net
          /\ OutOfOrder({Head(net)})
          /\ UNCHANGED <<cl, acks, sv, poc, ended>>

Overtake == /\ Len(net) >= 2
            /\ net' = <<net[2], net[1]>> \o SubSeq(net, 3, Len(net))
            /\ OutOfOrder({net[1], net[2]})
            /\ UNCHANGED <<cl, acks, sv, poc, ended>>

Vanish == /\ cl.at = "up"
          /\ cl' = NewClient
          /\ Fault("gone")
          /\ UNCHANGED <<net, acks, sv, poc, ended>>

(***************************************************************************)
(* The server: process_packet, with the next packet of the socket          *)
(***************************************************************************)
Expected == IF sv.blitting = 2 THEN poc.audio_len
            ELSE IF sv.blitting = 1 /\ sv.lz4 THEN poc.lz4_len
            ELSE poc.bytes_len

\* A short packet that does not end the transfer shows that something is lost ...
Broken(p) == sv.blitting /= 0 /\ p.len < Mtu /\ poc.bytes_recv + p.len /= Expected

\* ... and one no longer than a command, and not the last chunk, is taken for one.
TakenForNothing(p) == FALSE
TakenForCommand(p) == p.len /= Expected % Mtu /\ p.len <= 26

\* The header in DDR: the FPGA is told of a frame once, then follows the count.
Announce(b, bytes) == [b EXCEPT !.announced = bytes, !.frame_ddr = b.frame_recv]

\* The mark of a lost frame, written only when the FPGA already follows it.
Marked == IF sv.blitting = 1 /\ ~sv.hps THEN Announce(poc, Expected) ELSE poc

IdleStillFirst == [sv EXCEPT !.blitting = 0]
Idle == [sv EXCEPT !.blitting = 0, !.priority = FALSE]
HowEnded == IF sv.blitting = 1 THEN "marked" ELSE ended

DropBroken(p) == /\ Broken(p)
                 /\ ~TakenForCommand(p)
                 /\ poc' = Marked
                 /\ sv' = Idle
                 /\ ended' = HowEnded
                 /\ UNCHANGED acks

SkipNoModeline(p) == /\ sv.blitting /= 0
                     /\ ~Broken(p)
                     /\ poc.bytes_len = 0
                     /\ sv' = Idle
                     /\ UNCHANGED <<acks, poc, ended>>

InPlace(p) == p.kind = "rgb" /\ p.frame = poc.frame_recv /\ p.arg = poc.bytes_recv

setBlitRaw(p) ==
  /\ sv.blitting = 1
  /\ ~Broken(p)
  /\ poc.bytes_len > 0
  /\ LET recv == poc.bytes_recv + p.len
         b == [poc EXCEPT !.bytes_recv = recv, !.own = @ /\ InPlace(p)]
         followed == IF sv.hps THEN b ELSE Announce(b, recv)
     IN IF recv < Expected
        THEN /\ poc' = followed
             /\ UNCHANGED <<sv, ended>>
        ELSE /\ LET e == IF followed.announced < Expected THEN Announce(b, recv) ELSE followed
                IN poc' = [e EXCEPT !.held = IF b.own THEN b.frame_recv ELSE 0]
             /\ sv' = Idle
             /\ ended' = IF b.own THEN "whole" ELSE "torn"
  /\ UNCHANGED acks

setBlitRawAudio(p) ==
  /\ sv.blitting = 2
  /\ ~Broken(p)
  /\ poc.bytes_len > 0
  /\ poc' = [poc EXCEPT !.bytes_recv = @ + p.len]
  /\ sv' = IF poc.bytes_recv + p.len >= poc.audio_len THEN Idle ELSE sv
  /\ UNCHANGED <<acks, ended>>

(***************************************************************************)
(* ... and its commands, each on the state a broken transfer leaves        *)
(***************************************************************************)
AsCommand(p) == sv.blitting = 0 \/ (Broken(p) /\ TakenForCommand(p))
Block == IF sv.blitting = 0 THEN poc ELSE Marked
Server == IF sv.blitting = 0 THEN sv ELSE Idle
Ended == IF sv.blitting = 0 THEN ended ELSE HowEnded

Acknowledge(p, kind) == acks' = IF p.mine THEN acks \cup {kind} ELSE acks

setInit(p) == /\ p.kind = "init"
              /\ AsCommand(p)
              /\ poc' = Fresh
              /\ sv' = [Server EXCEPT !.blitting = 0, !.lz4 = (p.arg = 1)]
              /\ ended' = "none"
              /\ Acknowledge(p, "init")

\* The block is freed and the pointer kept; see Uses for what follows.
setClose(p) == /\ p.kind = "close"
               /\ AsCommand(p)
               /\ poc' = [Block EXCEPT !.live = FALSE]
               /\ sv' = [Server EXCEPT !.blitting = 0, !.lz4 = FALSE]
               /\ ended' = Ended
               /\ UNCHANGED acks

setSwitchres(p) == /\ p.kind = "switchres"
                   /\ AsCommand(p)
                   /\ poc' = [Block EXCEPT !.bytes_len = RgbBytes, !.bytes_recv = 0, !.announced = 0]
                   /\ sv' = Server
                   /\ ended' = Ended
                   /\ UNCHANGED acks

setBlitAudio(p) == /\ p.kind = "audio"
                   /\ AsCommand(p)
                   /\ poc' = [Block EXCEPT !.audio_len = p.arg, !.bytes_recv = 0]
                   /\ sv' = [Server EXCEPT !.blitting = 2, !.priority = TRUE]
                   /\ ended' = Ended
                   /\ UNCHANGED acks

Header(p) == p.kind \in {"raw", "lz4", "dup"}
Duplicate(p) == p.kind = "dup" /\ ~sv.lz4

\* Mutant: the count announced for the last frame stands for this one too.
RestartNever(b) == b
\* The count announced for the last frame must not stand for this one.
Restart(b) == [b EXCEPT !.announced = 0]

setBlit(p) ==
  /\ Header(p)
  /\ ~Duplicate(p)
  /\ AsCommand(p)
  /\ LET b == [Block EXCEPT !.frame_recv = p.frame, !.bytes_recv = 0, !.own = TRUE,
                            !.held = 0, !.lz4_len = IF sv.lz4 THEN p.arg ELSE 0]
     IN poc' = IF sv.hps THEN Restart(b) ELSE Announce(b, 0)
  /\ sv' = [Server EXCEPT !.blitting = 1, !.priority = TRUE]
  /\ ended' = "none"
  /\ Acknowledge(p, "frame")

\* The frame before f, which f is said to equal, lies whole in DDR.
Held(f) == Block.held /= 0 /\ Block.held = f - 1

\* A frame said to equal the last one: what lies in DDR is shown under its number.
setBlitDup(p) ==
  /\ Duplicate(p)
  /\ AsCommand(p)
  /\ poc' = Announce([Block EXCEPT !.frame_recv = p.frame, !.bytes_recv = poc.bytes_len, !.lz4_len = 0,
                                   !.held = IF Held(p.frame) THEN p.frame ELSE 0],
                     poc.bytes_len)
  /\ sv' = Idle
  /\ ended' = IF Held(p.frame) THEN "kept" ELSE "stale"
  /\ Acknowledge(p, "frame")

\* A chunk nobody waits for is read as a command, and does nothing when it spells none.
IgnoreChunk(p) == /\ p.kind \in {"rgb", "pcm"}
                  /\ AsCommand(p)
                  /\ poc' = Block
                  /\ sv' = Server
                  /\ ended' = Ended
                  /\ UNCHANGED acks

process_packet(p) ==
  \/ DropBroken(p) \/ SkipNoModeline(p) \/ setBlitRaw(p) \/ setBlitRawAudio(p)
  \/ setInit(p) \/ setClose(p) \/ setSwitchres(p) \/ setBlitAudio(p)
  \/ setBlit(p) \/ setBlitDup(p) \/ IgnoreChunk(p)

\* The commands that so many bytes may spell: their lengths, old and new, and what the
\* handler reads in them; frames and sizes are those of some client.
Spelling == [close |-> {1}, init |-> {4, 5}, switchres |-> {26}, audio |-> {3},
             raw |-> {7, 8, 9}, dup |-> {9}, lz4 |-> {11, 12, 13}]
SpelledArg == [close |-> {0}, init |-> {0, 1}, switchres |-> {0}, audio |-> {0, AudioBytes},
               raw |-> {0}, dup |-> {0}, lz4 |-> {0} \cup Lz4Bytes]
Spelled(p) ==
  UNION {[kind: {k}, frame: 0..MaxFrame, arg: SpelledArg[k], len: {p.len}, mine: {p.mine}] :
         k \in {k \in DOMAIN Spelling : p.len \in Spelling[k]}}

\* What the server may take a packet for: the bytes of a chunk are any bytes.
Readings(p) ==
  {p} \cup (IF p.kind \in {"rgb", "pcm"} /\ AsCommand(p) THEN Spelled(p) ELSE {})
TakenForChunk(p) == p.kind \in DOMAIN CmdLen /\ ~AsCommand(p)

\* Every command but CMD_INIT uses the block, and CMD_CLOSE frees it. setClose goes on to
\* draw the logo, for which groovy_FPGA_status reads the block just freed, and every poll
\* reads it again for the logo until the next CMD_INIT.
Uses(p) ==
  IF ~(p.kind \in DOMAIN CmdLen \ {"init"} /\ AsCommand(p)) THEN {}
  ELSE (IF poc.live THEN {} ELSE IF p.kind = "close" THEN {"free"} ELSE {"packet"})
       \cup (IF p.kind = "close" /\ Screensaver THEN {"logo"} ELSE {})

groovy_poll ==
  /\ net /= <<>>
  /\ \E p \in Readings(Head(net)) :
       /\ process_packet(p)
       /\ mixed' = (mixed \/ p /= Head(net) \/ TakenForChunk(p))
       /\ uses' = uses \cup Uses(p)
  /\ net' = Tail(net)
  /\ UNCHANGED <<cl, faults>>

\* A joystick moves, or a key, connected or not: nobody asks whether the block is there.
groovy_send_joystick == /\ ~poc.live
                        /\ uses' = uses \cup {"input"}
                        /\ UNCHANGED <<cl, net, acks, sv, poc, faults, ended, mixed>>

Client == \/ CmdInit \/ Connect \/ GiveUp \/ CmdSwitchres \/ CmdBlit \/ CmdAudio
          \/ WaitSync \/ CmdClose
Network == Lose \/ LoseAnswer \/ Repeat \/ Overtake \/ Vanish

Next == \/ groovy_poll
        \/ (Client \/ Network) /\ UNCHANGED history
        \/ groovy_send_joystick

Spec == Init /\ [][Next]_vars

\* The server polls; nothing is assumed of the client and the network.
FairSpec == Spec /\ WF_vars(groovy_poll)

(***************************************************************************)
(* Properties                                                              *)
(***************************************************************************)
\* The server's and the client's variables keep to their ranges; the count of a
\* transfer stays within one packet of its end, whatever the network does.
TypeOK ==
  /\ cl \in [at: {"off", "wait", "up"}, frame: 0..MaxFrame, delta: BOOLEAN, audio: BOOLEAN,
             lz4: BOOLEAN, mode: BOOLEAN, heard: 0..MaxFrame]
  /\ acks \subseteq {"init", "frame"}
  /\ sv \in [blitting: 0..2, priority: BOOLEAN, lz4: BOOLEAN, hps: BOOLEAN]
  /\ poc.bytes_recv < Expected + Mtu \/ sv.blitting = 0
  /\ poc.frame_ddr \in 0..MaxFrame /\ poc.frame_recv \in 0..MaxFrame
  /\ sv.priority <=> sv.blitting /= 0

\* The packets that open and close sessions have kept their order, and no chunk was so
\* short that it was taken for a command, or a command for it.
InSession == faults.sess = 0 /\ ~mixed

\* In a session: a frame the server ends without the mark of a loss has been announced to
\* the FPGA under its own number, when blitting at once and when blitting complete frames
\* only. After no more than one loss it is the client's frame, every byte its own, in its
\* place, and a duplicate shows the bytes of the frame it stands for; except that a
\* duplicate of a frame that was lost shows what DDR happens to hold (process_packet,
\* setBlit, setBlitRaw, setBlitLZ4).
FramesEndWhole ==
  InSession /\ ended \in {"whole", "torn", "kept", "stale"} =>
    /\ poc.frame_ddr = poc.frame_recv
    /\ faults.lost <= 1 /\ faults.odd = 0 => ended /= "torn" /\ (ended = "stale" => faults.lost = 1)

Handled(kinds) == groovy_poll /\ Head(net).kind \in kinds

\* The transfer under way ends in a chunk as long as the packet that comes now.
PassesForTail == sv.blitting /= 0 /\ Head(net).len = Expected % Mtu

\* Whatever the network has done and whatever the chunks have been taken for, a header is
\* never taken for pixels or sound: its frame is the one received next (the short-packet
\* test of process_packet). The one exception is a header as long as the last chunk of
\* the transfer it meets.
HeaderStartsFrame ==
  [][Handled({"raw", "lz4", "dup"}) /\ ~PassesForTail => poc'.frame_recv = Head(net).frame]_vars

\* In a session no packet makes the server use the block between CMD_CLOSE, which frees
\* it, and the next CMD_INIT, or free it again, although packets and answers are lost,
\* clients vanish and connections are given up. Only the player's keys and joysticks do
\* use it there, and the logo of the screensaver.
FreedUsedByNoPacket ==
  InSession => uses \subseteq {"input"} \cup (IF Screensaver THEN {"logo"} ELSE {})

\* As long as packets of some session keep coming, the server's loop, which polls nothing
\* else while a transfer has priority, gets out of it: later packets end a transfer whose
\* own packets are lost.
PriorityGivenUp == []<>(net /= <<>>) => (sv.priority ~> ~sv.priority)

=============================================================================
