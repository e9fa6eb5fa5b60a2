------------------------------ MODULE DdrSvcPort ------------------------------
(***************************************************************************)
(* sys/ddr_svc.sv (channel 0: ALSA audio, channel 1: OSD palette) as       *)
(* master A of ram2_arb.v.  A step is one rising edge of clk.  A channel   *)
(* asks by changing its req and waits until its ack follows.  Master B is  *)
(* any reader with one burst under way at a time.                          *)
(***************************************************************************)
EXTENDS Ram2Arb

CONSTANTS PaletteBurst,   \* ch1_burst, eight bits wide and not 0
          BurstB          \* longest burst of B, at least 1

Burst == <<1, PaletteBurst>>

VARIABLES
  req, ack,           \* of both channels
  state, ch, ram_read, ram_burst, ram_bcnt,
  bBus, bLeft         \* master B and the beats it waits for

svcVars == <<ack, state, ch, ram_read, ram_burst, ram_bcnt>>
vars == <<arbVars, memVars, req, svcVars, bBus, bLeft>>

aBus == [read |-> ram_read, write |-> FALSE, burst |-> ram_burst]

Init ==
  /\ ArbInit /\ MemInit
  /\ req = [c \in 0 .. 1 |-> FALSE] /\ ack = req
  /\ state = 0 /\ ch = 0 /\ ram_read = FALSE /\ ram_burst = 1 /\ ram_bcnt = 0
  /\ bBus = QuietBus /\ bLeft = 0

Serve(c) ==
  /\ state = 0 /\ req[c] # ack[c] /\ (c = 1 => req[0] = ack[0])
  /\ ack' = [ack EXCEPT ![c] = req[c]]
  /\ ram_burst' = Burst[c + 1] /\ ram_read' = TRUE /\ ch' = c /\ ram_bcnt' = 255 /\ state' = 1

Receive(ready) ==
  /\ state = 1
  /\ ram_read' = FALSE
  /\ IF ready
       THEN /\ ram_bcnt' = (ram_bcnt + 1) % 256
            /\ state' = IF (ram_bcnt + 2) % 256 = ram_burst THEN 0 ELSE 1
       ELSE UNCHANGED <<ram_bcnt, state>>
  /\ UNCHANGED <<ack, ram_burst, ch>>

Rest ==
  /\ state = 0 /\ req = ack
  /\ ram_read' = FALSE
  /\ UNCHANGED <<ack, state, ch, ram_burst, ram_bcnt>>

\* The whole of ddr_svc stands still while its waitrequest is up.
DdrSvc(ramWait, ramRdv) ==
  IF a_waitreq(ramWait) THEN UNCHANGED svcVars
  ELSE (\E c \in 0 .. 1 : Serve(c)) \/ Receive(a_rdv(ramRdv)) \/ Rest

MasterB(ramWait, ramRdv) ==
  IF bLeft = 0
    THEN \/ UNCHANGED <<bBus, bLeft>>
         \/ \E n \in 1 .. BurstB :
              bBus' = [read |-> TRUE, write |-> FALSE, burst |-> n] /\ bLeft' = n
  ELSE
    /\ bBus' = IF b_waitreq(ramWait) THEN bBus ELSE [bBus EXCEPT !.read = FALSE]
    /\ bLeft' = IF b_rdv(ramRdv) THEN bLeft - 1 ELSE bLeft

\* A channel asks again once it has been acknowledged.
Ask == \A c \in 0 .. 1 : req'[c] # req[c] => req[c] = ack[c]

Clk ==
  \E ramWait, ramRdv \in BOOLEAN :
    /\ Memory(aBus, bBus, ramWait, ramRdv)
    /\ Arbitrate(aBus, bBus, ramWait, ramRdv)
    /\ DdrSvc(ramWait, ramRdv)
    /\ MasterB(ramWait, ramRdv)
    /\ req' \in [0 .. 1 -> BOOLEAN] /\ Ask

FairSpec == Init /\ [][Clk]_vars /\ WF_vars(Clk)

\* What a channel asks of the memory is taken up some time: the audio and the palette of
\* the on-screen display are read.
RequestsTakenUp == \A c \in 0 .. 1 : (req[c] # ack[c]) ~> (req[c] = ack[c])
==============================================================================
