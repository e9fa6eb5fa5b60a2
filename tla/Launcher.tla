------------------------------ MODULE Launcher -------------------------------
(***************************************************************************)
(* The launcher daemon, in its two forms h264-daemon/mp4_launcher.sh and   *)
(* mp4_launcher.c, with the registers it polls, the players it starts and  *)
(* kills, and the menu of Groovy.sv where the user selects a video.        *)
(*                                                                         *)
(* A command of the daemon is one step.  The clock frequency has three     *)
(* writers: the daemon, the player when it starts, the player when it ends.*)
(***************************************************************************)
EXTENDS CtrlRegs, FiniteSetsExt

CONSTANTS
  MaxPicks,        \* bound: selections of the user
  MaxCoreChanges   \* bound: loads of another core, or of this one again

ASSUME BoundAssumption == {MaxPicks, MaxCoreChanges} \subseteq Nat

TRIGGER_PLAY == 0
TRIGGER_STOP == 1
TRIGGER_RANDOM == 2

VARIABLES
  script,       \* the daemon is the shell script, which alone knows the file bit
  lpc,          \* where the daemon is
  ret,          \* where stop_video returns to
  todo,         \* rising bits still to be handled
  prev,         \* prev_status
  term,         \* a signal has asked the daemon to end
  freq,         \* scaling_max_freq
  player,       \* the mp4_play processes, of which there is room for two
  hung,         \* how many players hang on the bus of another core, where no kill ends them
  failed,       \* history: a player gave up early or hung since the frequency was last set to stock
  groovy,       \* the Groovy core is loaded
  coreChanges,
  selected,     \* file_selected_latch of Groovy.sv
  picks, served \* history: selections made, and made before the last launch for one

daemonVars == <<script, lpc, ret, todo, prev, term>>
playerVars == <<player, hung, failed>>
userVars == <<groovy, coreChanges, selected, picks, served>>
vars == <<regVars, daemonVars, freq, playerVars, userVars>>

Processes == 1 .. 2
Init ==
  /\ RegInit
  /\ script \in BOOLEAN
  /\ lpc = "loop" /\ ret = "dispatch" /\ todo = {} /\ prev = {} /\ term = FALSE
  /\ freq = "stock" /\ player = [p \in Processes |-> "none"] /\ hung = 0 /\ failed = FALSE
  /\ groovy = TRUE /\ coreChanges = 0 /\ selected = FALSE
  /\ picks = 0 /\ served = 0
-----------------------------------------------------------------------------
(* The daemon *)

\* What the registers do at a step; the file bit is set for as long as its input is
\* high.
Registers(pulses, statusRead) ==
  RegStep(pulses \cup (IF selected THEN {FileBit} ELSE {}), statusRead, nextSel)

\* In the script a pending signal runs its trap before the next command.
Step(from, to) ==
  /\ lpc = from /\ lpc' = to
  /\ script /\ term => ret = "exit"

\* Mutant: the signal is not looked at.
LoopForever == IF script THEN groovy ELSE TRUE
\* The condition of the polling loop: the signal in C, the core in the script.
LoopOn == IF script THEN groovy ELSE ~term
Loop ==
  /\ IF LoopOn THEN Step("loop", "poll") /\ UNCHANGED ret
     ELSE Step("loop", "kill") /\ ret' = IF script THEN "away" ELSE "exit"
  /\ UNCHANGED <<regVars, script, todo, prev, term, freq, playerVars, userVars>>

\* The script waits for the core and forgets the status.
Away ==
  /\ groovy
  /\ Step("away", "poll")
  /\ prev' = {}
  /\ UNCHANGED <<regVars, script, ret, todo, term, freq, playerVars, userVars>>

\* Mutant: the script knows the buttons only.
ButtonsOnly == {TRIGGER_PLAY, TRIGGER_STOP, TRIGGER_RANDOM}
Handled == {TRIGGER_PLAY, TRIGGER_STOP, TRIGGER_RANDOM} \cup (IF script THEN {FileBit} ELSE {})

\* Mutant: all rising bits are kept.
RisingAll(status) == status \ prev
Rising(status) == (status \ prev) \cap Handled

\* The status is read, and its rising edges are handled one after the other.  On
\* another core nobody answers the read.
Poll ==
  /\ IF groovy
       THEN /\ Step("poll", "dispatch")
            /\ Registers({}, TRUE)
            /\ todo' = Rising(latch) /\ prev' = latch
       ELSE Step("poll", "hung") /\ UNCHANGED <<regVars, todo, prev>>
  /\ UNCHANGED <<script, ret, term, freq, playerVars, userVars>>

\* Mutant: what is playing is not stopped before a launch.
DispatchUnstopped ==
  /\ IF todo = {}
       THEN Step("dispatch", "loop") /\ UNCHANGED ret
       ELSE /\ Step("dispatch", IF Min(todo) = TRIGGER_STOP THEN "kill" ELSE "boost")
            /\ ret' = "dispatch"
  /\ UNCHANGED <<regVars, script, todo, prev, term, freq, playerVars, userVars>>

\* The next bit: stop_video, which is also how launch_video begins.
Dispatch ==
  /\ IF todo = {}
       THEN Step("dispatch", "loop") /\ UNCHANGED <<ret, todo>>
       ELSE /\ Step("dispatch", "kill")
            /\ ret' = IF Min(todo) = TRIGGER_STOP THEN "dispatch" ELSE "boost"
            /\ todo' = IF Min(todo) = TRIGGER_STOP THEN todo \ {TRIGGER_STOP} ELSE todo
  /\ UNCHANGED <<regVars, script, prev, term, freq, playerVars, userVars>>

\* killall -9 mp4_play, which a process that hangs in a read of the bus does not get
Kill ==
  /\ Step("kill", "stock")
  /\ player' = [p \in Processes |-> "none"]
  /\ UNCHANGED <<regVars, script, ret, todo, prev, term, freq, hung, failed, userVars>>

SetStock ==
  /\ Step("stock", ret)
  /\ freq' = "stock"
  /\ failed' = FALSE
  /\ UNCHANGED <<regVars, script, ret, todo, prev, term, player, hung, userVars>>

Boost ==
  /\ Step("boost", "spawn")
  /\ freq' = "boost"
  /\ UNCHANGED <<regVars, script, ret, todo, prev, term, playerVars, userVars>>

\* mp4_play ... &
Spawn ==
  /\ Step("spawn", "dispatch")
  /\ \E p \in Processes : player[p] = "none" /\ player' = [player EXCEPT ![p] = "starting"]
  /\ served' = IF Min(todo) = FileBit THEN picks ELSE served
  /\ todo' = todo \ {Min(todo)}
  /\ UNCHANGED <<regVars, script, ret, prev, term, freq, hung, failed, groovy, coreChanges,
                 selected, picks>>

\* Mutant: the script just ends.
TrapExits ==
  /\ script /\ term /\ ret # "exit" /\ lpc # "hung"
  /\ lpc' = "exit" /\ ret' = "exit"
  /\ UNCHANGED <<regVars, script, todo, prev, term, freq, playerVars, userVars>>

\* trap cleanup SIGINT SIGTERM
Trap ==
  /\ script /\ term /\ ret # "exit" /\ lpc # "hung"
  /\ lpc' = "kill" /\ ret' = "exit"
  /\ UNCHANGED <<regVars, script, todo, prev, term, freq, playerVars, userVars>>

Daemon == Loop \/ Away \/ Poll \/ Dispatch \/ Kill \/ SetStock \/ Boost \/ Spawn \/ Trap
-----------------------------------------------------------------------------
(* The player: main of main.cpp *)

Becomes(p, from, to) == player[p] = from /\ player' = [player EXCEPT ![p] = to]

PlayerBoosts(p) ==
  /\ Becomes(p, "starting", "playing")
  /\ freq' = "boost"
  /\ UNCHANGED <<regVars, daemonVars, hung, failed, userVars>>

\* /dev/mem or a mapping fails: main returns.
PlayerGivesUp(p) ==
  /\ Becomes(p, "playing", "none")
  /\ failed' = TRUE
  /\ UNCHANGED <<regVars, daemonVars, freq, hung, userVars>>

\* The polls of steps F, H and J.  The player does not look which core is loaded: on
\* another one nobody answers its read.
PlayerPolls(p) ==
  /\ player[p] = "playing"
  /\ IF groovy
       THEN Registers({}, TRUE) /\ UNCHANGED playerVars
       ELSE /\ player' = [player EXCEPT ![p] = "none"] /\ hung' = hung + 1 /\ failed' = TRUE
            /\ UNCHANGED regVars
  /\ UNCHANGED <<daemonVars, freq, userVars>>

\* Mutant: the frequency stays.
PlayerEndsBoosted(p) ==
  /\ Becomes(p, "playing", "ended")
  /\ UNCHANGED <<regVars, daemonVars, freq, hung, failed, userVars>>

\* The video is over.
PlayerEnds(p) ==
  /\ Becomes(p, "playing", "ended")
  /\ freq' = "stock" /\ failed' = FALSE
  /\ UNCHANGED <<regVars, daemonVars, hung, userVars>>

PlayerExits(p) ==
  /\ Becomes(p, "ended", "none")
  /\ UNCHANGED <<regVars, daemonVars, freq, hung, failed, userVars>>

Player(p) ==
  PlayerBoosts(p) \/ PlayerGivesUp(p) \/ PlayerPolls(p) \/ PlayerEnds(p) \/ PlayerExits(p)
-----------------------------------------------------------------------------
(* Surroundings *)

\* The scaler's blank, or the end of a DMA that a player has started.
Hardware ==
  /\ groovy
  /\ \E b \in {VblBit, DoneBit} :
       /\ b = DoneBit => \E p \in Processes : player[p] = "playing"
       /\ Registers({b}, FALSE)
  /\ UNCHANGED <<daemonVars, freq, playerVars, userVars>>

\* The latch of Groovy.sv, which nothing takes back.
Select ==
  /\ groovy /\ picks < MaxPicks
  /\ picks' = picks + 1
  /\ selected' = TRUE
  /\ RegStep({FileBit}, FALSE, nextSel)
  /\ UNCHANGED <<daemonVars, freq, playerVars, groovy, coreChanges, served>>

Terminate ==
  /\ ~term /\ lpc # "exit"
  /\ term' = TRUE
  /\ UNCHANGED <<regVars, script, lpc, ret, todo, prev, freq, playerVars, userVars>>

\* The FPGA is configured anew.
ChangeCore ==
  /\ coreChanges < MaxCoreChanges
  /\ coreChanges' = coreChanges + 1
  /\ groovy' = ~groovy
  /\ selected' = FALSE
  /\ latch' = {} /\ bufSel' = FALSE /\ nextSel' = FALSE
  /\ UNCHANGED <<daemonVars, freq, playerVars, picks, served>>

Next ==
  \/ Daemon \/ \E p \in Processes : Player(p)
  \/ Hardware \/ Select \/ Terminate \/ ChangeCore

\* The kernel runs the daemon.
Spec == Init /\ [][Next]_vars
FairSpec == Spec /\ WF_vars(Daemon)
-----------------------------------------------------------------------------
(* Properties *)

\* Type invariant: only bits the daemon handles are waiting to be handled.
TypeOK ==
  /\ {script, term, failed, groovy, selected} \subseteq BOOLEAN
  /\ lpc \in {"loop", "away", "poll", "dispatch", "kill", "stock", "boost", "spawn", "hung",
              "exit"}
  /\ ret \in {"dispatch", "boost", "away", "exit"}
  /\ todo \subseteq Handled
  /\ prev \subseteq StatusBits /\ latch \subseteq StatusBits
  /\ freq \in {"stock", "boost"}
  /\ player \in [Processes -> {"none", "starting", "playing", "ended"}]
  /\ hung \in Nat
  /\ picks \in 0 .. MaxPicks /\ served \in 0 .. picks

\* Two players never run at once, however many bits rise in one poll and however a
\* player ends: they would share planes, registers and the status bits.
OnePlayer == Cardinality({p \in Processes : player[p] # "none"}) <= 1

\* The processor is clocked up only while something plays or is about to, although
\* daemon and player set the frequency behind each other's back.  The exceptions are a
\* player that gives up early, whose main returns without setting it back, and one that
\* hangs on the bus of another core.
BoostMeansPlaying ==
  freq = "boost" =>
    \/ \E p \in Processes : player[p] \in {"starting", "playing"}
    \/ lpc \in {"stock", "spawn"} \/ (lpc = "kill" /\ ret = "exit")
    \/ failed

\* "Exited cleanly": when the daemon has ended, whatever it was doing when the signal
\* came, the frequency is the stock one and nothing plays; and nothing is left at all,
\* unless the core was changed under a player, which then hangs on the bus.
NothingLeftBehind ==
  lpc = "exit" =>
    /\ freq = "stock"
    /\ \A p \in Processes : player[p] = "none"
    /\ hung > 0 => coreChanges > 0

\* The daemon obeys a signal, unless it or a player hangs on the bus of another core,
\* which may stop the whole machine.
TermEnds == term ~> (lpc \in {"exit", "hung"} \/ hung > 0)

\* The first video selected in the menu is launched, unless the core goes or the daemon
\* is told to end, also when another one is selected meanwhile.  (The C daemon does not
\* look at the file bit.)
FirstSelectionLaunches == script => (picks >= 1 ~> (served >= 1 \/ term \/ coreChanges > 0))

\* Every selection is launched.  Groovy.sv says of the latch of the selection: "Clear
\* latch when bit is read by ARM"; nothing clears it, the bit stays up, and the script,
\* which waits for an edge, sees the first selection alone.
SelectionLaunches ==
  script => \A n \in 1 .. MaxPicks : (picks = n) ~> (served >= n \/ term \/ coreChanges > 0)
==============================================================================
