---------------------------- MODULE Launcher_proofs ----------------------------
(***************************************************************************)
(* Theorems about the launcher daemon in both its forms, for any number of *)
(* selections and of core changes: there is one player at most, nothing is *)
(* left behind but what hangs on the bus of another core, and the          *)
(* processor is clocked up only to play.                                   *)
(***************************************************************************)
EXTENDS Launcher, FiniteSetTheorems, TLAPS

NoPlayer == \A p \in Processes : player[p] = "none"
AtMostOne == \A p, q \in Processes : player[p] # "none" /\ player[q] # "none" => p = q

\* Between a kill and the next launch nothing plays, and the daemon ends only there.
PlayerInv ==
  /\ AtMostOne
  /\ lpc \in {"stock", "boost", "spawn", "exit"} => NoPlayer

FreqInv == BoostMeansPlaying /\ NothingLeftBehind

\* A player hangs only where the core was changed.
HungInv == coreChanges \in Nat /\ (~groovy \/ hung > 0 => coreChanges > 0)

IInv == TypeOK /\ PlayerInv /\ HungInv /\ FreqInv
-----------------------------------------------------------------------------
LEMMA Bits == VblBit = 2 /\ DoneBit = 3 /\ FileBit = 5 /\ StatusBits = {2, 3, 5}
BY DEF VblBit, DoneBit, FileBit, StatusBits

LEMMA TypedInit == Init => TypeOK
<1> SUFFICES ASSUME Init PROVE TypeOK
  OBVIOUS
<1>1. {script, term, failed, groovy, selected} \subseteq BOOLEAN
  BY DEF Init
<1>2. player \in [Processes -> {"none", "starting", "playing", "ended"}]
  BY DEF Init
<1>3. picks \in 0 .. MaxPicks /\ served \in 0 .. picks
  BY BoundAssumption DEF Init
<1> QED BY <1>1, <1>2, <1>3 DEF Init, RegInit, TypeOK

LEMMA TypedNext == TypeOK /\ [Next]_vars => TypeOK'
<1> SUFFICES ASSUME TypeOK, [Next]_vars PROVE TypeOK'
  OBVIOUS
<1> USE Bits, BoundAssumption DEF TypeOK, Processes, Handled
<1>1. CASE Loop
  BY <1>1 DEF Loop, Step, regVars, daemonVars, playerVars, userVars
<1>2. CASE Away
  BY <1>2 DEF Away, Step, regVars, daemonVars, playerVars, userVars
<1>3. CASE Poll
  <2>1. todo' \subseteq Handled /\ Handled' = Handled
    BY <1>3 DEF Poll, Rising, userVars
  <2> QED BY <1>3, <2>1 DEF Poll, Step, Registers, RegStep, regVars, playerVars, userVars
<1>4. CASE Dispatch
  BY <1>4 DEF Dispatch, Step, regVars, daemonVars, playerVars, userVars
<1>5. CASE Kill
  BY <1>5 DEF Kill, Step, regVars, daemonVars, playerVars, userVars
<1>6. CASE SetStock
  BY <1>6 DEF SetStock, Step, regVars, daemonVars, playerVars, userVars
<1>7. CASE Boost
  BY <1>7 DEF Boost, Step, regVars, daemonVars, playerVars, userVars
<1>8. CASE Spawn
  BY <1>8 DEF Spawn, Step, regVars, daemonVars, playerVars, userVars
<1>9. CASE Trap
  BY <1>9 DEF Trap, regVars, daemonVars, playerVars, userVars
<1>10. ASSUME NEW p \in Processes, PlayerBoosts(p) PROVE TypeOK'
  BY <1>10 DEF PlayerBoosts, Becomes, regVars, daemonVars, playerVars, userVars
<1>11. ASSUME NEW p \in Processes, PlayerGivesUp(p) PROVE TypeOK'
  BY <1>11 DEF PlayerGivesUp, Becomes, regVars, daemonVars, playerVars, userVars
<1>12. ASSUME NEW p \in Processes, PlayerPolls(p) PROVE TypeOK'
  <2>1. UNCHANGED <<daemonVars, freq, userVars>> /\ Handled' = Handled
    BY <1>12 DEF PlayerPolls, daemonVars
  <2>2. latch' \subseteq StatusBits /\ failed' \in BOOLEAN
    BY <1>12 DEF PlayerPolls, Registers, RegStep, regVars, playerVars
  <2>3. player' \in [Processes -> {"none", "starting", "playing", "ended"}] /\ hung' \in Nat
    <3>1. CASE groovy
      BY <1>12, <3>1 DEF PlayerPolls, playerVars
    <3>2. CASE ~groovy
      <4>1. player' = [player EXCEPT ![p] = "none"] /\ hung' = hung + 1
        BY <1>12, <3>2 DEF PlayerPolls
      <4> QED BY <4>1
    <3> QED BY <3>1, <3>2
  <2> QED BY <2>1, <2>2, <2>3 DEF daemonVars, userVars
<1>13. ASSUME NEW p \in Processes, PlayerEnds(p) PROVE TypeOK'
  BY <1>13 DEF PlayerEnds, Becomes, regVars, daemonVars, playerVars, userVars
<1>14. ASSUME NEW p \in Processes, PlayerExits(p) PROVE TypeOK'
  BY <1>14 DEF PlayerExits, Becomes, regVars, daemonVars, playerVars, userVars
<1>15. CASE Hardware
  BY <1>15 DEF Hardware, Registers, RegStep, regVars, daemonVars, playerVars, userVars
<1>16. CASE Select
  BY <1>16 DEF Select, RegStep, regVars, daemonVars, playerVars, userVars
<1>17. CASE Terminate
  BY <1>17 DEF Terminate, regVars, daemonVars, playerVars, userVars
<1>18. CASE ChangeCore
  BY <1>18 DEF ChangeCore, regVars, daemonVars, playerVars, userVars
<1>19. CASE UNCHANGED vars
  BY <1>19 DEF vars, regVars, daemonVars, playerVars, userVars
<1> QED BY <1>1, <1>2, <1>3, <1>4, <1>5, <1>6, <1>7, <1>8, <1>9, <1>10, <1>11, <1>12, <1>13,
    <1>14, <1>15, <1>16, <1>17, <1>18, <1>19 DEF Next, Daemon, Player

(* The daemon, the players and the menu stay in their states, and the daemon only ever *)
(* has bits in hand that its form handles.                                             *)
THEOREM TypeCorrect == Spec => []TypeOK
BY TypedInit, TypedNext, PTL DEF Spec
-----------------------------------------------------------------------------
LEMMA PlayersNext == TypeOK /\ PlayerInv /\ [Next]_vars => PlayerInv'
<1> SUFFICES ASSUME TypeOK, PlayerInv, [Next]_vars PROVE PlayerInv'
  OBVIOUS
<1> USE DEF TypeOK, PlayerInv, AtMostOne, NoPlayer
<1>1. CASE Loop
  BY <1>1 DEF Loop, Step, regVars, daemonVars, playerVars, userVars
<1>2. CASE Away
  BY <1>2 DEF Away, Step, regVars, daemonVars, playerVars, userVars
<1>3. CASE Poll
  BY <1>3 DEF Poll, Step, Registers, RegStep, regVars, daemonVars, playerVars, userVars
<1>4. CASE Dispatch
  BY <1>4 DEF Dispatch, Step, regVars, daemonVars, playerVars, userVars
<1>5. CASE Kill
  BY <1>5 DEF Kill, Step, regVars, daemonVars, playerVars, userVars
<1>6. CASE SetStock
  BY <1>6 DEF SetStock, Step, regVars, daemonVars, playerVars, userVars
<1>7. CASE Boost
  BY <1>7 DEF Boost, Step, regVars, daemonVars, playerVars, userVars
<1>8. CASE Spawn
  BY <1>8 DEF Spawn, Step, regVars, daemonVars, playerVars, userVars
<1>9. CASE Trap
  BY <1>9 DEF Trap, regVars, daemonVars, playerVars, userVars
<1>10. ASSUME NEW p \in Processes, PlayerBoosts(p) PROVE PlayerInv'
  BY <1>10 DEF PlayerBoosts, Becomes, regVars, daemonVars, playerVars, userVars
<1>11. ASSUME NEW p \in Processes, PlayerGivesUp(p) PROVE PlayerInv'
  BY <1>11 DEF PlayerGivesUp, Becomes, regVars, daemonVars, playerVars, userVars
<1>12. ASSUME NEW p \in Processes, PlayerPolls(p) PROVE PlayerInv'
  BY <1>12 DEF PlayerPolls, Registers, RegStep, regVars, daemonVars, playerVars, userVars
<1>13. ASSUME NEW p \in Processes, PlayerEnds(p) PROVE PlayerInv'
  BY <1>13 DEF PlayerEnds, Becomes, regVars, daemonVars, playerVars, userVars
<1>14. ASSUME NEW p \in Processes, PlayerExits(p) PROVE PlayerInv'
  BY <1>14 DEF PlayerExits, Becomes, regVars, daemonVars, playerVars, userVars
<1>15. CASE Hardware
  BY <1>15 DEF Hardware, daemonVars, playerVars
<1>16. CASE Select
  BY <1>16 DEF Select, RegStep, regVars, daemonVars, playerVars, userVars
<1>17. CASE Terminate
  BY <1>17 DEF Terminate, regVars, daemonVars, playerVars, userVars
<1>18. CASE ChangeCore
  BY <1>18 DEF ChangeCore, regVars, daemonVars, playerVars, userVars
<1>19. CASE UNCHANGED vars
  BY <1>19 DEF vars, regVars, daemonVars, playerVars, userVars
<1> QED BY <1>1, <1>2, <1>3, <1>4, <1>5, <1>6, <1>7, <1>8, <1>9, <1>10, <1>11, <1>12, <1>13,
    <1>14, <1>15, <1>16, <1>17, <1>18, <1>19 DEF Next, Daemon, Player

LEMMA HungNext == TypeOK /\ HungInv /\ [Next]_vars => HungInv'
<1> SUFFICES ASSUME TypeOK, HungInv, [Next]_vars PROVE HungInv'
  OBVIOUS
<1> USE DEF HungInv, TypeOK
<1>1. ASSUME UNCHANGED <<groovy, coreChanges, hung>> PROVE HungInv'
  BY <1>1
<1>2. CASE Daemon
  <2>1. UNCHANGED <<groovy, coreChanges, hung>>
    BY <1>2 DEF Daemon, Loop, Away, Poll, Dispatch, Kill, SetStock, Boost, Spawn, Trap, playerVars, userVars
  <2> QED BY <1>1, <2>1
<1>3. ASSUME NEW p \in Processes, PlayerPolls(p) PROVE HungInv'
  BY <1>3 DEF PlayerPolls, playerVars, userVars
<1>4. ASSUME NEW p \in Processes, PlayerBoosts(p) \/ PlayerGivesUp(p) \/ PlayerEnds(p) \/ PlayerExits(p)
      PROVE  HungInv'
  <2>1. UNCHANGED <<groovy, coreChanges, hung>>
    BY <1>4 DEF PlayerBoosts, PlayerGivesUp, PlayerEnds, PlayerExits, userVars
  <2> QED BY <1>1, <2>1
<1>5. CASE Hardware \/ Select \/ Terminate \/ UNCHANGED vars
  <2>1. UNCHANGED <<groovy, coreChanges, hung>>
    BY <1>5 DEF Hardware, Select, Terminate, vars, playerVars, userVars
  <2> QED BY <1>1, <2>1
<1>6. CASE ChangeCore
  BY <1>6 DEF ChangeCore, playerVars
<1> QED BY <1>2, <1>3, <1>4, <1>5, <1>6 DEF Next, Player

LEMMA FreqNext == TypeOK /\ PlayerInv /\ HungInv /\ FreqInv /\ [Next]_vars => FreqInv'
<1> SUFFICES ASSUME TypeOK, PlayerInv, HungInv, HungInv', FreqInv, [Next]_vars PROVE FreqInv'
  BY HungNext
<1> USE DEF TypeOK, HungInv, PlayerInv, AtMostOne, NoPlayer, FreqInv, BoostMeansPlaying, NothingLeftBehind
<1>1. CASE Loop
  BY <1>1 DEF Loop, Step, regVars, daemonVars, playerVars, userVars
<1>2. CASE Away
  BY <1>2 DEF Away, Step, regVars, daemonVars, playerVars, userVars
<1>3. CASE Poll
  BY <1>3 DEF Poll, Step, Registers, RegStep, regVars, daemonVars, playerVars, userVars
<1>4. CASE Dispatch
  BY <1>4 DEF Dispatch, Step, regVars, daemonVars, playerVars, userVars
<1>5. CASE Kill
  BY <1>5 DEF Kill, Step, regVars, daemonVars, playerVars, userVars
<1>6. CASE SetStock
  BY <1>6 DEF SetStock, Step, regVars, daemonVars, playerVars, userVars
<1>7. CASE Boost
  BY <1>7 DEF Boost, Step, regVars, daemonVars, playerVars, userVars
<1>8. CASE Spawn
  BY <1>8 DEF Spawn, Step, regVars, daemonVars, playerVars, userVars
<1>9. CASE Trap
  BY <1>9 DEF Trap, regVars, daemonVars, playerVars, userVars
<1>10. ASSUME NEW p \in Processes, PlayerBoosts(p) PROVE FreqInv'
  BY <1>10 DEF PlayerBoosts, Becomes, regVars, daemonVars, playerVars, userVars
<1>11. ASSUME NEW p \in Processes, PlayerGivesUp(p) PROVE FreqInv'
  BY <1>11 DEF PlayerGivesUp, Becomes, regVars, daemonVars, playerVars, userVars
<1>12. ASSUME NEW p \in Processes, PlayerPolls(p) PROVE FreqInv'
  BY <1>12 DEF PlayerPolls, Registers, RegStep, regVars, daemonVars, playerVars, userVars
<1>13. ASSUME NEW p \in Processes, PlayerEnds(p) PROVE FreqInv'
  BY <1>13 DEF PlayerEnds, Becomes, regVars, daemonVars, playerVars, userVars
<1>14. ASSUME NEW p \in Processes, PlayerExits(p) PROVE FreqInv'
  BY <1>14 DEF PlayerExits, Becomes, regVars, daemonVars, playerVars, userVars
<1>15. CASE Hardware
  BY <1>15 DEF Hardware, daemonVars, playerVars
<1>16. CASE Select
  BY <1>16 DEF Select, RegStep, regVars, daemonVars, playerVars, userVars
<1>17. CASE Terminate
  BY <1>17 DEF Terminate, regVars, daemonVars, playerVars, userVars
<1>18. CASE ChangeCore
  BY <1>18 DEF ChangeCore, regVars, daemonVars, playerVars, userVars
<1>19. CASE UNCHANGED vars
  BY <1>19 DEF vars, regVars, daemonVars, playerVars, userVars
<1> QED BY <1>1, <1>2, <1>3, <1>4, <1>5, <1>6, <1>7, <1>8, <1>9, <1>10, <1>11, <1>12, <1>13,
    <1>14, <1>15, <1>16, <1>17, <1>18, <1>19 DEF Next, Daemon, Player

LEMMA Invariance == Spec => []IInv
<1>1. Init => IInv
   BY TypedInit DEF Init, IInv, PlayerInv, AtMostOne, NoPlayer, HungInv, FreqInv, BoostMeansPlaying,
      NothingLeftBehind
<1>2. IInv /\ [Next]_vars => IInv'
  BY TypedNext, PlayersNext, HungNext, FreqNext DEF IInv
<1> QED BY <1>1, <1>2, PTL DEF Spec

(* However many bits rise in one poll, whenever the signal comes and however players   *)
(* end, two of them never run at once.                                                 *)
THEOREM OneAtATime == Spec => []OnePlayer
<1>1. IInv => OnePlayer
  <2> SUFFICES ASSUME IInv PROVE OnePlayer
    OBVIOUS
  <2> DEFINE running == {p \in Processes : player[p] # "none"}
  <2>1. CASE running = {}
    BY <2>1, FS_EmptySet DEF OnePlayer
  <2>2. CASE running # {}
    <3>1. PICK p : running = {p}
      BY <2>2 DEF IInv, PlayerInv, AtMostOne
    <3> QED BY <3>1, FS_Singleton DEF OnePlayer
  <2> QED BY <2>1, <2>2
<1> QED BY <1>1, Invariance, PTL

(* Although daemon and player set the frequency behind each other's back, it is high   *)
(* only while something plays or is about to, or after a player gave up early or hung. *)
THEOREM BoostedOnlyToPlay == Spec => []BoostMeansPlaying
<1>1. IInv => BoostMeansPlaying
  BY DEF IInv, FreqInv
<1> QED BY <1>1, Invariance, PTL

(* A daemon that has ended left the stock frequency and nothing that plays, wherever   *)
(* in its work the signal met it, and no player at all if the core was never changed.  *)
THEOREM EndsClean == Spec => []NothingLeftBehind
<1>1. IInv => NothingLeftBehind
  BY DEF IInv, FreqInv
<1> QED BY <1>1, Invariance, PTL
================================================================================
