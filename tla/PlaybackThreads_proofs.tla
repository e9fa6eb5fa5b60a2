----------------------- MODULE PlaybackThreads_proofs ------------------------
(***************************************************************************)
(* What holds of the three threads of mp4_play for every depth of the      *)
(* rings, every set of files and every combination of faults: the type     *)
(* invariant, the ownership protocol of the rings, the absence of lost     *)
(* wakeups, the shutdown that never joins a sleeping thread, the order of  *)
(* the pictures, the two rings as the queues of FrameFifo, and the clocks. *)
(***************************************************************************)
EXTENDS PlaybackThreads, SequenceTheorems, TLAPS

-----------------------------------------------------------------------------
(* Rings *)

\* A slot belongs to the window when it lies behind the head by less than count,
\* with or without the wrap around.
LEMMA WindowAsInterval ==
  ASSUME NEW depth \in Nat \ {0}, NEW q \in RingType(depth), NEW s \in Slots(depth)
  PROVE  s \in Window(q, depth) <=>
           \/ q.head <= s /\ s < q.head + q.count
           \/ s + depth < q.head + q.count
PROOF
<1> USE DEF RingType, Slots, Window, Wrap
<1>1. q.head \in 0 .. depth - 1 /\ q.count \in 0 .. depth
  OBVIOUS
<1>2. ASSUME s \in Window(q, depth)
      PROVE  (q.head <= s /\ s < q.head + q.count) \/ s + depth < q.head + q.count
  BY SMTT(30), <1>1, <1>2
<1>3. ASSUME q.head <= s, s < q.head + q.count
      PROVE  s \in Window(q, depth)
  <2>1. s - q.head \in 0 .. q.count - 1
    BY <1>1, <1>3
  <2>2. Wrap(q.head + (s - q.head), depth) = s
    BY <1>1
  <2> QED BY <2>1, <2>2
<1>4. ASSUME s + depth < q.head + q.count
      PROVE  s \in Window(q, depth)
  <2>1. s + depth - q.head \in 0 .. q.count - 1
    BY SMTT(30), <1>1, <1>4
  <2>2. Wrap(q.head + (s + depth - q.head), depth) = s
    BY <1>1
  <2> QED BY <2>1, <2>2
<1> QED BY <1>2, <1>3, <1>4

\* A push and a pop leave a ring its shape.
LEMMA PushStaysRing ==
  ASSUME NEW depth \in Nat \ {0}, NEW q \in RingType(depth), q.count < depth, NEW f \in Nat
  PROVE  Pushed(q, depth, f) \in RingType(depth)
PROOF
<1> DEFINE p == Pushed(q, depth, f)
           t == Wrap(q.head + q.count, depth)
<1>0. q.head \in 0 .. depth - 1 /\ q.count \in 0 .. depth - 1
  BY DEF RingType, Slots
<1>1. p = [slot |-> [q.slot EXCEPT ![t] = f], head |-> q.head, count |-> q.count + 1,
           eof |-> q.eof]
  <2> DEFINE r == [q EXCEPT !.slot[t] = f]
  <2>1. r = [slot |-> [q.slot EXCEPT ![t] = f], head |-> q.head, count |-> q.count,
             eof |-> q.eof]
    BY DEF RingType
  <2>2. p = [r EXCEPT !.count = q.count + 1]
    BY Zenon DEF Pushed
  <2> HIDE DEF r, p
  <2> QED BY <2>1, <2>2
<1>2. [q.slot EXCEPT ![t] = f] \in [Slots(depth) -> Nat]
  BY DEF RingType
<1>3. q.head \in Slots(depth) /\ q.count + 1 \in 0 .. depth /\ q.eof \in BOOLEAN
  BY <1>0 DEF RingType
<1> QED BY <1>1, <1>2, <1>3 DEF RingType

LEMMA PopStaysRing ==
  ASSUME NEW depth \in Nat \ {0}, NEW q \in RingType(depth), q.count > 0
  PROVE  Popped(q, depth) \in RingType(depth)
PROOF
<1> DEFINE p == Popped(q, depth)
<1>0. q.head \in 0 .. depth - 1 /\ q.count \in 1 .. depth
  BY DEF RingType, Slots
<1>1. p = [slot |-> [q.slot EXCEPT ![q.head] = Empty], head |-> Wrap(q.head + 1, depth),
           count |-> q.count - 1, eof |-> q.eof]
  <2> DEFINE r == [q EXCEPT !.slot[q.head] = Empty]
             h == [r EXCEPT !.head = Wrap(q.head + 1, depth)]
  <2>1. r = [slot |-> [q.slot EXCEPT ![q.head] = Empty], head |-> q.head,
             count |-> q.count, eof |-> q.eof]
    BY DEF RingType
  <2>2. p = [h EXCEPT !.count = q.count - 1]
    BY Zenon DEF Popped
  <2>3. h = [slot |-> r.slot, head |-> Wrap(q.head + 1, depth), count |-> r.count,
             eof |-> r.eof]
    <3> HIDE DEF r
    <3> QED BY <2>1
  <2> HIDE DEF r, h, p
  <2> QED BY <2>1, <2>2, <2>3
<1>2. [q.slot EXCEPT ![q.head] = Empty] \in [Slots(depth) -> Nat]
  BY DEF RingType, Empty
<1>3. Wrap(q.head + 1, depth) \in Slots(depth) /\ q.count - 1 \in 0 .. depth
  BY <1>0 DEF Wrap, Slots
<1>4. q.eof \in BOOLEAN
  BY DEF RingType
<1> QED BY <1>1, <1>2, <1>3, <1>4 DEF RingType

\* Pushing a frame onto a ring with room fills the one free slot behind the window.
LEMMA PushKeepsRing ==
  ASSUME NEW depth \in Nat \ {0}, NEW q \in RingType(depth), NEW f \in Nat \ {Empty},
         Owned(q, depth), q.count < depth
  PROVE  /\ Pushed(q, depth, f) \in RingType(depth)
         /\ Owned(Pushed(q, depth, f), depth)
         /\ \A s \in Slots(depth) : Pushed(q, depth, f).slot[s] \in {q.slot[s], f}
PROOF
<1> DEFINE p == Pushed(q, depth, f)
           t == Wrap(q.head + q.count, depth)
<1>1. q.head \in 0 .. depth - 1 /\ q.count \in 0 .. depth - 1
  BY DEF RingType, Slots
<1>2. t \in Slots(depth)
  BY <1>1 DEF Wrap, Slots
<1>3. p \in RingType(depth)
  BY PushStaysRing
<1>4. p.head = q.head /\ p.count = q.count + 1
  BY DEF Pushed, RingType
<1>5. \A s \in Slots(depth) : p.slot[s] = IF s = t THEN f ELSE q.slot[s]
  BY DEF Pushed, RingType
<1>6. \A s \in Slots(depth) : s \in Window(p, depth) <=> s \in Window(q, depth) \/ s = t
  BY <1>1, <1>3, <1>4, WindowAsInterval DEF Wrap, Slots
<1>7. Owned(p, depth)
  BY <1>5, <1>6 DEF Owned
<1> QED BY <1>3, <1>5, <1>7

\* Popping a frame empties exactly the slot at the head, which held a frame.
LEMMA PopKeepsRing ==
  ASSUME NEW depth \in Nat \ {0}, NEW q \in RingType(depth),
         Owned(q, depth), q.count > 0
  PROVE  /\ Popped(q, depth) \in RingType(depth)
         /\ Owned(Popped(q, depth), depth)
         /\ \A s \in Slots(depth) : Popped(q, depth).slot[s] \in {q.slot[s], Empty}
         /\ q.head \in Slots(depth)
         /\ Oldest(q) # Empty
PROOF
<1> DEFINE p == Popped(q, depth)
<1>1. q.head \in 0 .. depth - 1 /\ q.count \in 1 .. depth
  BY DEF RingType, Slots
<1>2. p \in RingType(depth)
  BY PopStaysRing
<1>3. p.head = Wrap(q.head + 1, depth) /\ p.count = q.count - 1
  BY <1>1 DEF Popped, RingType
<1>4. \A s \in Slots(depth) : p.slot[s] = IF s = q.head THEN Empty ELSE q.slot[s]
  BY DEF Popped, RingType
<1>5. q.head \in Slots(depth) /\ q.head \in Window(q, depth)
  BY <1>1, WindowAsInterval DEF Slots
<1>6. \A s \in Slots(depth) : s \in Window(p, depth) <=> s \in Window(q, depth) /\ s # q.head
  <2> TAKE s \in Slots(depth)
  <2>1. s \in Window(q, depth) <=>
          \/ q.head <= s /\ s < q.head + q.count
          \/ s + depth < q.head + q.count
    BY WindowAsInterval
  <2>2. s \in Window(p, depth) <=>
          \/ p.head <= s /\ s < p.head + p.count
          \/ s + depth < p.head + p.count
    <3> HIDE DEF p
    <3> QED BY <1>2, WindowAsInterval
  <2>3. q.head \in Nat /\ q.count \in Nat /\ s \in 0 .. depth - 1 /\ q.head < depth
    BY <1>1 DEF Slots
  <2> HIDE DEF p
  <2>4. p.head = (IF q.head + 1 >= depth THEN 0 ELSE q.head + 1) /\ p.count = q.count - 1
    BY <1>3, <2>3 DEF Wrap
  <2>5. CASE q.head + 1 >= depth
    <3>1. p.head = 0 /\ q.head = depth - 1
      BY <2>3, <2>4, <2>5
    <3> QED BY <1>1, <2>1, <2>2, <2>3, <2>4, <3>1
  <2>6. CASE q.head + 1 < depth
    <3>1. p.head = q.head + 1
      BY <2>3, <2>4, <2>6
    <3> QED BY <1>1, <2>1, <2>2, <2>3, <2>4, <3>1
  <2> QED BY <2>3, <2>5, <2>6
<1>7. Owned(p, depth)
  BY <1>4, <1>6 DEF Owned
<1>8. Oldest(q) # Empty
  BY <1>5 DEF Owned, Oldest
<1> QED BY <1>2, <1>4, <1>5, <1>7, <1>8
-----------------------------------------------------------------------------
(* Program counters *)

PcTyped == /\ pc \in [Threads -> UNION {Labels[t] : t \in Threads}]
           /\ \A t \in Threads : pc[t] \in Labels[t]

\* A thread that goes on leaves the others where they are.
LEMMA GoMovesOne ==
  ASSUME PcTyped, NEW t \in Threads, NEW l \in Labels[t], Go(t, l)
  PROVE  /\ PcTyped'
         /\ pc'[t] = l
         /\ \A u \in Threads : u # t => pc'[u] = pc[u]
PROOF
<1>1. pc' = [pc EXCEPT ![t] = l]
  BY DEF Go
<1>2. \A u \in Threads : pc'[u] = IF u = t THEN l ELSE pc[u]
  BY <1>1 DEF PcTyped
<1>3. \A u \in Threads : pc'[u] \in Labels[u]
  BY <1>2 DEF PcTyped
<1>4. pc' \in [Threads -> UNION {Labels[u] : u \in Threads}]
  BY <1>1, <1>3 DEF PcTyped
<1> QED BY <1>2, <1>3, <1>4 DEF PcTyped

\* A thread that signals may also send a waiting one back to its predicate.
LEMMA GoAndWakeMovesTwo ==
  ASSUME PcTyped, NEW t \in Threads, NEW l \in Labels[t],
         NEW ws \in SUBSET WaitLabels, GoAndWake(t, l, ws)
  PROVE  /\ PcTyped'
         /\ pc'[t] = l
         /\ \A u \in Threads : u # t => pc'[u] = IF pc[u] \in ws THEN Retry[pc[u]] ELSE pc[u]
PROOF
<1>1. \A u \in Threads : pc'[u] = IF u = t THEN l
                                  ELSE IF pc[u] \in ws THEN Retry[pc[u]] ELSE pc[u]
  BY DEF GoAndWake
<1>2. \A u \in Threads : pc[u] \in WaitLabels => Retry[pc[u]] \in Labels[u]
  BY DEF PcTyped, WaitLabels, Retry, Labels, Threads
<1>3. \A u \in Threads : pc'[u] \in Labels[u]
  BY <1>1, <1>2 DEF PcTyped
<1>4. pc' \in [Threads -> UNION {Labels[u] : u \in Threads}]
  BY <1>3 DEF GoAndWake
<1> QED BY <1>1, <1>3, <1>4 DEF PcTyped
-----------------------------------------------------------------------------
(* The inductive invariant.  The types alone are not inductive: the clock  *)
(* and the schedule are numbers only because no frame without a timestamp  *)
(* enters a queue, and a reader gets a frame only because the slots of the *)
(* window are full.                                                        *)

Stamped == {i \in 1 .. Len(file) : Pts(i) \in Nat}

HandsFull ==
  /\ pc["decoder"] \in {"pushV", "pushVWait", "pushA", "pushAWait"} => pos \in Stamped
  /\ pc["display"] \in {"begin", "pace"} => frame \in Stamped
  /\ pc["audio"] = "write" => firstPts \in Nat

QueuedStamped ==
  /\ \A s \in Slots(VDepth) : vq.slot[s] \in Stamped \cup {Empty}
  /\ \A s \in Slots(ADepth) : aq.slot[s] \in Stamped \cup {Empty}

IInv == TypeOK /\ RingOwnership /\ HandsFull /\ QueuedStamped

\* The part of the type invariant that is not about program counters.
DataTyped ==
  /\ file \in Files
  /\ pos \in 0 .. Len(file)
  /\ vq \in RingType(VDepth) /\ aq \in RingType(ADepth)
  /\ {adec, stop, started, clkInit} \subseteq BOOLEAN
  /\ swr \in [room : Rooms, held : Nat]
  /\ {frame, sample, written, lost, now, anchor.wall, anchor.pts, period} \subseteq Nat
  /\ {prevPts, firstPts, clock} \subseteq Nat \cup {NoPts}

LEMMA TypeParts == TypeOK <=> PcTyped /\ DataTyped
BY DEF TypeOK, PcTyped, DataTyped

\* A frame of the file that may be queued has a timestamp.
LEMMA QueuedIsStamped ==
  ASSUME file \in Files, NEW i \in 1 .. Len(file), Queued(file[i])
  PROVE  i \in Stamped
PROOF
<1>1. file \in Seq(Frame)
  BY FileAssumption
<1>2. file[i] \in Frame
  BY <1>1
<1>3. file[i].pts \in Nat \cup {NoPts} /\ file[i].pts # NoPts
  BY <1>2 DEF Queued, Frame
<1> QED BY <1>3 DEF Stamped, Pts

LEMMA StampedFacts ==
  /\ 0 \notin Stamped
  /\ Stamped \subseteq Nat
  /\ \A i \in Stamped : Pts(i) \in Nat
BY DEF Stamped

\* A write splits what is due of the sound: what the resampler holds back, what the
\* device takes and what it loses.
LEMMA SoundKept ==
  ASSUME WriteAlsa, {written, lost} \subseteq Nat, swr \in [room : Rooms, held : Nat]
  PROVE  /\ {written', lost'} \subseteq Nat
         /\ swr' \in [room : Rooms, held : Nat]
         /\ written' + swr'.held + lost' = written + swr.held + lost + FrameTicks
PROOF
<1> DEFINE due == swr.held + FrameTicks
           out == Resampled(due)
<1>1. PICK n \in {out} \cup 0 .. out - 1 :
        /\ written' = written + n /\ lost' = lost + out - n
        /\ swr' = [swr EXCEPT !.held = due - out]
  BY DEF WriteAlsa
<1>2. swr.room \in Nat /\ swr.held \in Nat /\ due \in Nat
  <2>1. swr.room \in Rooms /\ swr.held \in Nat /\ Rooms \subseteq Nat /\ FrameTicks \in Nat
    BY SoundAssumption
  <2>2. \A r \in Rooms : r \in Nat
    BY <2>1
  <2>3. swr.room \in Nat
    BY <2>1, <2>2
  <2>4. due \in Nat
    BY <2>1
  <2> QED BY <2>1, <2>3, <2>4
<1>3. out \in 0 .. due /\ due - out \in Nat
  <2> HIDE DEF due
  <2> QED BY <1>2 DEF Resampled
<1>4. swr'.held = due - out /\ swr' \in [room : Rooms, held : Nat]
  <2> HIDE DEF due, out
  <2> QED BY <1>1, <1>3
<1>5. n \in 0 .. out
  <2> HIDE DEF due, out
  <2> QED BY <1>1, <1>3
<1>6. {written', lost'} \subseteq Nat
  <2> HIDE DEF due, out
  <2> QED BY <1>1, <1>2, <1>3, <1>5
<1>7. written' + swr'.held + lost' = written + lost + due
  <2> HIDE DEF due, out
  <2> QED BY <1>1, <1>2, <1>3, <1>4, <1>5
<1> QED BY <1>2, <1>4, <1>6, <1>7, SoundAssumption

LEMMA InitIInv == Init => IInv
PROOF
<1> SUFFICES ASSUME Init PROVE IInv
  OBVIOUS
<1>1. file \in Seq(Frame) /\ Len(file) \in Nat
  BY FileAssumption DEF Init
<1>2. PcTyped
  <2>1. pc = [t \in Threads |-> CASE t = "decoder" -> "read"
                                  [] t = "display" -> "pop"
                                  [] t = "audio" -> IF adec THEN "pre" ELSE "exit"]
    BY DEF Init
  <2>2. pc["decoder"] = "read" /\ pc["display"] = "pop" /\ pc["audio"] \in {"pre", "exit"}
    BY <2>1 DEF Threads
  <2>3. \A t \in Threads : pc[t] \in Labels[t]
    BY <2>2 DEF Threads, Labels
  <2> QED BY ZenonT(30), <2>1, <2>3 DEF PcTyped
<1>3. ASSUME NEW depth \in Nat \ {0}
      PROVE  /\ EmptyRing(depth) \in RingType(depth)
             /\ Owned(EmptyRing(depth), depth)
             /\ \A s \in Slots(depth) : EmptyRing(depth).slot[s] = Empty
  <2>1. /\ EmptyRing(depth) \in RingType(depth)
        /\ EmptyRing(depth).head = 0 /\ EmptyRing(depth).count = 0
        /\ \A s \in Slots(depth) : EmptyRing(depth).slot[s] = Empty
    BY DEF EmptyRing, RingType, Slots, Empty
  <2>2. Window(EmptyRing(depth), depth) = {}
    BY <2>1 DEF Window
  <2> QED BY <2>1, <2>2 DEF Owned
<1>4. DataTyped
  <2>1. file \in Files /\ pos \in 0 .. Len(file)
    BY <1>1 DEF Init
  <2>2. vq \in RingType(VDepth) /\ aq \in RingType(ADepth)
    BY <1>3, DepthAssumption DEF Init
  <2>3. {adec, stop, started, clkInit} \subseteq BOOLEAN
    BY DEF Init
  <2>4. /\ {frame, sample, written, lost, now, anchor.wall, anchor.pts, period} \subseteq Nat
        /\ swr \in [room : Rooms, held : Nat]
    BY TimeAssumption DEF Init, Empty
  <2>5. {prevPts, firstPts, clock} \subseteq Nat \cup {NoPts}
    BY DEF Init, NoPts
  <2> QED BY <2>1, <2>2, <2>3, <2>4, <2>5 DEF DataTyped
<1>5. RingOwnership
  BY <1>3, DepthAssumption DEF Init, RingOwnership
<1>6. HandsFull
  BY DEF Init, HandsFull, Threads
<1>7. QueuedStamped
  BY <1>3, DepthAssumption DEF Init, QueuedStamped
<1> QED BY <1>2, <1>4, <1>5, <1>6, <1>7, TypeParts DEF IInv

\* While the file and the rings stay as they are, so does what is said of them.
LEMMA RingsUnchanged ==
  ASSUME RingOwnership, QueuedStamped, UNCHANGED <<file, vq, aq>>
  PROVE  RingOwnership' /\ QueuedStamped'
BY DEF RingOwnership, QueuedStamped, Owned, Window, Slots, Stamped, Pts

\* A frame pushed onto one ring, and a frame popped from one.
LEMMA PushVideoKeepsRings ==
  ASSUME DataTyped, RingOwnership, QueuedStamped, pos \in Stamped, vq.count < VDepth,
         vq' = Pushed(vq, VDepth, pos), UNCHANGED <<file, aq>>
  PROVE  vq' \in RingType(VDepth) /\ RingOwnership' /\ QueuedStamped'
PROOF
<1>1. pos \in Nat \ {Empty}
  BY StampedFacts DEF Empty
<1>2. vq \in RingType(VDepth) /\ Owned(vq, VDepth)
  BY DEF DataTyped, RingOwnership
<1>3. /\ vq' \in RingType(VDepth) /\ Owned(vq', VDepth)
      /\ \A s \in Slots(VDepth) : vq'.slot[s] \in {vq.slot[s], pos}
  BY <1>1, <1>2, PushKeepsRing, DepthAssumption
<1>4. RingOwnership'
  BY <1>3 DEF RingOwnership, Owned, Window
<1>5. QueuedStamped'
  BY <1>3 DEF QueuedStamped, Stamped, Slots, Pts
<1> QED BY <1>3, <1>4, <1>5

LEMMA PushAudioKeepsRings ==
  ASSUME DataTyped, RingOwnership, QueuedStamped, pos \in Stamped, aq.count < ADepth,
         aq' = Pushed(aq, ADepth, pos), UNCHANGED <<file, vq>>
  PROVE  aq' \in RingType(ADepth) /\ RingOwnership' /\ QueuedStamped'
PROOF
<1>1. pos \in Nat \ {Empty}
  BY StampedFacts DEF Empty
<1>2. aq \in RingType(ADepth) /\ Owned(aq, ADepth)
  BY DEF DataTyped, RingOwnership
<1>3. /\ aq' \in RingType(ADepth) /\ Owned(aq', ADepth)
      /\ \A s \in Slots(ADepth) : aq'.slot[s] \in {aq.slot[s], pos}
  BY <1>1, <1>2, PushKeepsRing, DepthAssumption
<1>4. RingOwnership'
  BY <1>3 DEF RingOwnership, Owned, Window
<1>5. QueuedStamped'
  BY <1>3 DEF QueuedStamped, Stamped, Slots, Pts
<1> QED BY <1>3, <1>4, <1>5

LEMMA PopVideoKeepsRings ==
  ASSUME DataTyped, RingOwnership, QueuedStamped, vq.count > 0,
         vq' = Popped(vq, VDepth), UNCHANGED <<file, aq>>
  PROVE  /\ vq' \in RingType(VDepth) /\ RingOwnership' /\ QueuedStamped'
         /\ Oldest(vq) \in Stamped
PROOF
<1>1. vq \in RingType(VDepth) /\ Owned(vq, VDepth)
  BY DEF DataTyped, RingOwnership
<1>2. /\ vq' \in RingType(VDepth) /\ Owned(vq', VDepth)
      /\ \A s \in Slots(VDepth) : vq'.slot[s] \in {vq.slot[s], Empty}
      /\ vq.head \in Slots(VDepth) /\ Oldest(vq) # Empty
  BY <1>1, PopKeepsRing, DepthAssumption
<1>3. RingOwnership'
  BY <1>2 DEF RingOwnership, Owned, Window
<1>4. QueuedStamped'
  BY <1>2 DEF QueuedStamped, Stamped, Slots, Pts
<1>5. Oldest(vq) \in Stamped
  BY <1>2 DEF QueuedStamped, Oldest
<1> QED BY <1>2, <1>3, <1>4, <1>5

LEMMA PopAudioKeepsRings ==
  ASSUME DataTyped, RingOwnership, QueuedStamped, aq.count > 0,
         aq' = Popped(aq, ADepth), UNCHANGED <<file, vq>>
  PROVE  /\ aq' \in RingType(ADepth) /\ RingOwnership' /\ QueuedStamped'
         /\ Oldest(aq) \in Stamped
PROOF
<1>1. aq \in RingType(ADepth) /\ Owned(aq, ADepth)
  BY DEF DataTyped, RingOwnership
<1>2. /\ aq' \in RingType(ADepth) /\ Owned(aq', ADepth)
      /\ \A s \in Slots(ADepth) : aq'.slot[s] \in {aq.slot[s], Empty}
      /\ aq.head \in Slots(ADepth) /\ Oldest(aq) # Empty
  BY <1>1, PopKeepsRing, DepthAssumption
<1>3. RingOwnership'
  BY <1>2 DEF RingOwnership, Owned, Window
<1>4. QueuedStamped'
  BY <1>2 DEF QueuedStamped, Stamped, Slots, Pts
<1>5. Oldest(aq) \in Stamped
  BY <1>2 DEF QueuedStamped, Oldest
<1> QED BY <1>2, <1>3, <1>4, <1>5

\* Every step keeps the inductive invariant.
LEMMA NextIInv == IInv /\ [Next]_vars => IInv'
PROOF
<1> SUFFICES ASSUME IInv, [Next]_vars PROVE IInv'
  OBVIOUS
<1> USE DEF At, Queued
<1>0. PcTyped /\ DataTyped /\ RingOwnership /\ HandsFull /\ QueuedStamped
  BY TypeParts DEF IInv
<1>1. SUFFICES PcTyped' /\ DataTyped' /\ RingOwnership' /\ HandsFull' /\ QueuedStamped'
  BY DEF IInv, TypeOK, PcTyped, DataTyped
<1>2. CASE Read
  <2>1. UNCHANGED <<file, vq, aq>>
    BY <1>2 DEF Read
  <2>2. \/ pos' = pos /\ Go("decoder", "eofV")
        \/ /\ pos' = pos + 1 /\ pos < Len(file)
           /\ \/ Go("decoder", "read")
              \/ pos' \in Stamped /\ (Go("decoder", "pushV") \/ Go("decoder", "pushA"))
    <3>1. CASE stop \/ pos = Len(file)
      BY <1>2, <3>1 DEF Read
    <3>2. CASE ~(stop \/ pos = Len(file))
      <4>1. file \in Files /\ pos \in 0 .. Len(file) /\ Len(file) \in Nat
        BY <1>0, FileAssumption DEF DataTyped
      <4>2. pos + 1 \in 1 .. Len(file) /\ pos' = pos + 1
        BY <1>2, <3>2, <4>1 DEF Read
      <4>3. Queued(file[pos + 1]) => pos' \in Stamped
        BY <4>1, <4>2, QueuedIsStamped
      <4>4. Go("decoder", IF ~Queued(file[pos + 1]) THEN "read"
                          ELSE IF file[pos + 1].kind = "video" THEN "pushV" ELSE "pushA")
        BY <1>2, <3>2 DEF Read
      <4> QED BY <4>1, <4>2, <4>3, <4>4
    <3> QED BY <3>1, <3>2
  <2>3. PcTyped' /\ (\A u \in Threads : u # "decoder" => pc'[u] = pc[u])
        /\ (pc'["decoder"] \in {"read", "eofV"} \/ pos' \in Stamped)
    BY <1>0, <2>2, GoMovesOne DEF Threads, Labels
  <2>4. DataTyped'
    <3>1. pos' \in 0 .. Len(file)
      BY <1>0, <2>2, FileAssumption DEF DataTyped
    <3> QED BY <1>0, <2>1, <3>1, <1>2 DEF Read, DataTyped, displayVars, audioVars
  <2>5. HandsFull'
    BY <1>0, <2>1, <2>3, <1>2 DEF Read, HandsFull, Threads, Stamped, Pts, displayVars, audioVars
  <2> QED BY <1>0, <2>1, <2>3, <2>4, <2>5, RingsUnchanged
<1>3. CASE PushVideo
  <2>1. CASE vq' = vq /\ aq' = aq
    <3>1. PcTyped' /\ (\A u \in Threads : u # "decoder" => pc'[u] = pc[u])
          /\ pc'["decoder"] \in {"eofV", "pushVWait", "read"}
      <4>1. Go("decoder", "eofV") \/ Go("decoder", "pushVWait")
        <5>1. ~(vq' = Pushed(vq, VDepth, pos) /\ vq.count < VDepth)
          <6> SUFFICES ASSUME vq' = Pushed(vq, VDepth, pos) PROVE vq'.count # vq.count
            BY <2>1
          <6> QED BY <1>0 DEF DataTyped, RingType, Pushed
        <5> QED BY <1>3, <5>1 DEF PushVideo
      <4> QED BY <1>0, <4>1, GoMovesOne DEF Threads, Labels
    <3>2. pc["decoder"] = "pushV" /\ file' = file /\ pos' = pos
      BY <1>3 DEF PushVideo, decoderVars
    <3>3. DataTyped'
      BY <1>0, <2>1, <1>3 DEF PushVideo, DataTyped, decoderVars, displayVars, audioVars
    <3>4. HandsFull'
      BY <1>0, <3>1, <3>2, <1>3
         DEF PushVideo, HandsFull, Threads, Stamped, Pts, displayVars, audioVars
    <3> QED BY <1>0, <2>1, <3>1, <3>2, <3>3, <3>4, RingsUnchanged
  <2>2. CASE vq' = Pushed(vq, VDepth, pos) /\ vq.count < VDepth
             /\ GoAndWake("decoder", "read", {"popWait"})
    <3>1. pos \in Stamped
      BY <1>0, <1>3 DEF PushVideo, HandsFull
    <3>2. UNCHANGED <<file, aq, pos>>
      BY <1>3 DEF PushVideo, decoderVars
    <3>3. vq' \in RingType(VDepth) /\ RingOwnership' /\ QueuedStamped'
      BY <1>0, <2>2, <3>1, <3>2, PushVideoKeepsRings
    <3>4. PcTyped' /\ pc'["decoder"] = "read"
          /\ (\A u \in Threads : u # "decoder" =>
                pc'[u] = IF pc[u] = "popWait" THEN Retry["popWait"] ELSE pc[u])
      BY <1>0, <2>2, GoAndWakeMovesTwo DEF Threads, Labels, WaitLabels, Retry
    <3>5. DataTyped'
      BY <1>0, <3>2, <3>3, <1>3 DEF PushVideo, DataTyped, displayVars, audioVars
    <3>6. HandsFull'
      BY <1>0, <3>2, <3>4, <1>3
      DEF PushVideo, HandsFull, Threads, Stamped, Pts, Retry, displayVars, audioVars
    <3> QED BY <3>3, <3>4, <3>5, <3>6
  <2> QED BY <2>1, <2>2, <1>3 DEF PushVideo
<1>4. CASE PushAudio
  <2>1. CASE vq' = vq /\ aq' = aq
    <3>1. PcTyped' /\ (\A u \in Threads : u # "decoder" => pc'[u] = pc[u])
          /\ pc'["decoder"] \in {"eofV", "pushAWait", "read"}
      <4>1. Go("decoder", "eofV") \/ Go("decoder", "pushAWait")
        <5>1. ~(aq' = Pushed(aq, ADepth, pos) /\ aq.count < ADepth)
          <6> SUFFICES ASSUME aq' = Pushed(aq, ADepth, pos) PROVE aq'.count # aq.count
            BY <2>1
          <6> QED BY <1>0 DEF DataTyped, RingType, Pushed
        <5> QED BY <1>4, <5>1 DEF PushAudio
      <4> QED BY <1>0, <4>1, GoMovesOne DEF Threads, Labels
    <3>2. pc["decoder"] = "pushA" /\ file' = file /\ pos' = pos
      BY <1>4 DEF PushAudio, decoderVars
    <3>3. DataTyped'
      BY <1>0, <2>1, <1>4 DEF PushAudio, DataTyped, decoderVars, displayVars, audioVars
    <3>4. HandsFull'
      BY <1>0, <3>1, <3>2, <1>4
         DEF PushAudio, HandsFull, Threads, Stamped, Pts, displayVars, audioVars
    <3> QED BY <1>0, <2>1, <3>1, <3>2, <3>3, <3>4, RingsUnchanged
  <2>2. CASE aq' = Pushed(aq, ADepth, pos) /\ aq.count < ADepth
             /\ GoAndWake("decoder", "read", {"playWait"})
    <3>1. pos \in Stamped
      BY <1>0, <1>4 DEF PushAudio, HandsFull
    <3>2. UNCHANGED <<file, vq, pos>>
      BY <1>4 DEF PushAudio, decoderVars
    <3>3. aq' \in RingType(ADepth) /\ RingOwnership' /\ QueuedStamped'
      BY <1>0, <2>2, <3>1, <3>2, PushAudioKeepsRings
    <3>4. PcTyped' /\ pc'["decoder"] = "read"
          /\ (\A u \in Threads : u # "decoder" =>
                pc'[u] = IF pc[u] = "playWait" THEN Retry["playWait"] ELSE pc[u])
      BY <1>0, <2>2, GoAndWakeMovesTwo DEF Threads, Labels, WaitLabels, Retry
    <3>5. DataTyped'
      BY <1>0, <3>2, <3>3, <1>4 DEF PushAudio, DataTyped, displayVars, audioVars
    <3>6. HandsFull'
      BY <1>0, <3>2, <3>4, <1>4
      DEF PushAudio, HandsFull, Threads, Stamped, Pts, Retry, displayVars, audioVars
    <3> QED BY <3>3, <3>4, <3>5, <3>6
  <2> QED BY <2>1, <2>2, <1>4 DEF PushAudio
<1>5. CASE EofVideo
  <2>1. vq' \in RingType(VDepth) /\ vq'.slot = vq.slot /\ vq'.head = vq.head /\ vq'.count = vq.count
    <3>1. vq \in RingType(VDepth) /\ vq' = [vq EXCEPT !.eof = TRUE]
      BY <1>0, <1>5 DEF EofVideo, DataTyped
    <3> QED BY <3>1 DEF RingType
  <2>2. UNCHANGED <<file, aq, pos>>
    BY <1>5 DEF EofVideo, decoderVars
  <2>3. PcTyped' /\ pc'["decoder"] \in {"eofA", "exit"}
        /\ (\A u \in Threads : u # "decoder" =>
              pc'[u] = IF pc[u] = "popWait" THEN Retry["popWait"] ELSE pc[u])
    <3>1. \E l \in {"eofA", "exit"} : GoAndWake("decoder", l, {"popWait"})
      BY <1>5 DEF EofVideo
    <3> QED BY <1>0, <3>1, GoAndWakeMovesTwo DEF Threads, Labels, WaitLabels, Retry
  <2>4. DataTyped'
    BY <1>0, <2>1, <2>2, <1>5 DEF EofVideo, DataTyped, displayVars, audioVars
  <2>5. RingOwnership' /\ QueuedStamped'
    BY <1>0, <2>1, <2>2 DEF RingOwnership, QueuedStamped, Owned, Window, Stamped, Pts
  <2>6. HandsFull'
    BY <1>0, <2>2, <2>3, <1>5
    DEF EofVideo, HandsFull, Threads, Stamped, Pts, Retry, displayVars, audioVars
  <2> QED BY <2>3, <2>4, <2>5, <2>6
<1>6. CASE EofAudio
  <2>1. aq' \in RingType(ADepth) /\ aq'.slot = aq.slot /\ aq'.head = aq.head /\ aq'.count = aq.count
    <3>1. aq \in RingType(ADepth) /\ aq' = [aq EXCEPT !.eof = TRUE]
      BY <1>0, <1>6 DEF EofAudio, DataTyped
    <3> QED BY <3>1 DEF RingType
  <2>2. UNCHANGED <<file, vq, pos>>
    BY <1>6 DEF EofAudio, decoderVars
  <2>3. PcTyped' /\ pc'["decoder"] \in {"eofA", "exit"}
        /\ (\A u \in Threads : u # "decoder" =>
              pc'[u] = IF pc[u] = "playWait" THEN Retry["playWait"] ELSE pc[u])
    <3>1. \E l \in {"eofA", "exit"} : GoAndWake("decoder", l, {"playWait"})
      BY <1>6 DEF EofAudio
    <3> QED BY <1>0, <3>1, GoAndWakeMovesTwo DEF Threads, Labels, WaitLabels, Retry
  <2>4. DataTyped'
    BY <1>0, <2>1, <2>2, <1>6 DEF EofAudio, DataTyped, displayVars, audioVars
  <2>5. RingOwnership' /\ QueuedStamped'
    BY <1>0, <2>1, <2>2 DEF RingOwnership, QueuedStamped, Owned, Window, Stamped, Pts
  <2>6. HandsFull'
    BY <1>0, <2>2, <2>3, <1>6
    DEF EofAudio, HandsFull, Threads, Stamped, Pts, Retry, displayVars, audioVars
  <2> QED BY <2>3, <2>4, <2>5, <2>6
<1>7. CASE PreCheck
  <2>1. UNCHANGED <<file, vq, aq, pos>>
    BY <1>7 DEF PreCheck, decoderVars
  <2>2. PcTyped' /\ pc'["audio"] \in {"exit", "open", "discard"}
        /\ (\A u \in Threads : u # "audio" => pc'[u] = pc[u])
    <3>1. \E l \in {"exit", "open", "discard"} : Go("audio", l)
      BY <1>7 DEF PreCheck
    <3> QED BY <1>0, <3>1, GoMovesOne DEF Threads, Labels
  <2>3. DataTyped'
    BY <1>0, <2>1, <1>7 DEF PreCheck, DataTyped, decoderVars, displayVars, audioVars
  <2>4. HandsFull'
    BY <1>0, <2>1, <2>2, <1>7
    DEF PreCheck, HandsFull, Threads, Stamped, Pts, Retry, displayVars, audioVars
  <2> QED BY <1>0, <2>1, <2>2, <2>3, <2>4, RingsUnchanged
<1>8. CASE Discard
  <2>1. CASE aq' = aq /\ Go("audio", "pre")
    <3>1. UNCHANGED <<file, vq, aq, pos>>
      BY <2>1, <1>8 DEF Discard, decoderVars
    <3>2. PcTyped' /\ pc'["audio"] = "pre" /\ (\A u \in Threads : u # "audio" => pc'[u] = pc[u])
      BY <1>0, <2>1, GoMovesOne DEF Threads, Labels
    <3>3. DataTyped'
      BY <1>0, <3>1, <1>8 DEF Discard, DataTyped, displayVars
    <3>4. HandsFull'
      BY <1>0, <3>1, <3>2, <1>8 DEF Discard, HandsFull, Threads, Stamped, Pts, displayVars
    <3> QED BY <1>0, <3>1, <3>2, <3>3, <3>4, RingsUnchanged
  <2>2. CASE aq' = Popped(aq, ADepth) /\ aq.count > 0 /\ GoAndWake("audio", "pre", {"pushAWait"})
    <3>1. UNCHANGED <<file, vq, pos>>
      BY <1>8 DEF Discard, decoderVars
    <3>2. aq' \in RingType(ADepth) /\ RingOwnership' /\ QueuedStamped'
      BY <1>0, <2>2, <3>1, PopAudioKeepsRings
    <3>3. PcTyped' /\ pc'["audio"] = "pre"
          /\ (\A u \in Threads : u # "audio" =>
                pc'[u] = IF pc[u] = "pushAWait" THEN Retry["pushAWait"] ELSE pc[u])
      BY <1>0, <2>2, GoAndWakeMovesTwo DEF Threads, Labels, WaitLabels, Retry
    <3>4. DataTyped'
      BY <1>0, <3>1, <3>2, <1>8 DEF Discard, DataTyped, displayVars
    <3>5. HandsFull'
      BY <1>0, <3>1, <3>3, <1>8 DEF Discard, HandsFull, Threads, Stamped, Pts, Retry, displayVars
    <3> QED BY <3>2, <3>3, <3>4, <3>5
  <2> QED BY <2>1, <2>2, <1>8 DEF Discard
<1>9. CASE OpenAlsa
  <2>1. UNCHANGED <<file, vq, aq, pos>>
    BY <1>9 DEF OpenAlsa, decoderVars
  <2>2. PcTyped' /\ pc'["audio"] \in {"play", "exit"}
        /\ (\A u \in Threads : u # "audio" => pc'[u] = pc[u])
    <3>1. \E l \in {"play", "exit"} : Go("audio", l)
      BY <1>9 DEF OpenAlsa
    <3> QED BY <1>0, <3>1, GoMovesOne DEF Threads, Labels
  <2>3. DataTyped'
    BY <1>0, <2>1, <1>9 DEF OpenAlsa, DataTyped, decoderVars, displayVars, audioVars
  <2>4. HandsFull'
    BY <1>0, <2>1, <2>2, <1>9
    DEF OpenAlsa, HandsFull, Threads, Stamped, Pts, Retry, displayVars, audioVars
  <2> QED BY <1>0, <2>1, <2>2, <2>3, <2>4, RingsUnchanged
<1>10. CASE PopAudio
  <2>1. CASE /\ aq' = aq /\ firstPts' = firstPts /\ sample' = sample
             /\ (Go("audio", "playWait") \/ Go("audio", "drain"))
    <3>1. UNCHANGED <<file, vq, aq, pos>>
      BY <2>1, <1>10 DEF PopAudio, decoderVars
    <3>2. PcTyped' /\ pc'["audio"] \in {"playWait", "drain"}
          /\ (\A u \in Threads : u # "audio" => pc'[u] = pc[u])
      BY <1>0, <2>1, GoMovesOne DEF Threads, Labels
    <3>3. DataTyped'
      BY <1>0, <2>1, <3>1, <1>10 DEF PopAudio, DataTyped, displayVars
    <3>4. HandsFull'
      BY <1>0, <3>1, <3>2, <1>10 DEF PopAudio, HandsFull, Threads, Stamped, Pts, displayVars
    <3> QED BY <1>0, <3>1, <3>2, <3>3, <3>4, RingsUnchanged
  <2>3. CASE /\ aq.count > 0 /\ UNCHANGED <<aq, sample, takenA>>
             /\ firstPts' = TimelineStart(Oldest(aq)) /\ Go("audio", "drain")
    <3>1. UNCHANGED <<file, vq, aq, pos>>
      BY <2>3, <1>10 DEF PopAudio, decoderVars
    <3>2. PcTyped' /\ pc'["audio"] = "drain"
          /\ (\A u \in Threads : u # "audio" => pc'[u] = pc[u])
      BY <1>0, <2>3, GoMovesOne DEF Threads, Labels
    <3>3. Oldest(aq) \in Stamped
      <4>1. aq.head \in Slots(ADepth) /\ Oldest(aq) # Empty
        BY <1>0, <2>3, PopKeepsRing, DepthAssumption DEF DataTyped, RingOwnership
      <4> QED BY <1>0, <4>1 DEF QueuedStamped, Oldest
    <3>4. firstPts' \in Nat
      BY <1>0, <2>3, <3>3, StampedFacts DEF DataTyped, TimelineStart
    <3>5. DataTyped'
      BY <1>0, <2>3, <3>1, <3>4, <1>10 DEF PopAudio, DataTyped, displayVars
    <3>6. HandsFull'
      BY <1>0, <3>1, <3>2, <1>10 DEF PopAudio, HandsFull, Threads, Stamped, Pts, displayVars
    <3> QED BY <1>0, <3>1, <3>2, <3>5, <3>6, RingsUnchanged
  <2>2. CASE /\ aq.count > 0 /\ aq' = Popped(aq, ADepth)
             /\ sample' = Oldest(aq) /\ firstPts' = TimelineStart(Oldest(aq))
             /\ GoAndWake("audio", "write", {"pushAWait"})
    <3>1. UNCHANGED <<file, vq, pos>>
      BY <1>10 DEF PopAudio, decoderVars
    <3>2. aq' \in RingType(ADepth) /\ RingOwnership' /\ QueuedStamped' /\ Oldest(aq) \in Stamped
      BY <1>0, <2>2, <3>1, PopAudioKeepsRings
    <3>3. PcTyped' /\ pc'["audio"] = "write"
          /\ (\A u \in Threads : u # "audio" =>
                pc'[u] = IF pc[u] = "pushAWait" THEN Retry["pushAWait"] ELSE pc[u])
      BY <1>0, <2>2, GoAndWakeMovesTwo DEF Threads, Labels, WaitLabels, Retry
    <3>4. firstPts' \in Nat /\ sample' \in Nat
      BY <1>0, <2>2, <3>2, StampedFacts DEF DataTyped, TimelineStart
    <3>5. DataTyped'
      BY <1>0, <3>1, <3>2, <3>4, <1>10 DEF PopAudio, DataTyped, displayVars
    <3>6. HandsFull'
      BY <1>0, <3>1, <3>3, <3>4, <1>10
         DEF PopAudio, HandsFull, Threads, Stamped, Pts, Retry, displayVars
    <3> QED BY <3>2, <3>3, <3>5, <3>6
  <2> QED BY <2>1, <2>2, <2>3, <1>10 DEF PopAudio
<1>11. CASE WriteAlsa
  <2>1. UNCHANGED <<file, vq, aq, pos>>
    BY <1>11 DEF WriteAlsa, decoderVars
  <2>2. PcTyped' /\ pc'["audio"] \in {"play"} /\ (\A u \in Threads : u # "audio" => pc'[u] = pc[u])
    <3>1. \E l \in {"play"} : Go("audio", l)
      BY <1>11 DEF WriteAlsa
    <3> QED BY <1>0, <3>1, GoMovesOne DEF Threads, Labels
  <2>3. DataTyped'
    <3>1. firstPts \in Nat /\ {written, lost} \subseteq Nat /\ swr \in [room : Rooms, held : Nat]
      BY <1>0, <1>11 DEF WriteAlsa, HandsFull, DataTyped
    <3>2. {written', lost'} \subseteq Nat /\ swr' \in [room : Rooms, held : Nat]
      BY <3>1, SoundKept, <1>11
    <3>3. clock' \in Nat
      <4>1. PICK delay \in 0 .. MaxDelay :
              clock' = firstPts + (IF delay > written' THEN 0 ELSE written' - delay)
        BY <1>11 DEF WriteAlsa
      <4>2. delay \in Nat
        BY TimeAssumption
      <4>3. (IF delay > written' THEN 0 ELSE written' - delay) \in Nat
        <5>1. ASSUME NEW d \in Nat, NEW n \in Nat
              PROVE  (IF d > n THEN 0 ELSE n - d) \in Nat
          OBVIOUS
        <5> QED BY <3>2, <4>2, <5>1
      <4> QED BY <3>1, <4>1, <4>3
    <3> QED BY <1>0, <2>1, <3>2, <3>3, <1>11 DEF WriteAlsa, DataTyped, Empty, displayVars
  <2>4. HandsFull'
    BY <1>0, <2>1, <2>2, <1>11
    DEF WriteAlsa, HandsFull, Threads, Stamped, Pts, Retry, displayVars, audioVars
  <2> QED BY <1>0, <2>1, <2>2, <2>3, <2>4, RingsUnchanged
<1>12. CASE DrainAlsa
  <2>1. UNCHANGED <<file, vq, aq, pos>>
    BY <1>12 DEF DrainAlsa, decoderVars
  <2>2. PcTyped' /\ pc'["audio"] \in {"exit"} /\ (\A u \in Threads : u # "audio" => pc'[u] = pc[u])
    <3>1. \E l \in {"exit"} : Go("audio", l)
      BY <1>12 DEF DrainAlsa
    <3> QED BY <1>0, <3>1, GoMovesOne DEF Threads, Labels
  <2>3. DataTyped'
    BY <1>0, <2>1, <1>12 DEF DrainAlsa, DataTyped, decoderVars, displayVars, audioVars
  <2>4. HandsFull'
    BY <1>0, <2>1, <2>2, <1>12
    DEF DrainAlsa, HandsFull, Threads, Stamped, Pts, Retry, displayVars, audioVars
  <2> QED BY <1>0, <2>1, <2>2, <2>3, <2>4, RingsUnchanged
<1>13. CASE PopVideo
  <2>1. CASE /\ vq' = vq /\ frame' = frame /\ stop' \in {stop, TRUE}
             /\ (Go("display", "popWait") \/ Go("display", "shut"))
    <3>1. UNCHANGED <<file, vq, aq, pos>>
      BY <2>1, <1>13 DEF PopVideo, decoderVars
    <3>2. PcTyped' /\ pc'["display"] \in {"popWait", "shut"}
          /\ (\A u \in Threads : u # "display" => pc'[u] = pc[u])
      BY <1>0, <2>1, GoMovesOne DEF Threads, Labels
    <3>3. DataTyped'
      BY <1>0, <2>1, <3>1, <1>13 DEF PopVideo, DataTyped, audioVars
    <3>4. HandsFull'
      BY <1>0, <3>1, <3>2, <1>13 DEF PopVideo, HandsFull, Threads, Stamped, Pts, audioVars
    <3> QED BY <1>0, <3>1, <3>2, <3>3, <3>4, RingsUnchanged
  <2>2. CASE /\ vq.count > 0 /\ vq' = Popped(vq, VDepth) /\ frame' = Oldest(vq) /\ stop' = stop
             /\ GoAndWake("display", "begin", {"pushVWait"})
    <3>1. UNCHANGED <<file, aq, pos>>
      BY <1>13 DEF PopVideo, decoderVars
    <3>2. vq' \in RingType(VDepth) /\ RingOwnership' /\ QueuedStamped' /\ Oldest(vq) \in Stamped
      BY <1>0, <2>2, <3>1, PopVideoKeepsRings
    <3>3. PcTyped' /\ pc'["display"] = "begin"
          /\ (\A u \in Threads : u # "display" =>
                pc'[u] = IF pc[u] = "pushVWait" THEN Retry["pushVWait"] ELSE pc[u])
      BY <1>0, <2>2, GoAndWakeMovesTwo DEF Threads, Labels, WaitLabels, Retry
    <3>4. frame' \in Nat /\ frame' \in Stamped
      BY <2>2, <3>2, StampedFacts
    <3>5. DataTyped'
      BY <1>0, <2>2, <3>1, <3>2, <3>4, <1>13 DEF PopVideo, DataTyped, audioVars
    <3>6. HandsFull'
      BY <1>0, <3>1, <3>3, <3>4, <1>13
         DEF PopVideo, HandsFull, Threads, Stamped, Pts, Retry, audioVars
    <3> QED BY <3>2, <3>3, <3>5, <3>6
  <2> QED BY <2>1, <2>2, <1>13 DEF PopVideo
<1>14. CASE Begin
  <2>1. UNCHANGED <<file, vq, aq, pos>>
    BY <1>14 DEF Begin, decoderVars
  <2>2. PcTyped' /\ pc'["display"] \in {"pace"}
        /\ (\A u \in Threads : u # "display" => pc'[u] = pc[u])
    <3>1. \E l \in {"pace"} : Go("display", l)
      BY <1>14 DEF Begin
    <3> QED BY <1>0, <3>1, GoMovesOne DEF Threads, Labels
  <2>3. DataTyped'
    <3>1. Pts(frame) \in Nat /\ prevPts \in Nat \cup {NoPts} /\ period \in Nat /\ now \in Nat
      BY <1>0, StampedFacts, <1>14 DEF Begin, HandsFull, DataTyped
    <3>2. prevPts' \in Nat \cup {NoPts}
      BY <3>1, <1>14 DEF Begin
    <3>3. period' \in Nat
      BY <3>1, TimeAssumption, <1>14 DEF Begin, NoPts
    <3>4. anchor'.wall \in Nat /\ anchor'.pts \in Nat
      BY <1>0, <3>1, <1>14 DEF Begin, DataTyped
    <3>5. {started', clkInit'} \subseteq BOOLEAN
      BY <1>0, <1>14 DEF Begin, DataTyped
    <3> QED BY <1>0, <2>1, <3>2, <3>3, <3>4, <3>5, <1>14 DEF Begin, DataTyped, audioVars
  <2>4. HandsFull'
    BY <1>0, <2>1, <2>2, <1>14
    DEF Begin, HandsFull, Threads, Stamped, Pts, Retry, displayVars, audioVars
  <2> QED BY <1>0, <2>1, <2>2, <2>3, <2>4, RingsUnchanged
<1>15. CASE PaceByAudio
  <2>1. UNCHANGED <<file, vq, aq, pos>>
    BY <1>15 DEF PaceByAudio, decoderVars
  <2>2. PcTyped' /\ pc'["display"] \in {"pop", "spin", "dma"}
        /\ (\A u \in Threads : u # "display" => pc'[u] = pc[u])
    <3>1. \E l \in {"pop", "spin", "dma"} : Go("display", l)
      BY <1>15 DEF PaceByAudio
    <3> QED BY <1>0, <3>1, GoMovesOne DEF Threads, Labels
  <2>3. DataTyped'
    <3>1. frame' \in {frame, Empty}
      BY <1>15 DEF PaceByAudio
    <3> QED BY <1>0, <2>1, <3>1, <1>15 DEF PaceByAudio, DataTyped, Empty, audioVars
  <2>4. HandsFull'
    BY <1>0, <2>1, <2>2, <1>15
    DEF PaceByAudio, HandsFull, Threads, Stamped, Pts, Retry, displayVars, audioVars
  <2> QED BY <1>0, <2>1, <2>2, <2>3, <2>4, RingsUnchanged
<1>16. CASE PaceByWall
  <2>1. UNCHANGED <<file, vq, aq, pos>>
    BY <1>16 DEF PaceByWall, decoderVars
  <2>2. PcTyped' /\ pc'["display"] \in {"pop", "dma"}
        /\ (\A u \in Threads : u # "display" => pc'[u] = pc[u])
    <3>1. \E l \in {"pop", "dma"} : Go("display", l)
      BY <1>16 DEF PaceByWall
    <3> QED BY <1>0, <3>1, GoMovesOne DEF Threads, Labels
  <2>3. DataTyped'
    <3>1. frame' \in {frame, Empty}
      BY <1>16 DEF PaceByWall
    <3>2. anchor'.wall \in Nat /\ anchor'.pts \in Nat
      <4>1. Pts(frame) \in Nat /\ now \in Nat
        BY <1>0, StampedFacts, <1>16 DEF PaceByWall, HandsFull, DataTyped
      <4> QED BY <1>0, <4>1, <1>16 DEF PaceByWall, DataTyped
    <3> QED BY <1>0, <2>1, <3>1, <3>2, <1>16 DEF PaceByWall, DataTyped, Empty, audioVars
  <2>4. HandsFull'
    BY <1>0, <2>1, <2>2, <1>16
    DEF PaceByWall, HandsFull, Threads, Stamped, Pts, Retry, displayVars, audioVars
  <2> QED BY <1>0, <2>1, <2>2, <2>3, <2>4, RingsUnchanged
<1>17. CASE Spin
  <2>1. UNCHANGED <<file, vq, aq, pos>>
    BY <1>17 DEF Spin, decoderVars
  <2>2. PcTyped' /\ pc'["display"] \in {"dma"}
        /\ (\A u \in Threads : u # "display" => pc'[u] = pc[u])
    <3>1. \E l \in {"dma"} : Go("display", l)
      BY <1>17 DEF Spin
    <3> QED BY <1>0, <3>1, GoMovesOne DEF Threads, Labels
  <2>3. DataTyped'
    BY <1>0, <2>1, <1>17 DEF Spin, DataTyped, decoderVars, displayVars, audioVars
  <2>4. HandsFull'
    BY <1>0, <2>1, <2>2, <1>17
    DEF Spin, HandsFull, Threads, Stamped, Pts, Retry, displayVars, audioVars
  <2> QED BY <1>0, <2>1, <2>2, <2>3, <2>4, RingsUnchanged
<1>18. CASE Convert
  <2>1. UNCHANGED <<file, vq, aq, pos>>
    BY <1>18 DEF Convert, decoderVars
  <2>2. PcTyped' /\ pc'["display"] \in {"shut", "flip", "sleep"}
        /\ (\A u \in Threads : u # "display" => pc'[u] = pc[u])
    <3>1. \E l \in {"shut", "flip", "sleep"} : Go("display", l)
      BY <1>18 DEF Convert
    <3> QED BY <1>0, <3>1, GoMovesOne DEF Threads, Labels
  <2>3. DataTyped'
    <3>1. frame' \in {frame, Empty} /\ stop' \in {stop, TRUE}
      BY <1>18 DEF Convert
    <3>2. UNCHANGED <<adec, started, clkInit, prevPts, period, anchor, sample, firstPts, swr, written,
                      lost, clock, now>>
      BY <1>18 DEF Convert, audioVars
    <3>3. {adec', stop', started', clkInit'} \subseteq BOOLEAN
      BY <1>0, <3>1, <3>2 DEF DataTyped
    <3>4. {frame', sample', written', lost', now', anchor'.wall, anchor'.pts, period'} \subseteq Nat
      BY <1>0, <3>1, <3>2 DEF DataTyped, Empty
    <3> QED BY <1>0, <2>1, <3>2, <3>3, <3>4 DEF DataTyped
  <2>4. HandsFull'
    BY <1>0, <2>1, <2>2, <1>18
    DEF Convert, HandsFull, Threads, Stamped, Pts, Retry, displayVars, audioVars
  <2> QED BY <1>0, <2>1, <2>2, <2>3, <2>4, RingsUnchanged
<1>19. CASE Sleep
  <2>1. UNCHANGED <<file, vq, aq, pos>>
    BY <1>19 DEF Sleep, decoderVars
  <2>2. PcTyped' /\ pc'["display"] \in {"flip"}
        /\ (\A u \in Threads : u # "display" => pc'[u] = pc[u])
    <3>1. \E l \in {"flip"} : Go("display", l)
      BY <1>19 DEF Sleep
    <3> QED BY <1>0, <3>1, GoMovesOne DEF Threads, Labels
  <2>3. DataTyped'
    BY <1>0, <2>1, <1>19 DEF Sleep, DataTyped, decoderVars, displayVars, audioVars
  <2>4. HandsFull'
    BY <1>0, <2>1, <2>2, <1>19
    DEF Sleep, HandsFull, Threads, Stamped, Pts, Retry, displayVars, audioVars
  <2> QED BY <1>0, <2>1, <2>2, <2>3, <2>4, RingsUnchanged
<1>20. CASE Flip
  <2>1. UNCHANGED <<file, vq, aq, pos>>
    BY <1>20 DEF Flip, decoderVars
  <2>2. PcTyped' /\ pc'["display"] \in {"shut", "pop"}
        /\ (\A u \in Threads : u # "display" => pc'[u] = pc[u])
    <3>1. \E l \in {"shut", "pop"} : Go("display", l)
      BY <1>20 DEF Flip
    <3> QED BY <1>0, <3>1, GoMovesOne DEF Threads, Labels
  <2>3. DataTyped'
    BY <1>0, <2>1, <1>20 DEF Flip, DataTyped, Empty, audioVars
  <2>4. HandsFull'
    BY <1>0, <2>1, <2>2, <1>20
    DEF Flip, HandsFull, Threads, Stamped, Pts, Retry, displayVars, audioVars
  <2> QED BY <1>0, <2>1, <2>2, <2>3, <2>4, RingsUnchanged
<1>21. CASE Shut
  <2>1. UNCHANGED <<file, vq, aq, pos>>
    BY <1>21 DEF Shut, decoderVars
  <2>2. PcTyped' /\ pc'["display"] \in {"signalV"}
        /\ (\A u \in Threads : u # "display" => pc'[u] = pc[u])
    <3>1. \E l \in {"signalV"} : Go("display", l)
      BY <1>21 DEF Shut
    <3> QED BY <1>0, <3>1, GoMovesOne DEF Threads, Labels
  <2>3. DataTyped'
    BY <1>0, <2>1, <1>21 DEF Shut, DataTyped, decoderVars, displayVars, audioVars
  <2>4. HandsFull'
    BY <1>0, <2>1, <2>2, <1>21
    DEF Shut, HandsFull, Threads, Stamped, Pts, Retry, displayVars, audioVars
  <2> QED BY <1>0, <2>1, <2>2, <2>3, <2>4, RingsUnchanged
<1>22. CASE SignalVideo
  <2>1. UNCHANGED <<file, vq, aq, pos>>
    BY <1>22 DEF SignalVideo, decoderVars
  <2>2. PcTyped' /\ pc'["display"] \in {"signalA", "joinD"}
        /\ (\A u \in Threads : u # "display" =>
              pc'[u] = IF pc[u] \in {"pushVWait"} THEN Retry[pc[u]] ELSE pc[u])
    <3>1. \E l \in {"signalA", "joinD"} : GoAndWake("display", l, {"pushVWait"})
      BY <1>22 DEF SignalVideo
    <3> QED BY <1>0, <3>1, GoAndWakeMovesTwo DEF Threads, Labels, WaitLabels, Retry
  <2>3. DataTyped'
    BY <1>0, <2>1, <1>22 DEF SignalVideo, DataTyped, decoderVars, displayVars, audioVars
  <2>4. HandsFull'
    BY <1>0, <2>1, <2>2, <1>22
    DEF SignalVideo, HandsFull, Threads, Stamped, Pts, Retry, displayVars, audioVars
  <2> QED BY <1>0, <2>1, <2>2, <2>3, <2>4, RingsUnchanged
<1>23. CASE SignalAudio
  <2>1. UNCHANGED <<file, vq, aq, pos>>
    BY <1>23 DEF SignalAudio, decoderVars
  <2>2. PcTyped' /\ pc'["display"] \in {"joinD"}
        /\ (\A u \in Threads : u # "display" =>
              pc'[u] = IF pc[u] \in {"pushAWait", "playWait"} THEN Retry[pc[u]] ELSE pc[u])
    <3>1. \E l \in {"joinD"} : GoAndWake("display", l, {"pushAWait", "playWait"})
      BY <1>23 DEF SignalAudio
    <3> QED BY <1>0, <3>1, GoAndWakeMovesTwo DEF Threads, Labels, WaitLabels, Retry
  <2>3. DataTyped'
    BY <1>0, <2>1, <1>23 DEF SignalAudio, DataTyped, decoderVars, displayVars, audioVars
  <2>4. HandsFull'
    BY <1>0, <2>1, <2>2, <1>23
    DEF SignalAudio, HandsFull, Threads, Stamped, Pts, Retry, displayVars, audioVars
  <2> QED BY <1>0, <2>1, <2>2, <2>3, <2>4, RingsUnchanged
<1>24. CASE Join
  <2>1. UNCHANGED <<file, vq, aq, pos>>
    BY <1>24 DEF Join, decoderVars
  <2>2. PcTyped' /\ pc'["display"] \in {"joinA", "exit"}
        /\ (\A u \in Threads : u # "display" => pc'[u] = pc[u])
    <3>1. \E l \in {"joinA", "exit"} : Go("display", l)
      BY <1>24 DEF Join
    <3> QED BY <1>0, <3>1, GoMovesOne DEF Threads, Labels
  <2>3. DataTyped'
    BY <1>0, <2>1, <1>24 DEF Join, DataTyped, decoderVars, displayVars, audioVars
  <2>4. HandsFull'
    BY <1>0, <2>1, <2>2, <1>24
    DEF Join, HandsFull, Threads, Stamped, Pts, Retry, displayVars, audioVars
  <2> QED BY <1>0, <2>1, <2>2, <2>3, <2>4, RingsUnchanged
<1>25. CASE Signal
  <2>1. UNCHANGED <<file, vq, aq, pos, pc>>
    BY <1>25 DEF Signal, decoderVars
  <2>2. DataTyped'
    BY <1>0, <2>1, <1>25 DEF Signal, DataTyped, displayVars, audioVars
  <2>3. HandsFull' /\ PcTyped'
    BY <1>0, <2>1, <1>25 DEF Signal, HandsFull, PcTyped, Stamped, Pts, displayVars, audioVars
  <2> QED BY <1>0, <2>1, <2>2, <2>3, RingsUnchanged
<1>26. CASE SpuriousWakeup
  <2>1. UNCHANGED <<file, vq, aq, pos>>
    BY <1>26 DEF SpuriousWakeup, decoderVars
  <2>2. PICK t \in Threads : pc[t] \in WaitLabels /\ Go(t, Retry[pc[t]])
    BY <1>26 DEF SpuriousWakeup
  <2>3. Retry[pc[t]] \in Labels[t]
    BY <1>0, <2>2 DEF PcTyped, WaitLabels, Retry, Labels, Threads
  <2>4. PcTyped' /\ pc'[t] = Retry[pc[t]] /\ (\A u \in Threads : u # t => pc'[u] = pc[u])
    BY <1>0, <2>2, <2>3, GoMovesOne
  <2>5. DataTyped'
    BY <1>0, <2>1, <1>26 DEF SpuriousWakeup, DataTyped, displayVars, audioVars
  <2>6. HandsFull'
    BY <1>0, <2>1, <2>2, <2>4, <1>26
    DEF SpuriousWakeup, HandsFull, Threads, Stamped, Pts, Retry, WaitLabels, displayVars, audioVars
  <2> QED BY <1>0, <2>1, <2>4, <2>5, <2>6, RingsUnchanged
<1>27. CASE Tick
  <2>1. UNCHANGED <<file, vq, aq, pos, pc>>
    BY <1>27 DEF Tick, decoderVars
  <2>2. DataTyped'
    BY <1>0, <2>1, <1>27 DEF Tick, DataTyped, displayVars, audioVars
  <2>3. HandsFull' /\ PcTyped'
    BY <1>0, <2>1, <1>27 DEF Tick, HandsFull, PcTyped, Stamped, Pts, displayVars, audioVars
  <2> QED BY <1>0, <2>1, <2>2, <2>3, RingsUnchanged
<1>28. CASE UNCHANGED vars
  BY <1>0, <1>28 DEF vars, PcTyped, DataTyped, RingOwnership, Owned, Window, Slots, HandsFull,
    QueuedStamped, Stamped, Pts
<1> QED
  BY <1>2, <1>3, <1>4, <1>5, <1>6, <1>7, <1>8, <1>9, <1>10, <1>11, <1>12, <1>13, <1>14,
     <1>15, <1>16, <1>17, <1>18, <1>19, <1>20, <1>21, <1>22, <1>23, <1>24, <1>25, <1>26,
     <1>27, <1>28
  DEF Next, Decoder, Audio, Display, Ended

\* The state of the program keeps its shape: no ring overflows, and no clock is
\* computed from a frame without a timestamp.
THEOREM TypeCorrect == Spec => []TypeOK
PROOF
<1>1. IInv => TypeOK
  BY DEF IInv
<1> QED BY InitIInv, NextIInv, <1>1, PTL DEF Spec

\* The ownership protocol of the rings: a slot holds a frame exactly while it is queued.
THEOREM OwnershipKept == Spec => []RingOwnership
PROOF
<1>1. IInv => RingOwnership
  BY DEF IInv
<1> QED BY InitIInv, NextIInv, <1>1, PTL DEF Spec
-----------------------------------------------------------------------------
(* Sleepers.  That a sleeper keeps its reason is inductive with the types; *)
(* that none is left at the join needs to know how far the shutdown has    *)
(* come, and that without audio nobody touches the audio queue.            *)

ShutdownProgress ==
  /\ pc["display"] \in {"signalV", "signalA", "joinD", "joinA", "exit"} => stop
  /\ pc["display"] \in {"signalA", "joinD", "joinA", "exit"} => pc["decoder"] # "pushVWait"
  /\ pc["display"] \in {"joinD", "joinA", "exit"} =>
       pc["decoder"] # "pushAWait" /\ pc["audio"] # "playWait"
  /\ ~adec => pc["audio"] = "exit" /\ pc["decoder"] \notin {"pushA", "pushAWait"}

SleepInv == SleepersJustified /\ ShutdownProgress

LEMMA InitSleepInv == Init => SleepInv
PROOF
<1> SUFFICES ASSUME Init PROVE SleepInv
  OBVIOUS
<1>1. pc["decoder"] = "read" /\ pc["display"] = "pop"
      /\ pc["audio"] = (IF adec THEN "pre" ELSE "exit")
  BY DEF Init, Threads
<1> QED BY <1>1 DEF SleepInv, SleepersJustified, ShutdownProgress, At

LEMMA NextSleepInv == TypeOK /\ SleepInv /\ [Next]_vars => SleepInv'
PROOF
<1> SUFFICES ASSUME TypeOK, SleepInv, [Next]_vars PROVE SleepInv'
  OBVIOUS
<1> USE DEF At, SleepInv, SleepersJustified, ShutdownProgress
<1>0. PcTyped /\ {stop} \subseteq BOOLEAN
  BY TypeParts DEF DataTyped
<1>1. "decoder" \in Threads /\ "audio" \in Threads /\ "display" \in Threads
  BY DEF Threads
<1>adec. adec' = adec
  BY DEF Next, Decoder, Read, PushVideo, PushAudio, EofVideo, EofAudio,
         Audio, PreCheck, Discard, OpenAlsa, PopAudio, WriteAlsa, DrainAlsa,
         Display, PopVideo, Begin, PaceByAudio, PaceByWall, Spin, Convert, Sleep, Flip,
         Shut, SignalVideo, SignalAudio, Join, Signal, SpuriousWakeup, Tick, Ended, vars
<1>2. CASE Read
  <2>1. UNCHANGED <<vq, aq, stop>> /\ pc["decoder"] = "read"
    BY <1>2 DEF Read
  <2>2. \E l \in {"read", "eofV", "pushV", "pushA"} : Go("decoder", l) /\ (l = "pushA" => adec)
    BY <1>2 DEF Read, Queued
  <2>3. PcTyped' /\ pc'["decoder"] \in {"read", "eofV", "pushV", "pushA"}
        /\ (pc'["decoder"] = "pushA" => adec)
        /\ (\A u \in Threads : u # "decoder" => pc'[u] = pc[u])
    BY <1>0, <2>2, GoMovesOne DEF Threads, Labels
  <2> QED BY <1>adec, <1>1, <2>1, <2>3
<1>3. CASE PushVideo
  <2>1. stop' = stop /\ aq' = aq /\ pc["decoder"] = "pushV"
    BY <1>3 DEF PushVideo
  <2>2. CASE /\ UNCHANGED vq
             /\ \/ Go("decoder", "eofV")
                \/ Go("decoder", "pushVWait") /\ ~stop /\ vq.count = VDepth
    <3>1. PcTyped' /\ (\A u \in Threads : u # "decoder" => pc'[u] = pc[u])
          /\ \/ pc'["decoder"] = "eofV"
             \/ pc'["decoder"] = "pushVWait" /\ ~stop /\ vq.count = VDepth
      BY <1>0, <2>2, GoMovesOne DEF Threads, Labels
    <3> QED BY <1>1, <1>adec, <2>1, <2>2, <3>1
  <2>3. CASE GoAndWake("decoder", "read", {"popWait"})
    <3>1. PcTyped' /\ pc'["decoder"] = "read"
          /\ (\A u \in Threads : u # "decoder" =>
                pc'[u] = IF pc[u] = "popWait" THEN Retry["popWait"] ELSE pc[u])
      BY <1>0, <2>3, GoAndWakeMovesTwo DEF Threads, Labels, WaitLabels, Retry
    <3> QED BY <1>1, <1>adec, <2>1, <3>1 DEF Retry
  <2> QED BY <1>adec, <2>2, <2>3, <1>3 DEF PushVideo
<1>4. CASE PushAudio
  <2>1. stop' = stop /\ vq' = vq /\ pc["decoder"] = "pushA"
    BY <1>4 DEF PushAudio
  <2>2. CASE /\ UNCHANGED aq
             /\ \/ Go("decoder", "eofV")
                \/ Go("decoder", "pushAWait") /\ ~stop /\ aq.count = ADepth
    <3>1. PcTyped' /\ (\A u \in Threads : u # "decoder" => pc'[u] = pc[u])
          /\ \/ pc'["decoder"] = "eofV"
             \/ pc'["decoder"] = "pushAWait" /\ ~stop /\ aq.count = ADepth
      BY <1>0, <2>2, GoMovesOne DEF Threads, Labels
    <3> QED BY <1>1, <1>adec, <2>1, <2>2, <3>1
  <2>3. CASE GoAndWake("decoder", "read", {"playWait"})
    <3>1. PcTyped' /\ pc'["decoder"] = "read"
          /\ (\A u \in Threads : u # "decoder" =>
                pc'[u] = IF pc[u] = "playWait" THEN Retry["playWait"] ELSE pc[u])
      BY <1>0, <2>3, GoAndWakeMovesTwo DEF Threads, Labels, WaitLabels, Retry
    <3> QED BY <1>1, <1>adec, <2>1, <3>1 DEF Retry
  <2> QED BY <1>adec, <2>2, <2>3, <1>4 DEF PushAudio
<1>5. CASE EofVideo
  <2>1. stop' = stop /\ aq' = aq /\ pc["decoder"] = "eofV"
    BY <1>5 DEF EofVideo
  <2>2. PcTyped' /\ pc'["decoder"] \in {"eofA", "exit"}
        /\ (\A u \in Threads : u # "decoder" =>
              pc'[u] = IF pc[u] \in {"popWait"} THEN Retry[pc[u]] ELSE pc[u])
    <3>1. \E l \in {"eofA", "exit"} : GoAndWake("decoder", l, {"popWait"})
      BY <1>5 DEF EofVideo
    <3> QED BY <1>0, <3>1, GoAndWakeMovesTwo DEF Threads, Labels, WaitLabels, Retry
  <2> QED BY <1>adec, <1>1, <2>1, <2>2 DEF Retry
<1>6. CASE EofAudio
  <2>1. stop' = stop /\ vq' = vq /\ pc["decoder"] = "eofA"
    BY <1>6 DEF EofAudio
  <2>2. PcTyped' /\ pc'["decoder"] \in {"exit"}
        /\ (\A u \in Threads : u # "decoder" =>
              pc'[u] = IF pc[u] \in {"playWait"} THEN Retry[pc[u]] ELSE pc[u])
    <3>1. \E l \in {"exit"} : GoAndWake("decoder", l, {"playWait"})
      BY <1>6 DEF EofAudio
    <3> QED BY <1>0, <3>1, GoAndWakeMovesTwo DEF Threads, Labels, WaitLabels, Retry
  <2> QED BY <1>adec, <1>1, <2>1, <2>2 DEF Retry
<1>7. CASE PreCheck
  <2>1. UNCHANGED <<vq, aq>> /\ stop' = stop /\ pc["audio"] \in {"pre"}
    BY <1>7 DEF PreCheck
  <2>2. PcTyped' /\ pc'["audio"] \in {"exit", "open", "discard"}
        /\ (\A u \in Threads : u # "audio" => pc'[u] = pc[u])
    <3>1. \E l \in {"exit", "open", "discard"} : Go("audio", l)
      BY <1>7 DEF PreCheck
    <3> QED BY <1>0, <3>1, GoMovesOne DEF Threads, Labels
  <2> QED BY <1>adec, <1>1, <2>1, <2>2 DEF Retry
<1>8. CASE Discard
  <2>1. stop' = stop /\ vq' = vq /\ pc["audio"] = "discard"
    BY <1>8 DEF Discard
  <2>2. CASE UNCHANGED aq /\ Go("audio", "pre")
    <3>1. PcTyped' /\ pc'["audio"] = "pre" /\ (\A u \in Threads : u # "audio" => pc'[u] = pc[u])
      BY <1>0, <2>2, GoMovesOne DEF Threads, Labels
    <3> QED BY <1>1, <1>adec, <2>1, <2>2, <3>1
  <2>3. CASE GoAndWake("audio", "pre", {"pushAWait"})
    <3>1. PcTyped' /\ pc'["audio"] = "pre"
          /\ (\A u \in Threads : u # "audio" =>
                pc'[u] = IF pc[u] = "pushAWait" THEN Retry["pushAWait"] ELSE pc[u])
      BY <1>0, <2>3, GoAndWakeMovesTwo DEF Threads, Labels, WaitLabels, Retry
    <3> QED BY <1>1, <1>adec, <2>1, <3>1 DEF Retry
  <2> QED BY <1>adec, <2>2, <2>3, <1>8 DEF Discard
<1>9. CASE OpenAlsa
  <2>1. UNCHANGED <<vq, aq>> /\ stop' = stop /\ pc["audio"] \in {"open"}
    BY <1>9 DEF OpenAlsa
  <2>2. PcTyped' /\ pc'["audio"] \in {"play", "exit"}
        /\ (\A u \in Threads : u # "audio" => pc'[u] = pc[u])
    <3>1. \E l \in {"play", "exit"} : Go("audio", l)
      BY <1>9 DEF OpenAlsa
    <3> QED BY <1>0, <3>1, GoMovesOne DEF Threads, Labels
  <2> QED BY <1>adec, <1>1, <2>1, <2>2 DEF Retry
<1>10. CASE PopAudio
  <2>1. stop' = stop /\ vq' = vq /\ pc["audio"] = "play"
    BY <1>10 DEF PopAudio
  <2>2. CASE /\ UNCHANGED aq
             /\ \/ Go("audio", "drain")
                \/ Go("audio", "playWait") /\ ~stop /\ aq.count = 0 /\ ~aq.eof
    <3>1. PcTyped' /\ (\A u \in Threads : u # "audio" => pc'[u] = pc[u])
          /\ \/ pc'["audio"] = "drain"
             \/ pc'["audio"] = "playWait" /\ ~stop /\ aq.count = 0 /\ ~aq.eof
      BY <1>0, <2>2, GoMovesOne DEF Threads, Labels
    <3> QED BY <1>1, <1>adec, <2>1, <2>2, <3>1
  <2>3. CASE GoAndWake("audio", "write", {"pushAWait"})
    <3>1. PcTyped' /\ pc'["audio"] = "write"
          /\ (\A u \in Threads : u # "audio" =>
                pc'[u] = IF pc[u] = "pushAWait" THEN Retry["pushAWait"] ELSE pc[u])
      BY <1>0, <2>3, GoAndWakeMovesTwo DEF Threads, Labels, WaitLabels, Retry
    <3> QED BY <1>1, <1>adec, <2>1, <3>1 DEF Retry
  <2> QED BY <1>adec, <2>2, <2>3, <1>10 DEF PopAudio
<1>11. CASE WriteAlsa
  <2>1. UNCHANGED <<vq, aq>> /\ stop' = stop /\ pc["audio"] \in {"write"}
    BY <1>11 DEF WriteAlsa
  <2>2. PcTyped' /\ pc'["audio"] \in {"play"}
        /\ (\A u \in Threads : u # "audio" => pc'[u] = pc[u])
    <3>1. \E l \in {"play"} : Go("audio", l)
      BY <1>11 DEF WriteAlsa
    <3> QED BY <1>0, <3>1, GoMovesOne DEF Threads, Labels
  <2> QED BY <1>adec, <1>1, <2>1, <2>2 DEF Retry
<1>12. CASE DrainAlsa
  <2>1. UNCHANGED <<vq, aq>> /\ stop' = stop /\ pc["audio"] \in {"drain"}
    BY <1>12 DEF DrainAlsa
  <2>2. PcTyped' /\ pc'["audio"] \in {"exit"}
        /\ (\A u \in Threads : u # "audio" => pc'[u] = pc[u])
    <3>1. \E l \in {"exit"} : Go("audio", l)
      BY <1>12 DEF DrainAlsa
    <3> QED BY <1>0, <3>1, GoMovesOne DEF Threads, Labels
  <2> QED BY <1>adec, <1>1, <2>1, <2>2 DEF Retry
<1>13. CASE PopVideo
  <2>1. aq' = aq /\ pc["display"] = "pop"
    BY <1>13 DEF PopVideo
  <2>2. CASE /\ UNCHANGED vq
             /\ \/ Go("display", "shut")
                \/ Go("display", "popWait") /\ ~stop /\ vq.count = 0 /\ ~vq.eof
    <3>1. PcTyped' /\ (\A u \in Threads : u # "display" => pc'[u] = pc[u])
          /\ \/ pc'["display"] = "shut"
             \/ pc'["display"] = "popWait" /\ ~stop /\ vq.count = 0 /\ ~vq.eof
      BY <1>0, <2>2, GoMovesOne DEF Threads, Labels
    <3> QED BY <1>1, <1>adec, <2>1, <2>2, <3>1
  <2>3. CASE GoAndWake("display", "begin", {"pushVWait"})
    <3>1. PcTyped' /\ pc'["display"] = "begin"
          /\ (\A u \in Threads : u # "display" =>
                pc'[u] = IF pc[u] = "pushVWait" THEN Retry["pushVWait"] ELSE pc[u])
      BY <1>0, <2>3, GoAndWakeMovesTwo DEF Threads, Labels, WaitLabels, Retry
    <3> QED BY <1>1, <1>adec, <2>1, <3>1 DEF Retry
  <2> QED BY <1>adec, <2>2, <2>3, <1>13 DEF PopVideo
<1>14. CASE Begin
  <2>1. UNCHANGED <<vq, aq>> /\ stop' = stop /\ pc["display"] \in {"begin"}
    BY <1>14 DEF Begin
  <2>2. PcTyped' /\ pc'["display"] \in {"pace"}
        /\ (\A u \in Threads : u # "display" => pc'[u] = pc[u])
    <3>1. \E l \in {"pace"} : Go("display", l)
      BY <1>14 DEF Begin
    <3> QED BY <1>0, <3>1, GoMovesOne DEF Threads, Labels
  <2> QED BY <1>adec, <1>1, <2>1, <2>2 DEF Retry
<1>15. CASE PaceByAudio
  <2>1. UNCHANGED <<vq, aq>> /\ stop' = stop /\ pc["display"] \in {"pace"}
    BY <1>15 DEF PaceByAudio
  <2>2. PcTyped' /\ pc'["display"] \in {"pop", "spin", "dma"}
        /\ (\A u \in Threads : u # "display" => pc'[u] = pc[u])
    <3>1. \E l \in {"pop", "spin", "dma"} : Go("display", l)
      BY <1>15 DEF PaceByAudio
    <3> QED BY <1>0, <3>1, GoMovesOne DEF Threads, Labels
  <2> QED BY <1>adec, <1>1, <2>1, <2>2 DEF Retry
<1>16. CASE PaceByWall
  <2>1. UNCHANGED <<vq, aq>> /\ stop' = stop /\ pc["display"] \in {"pace"}
    BY <1>16 DEF PaceByWall
  <2>2. PcTyped' /\ pc'["display"] \in {"pop", "dma"}
        /\ (\A u \in Threads : u # "display" => pc'[u] = pc[u])
    <3>1. \E l \in {"pop", "dma"} : Go("display", l)
      BY <1>16 DEF PaceByWall
    <3> QED BY <1>0, <3>1, GoMovesOne DEF Threads, Labels
  <2> QED BY <1>adec, <1>1, <2>1, <2>2 DEF Retry
<1>17. CASE Spin
  <2>1. UNCHANGED <<vq, aq>> /\ stop' = stop /\ pc["display"] \in {"spin"}
    BY <1>17 DEF Spin
  <2>2. PcTyped' /\ pc'["display"] \in {"dma"}
        /\ (\A u \in Threads : u # "display" => pc'[u] = pc[u])
    <3>1. \E l \in {"dma"} : Go("display", l)
      BY <1>17 DEF Spin
    <3> QED BY <1>0, <3>1, GoMovesOne DEF Threads, Labels
  <2> QED BY <1>adec, <1>1, <2>1, <2>2 DEF Retry
<1>18. CASE Convert
  <2>1. UNCHANGED <<vq, aq>> /\ stop' \in {stop, TRUE} /\ pc["display"] \in {"dma"}
    BY <1>18 DEF Convert
  <2>2. PcTyped' /\ pc'["display"] \in {"shut", "flip", "sleep"}
        /\ (\A u \in Threads : u # "display" => pc'[u] = pc[u])
    <3>1. \E l \in {"shut", "flip", "sleep"} : Go("display", l)
      BY <1>18 DEF Convert
    <3> QED BY <1>0, <3>1, GoMovesOne DEF Threads, Labels
  <2> QED BY <1>adec, <1>1, <2>1, <2>2 DEF Retry
<1>19. CASE Sleep
  <2>1. UNCHANGED <<vq, aq>> /\ stop' = stop /\ pc["display"] \in {"sleep"}
    BY <1>19 DEF Sleep
  <2>2. PcTyped' /\ pc'["display"] \in {"flip"}
        /\ (\A u \in Threads : u # "display" => pc'[u] = pc[u])
    <3>1. \E l \in {"flip"} : Go("display", l)
      BY <1>19 DEF Sleep
    <3> QED BY <1>0, <3>1, GoMovesOne DEF Threads, Labels
  <2> QED BY <1>adec, <1>1, <2>1, <2>2 DEF Retry
<1>20. CASE Flip
  <2>1. UNCHANGED <<vq, aq>> /\ stop' = stop /\ pc["display"] \in {"flip"}
    BY <1>20 DEF Flip
  <2>2. PcTyped' /\ pc'["display"] \in {"shut", "pop"}
        /\ (\A u \in Threads : u # "display" => pc'[u] = pc[u])
    <3>1. \E l \in {"shut", "pop"} : Go("display", l)
      BY <1>20 DEF Flip
    <3> QED BY <1>0, <3>1, GoMovesOne DEF Threads, Labels
  <2> QED BY <1>adec, <1>1, <2>1, <2>2 DEF Retry
<1>21. CASE Shut
  <2>1. UNCHANGED <<vq, aq>> /\ stop' = TRUE /\ pc["display"] \in {"shut"}
    BY <1>21 DEF Shut
  <2>2. PcTyped' /\ pc'["display"] \in {"signalV"}
        /\ (\A u \in Threads : u # "display" => pc'[u] = pc[u])
    <3>1. \E l \in {"signalV"} : Go("display", l)
      BY <1>21 DEF Shut
    <3> QED BY <1>0, <3>1, GoMovesOne DEF Threads, Labels
  <2> QED BY <1>adec, <1>1, <2>1, <2>2 DEF Retry
<1>22. CASE SignalVideo
  <2>1. UNCHANGED <<vq, aq, stop>> /\ pc["display"] = "signalV"
    BY <1>22 DEF SignalVideo
  <2>2. PcTyped' /\ pc'["display"] = (IF adec THEN "signalA" ELSE "joinD")
        /\ (\A u \in Threads : u # "display" =>
              pc'[u] = IF pc[u] = "pushVWait" THEN Retry["pushVWait"] ELSE pc[u])
    BY <1>0, <1>22, GoAndWakeMovesTwo DEF SignalVideo, Threads, Labels, WaitLabels, Retry
  <2> QED BY <1>adec, <1>1, <2>1, <2>2 DEF Retry
<1>23. CASE SignalAudio
  <2>1. UNCHANGED <<vq, aq>> /\ stop' = stop /\ pc["display"] \in {"signalA"}
    BY <1>23 DEF SignalAudio
  <2>2. PcTyped' /\ pc'["display"] \in {"joinD"}
        /\ (\A u \in Threads : u # "display" =>
              pc'[u] = IF pc[u] \in {"pushAWait", "playWait"} THEN Retry[pc[u]] ELSE pc[u])
    <3>1. \E l \in {"joinD"} : GoAndWake("display", l, {"pushAWait", "playWait"})
      BY <1>23 DEF SignalAudio
    <3> QED BY <1>0, <3>1, GoAndWakeMovesTwo DEF Threads, Labels, WaitLabels, Retry
  <2> QED BY <1>adec, <1>1, <2>1, <2>2 DEF Retry
<1>24. CASE Join
  <2>1. UNCHANGED <<vq, aq>> /\ stop' = stop /\ pc["display"] \in {"joinD", "joinA"}
    BY <1>24 DEF Join
  <2>2. PcTyped' /\ pc'["display"] \in {"joinA", "exit"}
        /\ (\A u \in Threads : u # "display" => pc'[u] = pc[u])
    <3>1. \E l \in {"joinA", "exit"} : Go("display", l)
      BY <1>24 DEF Join
    <3> QED BY <1>0, <3>1, GoMovesOne DEF Threads, Labels
  <2> QED BY <1>adec, <1>1, <2>1, <2>2 DEF Retry
<1>25. CASE Signal
  <2>1. UNCHANGED <<vq, aq, pc>> /\ stop' = TRUE
    BY <1>25 DEF Signal
  <2> QED BY <1>adec, <2>1
<1>26. CASE SpuriousWakeup
  <2>1. UNCHANGED <<vq, aq, stop>>
    BY <1>26 DEF SpuriousWakeup
  <2>2. PICK t \in Threads : pc[t] \in WaitLabels /\ Go(t, Retry[pc[t]])
    BY <1>26 DEF SpuriousWakeup
  <2>3. Retry[pc[t]] \in Labels[t]
    BY <1>0, <2>2 DEF PcTyped, WaitLabels, Retry, Labels, Threads
  <2>4. pc'[t] = Retry[pc[t]] /\ (\A u \in Threads : u # t => pc'[u] = pc[u])
    BY <1>0, <2>2, <2>3, GoMovesOne
  <2> QED BY <1>adec, <1>0, <1>1, <2>1, <2>2, <2>4 DEF Retry, WaitLabels, PcTyped, Labels, Threads
<1>27. CASE Tick
  BY <1>27, <1>adec DEF Tick
<1>28. CASE UNCHANGED vars
  BY <1>28, <1>adec DEF vars
<1> QED
  BY <1>2, <1>3, <1>4, <1>5, <1>6, <1>7, <1>8, <1>9, <1>10, <1>11, <1>12, <1>13, <1>14,
     <1>15, <1>16, <1>17, <1>18, <1>19, <1>20, <1>21, <1>22, <1>23, <1>24, <1>25, <1>26,
     <1>27, <1>28
  DEF Next, Decoder, Audio, Display, Ended

\* No lost wakeup: no interleaving lets a thread sleep on a condition variable after
\* the condition it waits for has come true.
THEOREM NoLostWakeup == Spec => []SleepersJustified
PROOF
<1>1. SleepInv => SleepersJustified
  BY DEF SleepInv
<1> QED BY InitSleepInv, NextSleepInv, TypeCorrect, <1>1, PTL DEF Spec

\* The shutdown of play_video never joins a thread that sleeps.
THEOREM JoinMeetsNoSleeper == Spec => []NoSleeperAtJoin
PROOF
<1>1. TypeOK /\ SleepInv => NoSleeperAtJoin
  <2> SUFFICES ASSUME TypeOK, SleepInv, pc["display"] \in {"joinD", "joinA", "exit"}
               PROVE  stop /\ \A t \in Threads : pc[t] \notin WaitLabels
    BY DEF NoSleeperAtJoin
  <2> QED BY DEF TypeOK, SleepInv, ShutdownProgress, WaitLabels, Retry, Threads, Labels
<1> QED BY InitSleepInv, NextSleepInv, TypeCorrect, <1>1, PTL DEF Spec
-----------------------------------------------------------------------------
(* The order of the pictures.  What was shown, what the display thread     *)
(* holds and what is queued follow each other in the file, and none of it  *)
(* lies behind the last frame that has left the decoder's hand.            *)

Queue(q, k) == q.slot[Wrap(q.head + k, VDepth)]

InOrder(s, hand, q, newest) ==
  /\ \A i, j \in 1 .. Len(s) : i < j => s[i] < s[j]
  /\ \A i \in 1 .. Len(s), f \in hand : s[i] < f
  /\ \A i \in 1 .. Len(s), k \in 0 .. q.count - 1 : s[i] < Queue(q, k)
  /\ \A f \in hand, k \in 0 .. q.count - 1 : f < Queue(q, k)
  /\ \A k, m \in 0 .. q.count - 1 : k < m => Queue(q, k) < Queue(q, m)
  /\ \A i \in 1 .. Len(s) : s[i] <= newest
  /\ \A f \in hand : f <= newest
  /\ \A k \in 0 .. q.count - 1 : Queue(q, k) <= newest

Holding == {"begin", "pace", "spin", "dma", "sleep", "flip"}
Pushing == {"pushV", "pushVWait"}
Hand == IF pc["display"] \in Holding THEN {frame} ELSE {}
Newest == IF pc["decoder"] \in Pushing THEN pos - 1 ELSE pos

OrderInv == shown \in Seq(Nat) /\ InOrder(shown, Hand, vq, Newest)

\* Places of a ring: different while less than its depth apart, and one further on from
\* the next head.
LEMMA WrapApart ==
  ASSUME NEW d \in Nat \ {0}, NEW h \in 0 .. d - 1, NEW k \in 0 .. d - 1, NEW m \in 0 .. d - 1, k < m
  PROVE  Wrap(h + k, d) \in Slots(d) /\ Wrap(h + m, d) \in Slots(d) /\ Wrap(h + k, d) # Wrap(h + m, d)
BY DEF Wrap, Slots

LEMMA WrapStep ==
  ASSUME NEW d \in Nat \ {0}, NEW h \in 0 .. d - 1, NEW k \in 0 .. d - 1, k + 1 < d
  PROVE  Wrap(Wrap(h + 1, d) + k, d) = Wrap(h + (k + 1), d)
BY DEF Wrap

\* A frame that is dropped, or that goes to another queue, leaves the rest in order.
LEMMA LessInOrder ==
  ASSUME NEW s \in Seq(Nat), NEW h \in SUBSET Nat, NEW g \in SUBSET h,
         NEW q \in RingType(VDepth), NEW r \in RingType(VDepth),
         r.slot = q.slot, r.head = q.head, r.count = q.count,
         NEW n \in Int, NEW m \in Int, n <= m, InOrder(s, h, q, n)
  PROVE  InOrder(s, g, r, m)
<1>1. \A k : Queue(r, k) = Queue(q, k)
  BY DEF Queue
<1>2. \A k \in 0 .. q.count - 1 : Queue(q, k) \in Nat
  BY DepthAssumption DEF Queue, RingType, Slots, Wrap
<1>3. (\A i \in 1 .. Len(s) : s[i] \in Nat) /\ \A f \in h : f \in Nat
  OBVIOUS
<1> QED BY <1>1, <1>2, <1>3 DEF InOrder

\* A frame further on in the file is pushed.
LEMMA PushInOrder ==
  ASSUME NEW s \in Seq(Nat), NEW h \in SUBSET Nat, NEW q \in RingType(VDepth), q.count < VDepth,
         NEW n \in Int, NEW f \in Nat, n < f, InOrder(s, h, q, n)
  PROVE  InOrder(s, h, Pushed(q, VDepth, f), f)
<1> DEFINE p == Pushed(q, VDepth, f)
<1>1. q.head \in 0 .. VDepth - 1 /\ q.count \in 0 .. VDepth - 1 /\ VDepth \in Nat
  BY DepthAssumption DEF RingType, Slots
<1>2. p.head = q.head /\ p.count = q.count + 1
      /\ \A t \in Slots(VDepth) : p.slot[t] = IF t = Wrap(q.head + q.count, VDepth) THEN f ELSE q.slot[t]
  BY DEF Pushed, RingType
<1>3. Queue(p, q.count) = f
  BY <1>1, <1>2 DEF Queue, Wrap, Slots
<1>4. ASSUME NEW k \in 0 .. q.count - 1 PROVE Queue(p, k) = Queue(q, k) /\ Queue(q, k) \in Nat
  <2>1. Wrap(q.head + k, VDepth) \in Slots(VDepth) /\ Wrap(q.head + k, VDepth) # Wrap(q.head + q.count, VDepth)
    <3>1. k \in 0 .. VDepth - 1 /\ k < q.count
      BY <1>1
    <3> QED BY <1>1, <3>1, WrapApart, DepthAssumption
  <2> QED BY <1>2, <2>1 DEF Queue, RingType
<1>5. (\A i \in 1 .. Len(s) : s[i] \in Nat) /\ \A g \in h : g \in Nat
  OBVIOUS
<1>6. \A k \in 0 .. p.count - 1 : k \in 0 .. q.count - 1 \/ k = q.count
  BY <1>1, <1>2
<1> HIDE DEF p
<1>7. \A k \in 0 .. p.count - 1 : Queue(p, k) <= f
  BY <1>3, <1>4, <1>6 DEF InOrder
<1>8. \A i \in 1 .. Len(s), k \in 0 .. p.count - 1 : s[i] < Queue(p, k)
  BY <1>3, <1>4, <1>5, <1>6 DEF InOrder
<1>9. \A g \in h, k \in 0 .. p.count - 1 : g < Queue(p, k)
  BY <1>3, <1>4, <1>5, <1>6 DEF InOrder
<1>10. ASSUME NEW k \in 0 .. p.count - 1, NEW m \in 0 .. p.count - 1, k < m PROVE Queue(p, k) < Queue(p, m)
  <2>1. k \in 0 .. q.count - 1
    BY <1>1, <1>2, <1>10
  <2> QED BY <1>3, <1>4, <1>6, <1>10, <2>1 DEF InOrder
<1>11. (\A i \in 1 .. Len(s) : s[i] <= f) /\ \A g \in h : g <= f
  BY <1>5 DEF InOrder
<1>12. InOrder(s, h, p, f)
  BY <1>7, <1>8, <1>9, <1>10, <1>11 DEF InOrder
<1> QED BY <1>12 DEF p

\* The display thread, with nothing in its hand, takes the oldest frame.
LEMMA PopInOrder ==
  ASSUME NEW s \in Seq(Nat), NEW q \in RingType(VDepth), q.count > 0, NEW n \in Int, InOrder(s, {}, q, n)
  PROVE  InOrder(s, {Oldest(q)}, Popped(q, VDepth), n)
<1> DEFINE p == Popped(q, VDepth)
<1>1. q.head \in 0 .. VDepth - 1 /\ q.count \in 1 .. VDepth /\ VDepth \in Nat
  BY DepthAssumption DEF RingType, Slots
<1>2. p.head = Wrap(q.head + 1, VDepth) /\ p.count = q.count - 1
      /\ \A t \in Slots(VDepth) : p.slot[t] = IF t = q.head THEN Empty ELSE q.slot[t]
  BY DEF Popped, RingType
<1>3. Oldest(q) = Queue(q, 0)
  BY <1>1 DEF Oldest, Queue, Wrap
<1>4. ASSUME NEW k \in 0 .. p.count - 1
      PROVE  Queue(p, k) = Queue(q, k + 1) /\ k + 1 \in 0 .. q.count - 1
  <2>0. k \in 0 .. VDepth - 1 /\ k + 1 \in 0 .. VDepth - 1 /\ 0 < k + 1 /\ k + 1 \in 0 .. q.count - 1
    <3> HIDE DEF p
    <3> QED BY SMTT(30), <1>1, <1>2
  <2>1. Wrap(p.head + k, VDepth) = Wrap(q.head + (k + 1), VDepth)
    <3>1. Wrap(Wrap(q.head + 1, VDepth) + k, VDepth) = Wrap(q.head + (k + 1), VDepth)
      <4>1. k + 1 < VDepth
        BY <1>1, <2>0
      <4> QED BY <1>1, <2>0, <4>1, WrapStep, DepthAssumption
    <3> HIDE DEF p
    <3> QED BY <1>2, <3>1
  <2>2. Wrap(q.head + (k + 1), VDepth) \in Slots(VDepth) /\ Wrap(q.head + (k + 1), VDepth) # q.head
    <3>1. Wrap(q.head + 0, VDepth) = q.head /\ 0 \in 0 .. VDepth - 1
      BY <1>1 DEF Wrap
    <3> QED BY <1>1, <2>0, <3>1, WrapApart, DepthAssumption
  <2> QED BY <1>2, <2>0, <2>1, <2>2 DEF Queue
<1>5. \A k, m \in 0 .. p.count - 1 : k < m => k + 1 < m + 1
  BY <1>1, <1>2
<1>6. \A k \in 0 .. p.count - 1 : 0 < k + 1
  BY <1>1, <1>2
<1>7. 0 \in 0 .. q.count - 1
  BY <1>1
<1> HIDE DEF p
<1>8. InOrder(s, {Oldest(q)}, p, n)
  BY <1>3, <1>4, <1>5, <1>6, <1>7 DEF InOrder
<1> QED BY <1>8 DEF p

\* The frame in the hand goes to the screen.
LEMMA ShowInOrder ==
  ASSUME NEW s \in Seq(Nat), NEW f \in Nat, NEW q \in RingType(VDepth), NEW n \in Int, InOrder(s, {f}, q, n)
  PROVE  InOrder(Append(s, f), {}, q, n)
<1>1. Len(Append(s, f)) = Len(s) + 1 /\ Len(s) \in Nat
  OBVIOUS
<1>2. \A i \in 1 .. Len(s) + 1 : Append(s, f)[i] = IF i = Len(s) + 1 THEN f ELSE s[i]
  OBVIOUS
<1>3. \A i \in 1 .. Len(s) + 1 : i \in 1 .. Len(s) \/ i = Len(s) + 1
  BY <1>1
<1>4. \A i, j \in 1 .. Len(s) + 1 : i < j => i \in 1 .. Len(s)
  BY <1>1
<1>5. PICK t : t = Append(s, f)
  OBVIOUS
<1>6. Len(t) = Len(s) + 1 /\ \A i \in 1 .. Len(t) : t[i] = (IF i = Len(s) + 1 THEN f ELSE s[i])
  BY <1>1, <1>2, <1>5
<1>7. \A i, j \in 1 .. Len(t) : i < j => t[i] < t[j]
  BY <1>3, <1>4, <1>6 DEF InOrder
<1>8. \A i \in 1 .. Len(t), k \in 0 .. q.count - 1 : t[i] < Queue(q, k)
  BY <1>3, <1>6 DEF InOrder
<1>9. \A i \in 1 .. Len(t) : t[i] <= n
  BY <1>3, <1>6 DEF InOrder
<1>10. InOrder(t, {}, q, n)
  BY <1>7, <1>8, <1>9 DEF InOrder
<1> QED BY <1>5, <1>10

\* A step of one thread moves no other into or out of its hand.
LEMMA OthersStay ==
  ASSUME PcTyped, NEW t \in Threads, NEW l \in Labels[t], NEW ws \in SUBSET WaitLabels,
         Go(t, l) \/ GoAndWake(t, l, ws)
  PROVE  /\ pc'[t] = l
         /\ t # "display" => (pc'["display"] \in Holding <=> pc["display"] \in Holding)
         /\ t # "decoder" => (pc'["decoder"] \in Pushing <=> pc["decoder"] \in Pushing)
<1>1. \A u \in Threads : u # t => pc'[u] = pc[u] \/ (pc[u] \in WaitLabels /\ pc'[u] = Retry[pc[u]])
  BY GoMovesOne, GoAndWakeMovesTwo
<1>2. pc["display"] \in WaitLabels => pc["display"] = "popWait"
  BY DEF PcTyped, Labels, Threads, WaitLabels, Retry
<1>3. pc["decoder"] \in WaitLabels => pc["decoder"] \in {"pushVWait", "pushAWait"}
  BY DEF PcTyped, Labels, Threads, WaitLabels, Retry
<1>4. Retry["popWait"] = "pop" /\ Retry["pushVWait"] = "pushV" /\ Retry["pushAWait"] = "pushA"
  BY DEF Retry
<1>5. pc'[t] = l
  BY GoMovesOne, GoAndWakeMovesTwo
<1> QED BY <1>1, <1>2, <1>3, <1>4, <1>5 DEF Threads, Holding, Pushing

LEMMA OrderInit == Init => OrderInv
<1> SUFFICES ASSUME Init PROVE OrderInv
  OBVIOUS
<1>1. shown = <<>> /\ vq.count = 0 /\ pc["display"] = "pop"
  BY DEF Init, EmptyRing, Threads
<1>2. Hand = {} /\ Len(shown) = 0
  BY <1>1 DEF Hand, Holding
<1> QED BY <1>1, <1>2 DEF OrderInv, InOrder

\* What is needed of a step that neither pushes, pops nor shows.
LEMMA OrderKept ==
  ASSUME TypeOK, TypeOK', OrderInv, UNCHANGED shown, Hand' \subseteq Hand, Newest <= Newest',
         vq'.slot = vq.slot, vq'.head = vq.head, vq'.count = vq.count
  PROVE  OrderInv'
<1>1. vq \in RingType(VDepth) /\ vq' \in RingType(VDepth)
  BY DEF TypeOK
<1>2. Newest \in Int /\ Newest' \in Int /\ Hand \in SUBSET Nat
  BY DEF TypeOK, Newest, Hand
<1>3. PICK h, n : h = Hand' /\ n = Newest'
  OBVIOUS
<1>4. InOrder(shown, h, vq', n)
  BY <1>1, <1>2, <1>3, LessInOrder DEF OrderInv
<1> QED BY <1>3, <1>4 DEF OrderInv, InOrder, Queue

LEMMA DecoderOrder == TypeOK /\ TypeOK' /\ OrderInv /\ Decoder => OrderInv'
<1> SUFFICES ASSUME TypeOK, TypeOK', OrderInv, Decoder PROVE OrderInv'
  OBVIOUS
<1>1. PcTyped /\ pos \in Nat /\ pos' \in Nat /\ "decoder" \in Threads
  BY TypeParts DEF TypeOK, Threads
<1>2. UNCHANGED <<shown, frame>>
  BY DEF Decoder, Read, PushVideo, PushAudio, EofVideo, EofAudio, displayVars
<1>3. PICK l \in Labels["decoder"], ws \in SUBSET WaitLabels : Go("decoder", l) \/ GoAndWake("decoder", l, ws)
  BY DEF Decoder, Read, PushVideo, PushAudio, EofVideo, EofAudio, Labels, WaitLabels, Retry
<1>4. Hand' = Hand
  BY <1>1, <1>2, <1>3, OthersStay DEF Hand
<1>5. CASE Read
  <2>1. pc["decoder"] = "read" /\ vq' = vq /\ (pos' = pos + 1 \/ (pos' = pos /\ pc'["decoder"] = "eofV"))
    BY <1>1, <1>5, GoMovesOne DEF Read, At, Labels
  <2>2. Newest <= Newest'
    <3>1. Newest = pos
      BY <2>1 DEF Newest, Pushing
    <3>2. pos' = pos + 1 \/ Newest' = pos'
      BY <2>1 DEF Newest, Pushing
    <3>3. Newest' \in {pos' - 1, pos'}
      BY DEF Newest
    <3>4. CASE pos' = pos + 1
      <4>1. Newest' \in {pos, pos + 1}
        BY <1>1, <3>3, <3>4
      <4> QED BY <1>1, <3>1, <4>1
    <3>5. CASE pos' # pos + 1
      BY <1>1, <2>1, <3>1, <3>2, <3>5
    <3> QED BY <3>4, <3>5
  <2> QED BY <1>2, <1>4, <2>1, <2>2, OrderKept
<1>6. CASE PushVideo /\ vq' # vq
  <2>1. /\ pc["decoder"] = "pushV" /\ vq' = Pushed(vq, VDepth, pos) /\ vq.count < VDepth /\ pos' = pos
        /\ GoAndWake("decoder", "read", {"popWait"})
    BY <1>6 DEF PushVideo, At, decoderVars
  <2>2. pc'["decoder"] = "read"
    BY <1>1, <2>1, GoAndWakeMovesTwo DEF Labels, WaitLabels, Retry
  <2>3. Newest = pos - 1 /\ Newest' = pos
    BY <2>1, <2>2 DEF Newest, Pushing
  <2>4. vq \in RingType(VDepth) /\ Hand \in SUBSET Nat /\ shown \in Seq(Nat) /\ InOrder(shown, Hand, vq, Newest)
    BY DEF TypeOK, Hand, OrderInv
  <2>5. PICK h, n, q : h = Hand /\ n = pos /\ q = vq'
    OBVIOUS
  <2>6. InOrder(shown, h, q, n)
    BY <1>1, <2>1, <2>3, <2>4, <2>5, PushInOrder
  <2> QED BY <1>2, <1>4, <2>3, <2>4, <2>5, <2>6 DEF OrderInv
<1>7. CASE (PushVideo /\ vq' = vq) \/ PushAudio \/ EofVideo \/ EofAudio
  <2>1. pos' = pos /\ vq'.slot = vq.slot /\ vq'.head = vq.head /\ vq'.count = vq.count
    BY <1>7 DEF PushVideo, PushAudio, EofVideo, EofAudio, decoderVars, TypeOK, RingType
  <2>2. pc'["decoder"] \in Pushing => pc["decoder"] \in Pushing
    <3>1. l \in Pushing => pc["decoder"] \in Pushing
      <4>1. pc'["decoder"] = l
        BY <1>1, <1>3, OthersStay
      <4>2. CASE PushVideo
        BY <4>2 DEF PushVideo, At, Pushing
      <4>3. CASE PushAudio \/ EofVideo \/ EofAudio
        <5>1. pc'["decoder"] \in {"eofV", "pushAWait", "read", "eofA", "exit"}
          BY <1>1, <4>3, GoMovesOne, GoAndWakeMovesTwo
            DEF PushAudio, EofVideo, EofAudio, Labels, WaitLabels, Retry
        <5> QED BY <4>1, <5>1 DEF Pushing
      <4> QED BY <1>7, <4>2, <4>3
    <3> QED BY <1>1, <1>3, <3>1, OthersStay
  <2>3. Newest <= Newest'
    BY <1>1, <2>1, <2>2 DEF Newest
  <2> QED BY <1>2, <1>4, <2>1, <2>3, OrderKept
<1> QED BY <1>5, <1>6, <1>7 DEF Decoder

LEMMA DisplayOrder == TypeOK /\ TypeOK' /\ OrderInv /\ Display => OrderInv'
<1> SUFFICES ASSUME TypeOK, TypeOK', OrderInv, Display PROVE OrderInv'
  OBVIOUS
<1>1. PcTyped /\ pos \in Nat /\ frame \in Nat /\ "display" \in Threads /\ "decoder" \in Threads
  BY TypeParts DEF TypeOK, Threads
<1> USE DEF Display, PopVideo, Begin, PaceByAudio, PaceByWall, Spin, Convert, Sleep, Flip,
            Shut, SignalVideo, SignalAudio, Join, displayVars, decoderVars, At
<1>2. pos' = pos
  OBVIOUS
<1>3. PICK l \in Labels["display"], ws \in SUBSET WaitLabels : Go("display", l) \/ GoAndWake("display", l, ws)
  BY DEF Labels, WaitLabels, Retry
<1>4. Newest' = Newest /\ pc'["display"] = l
  BY <1>1, <1>2, <1>3, OthersStay DEF Newest
<1>5. CASE PopVideo /\ vq' # vq
  <2>1. /\ pc["display"] = "pop" /\ vq' = Popped(vq, VDepth) /\ vq.count > 0 /\ frame' = Oldest(vq)
        /\ shown' = shown /\ GoAndWake("display", "begin", {"pushVWait"})
    BY <1>5
  <2>2. pc'["display"] = "begin"
    BY <1>1, <2>1, GoAndWakeMovesTwo DEF Labels, WaitLabels, Retry
  <2>3. Hand = {} /\ Hand' = {Oldest(vq)}
    BY <2>1, <2>2 DEF Hand, Holding
  <2>4. vq \in RingType(VDepth) /\ shown \in Seq(Nat) /\ InOrder(shown, {}, vq, Newest) /\ Newest \in Int
    BY <1>1, <2>3 DEF TypeOK, OrderInv, Newest
  <2>5. InOrder(shown, {Oldest(vq)}, Popped(vq, VDepth), Newest)
    BY <2>1, <2>4, PopInOrder
  <2> QED BY <1>4, <2>1, <2>3, <2>4, <2>5 DEF OrderInv
<1>6. CASE Flip /\ shown' # shown
  <2>1. pc["display"] = "flip" /\ shown' = Append(shown, frame) /\ vq' = vq /\ Go("display", "pop")
    BY <1>6
  <2>2. pc'["display"] = "pop"
    BY <1>1, <2>1, GoMovesOne DEF Labels
  <2>3. Hand = {frame} /\ Hand' = {}
    BY <2>1, <2>2 DEF Hand, Holding
  <2>4. vq \in RingType(VDepth) /\ shown \in Seq(Nat) /\ InOrder(shown, {frame}, vq, Newest) /\ Newest \in Int
    BY <1>1, <2>3 DEF TypeOK, OrderInv, Newest
  <2>5. InOrder(Append(shown, frame), {}, vq, Newest)
    BY <1>1, <2>4, ShowInOrder
  <2>6. Append(shown, frame) \in Seq(Nat)
    BY <1>1, <2>4
  <2> QED BY <1>4, <2>1, <2>3, <2>5, <2>6 DEF OrderInv
<1>7. CASE ~(PopVideo /\ vq' # vq) /\ ~(Flip /\ shown' # shown)
  <2>1. vq' = vq /\ shown' = shown
    BY <1>7
  <2>2. l \in Holding => pc["display"] \in Holding /\ frame' = frame
    <3>1. ~(pc'["display"] \in Holding) \/ (pc["display"] \in Holding /\ frame' = frame)
      <4>1. CASE PopVideo
        <5>1. vq' # Popped(vq, VDepth)
          <6>1. vq \in RingType(VDepth)
            BY DEF TypeOK
          <6>2. vq.count \in Nat /\ Popped(vq, VDepth).count = vq.count - 1
            BY <6>1 DEF RingType, Popped
          <6> QED BY <2>1, <6>2
        <5> QED BY <1>1, <4>1, <5>1, GoMovesOne DEF Labels, Holding
      <4>2. CASE Begin \/ Spin \/ Sleep
        BY <1>1, <4>2, GoMovesOne DEF Labels, Holding
      <4>3. CASE PaceByAudio \/ PaceByWall
        BY <1>1, <4>3, GoMovesOne DEF Labels, Holding
      <4>4. CASE Convert \/ Flip
        BY <1>1, <4>4, GoMovesOne DEF Labels, Holding
      <4>5. CASE Shut \/ Join
        BY <1>1, <4>5, GoMovesOne DEF Labels, Holding
      <4>6. CASE SignalVideo \/ SignalAudio
        BY ZenonT(30), <1>1, <4>6, GoAndWakeMovesTwo DEF Labels, WaitLabels, Retry, Holding
      <4> QED BY <4>1, <4>2, <4>3, <4>4, <4>5, <4>6
    <3> QED BY <1>4, <3>1
  <2>3. Hand' \subseteq Hand
    BY <1>4, <2>2 DEF Hand
  <2> QED BY <1>1, <1>4, <2>1, <2>3, OrderKept DEF Newest
<1> QED BY <1>5, <1>6, <1>7

LEMMA OrderNext == TypeOK /\ TypeOK' /\ OrderInv /\ [Next]_vars => OrderInv'
<1> SUFFICES ASSUME TypeOK, TypeOK', OrderInv, [Next]_vars PROVE OrderInv'
  OBVIOUS
<1>1. PcTyped /\ pos \in Nat
  BY TypeParts DEF TypeOK
<1>2. ASSUME UNCHANGED <<shown, frame, vq, pos>>,
             pc'["display"] \in Holding <=> pc["display"] \in Holding,
             pc'["decoder"] \in Pushing <=> pc["decoder"] \in Pushing
      PROVE  OrderInv'
  <2>1. Hand' = Hand /\ Newest' = Newest
    BY <1>2 DEF Hand, Newest
  <2> QED BY <1>1, <1>2, <2>1, OrderKept DEF Newest
<1>3. CASE Audio
  <2>1. UNCHANGED <<shown, frame, vq, pos>>
    BY <1>3 DEF Audio, PreCheck, Discard, OpenAlsa, PopAudio, WriteAlsa, DrainAlsa, displayVars, decoderVars
  <2>2. \E l \in Labels["audio"], ws \in SUBSET WaitLabels : Go("audio", l) \/ GoAndWake("audio", l, ws)
    BY <1>3 DEF Audio, PreCheck, Discard, OpenAlsa, PopAudio, WriteAlsa, DrainAlsa, Labels, WaitLabels, Retry
  <2> QED BY <1>1, <1>2, <2>1, <2>2, OthersStay DEF Threads
<1>4. CASE SpuriousWakeup
  <2>1. UNCHANGED <<shown, frame, vq, pos>>
    BY <1>4 DEF SpuriousWakeup, displayVars, decoderVars
  <2>2. PICK t \in Threads : pc[t] \in WaitLabels /\ Go(t, Retry[pc[t]])
    BY <1>4 DEF SpuriousWakeup
  <2>3. Retry[pc[t]] \in Labels[t]
    BY <1>1, <2>2 DEF PcTyped, WaitLabels, Retry, Labels, Threads
  <2>4. pc'[t] = Retry[pc[t]] /\ \A u \in Threads : u # t => pc'[u] = pc[u]
    BY <1>1, <2>2, <2>3, GoMovesOne
  <2>5. (pc'["display"] \in Holding <=> pc["display"] \in Holding)
        /\ (pc'["decoder"] \in Pushing <=> pc["decoder"] \in Pushing)
    BY <2>2, <2>4 DEF WaitLabels, Retry, Threads, Holding, Pushing
  <2> QED BY <1>2, <2>1, <2>5
<1>5. CASE Signal \/ Tick \/ Ended \/ UNCHANGED vars
  BY <1>2, <1>5 DEF Signal, Tick, Ended, vars, displayVars, decoderVars
<1> QED BY <1>3, <1>4, <1>5, DecoderOrder, DisplayOrder DEF Next

\* The screen never goes back: whatever is dropped, late or stopped, each frame shown is
\* further on in the file than the one before.
THEOREM ShownForward == Spec => []ShownInOrder
PROOF
<1>1. OrderInv => ShownInOrder
  BY DEF OrderInv, InOrder, ShownInOrder
<1> QED BY OrderInit, OrderNext, TypeCorrect, <1>1, PTL DEF Spec
-----------------------------------------------------------------------------
(* The streams.  Each ring with what was taken from it is one sequence: a  *)
(* pop leaves it as it is, a push appends the frame in the decoder's hand. *)

FramesOf(s) == {s[i] : i \in 1 .. Len(s)}
UpTo(S, n) == {f \in S : f <= n}

\* The sequence goes through the stream from its first frame on, without a gap.
Consecutive(S, s) ==
  /\ \A i, j \in 1 .. Len(s) : i < j => s[i] < s[j]
  /\ FramesOf(s) \subseteq S
  /\ \A f, g \in S : f < g /\ g \in FramesOf(s) => f \in FramesOf(s)

VideoSoFar == takenV \o Contents(vq, VDepth)
AudioSoFar == takenA \o Contents(aq, ADepth)

PushesV == {"pushV", "pushVWait"}
PushesA == {"pushA", "pushAWait"}
Decoding == pc["decoder"] \in {"read"} \cup PushesV \cup PushesA
NewestV == IF pc["decoder"] \in PushesV THEN pos - 1 ELSE pos
NewestA == IF pc["decoder"] \in PushesA THEN pos - 1 ELSE pos

StreamInv ==
  /\ takenV \in Seq(Nat) /\ takenA \in Seq(Nat)
  /\ pc["decoder"] \in PushesV => pos \in Stream("video")
  /\ pc["decoder"] \in PushesA => pos \in Stream("audio")
  /\ Consecutive(Stream("video"), VideoSoFar)
  /\ Consecutive(Stream("audio"), AudioSoFar)
  /\ Decoding => /\ FramesOf(VideoSoFar) = UpTo(Stream("video"), NewestV)
                 /\ FramesOf(AudioSoFar) = UpTo(Stream("audio"), NewestA)

LEMMA ContentsTyped ==
  ASSUME NEW d \in Nat \ {0}, NEW q \in RingType(d)
  PROVE  Contents(q, d) \in Seq(Nat) /\ Len(Contents(q, d)) = q.count
<1>1. q.head \in 0 .. d - 1 /\ q.count \in 0 .. d
  BY DEF RingType, Slots
<1>2. ASSUME NEW i \in 1 .. q.count PROVE q.slot[Wrap(q.head + i - 1, d)] \in Nat
  <2>1. Wrap(q.head + i - 1, d) \in Slots(d)
    BY <1>1 DEF Wrap, Slots
  <2> QED BY <2>1 DEF RingType
<1> QED BY <1>1, <1>2 DEF Contents

LEMMA PushAppends ==
  ASSUME NEW d \in Nat \ {0}, NEW q \in RingType(d), q.count < d, NEW f \in Nat
  PROVE  Contents(Pushed(q, d, f), d) = Append(Contents(q, d), f)
<1> DEFINE p == Pushed(q, d, f)
<1>1. q.head \in 0 .. d - 1 /\ q.count \in 0 .. d - 1
  BY DEF RingType, Slots
<1>2. p.head = q.head /\ p.count = q.count + 1
      /\ \A t \in Slots(d) : p.slot[t] = IF t = Wrap(q.head + q.count, d) THEN f ELSE q.slot[t]
  BY DEF Pushed, RingType
<1> HIDE DEF p
<1>3. Contents(p, d) = [i \in 1 .. q.count + 1 |-> p.slot[Wrap(q.head + i - 1, d)]]
  BY <1>2 DEF Contents
<1>4. ASSUME NEW i \in 1 .. q.count
      PROVE  p.slot[Wrap(q.head + i - 1, d)] = q.slot[Wrap(q.head + i - 1, d)]
  <2>1. i - 1 \in 0 .. d - 1 /\ i - 1 < q.count /\ q.head + i - 1 = q.head + (i - 1)
    BY <1>1
  <2>2. Wrap(q.head + (i - 1), d) \in Slots(d) /\ Wrap(q.head + (i - 1), d) # Wrap(q.head + q.count, d)
    BY <1>1, <2>1, WrapApart
  <2> QED BY <1>2, <2>1, <2>2
<1>5. p.slot[Wrap(q.head + (q.count + 1) - 1, d)] = f
  <2>1. q.head + (q.count + 1) - 1 = q.head + q.count
    BY <1>1
  <2>2. Wrap(q.head + q.count, d) \in Slots(d)
    BY <1>1 DEF Wrap, Slots
  <2> QED BY <1>2, <2>1, <2>2
<1>6. Contents(q, d) \in Seq(Nat) /\ Len(Contents(q, d)) = q.count
      /\ \A i \in 1 .. q.count : Contents(q, d)[i] = q.slot[Wrap(q.head + i - 1, d)]
  BY ContentsTyped DEF Contents
<1>7. Append(Contents(q, d), f) \in Seq(Nat) /\ Len(Append(Contents(q, d), f)) = q.count + 1
      /\ (\A i \in 1 .. q.count : Append(Contents(q, d), f)[i] = Contents(q, d)[i])
      /\ Append(Contents(q, d), f)[q.count + 1] = f
  BY <1>6, AppendProperties
<1>8. p \in RingType(d)
  BY PushStaysRing DEF p
<1>9. Contents(p, d) \in Seq(Nat) /\ Len(Contents(p, d)) = q.count + 1
  BY <1>2, <1>8, ContentsTyped
<1>10. \A i \in 1 .. q.count + 1 : i \in 1 .. q.count \/ i = q.count + 1
  BY <1>1
<1>11. \A i \in 1 .. q.count + 1 : Contents(p, d)[i] = Append(Contents(q, d), f)[i]
  BY <1>3, <1>4, <1>5, <1>6, <1>7, <1>10
<1>12. Contents(p, d) = Append(Contents(q, d), f)
  BY <1>7, <1>9, <1>11, SeqEqual
<1> QED BY <1>12 DEF p

LEMMA PopBeheads ==
  ASSUME NEW d \in Nat \ {0}, NEW q \in RingType(d), q.count > 0
  PROVE  /\ Contents(q, d) # <<>>
         /\ Head(Contents(q, d)) = Oldest(q)
         /\ Tail(Contents(q, d)) = Contents(Popped(q, d), d)
<1> DEFINE p == Popped(q, d)
<1>1. q.head \in 0 .. d - 1 /\ q.count \in 1 .. d
  BY DEF RingType, Slots
<1>2. p.head = Wrap(q.head + 1, d) /\ p.count = q.count - 1
      /\ \A t \in Slots(d) : p.slot[t] = IF t = q.head THEN Empty ELSE q.slot[t]
  BY DEF Popped, RingType
<1> HIDE DEF p
<1>3. Contents(q, d) \in Seq(Nat) /\ Len(Contents(q, d)) = q.count
  BY ContentsTyped
<1>4. \A i \in 1 .. q.count : Contents(q, d)[i] = q.slot[Wrap(q.head + i - 1, d)]
  BY DEF Contents
<1>5. Contents(q, d)[1] = Oldest(q)
  <2>1. Wrap(q.head + 1 - 1, d) = q.head /\ 1 \in 1 .. q.count
    BY <1>1 DEF Wrap
  <2> QED BY <1>4, <2>1 DEF Oldest
<1>6. ASSUME NEW i \in 1 .. q.count - 1
      PROVE  p.slot[Wrap(p.head + i - 1, d)] = Contents(q, d)[i + 1]
  <2>1. i \in 0 .. d - 1 /\ i - 1 \in 0 .. d - 1 /\ (i - 1) + 1 < d /\ 0 < i /\ i + 1 \in 1 .. q.count
    BY <1>1
  <2>2. Wrap(Wrap(q.head + 1, d) + (i - 1), d) = Wrap(q.head + ((i - 1) + 1), d)
    BY <1>1, <2>1, WrapStep
  <2>3. Wrap(q.head + 1, d) \in Slots(d)
    BY <1>1 DEF Wrap, Slots
  <2>4. p.head + i - 1 = p.head + (i - 1) /\ (i - 1) + 1 = i /\ q.head + (i + 1) - 1 = q.head + i
    BY <1>1, <1>2, <2>3 DEF Slots
  <2>5. Wrap(q.head + i, d) \in Slots(d) /\ Wrap(q.head + i, d) # q.head
    <3>1. Wrap(q.head + 0, d) = q.head /\ 0 \in 0 .. d - 1
      BY <1>1 DEF Wrap
    <3> QED BY <1>1, <2>1, <3>1, WrapApart
  <2> QED BY <1>2, <1>4, <2>1, <2>2, <2>4, <2>5
<1>7. Contents(q, d) # <<>>
  BY <1>1, <1>3
<1>8. Tail(Contents(q, d)) \in Seq(Nat) /\ Len(Tail(Contents(q, d))) = q.count - 1
      /\ \A i \in 1 .. q.count - 1 : Tail(Contents(q, d))[i] = Contents(q, d)[i + 1]
  BY <1>3, <1>7, HeadTailProperties
<1>9. p \in RingType(d)
  BY PopStaysRing DEF p
<1>10. Contents(p, d) \in Seq(Nat) /\ Len(Contents(p, d)) = q.count - 1
       /\ \A i \in 1 .. q.count - 1 : Contents(p, d)[i] = p.slot[Wrap(p.head + i - 1, d)]
  BY <1>2, <1>9, ContentsTyped DEF Contents
<1>11. Tail(Contents(q, d)) = Contents(p, d)
  BY <1>6, <1>8, <1>10, SeqEqual
<1>12. Head(Contents(q, d)) = Contents(q, d)[1]
  BY <1>3, <1>7
<1> QED BY <1>5, <1>7, <1>11, <1>12 DEF p

\* A frame that goes from the front of one sequence to the end of another leaves their
\* concatenation as it is.
LEMMA MoveAcross ==
  ASSUME NEW s \in Seq(Nat), NEW t \in Seq(Nat), t # <<>>
  PROVE  Append(s, Head(t)) \o Tail(t) = s \o t
<1>1. Head(t) \in Nat /\ Head(t) = t[1] /\ Tail(t) \in Seq(Nat) /\ Len(Tail(t)) = Len(t) - 1 /\ Len(t) \in Nat \ {0}
      /\ \A i \in 1 .. Len(t) - 1 : Tail(t)[i] = t[i + 1]
  BY HeadTailProperties
<1>2. <<Head(t)>> \in Seq(Nat) /\ Len(<<Head(t)>>) = 1 /\ <<Head(t)>>[1] = Head(t)
  BY <1>1
<1>3. Len(<<Head(t)>> \o Tail(t)) = Len(t) /\ <<Head(t)>> \o Tail(t) \in Seq(Nat)
      /\ \A i \in 1 .. Len(t) : (<<Head(t)>> \o Tail(t))[i] = IF i <= 1 THEN Head(t) ELSE Tail(t)[i - 1]
  BY SMTT(30), <1>1, <1>2, ConcatProperties
<1>4. ASSUME NEW i \in 1 .. Len(t) PROVE (<<Head(t)>> \o Tail(t))[i] = t[i]
  <2>1. CASE i = 1
    BY <1>1, <1>3, <2>1
  <2>2. CASE i # 1
    <3>1. ~(i <= 1) /\ i - 1 \in 1 .. Len(t) - 1 /\ (i - 1) + 1 = i
      BY <1>1, <2>2
    <3> QED BY <1>1, <1>3, <3>1
  <2> QED BY <2>1, <2>2
<1>5. <<Head(t)>> \o Tail(t) = t
  BY <1>3, <1>4, SeqEqual
<1>6. Append(s, Head(t)) = s \o <<Head(t)>>
  BY <1>1, AppendIsConcat
<1>7. (s \o <<Head(t)>>) \o Tail(t) = s \o (<<Head(t)>> \o Tail(t))
  BY SMTT(30), <1>1, <1>2, ConcatAssociative
<1> QED BY <1>5, <1>6, <1>7

LEMMA AppendAcross ==
  ASSUME NEW s \in Seq(Nat), NEW t \in Seq(Nat), NEW f \in Nat
  PROVE  s \o Append(t, f) = Append(s \o t, f)
<1>1. Append(t, f) = t \o <<f>> /\ s \o t \in Seq(Nat) /\ <<f>> \in Seq(Nat)
  BY AppendIsConcat, ConcatProperties
<1>2. Append(s \o t, f) = (s \o t) \o <<f>>
  BY <1>1, AppendIsConcat
<1>3. (s \o t) \o <<f>> = s \o (t \o <<f>>)
  BY SMTT(30), <1>1, ConcatAssociative
<1> QED BY <1>1, <1>2, <1>3

\* The next frame of the stream.
LEMMA OneFurther ==
  ASSUME NEW S \in SUBSET Nat, NEW s \in Seq(Nat), NEW f \in S,
         Consecutive(S, s), FramesOf(s) = UpTo(S, f - 1)
  PROVE  /\ Consecutive(S, Append(s, f))
         /\ FramesOf(Append(s, f)) = UpTo(S, f)
         /\ \A g \in S : g < f <=> g \in FramesOf(s)
<1>1. PICK t : t = Append(s, f)
  OBVIOUS
<1>2. Len(s) \in Nat /\ Len(t) = Len(s) + 1 /\ \A i \in 1 .. Len(s) : s[i] \in Nat
  BY <1>1
<1>3. \A i \in 1 .. Len(t) : t[i] = IF i = Len(s) + 1 THEN f ELSE s[i]
  BY <1>1
<1>4. \A i \in 1 .. Len(t) : i \in 1 .. Len(s) \/ i = Len(s) + 1
  BY <1>2
<1>5. FramesOf(t) = FramesOf(s) \cup {f}
  <2>1. t[Len(s) + 1] = f /\ Len(s) + 1 \in 1 .. Len(t)
    BY <1>2, <1>3
  <2>2. \A i \in 1 .. Len(s) : i \in 1 .. Len(t) /\ t[i] = s[i]
    BY <1>2, <1>3
  <2> QED BY <1>3, <1>4, <2>1, <2>2 DEF FramesOf
<1>6. \A g \in S : g < f <=> g <= f - 1
  OBVIOUS
<1>7. \A i \in 1 .. Len(s) : s[i] < f
  <2> TAKE i \in 1 .. Len(s)
  <2>1. s[i] \in UpTo(S, f - 1) /\ s[i] \in Nat
    BY <1>2 DEF FramesOf
  <2> QED BY <2>1 DEF UpTo
<1>8. \A i, j \in 1 .. Len(t) : i < j => t[i] < t[j]
  <2> TAKE i, j \in 1 .. Len(t)
  <2> HAVE i < j
  <2>1. i \in 1 .. Len(s)
    BY <1>2
  <2>2. t[i] = s[i]
    BY <1>2, <1>3, <2>1
  <2>3. CASE j = Len(s) + 1
    BY <1>3, <1>7, <2>1, <2>2, <2>3
  <2>4. CASE j # Len(s) + 1
    BY <1>3, <1>4, <2>1, <2>2, <2>4 DEF Consecutive
  <2> QED BY <2>3, <2>4
<1>9. FramesOf(t) = UpTo(S, f)
  <2>1. \A g \in S : g <= f <=> g <= f - 1 \/ g = f
    OBVIOUS
  <2> QED BY <1>5, <2>1 DEF UpTo
<1>10. \A g, h \in S : g < h /\ h \in FramesOf(t) => g \in FramesOf(t)
  BY <1>9 DEF UpTo
<1>11. Consecutive(S, t)
  BY <1>8, <1>9, <1>10 DEF Consecutive, UpTo
<1> QED BY <1>1, <1>6, <1>9, <1>11 DEF UpTo

-----------------------------------------------------------------------------
(* What a step does to the streams *)

\* The decoder stays where it is, but for waking up; or it gives up.
DecoderStays ==
  /\ pos' = pos
  /\ pc'["decoder"] \in PushesV <=> pc["decoder"] \in PushesV
  /\ pc'["decoder"] \in PushesA <=> pc["decoder"] \in PushesA
  /\ pc'["decoder"] = "read" <=> pc["decoder"] = "read"
DecoderLeaves == pos' = pos /\ pc'["decoder"] \in {"eofV", "eofA", "exit"}
RingStays(q, r) == r.slot = q.slot /\ r.head = q.head /\ r.count = q.count

QuietV == takenV' = takenV /\ RingStays(vq, vq')
QuietA == takenA' = takenA /\ RingStays(aq, aq')

Quiet == QuietV /\ QuietA /\ (DecoderStays \/ DecoderLeaves)
Reads == /\ QuietV /\ QuietA
         /\ pc["decoder"] = "read"
         /\ pos' = pos + 1 /\ pos' \in 1 .. Len(file)
         /\ \/ pc'["decoder"] = "read" /\ pos' \notin Stream("video") \cup Stream("audio")
            \/ pc'["decoder"] = "pushV" /\ pos' \in Stream("video") \ Stream("audio")
            \/ pc'["decoder"] = "pushA" /\ pos' \in Stream("audio") \ Stream("video")
PushesOneV == /\ QuietA /\ takenV' = takenV
              /\ pc["decoder"] = "pushV" /\ pc'["decoder"] = "read" /\ pos' = pos
              /\ vq.count < VDepth /\ vq' = Pushed(vq, VDepth, pos)
PushesOneA == /\ QuietV /\ takenA' = takenA
              /\ pc["decoder"] = "pushA" /\ pc'["decoder"] = "read" /\ pos' = pos
              /\ aq.count < ADepth /\ aq' = Pushed(aq, ADepth, pos)
PopsOneV == /\ QuietA /\ DecoderStays
            /\ vq.count > 0 /\ vq' = Popped(vq, VDepth) /\ takenV' = Append(takenV, Oldest(vq))
PopsOneA == /\ QuietV /\ DecoderStays
            /\ aq.count > 0 /\ aq' = Popped(aq, ADepth) /\ takenA' = Append(takenA, Oldest(aq))

LEMMA StreamSteps ==
  TypeOK /\ [Next]_vars =>
    /\ UNCHANGED <<file, adec>>
    /\ Quiet \/ Reads \/ PushesOneV \/ PushesOneA \/ PopsOneV \/ PopsOneA
<1> SUFFICES ASSUME TypeOK, [Next]_vars
             PROVE  /\ UNCHANGED <<file, adec>>
                    /\ Quiet \/ Reads \/ PushesOneV \/ PushesOneA \/ PopsOneV \/ PopsOneA
  OBVIOUS
<1>1. PcTyped /\ DataTyped /\ "decoder" \in Threads /\ "display" \in Threads /\ "audio" \in Threads
  BY TypeParts DEF Threads
<1>2. UNCHANGED <<file, adec>>
  BY DEF Next, Decoder, Read, PushVideo, PushAudio, EofVideo, EofAudio, Audio, PreCheck, Discard, OpenAlsa,
         PopAudio, WriteAlsa, DrainAlsa, Display, PopVideo, Begin, PaceByAudio, PaceByWall, Spin, Convert, Sleep,
         Flip, Shut, SignalVideo, SignalAudio, Join, Signal, SpuriousWakeup, Tick, Ended, vars
<1>3. ASSUME NEW t \in Threads \ {"decoder"}, NEW l \in Labels[t], NEW ws \in SUBSET WaitLabels,
             Go(t, l) \/ GoAndWake(t, l, ws), pos' = pos
      PROVE  DecoderStays
  <2>1. pc'["decoder"] = pc["decoder"] \/ (pc["decoder"] \in WaitLabels /\ pc'["decoder"] = Retry[pc["decoder"]])
    BY <1>1, <1>3, GoMovesOne, GoAndWakeMovesTwo
  <2>2. pc["decoder"] \in WaitLabels => pc["decoder"] \in {"pushVWait", "pushAWait"}
    BY <1>1 DEF PcTyped, Labels, WaitLabels, Retry
  <2> QED BY <1>3, <2>1, <2>2 DEF DecoderStays, PushesV, PushesA, Retry
<1>4. CASE Read
  <2>1. QuietV /\ QuietA /\ pc["decoder"] = "read"
    BY <1>4 DEF Read, At, QuietV, QuietA, RingStays, displayVars, audioVars
  <2>2. CASE stop \/ pos = Len(file)
    <3>1. pos' = pos /\ Go("decoder", "eofV")
      BY <1>4, <2>2 DEF Read
    <3>2. pc'["decoder"] = "eofV"
      BY <1>1, <3>1, GoMovesOne DEF Labels
    <3> QED BY <1>2, <2>1, <3>1, <3>2 DEF Quiet, DecoderLeaves
  <2>3. CASE ~(stop \/ pos = Len(file))
    <3>1. pos' = pos + 1 /\ pos + 1 \in 1 .. Len(file)
      BY <1>1, <1>4, <2>3, FileAssumption DEF Read, DataTyped
    <3>2. PICK f : f = file[pos + 1]
      OBVIOUS
    <3>3. Go("decoder", IF ~Queued(f) THEN "read" ELSE IF f.kind = "video" THEN "pushV" ELSE "pushA")
      BY <1>4, <2>3, <3>2 DEF Read
    <3>4. \A kind : pos' \in Stream(kind) <=> f.kind = kind /\ Queued(f)
      BY <3>1, <3>2 DEF Stream
    <3>5. CASE ~Queued(f)
      <4>1. pc'["decoder"] = "read"
        BY <1>1, <3>3, <3>5, GoMovesOne DEF Labels
      <4> QED BY <1>2, <2>1, <3>1, <3>4, <3>5, <4>1 DEF Reads
    <3>6. CASE Queued(f) /\ f.kind = "video"
      <4>1. pc'["decoder"] = "pushV"
        BY <1>1, <3>3, <3>6, GoMovesOne DEF Labels
      <4> QED BY <1>2, <2>1, <3>1, <3>4, <3>6, <4>1 DEF Reads
    <3>7. CASE Queued(f) /\ f.kind # "video"
      <4>1. pc'["decoder"] = "pushA"
        BY <1>1, <3>3, <3>7, GoMovesOne DEF Labels
      <4>2. f.kind = "audio"
        BY <3>7 DEF Queued
      <4> QED BY <1>2, <2>1, <3>1, <3>4, <3>7, <4>1, <4>2 DEF Reads
    <3> QED BY <3>5, <3>6, <3>7
  <2> QED BY <2>2, <2>3
<1>5. CASE PushVideo
  <2>1. QuietA /\ takenV' = takenV /\ pc["decoder"] = "pushV" /\ pos' = pos
    BY <1>5 DEF PushVideo, At, QuietA, RingStays, decoderVars, displayVars, audioVars
  <2>2. CASE Go("decoder", "eofV") /\ vq' = vq
    <3>1. pc'["decoder"] = "eofV"
      BY <1>1, <2>2, GoMovesOne DEF Labels
    <3> QED BY <1>2, <2>1, <2>2, <3>1 DEF Quiet, DecoderLeaves, QuietV, RingStays
  <2>3. CASE Go("decoder", "pushVWait") /\ vq' = vq
    <3>1. pc'["decoder"] = "pushVWait"
      BY <1>1, <2>3, GoMovesOne DEF Labels
    <3> QED BY <1>2, <2>1, <2>3, <3>1 DEF Quiet, DecoderStays, QuietV, RingStays, PushesV, PushesA
  <2>4. CASE GoAndWake("decoder", "read", {"popWait"}) /\ vq.count < VDepth /\ vq' = Pushed(vq, VDepth, pos)
    <3>1. pc'["decoder"] = "read"
      BY <1>1, <2>4, GoAndWakeMovesTwo DEF Labels, WaitLabels, Retry
    <3> QED BY <1>2, <2>1, <2>4, <3>1 DEF PushesOneV
  <2> QED BY <1>5, <2>2, <2>3, <2>4 DEF PushVideo
<1>6. CASE PushAudio
  <2>1. QuietV /\ takenA' = takenA /\ pc["decoder"] = "pushA" /\ pos' = pos
    BY <1>6 DEF PushAudio, At, QuietV, RingStays, decoderVars, displayVars, audioVars
  <2>2. CASE Go("decoder", "eofV") /\ aq' = aq
    <3>1. pc'["decoder"] = "eofV"
      BY <1>1, <2>2, GoMovesOne DEF Labels
    <3> QED BY <1>2, <2>1, <2>2, <3>1 DEF Quiet, DecoderLeaves, QuietA, RingStays
  <2>3. CASE Go("decoder", "pushAWait") /\ aq' = aq
    <3>1. pc'["decoder"] = "pushAWait"
      BY <1>1, <2>3, GoMovesOne DEF Labels
    <3> QED BY <1>2, <2>1, <2>3, <3>1 DEF Quiet, DecoderStays, QuietA, RingStays, PushesV, PushesA
  <2>4. CASE GoAndWake("decoder", "read", {"playWait"}) /\ aq.count < ADepth /\ aq' = Pushed(aq, ADepth, pos)
    <3>1. pc'["decoder"] = "read"
      BY <1>1, <2>4, GoAndWakeMovesTwo DEF Labels, WaitLabels, Retry
    <3> QED BY <1>2, <2>1, <2>4, <3>1 DEF PushesOneA
  <2> QED BY <1>6, <2>2, <2>3, <2>4 DEF PushAudio
<1>7. CASE EofVideo \/ EofAudio
  <2>1. QuietV /\ QuietA /\ pos' = pos
    BY <1>1, <1>7 DEF EofVideo, EofAudio, QuietV, QuietA, RingStays, DataTyped, RingType, decoderVars, displayVars, audioVars
  <2>2. pc'["decoder"] \in {"eofA", "exit"}
    BY <1>1, <1>7, GoAndWakeMovesTwo DEF EofVideo, EofAudio, Labels, WaitLabels, Retry
  <2> QED BY <1>2, <2>1, <2>2 DEF Quiet, DecoderLeaves
<1>8. CASE Audio
  <2> USE DEF Audio, PreCheck, Discard, OpenAlsa, PopAudio, WriteAlsa, DrainAlsa
  <2>1. PICK l \in Labels["audio"], ws \in SUBSET WaitLabels : Go("audio", l) \/ GoAndWake("audio", l, ws)
    BY <1>8 DEF Labels, WaitLabels, Retry
  <2>2. QuietV /\ pos' = pos
    BY <1>8 DEF QuietV, RingStays, decoderVars, displayVars
  <2>3. DecoderStays
    <3>1. "audio" \in Threads \ {"decoder"}
      BY DEF Threads
    <3> QED BY <1>3, <2>1, <2>2, <3>1
  <2>4. QuietA \/ (aq.count > 0 /\ aq' = Popped(aq, ADepth) /\ takenA' = Append(takenA, Oldest(aq)))
    BY <1>8 DEF QuietA, RingStays, audioVars
  <2> QED BY <1>2, <2>2, <2>3, <2>4 DEF Quiet, PopsOneA
<1>9. CASE Display
  <2> USE DEF Display, PopVideo, Begin, PaceByAudio, PaceByWall, Spin, Convert, Sleep, Flip, Shut, SignalVideo,
              SignalAudio, Join
  <2>1. PICK l \in Labels["display"], ws \in SUBSET WaitLabels : Go("display", l) \/ GoAndWake("display", l, ws)
    BY <1>9 DEF Labels, WaitLabels, Retry
  <2>2. QuietA /\ pos' = pos
    BY <1>9 DEF QuietA, RingStays, decoderVars, audioVars
  <2>3. DecoderStays
    <3>1. "display" \in Threads \ {"decoder"}
      BY DEF Threads
    <3> QED BY <1>3, <2>1, <2>2, <3>1
  <2>4. QuietV \/ (vq.count > 0 /\ vq' = Popped(vq, VDepth) /\ takenV' = Append(takenV, Oldest(vq)))
    BY <1>9 DEF QuietV, RingStays, displayVars
  <2> QED BY <1>2, <2>2, <2>3, <2>4 DEF Quiet, PopsOneV
<1>10. CASE SpuriousWakeup
  <2>1. QuietV /\ QuietA /\ pos' = pos
    BY <1>10 DEF SpuriousWakeup, QuietV, QuietA, RingStays, decoderVars, displayVars, audioVars
  <2>2. PICK t \in Threads : pc[t] \in WaitLabels /\ Go(t, Retry[pc[t]])
    BY <1>10 DEF SpuriousWakeup
  <2>3. Retry[pc[t]] \in Labels[t]
    BY <1>1, <2>2 DEF PcTyped, WaitLabels, Retry, Labels, Threads
  <2>4. pc'[t] = Retry[pc[t]] /\ \A u \in Threads : u # t => pc'[u] = pc[u]
    BY <1>1, <2>2, <2>3, GoMovesOne
  <2>5. DecoderStays
    <3>1. pc'["decoder"] = pc["decoder"] \/ (pc["decoder"] \in WaitLabels /\ pc'["decoder"] = Retry[pc["decoder"]])
      BY <1>1, <2>2, <2>4
    <3>2. pc["decoder"] \in WaitLabels => pc["decoder"] \in {"pushVWait", "pushAWait"}
      BY <1>1 DEF PcTyped, Labels, WaitLabels, Retry
    <3> QED BY <2>1, <3>1, <3>2 DEF DecoderStays, PushesV, PushesA, Retry
  <2> QED BY <1>2, <2>1, <2>5 DEF Quiet
<1>11. CASE Signal \/ Tick \/ Ended \/ UNCHANGED vars
  BY <1>2, <1>11 DEF Signal, Tick, Ended, vars, Quiet, QuietV, QuietA, RingStays, DecoderStays, decoderVars, displayVars, audioVars
<1> QED BY <1>4, <1>5, <1>6, <1>7, <1>8, <1>9, <1>10, <1>11 DEF Next, Decoder

-----------------------------------------------------------------------------
(* The streams stay without gaps *)

LEMMA StreamNat == \A kind : Stream(kind) \in SUBSET Nat
BY DEF Stream

LEMMA SoFarTyped ==
  ASSUME TypeOK, takenV \in Seq(Nat), takenA \in Seq(Nat)
  PROVE  /\ VideoSoFar \in Seq(Nat) /\ AudioSoFar \in Seq(Nat)
         /\ Contents(vq, VDepth) \in Seq(Nat) /\ Contents(aq, ADepth) \in Seq(Nat)
<1>1. Contents(vq, VDepth) \in Seq(Nat) /\ Contents(aq, ADepth) \in Seq(Nat)
  BY ContentsTyped, DepthAssumption DEF TypeOK
<1> QED BY <1>1, ConcatProperties DEF VideoSoFar, AudioSoFar

LEMMA QuietKeeps ==
  /\ QuietV => takenV' = takenV /\ Contents(vq, VDepth)' = Contents(vq, VDepth) /\ VideoSoFar' = VideoSoFar
  /\ QuietA => takenA' = takenA /\ Contents(aq, ADepth)' = Contents(aq, ADepth) /\ AudioSoFar' = AudioSoFar
BY DEF QuietV, QuietA, RingStays, Contents, VideoSoFar, AudioSoFar

LEMMA PopKeeps ==
  ASSUME NEW d \in Nat \ {0}, NEW q \in RingType(d), q.count > 0, NEW s \in Seq(Nat)
  PROVE  /\ Append(s, Oldest(q)) \o Contents(Popped(q, d), d) = s \o Contents(q, d)
         /\ Append(s, Oldest(q)) \in Seq(Nat)
<1>1. /\ Contents(q, d) \in Seq(Nat) /\ Contents(q, d) # <<>>
      /\ Head(Contents(q, d)) = Oldest(q) /\ Tail(Contents(q, d)) = Contents(Popped(q, d), d)
  BY ContentsTyped, PopBeheads
<1>2. Append(s, Head(Contents(q, d))) \o Tail(Contents(q, d)) = s \o Contents(q, d)
  BY <1>1, MoveAcross
<1>3. Oldest(q) \in Nat
  BY <1>1, HeadTailProperties
<1>4. Append(s, Oldest(q)) \in Seq(Nat)
  BY <1>3, AppendProperties
<1> QED BY <1>1, <1>2, <1>4

LEMMA PushAdds ==
  ASSUME NEW d \in Nat \ {0}, NEW q \in RingType(d), q.count < d, NEW s \in Seq(Nat), NEW f \in Nat
  PROVE  s \o Contents(Pushed(q, d, f), d) = Append(s \o Contents(q, d), f)
<1>1. Contents(Pushed(q, d, f), d) = Append(Contents(q, d), f) /\ Contents(q, d) \in Seq(Nat)
  BY PushAppends, ContentsTyped
<1> QED BY <1>1, AppendAcross

LEMMA StreamInit == Init => StreamInv
<1> SUFFICES ASSUME Init PROVE StreamInv
  OBVIOUS
<1>1. takenV = <<>> /\ takenA = <<>> /\ pos = 0 /\ pc["decoder"] = "read" /\ vq.count = 0 /\ aq.count = 0
  BY DEF Init, EmptyRing, Threads
<1>2. Len(Contents(vq, VDepth)) = 0 /\ Len(Contents(aq, ADepth)) = 0
      /\ Contents(vq, VDepth) = <<>> /\ Contents(aq, ADepth) = <<>>
  BY <1>1 DEF Contents
<1>3. VideoSoFar = <<>> /\ AudioSoFar = <<>>
  BY <1>1, <1>2 DEF VideoSoFar, AudioSoFar
<1>4. FramesOf(<<>>) = {}
  BY DEF FramesOf
<1>5. \A kind : UpTo(Stream(kind), 0) = {}
  BY DEF UpTo, Stream
<1>6. \A kind : Consecutive(Stream(kind), <<>>)
  BY <1>4 DEF Consecutive
<1>7. NewestV = 0 /\ NewestA = 0 /\ pc["decoder"] \notin PushesV \cup PushesA
  BY <1>1 DEF NewestV, NewestA, PushesV, PushesA
<1>8. takenV \in Seq(Nat) /\ takenA \in Seq(Nat)
  BY <1>1
<1> QED BY <1>3, <1>4, <1>5, <1>6, <1>7, <1>8 DEF StreamInv

LEMMA StreamNext == TypeOK /\ TypeOK' /\ StreamInv /\ [Next]_vars => StreamInv'
<1> SUFFICES ASSUME TypeOK, TypeOK', StreamInv, [Next]_vars PROVE StreamInv'
  OBVIOUS
<1>1. UNCHANGED <<file, adec>> /\ (Quiet \/ Reads \/ PushesOneV \/ PushesOneA \/ PopsOneV \/ PopsOneA)
  BY StreamSteps
<1>2. \A kind : Stream(kind)' = Stream(kind)
  BY <1>1 DEF Stream, Queued
<1>3. PICK V, A : V = Stream("video") /\ A = Stream("audio")
  OBVIOUS
<1>4. V \in SUBSET Nat /\ A \in SUBSET Nat /\ pos \in Nat /\ Stream("video")' = V /\ Stream("audio")' = A
  BY SMTT(40), <1>2, <1>3, StreamNat DEF TypeOK
<1>5. takenV \in Seq(Nat) /\ takenA \in Seq(Nat) /\ VideoSoFar \in Seq(Nat) /\ AudioSoFar \in Seq(Nat)
      /\ vq \in RingType(VDepth) /\ aq \in RingType(ADepth)
  BY SoFarTyped DEF StreamInv, TypeOK
<1>6. CASE Quiet
  <2>1. takenV' = takenV /\ takenA' = takenA /\ VideoSoFar' = VideoSoFar /\ AudioSoFar' = AudioSoFar
    BY <1>6, QuietKeeps DEF Quiet
  <2>2. CASE DecoderStays
    BY <1>2, <2>1, <2>2 DEF StreamInv, DecoderStays, Decoding, NewestV, NewestA
  <2>3. CASE DecoderLeaves
    BY <1>2, <2>1, <2>3 DEF StreamInv, DecoderLeaves, Decoding, PushesV, PushesA
  <2> QED BY <1>6, <2>2, <2>3 DEF Quiet
<1>7. CASE Reads
  <2>1. takenV' = takenV /\ takenA' = takenA /\ VideoSoFar' = VideoSoFar /\ AudioSoFar' = AudioSoFar
    BY <1>7, QuietKeeps DEF Reads
  <2>2. Decoding /\ NewestV = pos /\ NewestA = pos /\ pos' = pos + 1
    BY <1>7 DEF Reads, Decoding, NewestV, NewestA, PushesV, PushesA
  <2>3. UpTo(V, pos) = FramesOf(VideoSoFar) /\ UpTo(A, pos) = FramesOf(AudioSoFar)
    BY <1>3, <2>2 DEF StreamInv
  <2>4. \A S \in SUBSET Nat : UpTo(S, (pos + 1) - 1) = UpTo(S, pos) /\ (pos + 1 \notin S => UpTo(S, pos + 1) = UpTo(S, pos))
    <3> TAKE S \in SUBSET Nat
    <3>1. (pos + 1) - 1 = pos
      BY <1>4
    <3>2. \A f \in S : f <= pos + 1 <=> f <= pos \/ f = pos + 1
      BY <1>4
    <3> QED BY <3>1, <3>2 DEF UpTo
  <2>5. /\ NewestV' = (IF pc'["decoder"] = "pushV" THEN (pos + 1) - 1 ELSE pos + 1)
        /\ NewestA' = (IF pc'["decoder"] = "pushA" THEN (pos + 1) - 1 ELSE pos + 1)
    BY <1>7, <2>2 DEF Reads, NewestV, NewestA, PushesV, PushesA
  <2>6. UpTo(V, NewestV') = UpTo(V, pos) /\ UpTo(A, NewestA') = UpTo(A, pos)
    <3>1. (pc'["decoder"] # "pushV" => pos + 1 \notin V) /\ (pc'["decoder"] # "pushA" => pos + 1 \notin A)
      BY <1>3, <1>7, <2>2 DEF Reads
    <3> QED BY <1>4, <2>4, <2>5, <3>1
  <2>7. /\ pc'["decoder"] \in PushesV => pos' \in V
        /\ pc'["decoder"] \in PushesA => pos' \in A
    BY <1>3, <1>7 DEF Reads, PushesV, PushesA
  <2>8. Consecutive(V, VideoSoFar) /\ Consecutive(A, AudioSoFar)
    BY <1>3 DEF StreamInv
  <2>9. FramesOf(VideoSoFar') = UpTo(V, NewestV') /\ FramesOf(AudioSoFar') = UpTo(A, NewestA')
    BY <2>1, <2>3, <2>6
  <2> QED BY <1>4, <1>5, <2>1, <2>7, <2>8, <2>9 DEF StreamInv
<1>8. CASE PushesOneV
  <2>1. takenV' = takenV /\ takenA' = takenA /\ AudioSoFar' = AudioSoFar /\ pos' = pos
    BY <1>8, QuietKeeps DEF PushesOneV
  <2>2. VideoSoFar' = Append(VideoSoFar, pos)
    <3>1. takenV \o Contents(Pushed(vq, VDepth, pos), VDepth) = Append(takenV \o Contents(vq, VDepth), pos)
      BY <1>4, <1>5, <1>8, PushAdds, DepthAssumption DEF PushesOneV
    <3>2. Contents(vq, VDepth)' = Contents(Pushed(vq, VDepth, pos), VDepth)
      BY <1>8 DEF PushesOneV, Contents
    <3> QED BY <2>1, <3>1, <3>2 DEF VideoSoFar
  <2>3. Decoding /\ NewestV = pos - 1 /\ NewestA = pos /\ NewestV' = pos /\ NewestA' = pos /\ pos \in V
    BY <1>3, <1>8, <2>1 DEF PushesOneV, Decoding, NewestV, NewestA, PushesV, PushesA, StreamInv
  <2>4. Consecutive(V, VideoSoFar) /\ FramesOf(VideoSoFar) = UpTo(V, pos - 1)
        /\ Consecutive(A, AudioSoFar) /\ FramesOf(AudioSoFar) = UpTo(A, pos)
    BY <1>3, <2>3 DEF StreamInv
  <2>5. Consecutive(V, VideoSoFar') /\ FramesOf(VideoSoFar') = UpTo(V, pos)
    BY <1>4, <1>5, <2>2, <2>3, <2>4, OneFurther
  <2>6. pc'["decoder"] \notin PushesV \cup PushesA
    BY <1>8 DEF PushesOneV, PushesV, PushesA
  <2> QED BY <1>4, <1>5, <2>1, <2>3, <2>4, <2>5, <2>6 DEF StreamInv
<1>9. CASE PushesOneA
  <2>1. takenV' = takenV /\ takenA' = takenA /\ VideoSoFar' = VideoSoFar /\ pos' = pos
    BY <1>9, QuietKeeps DEF PushesOneA
  <2>2. AudioSoFar' = Append(AudioSoFar, pos)
    <3>1. takenA \o Contents(Pushed(aq, ADepth, pos), ADepth) = Append(takenA \o Contents(aq, ADepth), pos)
      BY <1>4, <1>5, <1>9, PushAdds, DepthAssumption DEF PushesOneA
    <3>2. Contents(aq, ADepth)' = Contents(Pushed(aq, ADepth, pos), ADepth)
      BY <1>9 DEF PushesOneA, Contents
    <3> QED BY <2>1, <3>1, <3>2 DEF AudioSoFar
  <2>3. Decoding /\ NewestA = pos - 1 /\ NewestV = pos /\ NewestV' = pos /\ NewestA' = pos /\ pos \in A
    BY <1>3, <1>9, <2>1 DEF PushesOneA, Decoding, NewestV, NewestA, PushesV, PushesA, StreamInv
  <2>4. Consecutive(A, AudioSoFar) /\ FramesOf(AudioSoFar) = UpTo(A, pos - 1)
        /\ Consecutive(V, VideoSoFar) /\ FramesOf(VideoSoFar) = UpTo(V, pos)
    BY <1>3, <2>3 DEF StreamInv
  <2>5. Consecutive(A, AudioSoFar') /\ FramesOf(AudioSoFar') = UpTo(A, pos)
    BY <1>4, <1>5, <2>2, <2>3, <2>4, OneFurther
  <2>6. pc'["decoder"] \notin PushesV \cup PushesA
    BY <1>9 DEF PushesOneA, PushesV, PushesA
  <2> QED BY <1>4, <1>5, <2>1, <2>3, <2>4, <2>5, <2>6 DEF StreamInv
<1>10. CASE PopsOneV
  <2>1. takenA' = takenA /\ AudioSoFar' = AudioSoFar /\ DecoderStays
    BY <1>10, QuietKeeps DEF PopsOneV
  <2>2. VideoSoFar' = VideoSoFar /\ takenV' \in Seq(Nat)
    BY <1>5, <1>10, PopKeeps, DepthAssumption DEF PopsOneV, VideoSoFar
  <2> QED BY <1>2, <2>1, <2>2 DEF StreamInv, DecoderStays, Decoding, NewestV, NewestA
<1>11. CASE PopsOneA
  <2>1. takenV' = takenV /\ VideoSoFar' = VideoSoFar /\ DecoderStays
    BY <1>11, QuietKeeps DEF PopsOneA
  <2>2. AudioSoFar' = AudioSoFar /\ takenA' \in Seq(Nat)
    BY <1>5, <1>11, PopKeeps, DepthAssumption DEF PopsOneA, AudioSoFar
  <2> QED BY <1>2, <2>1, <2>2 DEF StreamInv, DecoderStays, Decoding, NewestV, NewestA
<1> QED BY <1>1, <1>6, <1>7, <1>8, <1>9, <1>10, <1>11

\* What each ring holds and what has left it is, in order and without a gap, the stream
\* as far as the decoder has come, whoever waits, fails or stops.
THEOREM StreamsKept == Spec => []StreamInv
BY StreamInit, StreamNext, TypeCorrect, PTL DEF Spec

\* A step of the program is a step of each queue, or none.
LEMMA VideoFifoInit == Init => VideoFifo!FifoInit
<1> SUFFICES ASSUME Init PROVE VideoFifo!FifoInit
  OBVIOUS
<1>1. takenV = <<>> /\ vq.count = 0
  BY DEF Init, EmptyRing
<1>2. Contents(vq, VDepth) = <<>>
  BY <1>1 DEF Contents
<1> QED BY <1>1, <1>2, StreamNat DEF VideoFifo!FifoInit

LEMMA AudioFifoInit == Init => AudioFifo!FifoInit
<1> SUFFICES ASSUME Init PROVE AudioFifo!FifoInit
  OBVIOUS
<1>1. takenA = <<>> /\ aq.count = 0
  BY DEF Init, EmptyRing
<1>2. Contents(aq, ADepth) = <<>>
  BY <1>1 DEF Contents
<1> QED BY <1>1, <1>2, StreamNat DEF AudioFifo!FifoInit

LEMMA VideoFifoStep ==
  TypeOK /\ StreamInv /\ [Next]_vars =>
    [VideoFifo!Put \/ VideoFifo!Get]_<<Stream("video"), Contents(vq, VDepth), takenV>>
<1> SUFFICES ASSUME TypeOK, StreamInv, [Next]_vars
             PROVE  \/ VideoFifo!Put \/ VideoFifo!Get
                    \/ UNCHANGED <<Stream("video"), Contents(vq, VDepth), takenV>>
  OBVIOUS
<1>1. UNCHANGED <<file, adec>> /\ (Quiet \/ Reads \/ PushesOneV \/ PushesOneA \/ PopsOneV \/ PopsOneA)
  BY StreamSteps
<1>2. Stream("video")' = Stream("video")
  BY <1>1 DEF Stream, Queued
<1>3. CASE Quiet \/ Reads \/ PushesOneA \/ PopsOneA
  BY <1>2, <1>3, QuietKeeps DEF Quiet, Reads, PushesOneA, PopsOneA
<1>4. vq \in RingType(VDepth) /\ takenV \in Seq(Nat) /\ VideoSoFar \in Seq(Nat) /\ pos \in Nat
  BY SoFarTyped DEF TypeOK, StreamInv
<1>5. CASE PushesOneV
  <2>1. Contents(vq, VDepth)' = Append(Contents(vq, VDepth), pos) /\ Len(Contents(vq, VDepth)) < VDepth
    BY <1>4, <1>5, PushAppends, ContentsTyped, DepthAssumption DEF PushesOneV
  <2>2. pos \in Stream("video") /\ Decoding /\ NewestV = pos - 1
    BY <1>5 DEF PushesOneV, StreamInv, PushesV, PushesA, Decoding, NewestV
  <2>3. Consecutive(Stream("video"), VideoSoFar) /\ FramesOf(VideoSoFar) = UpTo(Stream("video"), pos - 1)
    BY <2>2 DEF StreamInv
  <2>4. \A g \in Stream("video") : g < pos <=> g \in FramesOf(VideoSoFar)
    BY <1>4, <2>2, <2>3, OneFurther, StreamNat
  <2>5. \A g \in Stream("video") : g < pos <=> g \in VideoFifo!Frames(takenV \o Contents(vq, VDepth))
    BY <2>4 DEF VideoFifo!Frames, FramesOf, VideoSoFar
  <2> QED BY <1>2, <1>5, <2>1, <2>2, <2>5 DEF VideoFifo!Put, PushesOneV
<1>6. CASE PopsOneV
  <2>1. /\ Contents(vq, VDepth) # <<>>
        /\ Head(Contents(vq, VDepth)) = Oldest(vq)
        /\ Tail(Contents(vq, VDepth)) = Contents(vq, VDepth)'
    BY <1>4, <1>6, PopBeheads, DepthAssumption DEF PopsOneV
  <2> QED BY <1>2, <1>6, <2>1 DEF VideoFifo!Get, PopsOneV
<1> QED BY <1>1, <1>3, <1>5, <1>6

LEMMA AudioFifoStep ==
  TypeOK /\ StreamInv /\ [Next]_vars =>
    [AudioFifo!Put \/ AudioFifo!Get]_<<Stream("audio"), Contents(aq, ADepth), takenA>>
<1> SUFFICES ASSUME TypeOK, StreamInv, [Next]_vars
             PROVE  \/ AudioFifo!Put \/ AudioFifo!Get
                    \/ UNCHANGED <<Stream("audio"), Contents(aq, ADepth), takenA>>
  OBVIOUS
<1>1. UNCHANGED <<file, adec>> /\ (Quiet \/ Reads \/ PushesOneV \/ PushesOneA \/ PopsOneV \/ PopsOneA)
  BY StreamSteps
<1>2. Stream("audio")' = Stream("audio")
  BY <1>1 DEF Stream, Queued
<1>3. CASE Quiet \/ Reads \/ PushesOneV \/ PopsOneV
  BY <1>2, <1>3, QuietKeeps DEF Quiet, Reads, PushesOneV, PopsOneV
<1>4. aq \in RingType(ADepth) /\ takenA \in Seq(Nat) /\ AudioSoFar \in Seq(Nat) /\ pos \in Nat
  BY SoFarTyped DEF TypeOK, StreamInv
<1>5. CASE PushesOneA
  <2>1. Contents(aq, ADepth)' = Append(Contents(aq, ADepth), pos) /\ Len(Contents(aq, ADepth)) < ADepth
    BY <1>4, <1>5, PushAppends, ContentsTyped, DepthAssumption DEF PushesOneA
  <2>2. pos \in Stream("audio") /\ Decoding /\ NewestA = pos - 1
    BY <1>5 DEF PushesOneA, StreamInv, PushesV, PushesA, Decoding, NewestA
  <2>3. Consecutive(Stream("audio"), AudioSoFar) /\ FramesOf(AudioSoFar) = UpTo(Stream("audio"), pos - 1)
    BY <2>2 DEF StreamInv
  <2>4. \A g \in Stream("audio") : g < pos <=> g \in FramesOf(AudioSoFar)
    BY <1>4, <2>2, <2>3, OneFurther, StreamNat
  <2>5. \A g \in Stream("audio") : g < pos <=> g \in AudioFifo!Frames(takenA \o Contents(aq, ADepth))
    BY <2>4 DEF AudioFifo!Frames, FramesOf, AudioSoFar
  <2> QED BY <1>2, <1>5, <2>1, <2>2, <2>5 DEF AudioFifo!Put, PushesOneA
<1>6. CASE PopsOneA
  <2>1. /\ Contents(aq, ADepth) # <<>>
        /\ Head(Contents(aq, ADepth)) = Oldest(aq)
        /\ Tail(Contents(aq, ADepth)) = Contents(aq, ADepth)'
    BY <1>4, <1>6, PopBeheads, DepthAssumption DEF PopsOneA
  <2> QED BY <1>2, <1>6, <2>1 DEF AudioFifo!Get, PopsOneA
<1> QED BY <1>1, <1>3, <1>5, <1>6

\* The two rings of mp4_play, with their wrap around, their waits and their wakeups, are
\* the queue of FrameFifo: the display thread gets the video and the audio thread the
\* sound in decode order, each frame once and none left out.
THEOREM QueuesImplementFifo == Spec => StreamsInOrder
<1>1. VideoFifo!fifoVars = <<Stream("video"), Contents(vq, VDepth), takenV>>
      /\ AudioFifo!fifoVars = <<Stream("audio"), Contents(aq, ADepth), takenA>>
  BY DEF VideoFifo!fifoVars, AudioFifo!fifoVars
<1> QED BY VideoFifoInit, AudioFifoInit, VideoFifoStep, AudioFifoStep, TypeCorrect, StreamsKept, PTL
        DEF Spec, StreamsInOrder, VideoFifo!FifoSpec, AudioFifo!FifoSpec, VideoFifo!fifoVars, AudioFifo!fifoVars

\* Dropping a late frame moves the schedule later.
LEMMA ScheduleStep ==
  TypeOK /\ IInv /\ [Next]_vars =>
    (clkInit => anchor'.wall - anchor'.pts >= anchor.wall - anchor.pts)
<1> SUFFICES ASSUME TypeOK, IInv, [Next]_vars, clkInit
             PROVE  anchor'.wall - anchor'.pts >= anchor.wall - anchor.pts
  OBVIOUS
<1>1. anchor.wall \in Nat /\ anchor.pts \in Nat /\ period \in Nat /\ now \in Nat
  BY DEF TypeOK
<1>2. CASE PaceByWall /\ anchor' # anchor
  <2>1. pc["display"] = "pace" /\ now > Target + period /\ anchor' = [wall |-> now, pts |-> Pts(frame)]
    BY <1>2 DEF PaceByWall, At
  <2>2. Pts(frame) \in Nat
    BY <2>1, StampedFacts DEF IInv, HandsFull
  <2> QED BY <1>1, <2>1, <2>2 DEF Target
<1>3. CASE ~(PaceByWall /\ anchor' # anchor)
  <2>1. anchor' = anchor
    BY <1>3 DEF Next, Decoder, Read, PushVideo, PushAudio, EofVideo, EofAudio, Audio, PreCheck, Discard, OpenAlsa,
         PopAudio, WriteAlsa, DrainAlsa, Display, PopVideo, Begin, PaceByAudio, PaceByWall, Spin, Convert, Sleep,
         Flip, Shut, SignalVideo, SignalAudio, Join, Signal, SpuriousWakeup, Tick, Ended, vars, displayVars
  <2> QED BY <1>1, <2>1
<1> QED BY <1>2, <1>3

\* Without audio, a late frame that is dropped moves the whole schedule later.
THEOREM ScheduleForward == Spec => ScheduleOnlyMovesLater
<1>1. TypeOK /\ IInv /\ [Next]_vars => [clkInit => anchor'.wall - anchor'.pts >= anchor.wall - anchor.pts]_vars
  BY ScheduleStep
<1> QED BY <1>1, InitIInv, NextIInv, TypeCorrect, PTL DEF Spec, ScheduleOnlyMovesLater

-----------------------------------------------------------------------------
(* The audio clock.  The sound taken from the queue has been played, is    *)
(* lost or is held back, by as much as the timeline has moved on.          *)

LastHeard == takenA[Len(takenA)]

\* Where the thread stands on the timeline, for sound without a gap.
OnTimeline ==
  Pts(LastHeard) + (IF pc["audio"] = "write" THEN 0 ELSE FrameTicks)
    = firstPts + (written + swr.held + lost)

ClockInv ==
  /\ pc["audio"] \in {"pre", "discard", "open"} => firstPts = NoPts
  /\ pc["audio"] = "write" => firstPts # NoPts
  /\ firstPts = NoPts => written = 0 /\ swr.held = 0 /\ lost = 0 /\ clock = NoPts
  /\ firstPts # NoPts /\ pc["audio"] \notin {"drain", "exit"} =>
       /\ takenA # <<>>
       /\ Pts(LastHeard) \in Nat
       /\ ContiguousSound => OnTimeline
       /\ clock # NoPts => firstPts + written - clock \in 0 .. MaxDelay

\* The frame at the front of the audio queue follows the one taken last.
LEMMA NextHeard ==
  ASSUME TypeOK, StreamInv, ContiguousSound, aq.count > 0, takenA # <<>>
  PROVE  Pts(Oldest(aq)) = Pts(LastHeard) + FrameTicks
<1> DEFINE A == Stream("audio")
           n == Len(takenA)
<1>1. /\ takenA \in Seq(Nat) /\ Contents(aq, ADepth) \in Seq(Nat) /\ AudioSoFar \in Seq(Nat)
      /\ n \in Nat \ {0} /\ A \in SUBSET Nat
  BY SoFarTyped, StreamNat DEF StreamInv
<1>2. /\ Len(Contents(aq, ADepth)) = aq.count /\ Contents(aq, ADepth) # <<>>
      /\ Contents(aq, ADepth)[1] = Oldest(aq) /\ aq.count \in Nat \ {0}
  <2>1. aq \in RingType(ADepth)
    BY DEF TypeOK
  <2>2. aq.count \in Nat
    BY <2>1, DepthAssumption DEF RingType
  <2> QED BY <1>1, <2>1, <2>2, ContentsTyped, PopBeheads, DepthAssumption
<1>3. /\ Len(AudioSoFar) = n + aq.count
      /\ AudioSoFar[n] = LastHeard /\ AudioSoFar[n + 1] = Oldest(aq)
      /\ n \in 1 .. Len(AudioSoFar) /\ n + 1 \in 1 .. Len(AudioSoFar)
  <2>1. /\ Len(AudioSoFar) = n + aq.count
        /\ \A i \in 1 .. n + aq.count :
             AudioSoFar[i] = IF i <= n THEN takenA[i] ELSE Contents(aq, ADepth)[i - n]
    BY <1>1, <1>2, ConcatProperties DEF AudioSoFar
  <2>2. n \in 1 .. n + aq.count /\ n + 1 \in 1 .. n + aq.count /\ ~(n + 1 <= n) /\ (n + 1) - n = 1 /\ n <= n
    BY <1>1, <1>2
  <2> QED BY <1>2, <2>1, <2>2 DEF LastHeard
<1>4. PICK s, a, b : s = AudioSoFar /\ a = LastHeard /\ b = Oldest(aq)
  OBVIOUS
<1>5. Consecutive(A, s) /\ s \in Seq(Nat) /\ Len(s) \in Nat /\ s[n] = a /\ s[n + 1] = b
      /\ n \in 1 .. Len(s) /\ n + 1 \in 1 .. Len(s)
  BY <1>1, <1>3, <1>4 DEF StreamInv
<1>6. a \in A /\ b \in A /\ a < b
  BY <1>1, <1>5 DEF Consecutive, FramesOf
<1>7. ASSUME NEW c \in A, a < c, c < b PROVE FALSE
  <2>1. PICK k \in 1 .. Len(s) : c = s[k]
    BY <1>5, <1>6, <1>7 DEF Consecutive, FramesOf
  <2>2. k < n \/ k = n \/ k = n + 1 \/ n + 1 < k
    BY <1>1, <2>1
  <2>3. a \in Nat /\ b \in Nat /\ c \in Nat
    BY <1>1, <1>6
  <2> QED BY <1>5, <1>7, <2>1, <2>2, <2>3 DEF Consecutive
<1>8. A \cap (a + 1) .. (b - 1) = {}
  <2> SUFFICES ASSUME NEW c \in A, c \in (a + 1) .. (b - 1) PROVE FALSE
    OBVIOUS
  <2>1. a \in Nat /\ b \in Nat
    BY <1>1, <1>6
  <2>2. a < c /\ c < b
    BY <2>1
  <2> QED BY <1>7, <2>2
<1>9. Pts(b) = Pts(a) + FrameTicks
  BY <1>6, <1>8 DEF ContiguousSound
<1> QED BY <1>4, <1>9

\* The frame at the front of the audio queue has a timestamp.
LEMMA OldestStamped ==
  ASSUME TypeOK, StreamInv, aq.count > 0
  PROVE  Pts(Oldest(aq)) \in Nat
<1>1. /\ takenA \in Seq(Nat) /\ Contents(aq, ADepth) \in Seq(Nat)
      /\ Contents(aq, ADepth) # <<>> /\ Head(Contents(aq, ADepth)) = Oldest(aq)
  BY SoFarTyped, PopBeheads, DepthAssumption DEF StreamInv, TypeOK
<1>2. /\ Len(takenA) \in Nat /\ Len(Contents(aq, ADepth)) \in Nat \ {0}
      /\ Contents(aq, ADepth)[1] = Oldest(aq)
  BY <1>1, EmptySeq
<1>3. /\ Len(AudioSoFar) = Len(takenA) + Len(Contents(aq, ADepth))
      /\ Len(takenA) + 1 \in 1 .. Len(takenA) + Len(Contents(aq, ADepth))
      /\ AudioSoFar[Len(takenA) + 1] = Oldest(aq)
  <2>1. /\ Len(AudioSoFar) = Len(takenA) + Len(Contents(aq, ADepth))
        /\ \A i \in 1 .. Len(takenA) + Len(Contents(aq, ADepth)) :
             AudioSoFar[i] = IF i <= Len(takenA) THEN takenA[i]
                             ELSE Contents(aq, ADepth)[i - Len(takenA)]
    BY <1>1, ConcatProperties DEF AudioSoFar
  <2>2. /\ Len(takenA) + 1 \in 1 .. Len(takenA) + Len(Contents(aq, ADepth))
        /\ ~(Len(takenA) + 1 <= Len(takenA)) /\ (Len(takenA) + 1) - Len(takenA) = 1
    BY <1>2
  <2> QED BY <1>2, <2>1, <2>2
<1>4. Oldest(aq) \in Stream("audio")
  BY <1>3 DEF StreamInv, Consecutive, FramesOf
<1>5. file \in Files /\ Oldest(aq) \in 1 .. Len(file) /\ Queued(file[Oldest(aq)])
  BY <1>4 DEF Stream, TypeOK
<1> QED BY <1>5, QueuedIsStamped DEF Stamped

LEMMA ClockInit == Init => ClockInv
BY DEF Init, ClockInv, NoPts, Threads

\* Steps that leave the audio thread's data alone, and the thread at work or not.
LEMMA ClockKept ==
  ASSUME ClockInv, UNCHANGED <<file, adec, audioVars>>,
         pc'["audio"] = "write" <=> pc["audio"] = "write",
         pc["audio"] \in {"drain", "exit"} => pc'["audio"] \in {"drain", "exit"},
         pc'["audio"] \in {"pre", "discard", "open"} => pc["audio"] \in {"pre", "discard", "open"}
  PROVE  ClockInv'
<1>1. ContiguousSound' <=> ContiguousSound
  BY DEF ContiguousSound, Stream, Queued, Pts
<1> QED BY <1>1 DEF ClockInv, OnTimeline, audioVars, LastHeard, Pts

LEMMA ClockNext ==
  TypeOK /\ TypeOK' /\ StreamInv /\ ClockInv /\ [Next]_vars => ClockInv'
<1> SUFFICES ASSUME TypeOK, TypeOK', StreamInv, ClockInv, [Next]_vars PROVE ClockInv'
  OBVIOUS
<1>1. PcTyped /\ "decoder" \in Threads /\ "display" \in Threads /\ "audio" \in Threads
      /\ file' = file /\ adec' = adec
  BY TypeParts, StreamSteps DEF Threads
<1>a. ContiguousSound' <=> ContiguousSound
  BY <1>1 DEF ContiguousSound, Stream, Queued, Pts
<1>2. ASSUME NEW t \in Threads \ {"audio"}, NEW l \in Labels[t], NEW ws \in SUBSET WaitLabels,
             Go(t, l) \/ GoAndWake(t, l, ws), UNCHANGED audioVars
      PROVE  ClockInv'
  <2>1. pc'["audio"] = pc["audio"] \/ (pc["audio"] \in WaitLabels /\ pc'["audio"] = Retry[pc["audio"]])
    BY <1>1, <1>2, GoMovesOne, GoAndWakeMovesTwo
  <2>2. pc["audio"] \in WaitLabels => pc["audio"] = "playWait"
    BY <1>1 DEF PcTyped, Labels, WaitLabels, Retry
  <2> QED BY <1>1, <1>2, <2>1, <2>2, ClockKept DEF Retry
<1>3. CASE Decoder
  <2> USE DEF Decoder, Read, PushVideo, PushAudio, EofVideo, EofAudio
  <2>1. PICK l \in Labels["decoder"], ws \in SUBSET WaitLabels : Go("decoder", l) \/ GoAndWake("decoder", l, ws)
    BY <1>3 DEF Labels, WaitLabels, Retry
  <2>2. UNCHANGED audioVars
    BY <1>3
  <2>3. "decoder" \in Threads \ {"audio"}
    BY <1>1
  <2> QED BY <1>2, <2>1, <2>2, <2>3
<1>4. CASE Display
  <2> USE DEF Display, PopVideo, Begin, PaceByAudio, PaceByWall, Spin, Convert, Sleep, Flip, Shut, SignalVideo,
              SignalAudio, Join
  <2>1. PICK l \in Labels["display"], ws \in SUBSET WaitLabels : Go("display", l) \/ GoAndWake("display", l, ws)
    BY <1>4 DEF Labels, WaitLabels, Retry
  <2>2. UNCHANGED audioVars
    BY <1>4
  <2>3. "display" \in Threads \ {"audio"}
    BY <1>1
  <2> QED BY <1>2, <2>1, <2>2, <2>3
<1>5. CASE SpuriousWakeup
  <2>1. UNCHANGED audioVars
    BY <1>5 DEF SpuriousWakeup
  <2>2. PICK t \in Threads : pc[t] \in WaitLabels /\ Go(t, Retry[pc[t]])
    BY <1>5 DEF SpuriousWakeup
  <2>3. Retry[pc[t]] \in Labels[t]
    BY <1>1, <2>2 DEF PcTyped, WaitLabels, Retry, Labels, Threads
  <2>4. pc'[t] = Retry[pc[t]] /\ \A u \in Threads : u # t => pc'[u] = pc[u]
    BY <1>1, <2>2, <2>3, GoMovesOne
  <2>5. t = "audio" => pc["audio"] = "playWait"
    BY <1>1, <2>2 DEF PcTyped, Labels, WaitLabels, Retry
  <2> QED BY <1>1, <2>1, <2>2, <2>4, <2>5, ClockKept DEF Retry
<1>6. CASE Signal \/ Tick \/ Ended \/ UNCHANGED vars
  BY <1>1, <1>6, ClockKept DEF Signal, Tick, Ended, vars, audioVars
<1>7. CASE PreCheck \/ OpenAlsa \/ DrainAlsa
  <2>1. UNCHANGED audioVars
    BY <1>7 DEF PreCheck, OpenAlsa, DrainAlsa
  <2>2. \/ pc["audio"] = "pre" /\ pc'["audio"] \in {"exit", "open", "discard"}
        \/ pc["audio"] = "open" /\ pc'["audio"] \in {"play", "exit"}
        \/ pc["audio"] = "drain" /\ pc'["audio"] = "exit"
    BY <1>1, <1>7, GoMovesOne DEF PreCheck, OpenAlsa, DrainAlsa, At, Labels
  <2> QED BY <1>1, <2>1, <2>2, ClockKept
<1>8. CASE Discard
  <2>1. pc["audio"] = "discard" /\ pc'["audio"] = "pre"
    BY <1>1, <1>8, GoMovesOne, GoAndWakeMovesTwo DEF Discard, At, Labels, WaitLabels, Retry
  <2>2. UNCHANGED <<firstPts, swr, written, clock, lost>>
    BY <1>8 DEF Discard
  <2> QED BY <2>1, <2>2 DEF ClockInv
<1>9. CASE PopAudio /\ UNCHANGED <<aq, takenA, firstPts>> /\ (Go("audio", "playWait") \/ Go("audio", "drain"))
  <2>1. /\ pc["audio"] = "play" /\ pc'["audio"] \in {"playWait", "drain"}
        /\ UNCHANGED <<firstPts, swr, written, clock, lost>>
    BY <1>1, <1>9, GoMovesOne DEF PopAudio, At, Labels
  <2> QED BY <1>1, <1>a, <1>9, <2>1 DEF ClockInv, OnTimeline, LastHeard, Pts
<1>10. CASE PopAudio /\ firstPts' = TimelineStart(Oldest(aq)) /\ Go("audio", "drain") /\ aq.count > 0
  <2>1. /\ pc'["audio"] = "drain"
        /\ UNCHANGED <<swr, written, clock, lost>>
    BY <1>1, <1>10, GoMovesOne DEF PopAudio, At, Labels
  <2>2. firstPts' # NoPts
    BY <1>10, OldestStamped DEF TimelineStart, NoPts
  <2> QED BY <2>1, <2>2 DEF ClockInv
<1>11. CASE PopAudio /\ aq' = Popped(aq, ADepth) /\ takenA' = Append(takenA, Oldest(aq)) /\ aq.count > 0
            /\ firstPts' = TimelineStart(Oldest(aq)) /\ GoAndWake("audio", "write", {"pushAWait"})
  <2>1. pc["audio"] = "play" /\ pc'["audio"] = "write" /\ UNCHANGED <<swr, written, clock, lost>>
    BY <1>1, <1>11, GoAndWakeMovesTwo DEF PopAudio, At, Labels, WaitLabels, Retry
  <2>2. /\ takenA \in Seq(Nat) /\ Oldest(aq) \in Nat
        /\ takenA' # <<>> /\ LastHeard' = Oldest(aq)
    <3>1. takenA \in Seq(Nat) /\ Contents(aq, ADepth) \in Seq(Nat)
      BY SoFarTyped DEF StreamInv
    <3>2. Contents(aq, ADepth) # <<>> /\ Head(Contents(aq, ADepth)) = Oldest(aq)
      BY <1>11, PopBeheads, DepthAssumption DEF TypeOK
    <3>3. Oldest(aq) \in Nat
      BY <3>1, <3>2, HeadTailProperties
    <3> QED BY <1>11, <3>1, <3>3, AppendProperties DEF LastHeard
  <2>3. Pts(Oldest(aq)) \in Nat
    BY <1>11, OldestStamped
  <2>4. Pts(LastHeard)' = Pts(Oldest(aq))
    BY <1>1, <2>2 DEF Pts
  <2>5. firstPts' # NoPts
    BY <1>11, <2>3 DEF TimelineStart, NoPts
  <2>6. CASE firstPts = NoPts
    <3>1. written = 0 /\ swr.held = 0 /\ lost = 0 /\ clock = NoPts /\ firstPts' = Pts(Oldest(aq))
      BY <1>11, <2>6 DEF ClockInv, TimelineStart
    <3>2. Pts(LastHeard)' \in Nat /\ OnTimeline'
      BY <2>1, <2>3, <2>4, <3>1 DEF OnTimeline
    <3> QED BY <2>1, <2>2, <2>5, <3>1, <3>2 DEF ClockInv
  <2>7. CASE firstPts # NoPts
    <3>1. firstPts' = firstPts /\ takenA # <<>> /\ Pts(LastHeard) \in Nat
      BY <1>11, <2>1, <2>7 DEF ClockInv, TimelineStart
    <3>2. ContiguousSound => Pts(Oldest(aq)) = Pts(LastHeard) + FrameTicks
      BY <1>11, <3>1, NextHeard
    <3>3. ContiguousSound => Pts(LastHeard) + FrameTicks = firstPts + (written + swr.held + lost)
      BY <2>1, <2>7 DEF ClockInv, OnTimeline
    <3>4. ContiguousSound => Pts(LastHeard)' + 0 = firstPts + (written + swr.held + lost)
      BY <2>3, <2>4, <3>2, <3>3
    <3>5. ContiguousSound' => OnTimeline'
      BY <1>a, <2>1, <3>1, <3>4 DEF OnTimeline
    <3>6. clock' # NoPts => firstPts' + written' - clock' \in 0 .. MaxDelay
      BY <2>1, <2>7, <3>1 DEF ClockInv
    <3> QED BY <2>1, <2>2, <2>3, <2>4, <2>5, <3>5, <3>6 DEF ClockInv
  <2> QED BY <2>6, <2>7
<1>12. CASE WriteAlsa
  <2>1. pc["audio"] = "write" /\ pc'["audio"] = "play" /\ UNCHANGED <<firstPts, takenA>>
    BY <1>1, <1>12, GoMovesOne DEF WriteAlsa, At, Labels
  <2>2. {written, lost} \subseteq Nat /\ swr \in [room : Rooms, held : Nat]
    BY DEF TypeOK
  <2>3. /\ {written', lost'} \subseteq Nat
        /\ written' + swr'.held + lost' = written + swr.held + lost + FrameTicks
        /\ swr'.held \in Nat /\ swr.held \in Nat
    BY <1>12, <2>2, SoundKept
  <2>4. PICK delay \in 0 .. MaxDelay :
          clock' = firstPts + (IF delay > written' THEN 0 ELSE written' - delay)
    BY <1>12 DEF WriteAlsa
  <2>5. firstPts \in Nat /\ MaxDelay \in Nat /\ FrameTicks \in Nat
    BY <2>1, TimeAssumption, SoundAssumption DEF ClockInv, TypeOK
  <2>6. firstPts + written' - clock' \in 0 .. MaxDelay
    BY <2>3, <2>4, <2>5
  <2>7. Pts(LastHeard) \in Nat /\ takenA # <<>>
    BY <2>1 DEF ClockInv
  <2>8. LastHeard' = LastHeard /\ Pts(LastHeard)' = Pts(LastHeard)
    BY <1>1, <2>1 DEF LastHeard, Pts
  <2>9. ContiguousSound => Pts(LastHeard) + 0 = firstPts + (written + swr.held + lost)
    BY <2>1 DEF ClockInv, OnTimeline
  <2>10. ContiguousSound => Pts(LastHeard) + FrameTicks = firstPts + (written' + swr'.held + lost')
    BY <2>2, <2>3, <2>5, <2>7, <2>9
  <2>11. ContiguousSound' => OnTimeline'
    BY <1>a, <2>1, <2>8, <2>10 DEF OnTimeline
  <2>12. takenA' # <<>> /\ firstPts' # NoPts /\ Pts(LastHeard)' \in Nat
    BY <2>1, <2>7, <2>8 DEF ClockInv
  <2>13. firstPts' + written' - clock' \in 0 .. MaxDelay
    BY <2>1, <2>6
  <2> QED BY <2>1, <2>11, <2>12, <2>13 DEF ClockInv
<1>13. PopAudio =>
        \/ UNCHANGED <<aq, takenA, firstPts>> /\ (Go("audio", "playWait") \/ Go("audio", "drain"))
        \/ firstPts' = TimelineStart(Oldest(aq)) /\ Go("audio", "drain") /\ aq.count > 0
        \/ /\ aq' = Popped(aq, ADepth) /\ takenA' = Append(takenA, Oldest(aq)) /\ aq.count > 0
           /\ firstPts' = TimelineStart(Oldest(aq)) /\ GoAndWake("audio", "write", {"pushAWait"})
  BY DEF PopAudio
<1> QED BY <1>3, <1>4, <1>5, <1>6, <1>7, <1>8, <1>9, <1>10, <1>11, <1>12, <1>13 DEF Next, Audio

LEMMA ClockTold == TypeOK /\ ClockInv => AudioClockTracksStream
<1> SUFFICES ASSUME TypeOK, ClockInv, ContiguousSound, ClockSet
             PROVE  Behind - swr.held - lost \in 0 .. MaxDelay
  BY DEF AudioClockTracksStream
<1>0. Behind = Pts(LastHeard) + FrameTicks - clock
  BY DEF Behind, LastHeard
<1>1. firstPts # NoPts /\ pc["audio"] \notin {"write", "drain", "exit"} /\ clock # NoPts
  BY DEF ClockInv, ClockSet
<1>2. /\ Pts(LastHeard) + FrameTicks = firstPts + (written + swr.held + lost)
      /\ firstPts + written - clock \in 0 .. MaxDelay
  BY <1>1 DEF ClockInv, OnTimeline
<1>3. {firstPts, written, clock, lost, swr.held, MaxDelay, FrameTicks} \subseteq Nat
  BY <1>1, TimeAssumption, SoundAssumption DEF TypeOK
<1>4. Pts(LastHeard) \in Nat
  BY <1>1 DEF ClockInv
<1> QED BY <1>0, <1>2, <1>3, <1>4

\* The master clock lies behind the stream by what the resampler holds back, what the
\* device has lost and what it has yet to play, and by nothing else: at any sample rate,
\* whatever the writes lose, however long the file is and whatever else fails.
THEOREM ClockOnTimeline == Spec => []AudioClockTracksStream
<1>1. TypeOK /\ TypeOK' /\ StreamInv /\ ClockInv /\ [Next]_vars => ClockInv'
  BY ClockNext
<1> QED BY <1>1, ClockInit, ClockTold, TypeCorrect, StreamsKept, PTL DEF Spec
==============================================================================
