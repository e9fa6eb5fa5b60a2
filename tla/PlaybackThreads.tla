--------------------------- MODULE PlaybackThreads ---------------------------
(***************************************************************************)
(* The three threads of mp4_play (h264-daemon/main.cpp) in PLAY mode:      *)
(*                                                                         *)
(*   decoder  decode_thread_fn: demuxes, decodes, fills both queues        *)
(*   audio    audio_play_thread_fn: drains the audio queue into ALSA and   *)
(*            publishes the master clock                                   *)
(*   display  the loop of play_video: pops, paces, converts, flips, and    *)
(*            finally stops and joins the other two                        *)
(*                                                                         *)
(* They share the two rings, each behind one mutex and two condition       *)
(* variables, and without any lock the flag g_stop, audio_playback_start   *)
(* and the audio clock.  A critical section is one step; everything that   *)
(* runs outside a mutex is a step of its own.  A thread inside             *)
(* pthread_cond_wait has one of the "...Wait" labels and leaves it only    *)
(* when another thread signals, or spuriously.                             *)
(*                                                                         *)
(* Time and sound are counted in ticks, of which a frame of sound lasts    *)
(* FrameTicks.  A frame is named by its position in the file; the slot of  *)
(* a ring holds a name or Empty.                                           *)
(***************************************************************************)
EXTENDS Integers, Sequences

CONSTANTS
  VDepth,        \* slots of the video ring (4 in the code)
  ADepth,        \* slots of the audio ring (64 in the code)
  Files,         \* the files that may be played
  FrameTicks,    \* ticks of sound in an audio frame
  Rooms,         \* ticks of 48 kHz sound that fit in as many samples as a frame has:
                 \* FrameTicks for a stream at 48 kHz, fewer for a lower sample rate
  MaxDelay,      \* most ticks that ALSA holds unplayed after a write
  DefaultPeriod, \* frame_period_s before two frames have been seen
  PeriodLimit,   \* a longer step between timestamps is a gap (0.2 s)
  MaxTime,       \* bound on the wall clock while nothing sleeps on it
  Faults         \* the faults that may occur, see FaultKinds

Kinds == {"video", "audio", "other"}
NoPts == -1                        \* AV_NOPTS_VALUE
Frame == [kind : Kinds, pts : Nat \cup {NoPts}]

\* kill: SIGINT or SIGTERM; alsa: the device does not open; oom: av_frame_alloc
\* fails; dma: the conversion fails or times out; xrun: snd_pcm_writei fails or
\* takes only a part.
FaultKinds == {"kill", "alsa", "oom", "dma", "xrun"}

ASSUME DepthAssumption == VDepth \in Nat \ {0} /\ ADepth \in Nat \ {0}
ASSUME FileAssumption == Files \subseteq Seq(Frame)
ASSUME FaultAssumption == Faults \subseteq FaultKinds
ASSUME SoundAssumption == FrameTicks \in Nat \ {0} /\ Rooms \subseteq Nat \ {0}
ASSUME TimeAssumption == {MaxDelay, DefaultPeriod, PeriodLimit, MaxTime} \subseteq Nat

Empty == 0                         \* an AVFrame without data
Threads == {"decoder", "audio", "display"}

VARIABLES
  file,       \* the file being played, its packets in the order they are read
  adec,       \* adec # NULL: an audio stream was found, is wanted and has a codec
  pos,        \* packets read; the last one is the frame in the decoder's hand
  pc,         \* where each thread is
  stop,       \* g_stop
  vq, aq,     \* FrameQueue and AudioQueue
  frame,      \* the frame the display thread holds
  started,    \* audio_playback_start
  clkInit,    \* clk_init: a first frame has been popped
  prevPts,    \* prev_pts_s, NoPts before the first frame
  period,     \* frame_period_s
  sample,     \* the frame the audio thread holds
  firstPts,   \* first_pts_s, NoPts before the first frame
  swr,        \* the resampler: the room it is given, the ticks it holds back
  written,    \* total_samples_written
  clock,      \* audio_clock_s, NoPts while not audio_clock_valid
  now,        \* the wall clock
  anchor,     \* start_wall_us and start_pts_s
  shown,      \* history: the frames flipped to the screen
  lost,       \* history: the ticks that snd_pcm_writei did not take
  takenV, takenA  \* history: the frames that left each queue

decoderVars == <<pos>>
displayVars == <<frame, started, clkInit, prevPts, period, anchor, shown, takenV>>
audioVars == <<sample, firstPts, swr, written, clock, lost, takenA>>
vars == <<file, adec, pos, pc, stop, vq, aq, frame, started, clkInit, prevPts, period,
          sample, firstPts, swr, written, clock, now, anchor, shown, lost, takenV, takenA>>

-----------------------------------------------------------------------------
(* Rings *)

\* Mutants are wrong variants of the definition that follows them; the runs must tell
\* them apart from it.  Wrap: one index past the end.
WrapLate(i, depth) == IF i > depth THEN i - depth ELSE i
Wrap(i, depth) == IF i >= depth THEN i - depth ELSE i     \* & 3, & 63

EmptyRing(depth) ==
  [slot |-> [i \in 0 .. depth - 1 |-> Empty], head |-> 0, count |-> 0, eof |-> FALSE]

\* Mutant: the frame goes to the slot count, wherever the head is.
PushedAtCount(q, depth, f) ==
  [q EXCEPT !.slot[Wrap(q.count, depth)] = f, !.count = @ + 1]

\* The decoder moves a frame behind the ones queued.
Pushed(q, depth, f) ==
  [q EXCEPT !.slot[Wrap(q.head + q.count, depth)] = f, !.count = @ + 1]

\* A reader swaps the oldest frame for a fresh one.
Popped(q, depth) ==
  [q EXCEPT !.slot[q.head] = Empty, !.head = Wrap(@ + 1, depth), !.count = @ - 1]

\* Mutant: the newest frame is taken.
NewestInstead(q) == q.slot[Wrap(q.head + q.count - 1, VDepth)]
Oldest(q) == q.slot[q.head]

-----------------------------------------------------------------------------
(* Threads and condition variables.  Each condition has one possible       *)
(* waiter, which re-evaluates its predicate when it is woken.              *)

At(t, l) == pc[t] = l

\* Mutant: a decoder that waited goes on without pushing.
RetryLosesAudio ==
  [pushVWait |-> "pushV", pushAWait |-> "read", popWait |-> "pop", playWait |-> "play"]
Retry == [pushVWait |-> "pushV", pushAWait |-> "pushA", popWait |-> "pop", playWait |-> "play"]
WaitLabels == DOMAIN Retry

\* Thread t goes to l; the thread that waits at one of the labels ws wakes up.
GoAndWake(t, l, ws) ==
  pc' = [u \in Threads |-> IF u = t THEN l
                           ELSE IF pc[u] \in ws THEN Retry[pc[u]] ELSE pc[u]]
Go(t, l) == pc' = [pc EXCEPT ![t] = l]

Pts(f) == file[f].pts
-----------------------------------------------------------------------------
Init ==
  /\ file \in Files
  /\ adec \in BOOLEAN
  /\ pos = 0
  /\ pc = [t \in Threads |-> CASE t = "decoder" -> "read"
                               [] t = "display" -> "pop"
                               [] t = "audio" -> IF adec THEN "pre" ELSE "exit"]
  /\ stop = FALSE
  /\ vq = EmptyRing(VDepth)
  /\ aq = EmptyRing(ADepth)
  /\ frame = Empty /\ started = FALSE /\ clkInit = FALSE
  /\ prevPts = NoPts /\ period = DefaultPeriod
  /\ sample = Empty /\ firstPts = NoPts /\ written = 0 /\ clock = NoPts
  /\ swr \in [room : Rooms, held : {0}] /\ lost = 0
  /\ now = 0 /\ anchor = [wall |-> 0, pts |-> 0]
  /\ shown = <<>> /\ takenV = <<>> /\ takenA = <<>>
-----------------------------------------------------------------------------
(* Decoder *)

\* Frames that reach a queue: they have a timestamp and belong to a stream played.
Queued(f) == f.pts # NoPts /\ (f.kind = "video" \/ (f.kind = "audio" /\ adec))

\* av_read_frame and avcodec_receive_frame.
Read ==
  /\ At("decoder", "read")
  /\ IF stop \/ pos = Len(file)
       THEN Go("decoder", "eofV") /\ UNCHANGED pos
       ELSE LET f == file[pos + 1] IN
            /\ pos' = pos + 1
            /\ Go("decoder", IF ~Queued(f) THEN "read"
                             ELSE IF f.kind = "video" THEN "pushV" ELSE "pushA")
  /\ UNCHANGED <<file, adec, stop, vq, aq, now, displayVars, audioVars>>

PushVideo ==
  /\ At("decoder", "pushV")
  /\ \/ stop /\ Go("decoder", "eofV") /\ UNCHANGED vq
     \/ ~stop /\ vq.count = VDepth /\ Go("decoder", "pushVWait") /\ UNCHANGED vq
     \/ /\ ~stop /\ vq.count < VDepth
        /\ vq' = Pushed(vq, VDepth, pos)
        /\ GoAndWake("decoder", "read", {"popWait"})
  /\ UNCHANGED <<file, adec, stop, aq, now, decoderVars, displayVars, audioVars>>

PushAudio ==
  /\ At("decoder", "pushA")
  /\ \/ stop /\ Go("decoder", "eofV") /\ UNCHANGED aq
     \/ ~stop /\ aq.count = ADepth /\ Go("decoder", "pushAWait") /\ UNCHANGED aq
     \/ /\ ~stop /\ aq.count < ADepth
        /\ aq' = Pushed(aq, ADepth, pos)
        /\ GoAndWake("decoder", "read", {"playWait"})
  /\ UNCHANGED <<file, adec, stop, vq, now, decoderVars, displayVars, audioVars>>

\* Mutant: the display thread is not told.
EofVideoSilent ==
  /\ At("decoder", "eofV")
  /\ vq' = [vq EXCEPT !.eof = TRUE]
  /\ Go("decoder", IF adec THEN "eofA" ELSE "exit")
  /\ UNCHANGED <<file, adec, stop, aq, now, decoderVars, displayVars, audioVars>>

\* done: both queues are marked finished, each under its own lock.
EofVideo ==
  /\ At("decoder", "eofV")
  /\ vq' = [vq EXCEPT !.eof = TRUE]
  /\ GoAndWake("decoder", IF adec THEN "eofA" ELSE "exit", {"popWait"})
  /\ UNCHANGED <<file, adec, stop, aq, now, decoderVars, displayVars, audioVars>>

EofAudio ==
  /\ At("decoder", "eofA")
  /\ aq' = [aq EXCEPT !.eof = TRUE]
  /\ GoAndWake("decoder", "exit", {"playWait"})
  /\ UNCHANGED <<file, adec, stop, vq, now, decoderVars, displayVars, audioVars>>

Decoder == Read \/ PushVideo \/ PushAudio \/ EofVideo \/ EofAudio
-----------------------------------------------------------------------------
(* Audio *)

\* The pre-playback loop looks at its flags before it takes the lock.
PreCheck ==
  /\ At("audio", "pre")
  /\ Go("audio", IF stop THEN "exit" ELSE IF started THEN "open" ELSE "discard")
  /\ UNCHANGED <<file, adec, stop, vq, aq, now, decoderVars, displayVars, audioVars>>

\* Until the first video frame is popped, frames are consumed without output,
\* one at most per millisecond; without a fresh AVFrame the frame stays.
Discard ==
  /\ At("audio", "discard")
  /\ \/ /\ aq.count = 0 \/ "oom" \in Faults
        /\ Go("audio", "pre")
        /\ UNCHANGED <<aq, takenA>>
     \/ /\ aq.count > 0
        /\ aq' = Popped(aq, ADepth)
        /\ takenA' = Append(takenA, Oldest(aq))
        /\ GoAndWake("audio", "pre", {"pushAWait"})
  /\ UNCHANGED <<file, adec, stop, vq, now, decoderVars, displayVars, sample, firstPts, swr,
                 written, clock, lost>>

\* snd_pcm_open and snd_pcm_set_params.
OpenAlsa ==
  /\ At("audio", "open")
  /\ \/ Go("audio", "play")
     \/ "alsa" \in Faults /\ Go("audio", "exit")
  /\ UNCHANGED <<file, adec, stop, vq, aq, now, decoderVars, displayVars, audioVars>>

\* Mutant: the timeline starts anew with each frame.
TimelineRestarts(f) == Pts(f)
\* first_pts_s: set by the first frame played, and kept.
TimelineStart(f) == IF firstPts = NoPts THEN Pts(f) ELSE firstPts

PopAudio ==
  /\ At("audio", "play")
  /\ \/ /\ ~stop /\ aq.count = 0 /\ ~aq.eof
        /\ Go("audio", "playWait")
        /\ UNCHANGED <<aq, sample, firstPts, takenA>>
     \/ /\ stop \/ (aq.count = 0 /\ aq.eof)
        /\ Go("audio", "drain")
        /\ UNCHANGED <<aq, sample, firstPts, takenA>>
     \/ /\ ~stop /\ aq.count > 0 /\ "oom" \in Faults
        /\ firstPts' = TimelineStart(Oldest(aq))
        /\ Go("audio", "drain")
        /\ UNCHANGED <<aq, sample, takenA>>
     \/ /\ ~stop /\ aq.count > 0
        /\ sample' = Oldest(aq)
        /\ firstPts' = TimelineStart(Oldest(aq))
        /\ aq' = Popped(aq, ADepth)
        /\ takenA' = Append(takenA, Oldest(aq))
        /\ GoAndWake("audio", "write", {"pushAWait"})
  /\ UNCHANGED <<file, adec, stop, vq, now, decoderVars, displayVars, swr, written, clock,
                 lost>>

\* swr_convert fills the room it is given and holds back what does not fit.
Resampled(due) == IF due < swr.room THEN due ELSE swr.room

\* swr_convert and snd_pcm_writei, then the clock from what the device has played of
\* what it took.  A device never takes back what it has played.
WriteAlsa ==
  /\ At("audio", "write")
  /\ LET due == swr.held + FrameTicks
         out == Resampled(due) IN
     /\ swr' = [swr EXCEPT !.held = due - out]
     /\ \E n \in {out} \cup (IF "xrun" \in Faults THEN 0 .. out - 1 ELSE {}) :
          /\ written' = written + n
          /\ lost' = lost + out - n
  /\ \E delay \in 0 .. MaxDelay :
       LET played == IF delay > written' THEN 0 ELSE written' - delay IN
       /\ clock = NoPts \/ firstPts + played >= clock
       /\ clock' = firstPts + played
  /\ sample' = Empty
  /\ Go("audio", "play")
  /\ UNCHANGED <<file, adec, stop, vq, aq, now, decoderVars, displayVars, firstPts, takenA>>

\* snd_pcm_drain and the end of the thread: the clock stands still from here.
DrainAlsa ==
  /\ At("audio", "drain")
  /\ Go("audio", "exit")
  /\ UNCHANGED <<file, adec, stop, vq, aq, now, decoderVars, displayVars, audioVars>>

Audio == PreCheck \/ Discard \/ OpenAlsa \/ PopAudio \/ WriteAlsa \/ DrainAlsa
-----------------------------------------------------------------------------
(* Display *)

\* A: wait for a frame, leave on the end of the file or on stop, or take it.
PopVideo ==
  /\ At("display", "pop")
  /\ \/ /\ ~stop /\ vq.count = 0 /\ ~vq.eof
        /\ Go("display", "popWait")
        /\ UNCHANGED <<vq, stop, frame, takenV>>
     \/ /\ stop \/ (vq.count = 0 /\ vq.eof)
        /\ Go("display", "shut")
        /\ UNCHANGED <<vq, stop, frame, takenV>>
     \/ /\ ~stop /\ vq.count > 0 /\ "oom" \in Faults
        /\ stop' = TRUE
        /\ Go("display", "shut")
        /\ UNCHANGED <<vq, frame, takenV>>
     \/ /\ ~stop /\ vq.count > 0
        /\ frame' = Oldest(vq)
        /\ vq' = Popped(vq, VDepth)
        /\ takenV' = Append(takenV, Oldest(vq))
        /\ GoAndWake("display", "begin", {"pushVWait"})
        /\ UNCHANGED stop
  /\ UNCHANGED <<file, adec, aq, now, decoderVars, audioVars, started, clkInit, prevPts, period,
                 anchor, shown>>

\* B, C and D: start the audio, initialise the clock, estimate the period.
Begin ==
  /\ At("display", "begin")
  /\ started' = (started \/ (adec /\ ~clkInit))
  /\ anchor' = IF clkInit \/ adec THEN anchor ELSE [wall |-> now, pts |-> Pts(frame)]
  /\ clkInit' = TRUE
  /\ LET step == Pts(frame) - prevPts IN
     period' = IF prevPts # NoPts /\ step \in 1 .. PeriodLimit - 1 THEN step ELSE period
  /\ prevPts' = Pts(frame)
  /\ Go("display", "pace")
  /\ UNCHANGED <<file, adec, stop, vq, aq, now, decoderVars, audioVars, frame, shown, takenV>>

\* Mutant: the wall clock at which playback began is forgotten.
TargetFromZero == Pts(frame) - anchor.pts
Target == anchor.wall + Pts(frame) - anchor.pts

\* E: drop a frame that is more than a period late, else wait for the audio.
PaceByAudio ==
  /\ adec
  /\ At("display", "pace")
  /\ \/ /\ clock # NoPts /\ Pts(frame) < clock - period
        /\ frame' = Empty
        /\ Go("display", "pop")
     \/ /\ clock # NoPts /\ Pts(frame) >= clock - period
        /\ Go("display", "spin") /\ UNCHANGED frame
     \/ clock = NoPts /\ Go("display", "dma") /\ UNCHANGED frame
  /\ UNCHANGED <<file, adec, stop, vq, aq, now, decoderVars, audioVars, started, clkInit, prevPts,
                 period, anchor, shown, takenV>>

Spin ==
  /\ At("display", "spin")
  /\ clock >= Pts(frame) \/ stop
  /\ Go("display", "dma")
  /\ UNCHANGED <<file, adec, stop, vq, aq, now, decoderVars, audioVars, displayVars>>

\* E without audio: a late frame also moves the schedule.
PaceByWall ==
  /\ ~adec
  /\ At("display", "pace")
  /\ \/ /\ now > Target + period
        /\ anchor' = [wall |-> now, pts |-> Pts(frame)]
        /\ frame' = Empty
        /\ Go("display", "pop")
     \/ now <= Target + period /\ Go("display", "dma") /\ UNCHANGED <<anchor, frame>>
  /\ UNCHANGED <<file, adec, stop, vq, aq, now, decoderVars, audioVars, started, clkInit, prevPts,
                 period, shown, takenV>>

\* F: write_yuv_and_dma; a missing chroma plane or a DMA timeout stops playback.
Convert ==
  /\ At("display", "dma")
  /\ stop' \in {stop} \cup (IF "dma" \in Faults THEN {TRUE} ELSE {})
  /\ IF stop'
       THEN Go("display", "shut") /\ frame' = Empty
       ELSE Go("display", IF adec THEN "flip" ELSE "sleep") /\ UNCHANGED frame
  /\ UNCHANGED <<file, adec, vq, aq, now, decoderVars, audioVars, started, clkInit, prevPts, period,
                 anchor, shown, takenV>>

\* G: without audio, sleep to the target time, stopped or not.
Sleep ==
  /\ At("display", "sleep")
  /\ now >= Target
  /\ Go("display", "flip")
  /\ UNCHANGED <<file, adec, stop, vq, aq, now, decoderVars, audioVars, displayVars>>

\* H, I and J, whose registers PageFlip models: on stop the frame is not shown.
Flip ==
  /\ At("display", "flip")
  /\ frame' = Empty
  /\ IF stop THEN Go("display", "shut") /\ UNCHANGED shown
             ELSE Go("display", "pop") /\ shown' = Append(shown, frame)
  /\ UNCHANGED <<file, adec, stop, vq, aq, now, decoderVars, audioVars, started, clkInit, prevPts,
                 period, anchor, takenV>>

\* Shutdown: stop, wake whoever waits on each queue, join.
Shut ==
  /\ At("display", "shut")
  /\ stop' = TRUE
  /\ Go("display", "signalV")
  /\ UNCHANGED <<file, adec, vq, aq, now, decoderVars, audioVars, displayVars>>

\* Mutant: nobody is woken.
SignalVideoSilent ==
  /\ At("display", "signalV")
  /\ Go("display", IF adec THEN "signalA" ELSE "joinD")
  /\ UNCHANGED <<file, adec, stop, vq, aq, now, decoderVars, audioVars, displayVars>>

SignalVideo ==
  /\ At("display", "signalV")
  /\ GoAndWake("display", IF adec THEN "signalA" ELSE "joinD", {"pushVWait"})
  /\ UNCHANGED <<file, adec, stop, vq, aq, now, decoderVars, audioVars, displayVars>>

SignalAudio ==
  /\ At("display", "signalA")
  /\ GoAndWake("display", "joinD", {"pushAWait", "playWait"})
  /\ UNCHANGED <<file, adec, stop, vq, aq, now, decoderVars, audioVars, displayVars>>

Join ==
  /\ \/ At("display", "joinD") /\ At("decoder", "exit") /\ Go("display", "joinA")
     \/ At("display", "joinA") /\ At("audio", "exit") /\ Go("display", "exit")
  /\ UNCHANGED <<file, adec, stop, vq, aq, now, decoderVars, audioVars, displayVars>>

Display ==
  \/ PopVideo \/ Begin \/ PaceByAudio \/ PaceByWall \/ Spin \/ Convert \/ Sleep \/ Flip
  \/ Shut \/ SignalVideo \/ SignalAudio \/ Join
-----------------------------------------------------------------------------
(* Surroundings *)

\* on_signal: the flag is set and nobody is woken.
Signal ==
  /\ "kill" \in Faults
  /\ ~stop
  /\ stop' = TRUE
  /\ UNCHANGED <<file, adec, pc, vq, aq, now, decoderVars, audioVars, displayVars>>

\* POSIX lets pthread_cond_wait return without a signal.
SpuriousWakeup ==
  /\ \E t \in Threads : pc[t] \in WaitLabels /\ Go(t, Retry[pc[t]])
  /\ UNCHANGED <<file, adec, stop, vq, aq, now, decoderVars, audioVars, displayVars>>

\* Only the wall clock mode looks at it; past MaxTime it runs only for a sleeper.
Tick ==
  /\ ~adec
  /\ now < MaxTime \/ (At("display", "sleep") /\ now < Target)
  /\ now' = now + 1
  /\ UNCHANGED <<file, adec, stop, pc, vq, aq, decoderVars, audioVars, displayVars>>

\* The process has returned from play_video.
Exited == \A t \in Threads : At(t, "exit")
Ended == Exited /\ UNCHANGED vars

Next == Decoder \/ Audio \/ Display \/ Signal \/ SpuriousWakeup \/ Tick \/ Ended

\* The kernel runs every thread that can run, time passes, and an allocation that is
\* tried again and again (in the pre-playback loop alone) succeeds in the end.
Fairness ==
  /\ WF_vars(Decoder) /\ WF_vars(Audio) /\ WF_vars(Display) /\ WF_vars(Tick)
  /\ SF_vars(Discard /\ aq' # aq)

Spec == Init /\ [][Next]_vars
FairSpec == Spec /\ Fairness
-----------------------------------------------------------------------------
(* Properties *)

Slots(depth) == 0 .. depth - 1
RingType(depth) ==
  [slot : [Slots(depth) -> Nat], head : Slots(depth), count : 0 .. depth, eof : BOOLEAN]

Labels ==
  [decoder |-> {"read", "pushV", "pushVWait", "pushA", "pushAWait", "eofV", "eofA", "exit"},
   audio   |-> {"pre", "discard", "open", "play", "playWait", "write", "drain", "exit"},
   display |-> {"pop", "popWait", "begin", "pace", "spin", "dma", "sleep", "flip", "shut",
                "signalV", "signalA", "joinD", "joinA", "exit"}]

\* Type invariant: the rings keep their shape, no queue overflows its slots, and
\* the decoder's hand and the display's hand hold frames of this file.
TypeOK ==
  /\ file \in Files
  /\ pos \in 0 .. Len(file)
  /\ pc \in [Threads -> UNION {Labels[t] : t \in Threads}]
  /\ \A t \in Threads : pc[t] \in Labels[t]
  /\ vq \in RingType(VDepth) /\ aq \in RingType(ADepth)
  /\ {adec, stop, started, clkInit} \subseteq BOOLEAN
  /\ swr \in [room : Rooms, held : Nat]
  /\ {frame, sample, written, lost, now, anchor.wall, anchor.pts, period} \subseteq Nat
  /\ {prevPts, firstPts, clock} \subseteq Nat \cup {NoPts}

\* The slots between head and head + count, which the reader may take.
Window(q, depth) == {Wrap(q.head + i, depth) : i \in 0 .. q.count - 1}
Owned(q, depth) == \A s \in Slots(depth) : (q.slot[s] # Empty) <=> s \in Window(q, depth)

\* The ownership protocol of the rings (main.cpp, FrameQueue): a slot holds a
\* frame exactly while it is queued, so av_frame_move_ref only ever meets an empty
\* one and the reader never takes one without data.
RingOwnership == Owned(vq, VDepth) /\ Owned(aq, ADepth)

\* No lost wakeup between the threads: whoever sleeps on a condition variable still
\* has its reason to, a full ring for the decoder, an empty and unfinished one for a
\* reader (g_stop aside, which wakes nobody: see EndsOrStands).
SleepersJustified ==
  /\ At("decoder", "pushVWait") => vq.count = VDepth
  /\ At("decoder", "pushAWait") => aq.count = ADepth
  /\ At("display", "popWait") => vq.count = 0 /\ ~vq.eof
  /\ At("audio", "playWait") => aq.count = 0 /\ ~aq.eof

\* The shutdown of play_video never joins a sleeping thread: once it has signalled
\* both queues no thread is in pthread_cond_wait, nor can one enter it again.
NoSleeperAtJoin ==
  pc["display"] \in {"joinD", "joinA", "exit"} =>
    stop /\ \A t \in Threads : pc[t] \notin WaitLabels

\* The screen only ever moves forward in the video: frames may be dropped, none is
\* shown twice or after a later one.
ShownInOrder ==
  \A i, j \in 1 .. Len(shown) : i < j => shown[i] < shown[j]

\* The frames of one stream that reach its queue, as positions in the file.
Stream(kind) == {i \in 1 .. Len(file) : file[i].kind = kind /\ Queued(file[i])}
Contents(q, depth) == [i \in 1 .. q.count |-> q.slot[Wrap(q.head + i - 1, depth)]]

\* Each ring, with its wrap-around, implements the queue of FrameFifo: the display
\* thread gets the video, and the audio thread the audio, in decode order, each
\* frame once.
VideoFifo == INSTANCE FrameFifo WITH
  Depth <- VDepth, source <- Stream("video"), queue <- Contents(vq, VDepth),
  delivered <- takenV

AudioFifo == INSTANCE FrameFifo WITH
  Depth <- ADepth, source <- Stream("audio"), queue <- Contents(aq, ADepth),
  delivered <- takenA

\* Video and audio reach the threads that take them as FrameFifo promises.
StreamsInOrder == VideoFifo!FifoSpec /\ AudioFifo!FifoSpec

\* Sound without a gap or an overlap.
ContiguousSound ==
  \A i, j \in Stream("audio") :
    i < j /\ Stream("audio") \cap (i + 1) .. (j - 1) = {} => Pts(j) = Pts(i) + FrameTicks

\* How far the clock lies behind the end of the sound last taken from the queue.
Behind == Pts(takenA[Len(takenA)]) + FrameTicks - clock
ClockSet == clock # NoPts /\ pc["audio"] \in {"play", "playWait"}

\* The master clock of sound at any sample rate and on a device that loses some of it:
\* after a write it lies behind the stream by what the resampler holds back, what the
\* device has lost and what it has yet to play, and by nothing else.
AudioClockTracksStream ==
  ContiguousSound /\ ClockSet =>
    Behind - swr.held - lost \in 0 .. MaxDelay

\* "This aligns the audio clock with the stream's PTS timeline" (step "Update master
\* audio clock"): only what the device has yet to play lies between the two.
ClockAligned == ContiguousSound /\ ClockSet => Behind \in 0 .. MaxDelay

\* Without audio, dropping a late frame moves the whole schedule later, never earlier:
\* the frames that follow are not rushed to catch up.
ScheduleOnlyMovesLater ==
  [][clkInit => anchor'.wall - anchor'.pts >= anchor.wall - anchor.pts]_vars

\* The three ways in which playback comes to a stand.  The sound is over, or was given
\* up, before the clock has reached the picture:
ClockShort == At("audio", "exit") /\ At("display", "spin") /\ clock < Pts(frame)
\* each of the three waits for the next, the display for the clock, the audio for sound,
\* the decoder for room:
Circle ==
  /\ At("display", "spin") /\ clock < Pts(frame)
  /\ pc["audio"] \in {"play", "playWait"} /\ aq.count = 0
  /\ pc["decoder"] \in {"pushV", "pushVWait"} /\ vq.count = VDepth
\* nobody takes the sound any more, and the decoder cannot get past it to the picture:
Stranded ==
  /\ At("audio", "exit")
  /\ pc["decoder"] \in {"pushA", "pushAWait"} /\ aq.count = ADepth
  /\ pc["display"] \in {"pop", "popWait"} /\ vq.count = 0
\* A stop ends the wait for the clock, and it ends the last stand only for a thread that
\* is awake: on_signal signals no condition variable.
Stands == (~stop /\ (ClockShort \/ Circle)) \/ Stranded

\* Whatever the file, and whatever signal or failure comes at whatever moment, playback
\* ends with every thread joined, unless it comes to one of those three stands.
EndsOrStands == <>[](Exited \/ Stands)

\* The wait for the audio clock in step E ends.
SpinEnds == At("display", "spin") ~> ~At("display", "spin")

\* The decoder does not wait for room in the audio queue forever.
DecoderFlows == At("decoder", "pushAWait") ~> ~At("decoder", "pushAWait")
==============================================================================
