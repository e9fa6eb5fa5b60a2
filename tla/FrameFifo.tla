------------------------------ MODULE FrameFifo ------------------------------
(***************************************************************************)
(* What a decode-ahead queue of mp4_play promises to the thread that reads *)
(* it: it hands over the frames of one stream in decode order, each at     *)
(* most once and with none missing, and is never more than Depth frames    *)
(* ahead.  No ring, no mutex, no condition variable: PlaybackThreads is    *)
(* shown to implement it once for the video and once for the audio queue.  *)
(***************************************************************************)
EXTENDS Naturals, Sequences

CONSTANT Depth      \* capacity of the queue

VARIABLES source,     \* the frames of the stream, numbered in decode order
          queue,      \* the frames decoded ahead
          delivered   \* the frames handed over so far

fifoVars == <<source, queue, delivered>>

FifoInit ==
  /\ source \in SUBSET Nat
  /\ queue = <<>>
  /\ delivered = <<>>

Frames(s) == {s[i] : i \in 1 .. Len(s)}

\* The next frame of the stream enters the queue: just the frames before it have.
Put ==
  /\ Len(queue) < Depth
  /\ \E f \in source :
       /\ \A g \in source : g < f <=> g \in Frames(delivered \o queue)
       /\ queue' = Append(queue, f)
  /\ UNCHANGED <<source, delivered>>

\* The oldest frame leaves it.
Get ==
  /\ queue # <<>>
  /\ delivered' = Append(delivered, Head(queue))
  /\ queue' = Tail(queue)
  /\ UNCHANGED source

FifoSpec == FifoInit /\ [][Put \/ Get]_fifoVars
==============================================================================
