-------------------------- MODULE MCPlaybackThreads --------------------------
(* Files for TLC, one letter per packet: video, audio, a stream that is not *)
(* played, and a video frame without a timestamp.                           *)
EXTENDS PlaybackThreads

V(t) == [kind |-> "video", pts |-> t * FrameTicks]
A(t) == [kind |-> "audio", pts |-> t * FrameTicks]
Other == [kind |-> "other", pts |-> 0]
Unstamped == [kind |-> "video", pts |-> NoPts]

\* Interleaved files with more frames of each kind than a ring of two holds, and
\* stretches of one kind longer than the ring.
MixedFiles == {
  <<V(0), A(0), Unstamped, V(1), A(1), V(2), A(2)>>,
  <<A(0), A(1), A(2), A(3), V(0), Other, V(2), V(3)>>,
  <<V(0), A(0), V(1), V(2), V(3), V(4), A(1)>>}

\* A file whose audio outlasts its video, so that the clock reaches the last frame.
LongSound == <<V(0), A(0), V(1), A(1), A(2)>>

\* Files without any audio, one of them with gaps.
SilentFiles == {
  <<V(0), V(1), V(2), V(3), V(4)>>,
  <<V(0), Other, V(2), Unstamped, V(3), V(6)>>}

AllFiles == MixedFiles \cup SilentFiles \cup {LongSound}

\* Audio and video of equal length.
EqualLength == {<<V(0), A(0), V(1), A(1), V(2), A(2)>>}
==============================================================================
