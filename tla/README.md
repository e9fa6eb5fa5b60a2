# Verification of the MiSTer MP4 player

TLA+ models of the player that turns the Groovy core of a MiSTer (DE10-nano: an ARM next to an FPGA)
into a video player, with the TLC configurations that check them and TLAPS proofs of what matters
most. Everything is translated from the sources under `src/`; the line ranges of every definition are
in `PROJECT.json`, `map`.

    tlc -config PlaybackFaults.cfg MCPlaybackThreads.tla       # a run
    tlapm PlaybackThreads_proofs.tla                           # proofs; the other *_proofs and YuvToRgb alike

## 1. The system and its parts

A video takes this way: `mp4_play` demuxes and decodes on the ARM, scales each picture into three
planes (Y, U, V) in DDR memory, and writes a register of the FPGA to start a DMA. The DMA converts
the planes to RGB in one of two frame buffers and raises a bit. The player waits for the bit, waits
for the vertical blank, selects the buffer, and waits for the next blank. The scaler reads the
selected buffer out to HDMI; for a CRT, `fb_scan_out` fetches it line by line over a DDR port it shares
with the audio. A launcher daemon starts and kills the player on behalf of the menu. The core the player
lives in still is the Groovy core, which shows frames an emulator sends over UDP: a client library in the
emulator, a server in the MiSTer binary on the ARM.

| Component | Source | State | Operations | Talks to |
|---|---|---|---|---|
| Playback threads | `h264-daemon/main.cpp` 240-968 | two rings (slot, head, count, eof), `g_stop`, `audio_playback_start`, audio clock, pacing state | demux/decode/push, discard/pop/write, pop/pace/convert/flip, shut down and join | each other (mutex, condition variables, unlocked flags), ALSA, registers |
| Control registers | `rtl/mp4_ctrl_regs.v` | sticky latches, `buf_sel`, `next_buf_sel`, plane bases, pulses, AXI handshakes | read, write, latch a pulse, commit the staged selection at the blank | ARM bridge, DMA, scaler |
| YUV DMA | `rtl/yuv_fb_dma.v`, `rtl/yuv_to_rgb.sv`, synchronisers in `sys/sys_top.v` | FSM, counters, line buffers, pipeline, Avalon outputs | fetch U, V, Y rows in bursts, convert, write RGB rows, report | DDR port, registers |
| Way of a frame to the screen | `main.cpp` 94-230 and 871-912, `sys_top.v`, `sys/ascal.vhd` | planes, buffers, base register, scan phase | write planes, trigger, poll, flip, scan | all of the above |
| Launcher | `h264-daemon/mp4_launcher.sh`, `.c`, the selection latch in `Groovy.sv` | previous status, bits to handle, clock frequency, player process | check core, poll, launch, stop, clean up on a signal | registers, player process, menu |
| CRT scan-out | `rtl/fb_scan_out.sv` | video timing, two line buffers with a toggle per side, fetch FSM | fetch a line, show a line | arbiter, `fb_active` |
| Port arbiter and audio/palette service | `rtl/ram2_arb.v`, `sys/ddr_svc.sv` | grant, beats left; two channels' requests, FSM | grant, count a burst; serve a channel | DDR port |
| Colour conversion | `rtl/yuv_to_rgb.sv` | pipeline registers of fixed width | convert a sample | DMA, scan-out |
| Groovy client | `api/groovymister.cpp`, its wrapper, RetroArch's `gfx_mister.c` | connection, frame number, last status | open and close a session, set a mode, send frames and sound, read answers | network |
| Groovy server | `hps_linux/src/support/groovy/groovy.cpp` | transfer in progress, priority, session block, DDR header | tell chunks from commands, place pixels, announce frames, acknowledge | network, core |
| Groovy core | `Groovy.sv`, `rtl/{hps_ext,lz4,vga,sound,ddram}` | blit and mode state | follow the header in DDR, show | server, DDR |
| Rest | framework, PLLs, debug UARTs, vendored libraries | | | |

What is hard in each, and what makes it correct:

* **Playback threads.** Three threads, two rings, four condition variables, three variables shared
  without a lock; a fault (signal, ALSA, memory, DMA, underrun) may end any of them at any point.
  Correct when the rings are FIFO queues whose slots have one owner, no wakeup is lost, the threads
  do not wait for each other in a circle, pictures never jump back, the clock follows the stream, and
  every playback ends with all threads joined. The last two the code does not quite keep; see section 3.
* **Control registers.** A pulse on the clock of a clearing read; address and data of a write
  on independent channels with the next write behind them; a flip that must be staged to the blank.
  Correct when software may take each access for one atomic step on a register file.
* **YUV DMA.** Registered outputs act a clock late, chroma rows are shared by two rows, pixels leave
  the pipeline six clocks after they entered, memory stalls. Correct when a frame reported complete
  holds every pixel in its place and each end is reported once.
* **Way to the screen.** Four parties without a common clock: player, DMA, scaler, launcher; waits
  with timeouts; a clear-on-read register with two readers; `kill -9` between any two steps. Correct
  when nothing is drawn into the buffer being scanned, frames appear whole, once and in order, and
  the player's view of the DMA is true.
* **Launcher.** Edge detection on latches that others set and clear, a clock frequency with three writers,
  signals between any two commands, a core that may be replaced. Correct when one player runs at a time,
  the processor is clocked up only to play, nothing is left behind and what the user selects is launched.
* **CRT scan-out and arbiter.** Fetches that come late behind the other master's bursts, two buffers that change
  roles by independent toggles, switching off and on at any clock. Correct when each line on the screen is
  the one due and wholly fetched, the lines follow the interlaced order, and a beat goes to the master that
  asked for it; and when each master's request is served.
* **Colour conversion.** Fixed widths. Correct when no sample overflows them.
* **Groovy link.** Chunks without numbers over a network that loses, repeats and reorders; a server that tells
  chunks from commands by state and length; clients that give up, vanish or come back; a block freed at
  the close of a session. Correct when an incomplete frame never passes for a whole one, a header is
  never taken for pixels, the freed block is not used and the server's loop always ends.

The list of hazards, line by line, with the properties that answer them is in `PROJECT.json`,
`hazards`.

## 2. Modules

    FrameFifo         what a decode-ahead queue promises (abstract)
    PlaybackThreads   the three threads of mp4_play                     implements FrameFifo, twice
    MCPlaybackThreads the files to play, for TLC
    PlaybackThreads_proofs  theorems about PlaybackThreads
    CtrlRegs          the registers as software sees them (abstract)
    Mp4CtrlRegs       mp4_ctrl_regs.v clock by clock                    implements CtrlRegs
    MCMp4CtrlRegs     the word addresses, for TLC
    Mp4CtrlRegs_proofs  theorems about Mp4CtrlRegs
    PageFlip          player + registers + DMA + scaler + launcher      EXTENDS CtrlRegs
    PageFlip_proofs   theorems about PageFlip
    YuvFbDma          yuv_fb_dma.v clock by clock, with its synchronisers and memory
    YuvFbDma_proofs   theorems about YuvFbDma
    Launcher          both launcher daemons, the players' lives, the menu         EXTENDS CtrlRegs
    Launcher_proofs   theorems about Launcher
    Ram2Arb           ram2_arb.v and the memory behind it, for the next two to EXTEND
    InterlacedScan    the order of lines an interlaced scan-out promises (abstract)
    FbScanOut         fb_scan_out.sv as master B of the arbiter         implements InterlacedScan
    FbScanOut_proofs  theorems about FbScanOut
    DdrSvcPort        ddr_svc.sv as master A of the arbiter
    YuvToRgb          the arithmetic of yuv_to_rgb.sv, with its theorems
    GroovyLink        client library, UDP network and the server's packet handler
    GroovyLink_proofs theorems about GroovyLink

### PlaybackThreads

`pc[t]` is the place of thread `t`; a label ending in `Wait` means the thread is inside
`pthread_cond_wait`. A critical section is one step, since nothing can look inside; what a thread does
without the lock (flag tests, clock reads, ALSA calls, join) is a step of its own. `GoAndWake` is
`pthread_cond_signal`: the waiter goes back to test its predicate. Spurious wakeups are allowed.

| Action | Code |
|---|---|
| `Read`, `PushVideo`, `PushAudio`, `EofVideo`, `EofAudio` | `decode_thread_fn` |
| `PreCheck`, `Discard`, `OpenAlsa`, `PopAudio`, `WriteAlsa`, `DrainAlsa` | `audio_play_thread_fn` |
| `PopVideo` ... `Flip` (steps A to J), `Shut`, `SignalVideo`, `SignalAudio`, `Join` | `play_video` |
| `Signal` | `on_signal` |

Abstractions: a file is the sequence of frames its codecs deliver, each with a kind and a timestamp;
a frame is named by its position, and a slot holds a name or `Empty` (an `AVFrame` without data).
Time and sound are in ticks, of which a frame of sound lasts `FrameTicks`. `swr` is the resampler: it is given `room`,
as many 48 kHz samples as the frame has of its own, and holds back (`held`) what does not fit; which room, hence which
sample rate, is chosen at the start out of `Rooms`. (For rates above 48 kHz there is room to spare, which is the case
`room = FrameTicks`.) A write may take all, a part or nothing; `lost` counts what it did not take. ALSA is
what it has not played yet (`delay`), which never makes it take back what it has played. Whether there is an audio
stream (`adec`) is chosen at the start.
A torn read of the clock (a 64-bit `volatile double` on a 32-bit ARM) has no counterpart in ticks.

### Mp4CtrlRegs and CtrlRegs

A step of `Mp4CtrlRegs` is one rising edge of `clk`; right-hand sides are the registers before it.
The ARM's bridge is external: it raises valid signals at any time, holds them until accepted, takes
responses when it likes and may have a second write on its way. Addresses are word indices and the
partial address decoding of the slave (`% 16` on reads, `% 8` on writes) is kept. A word is the set of
its bits that are 1. `owed` and the transaction numbers are history variables for the properties.
The refinement maps `bufSel` to `Committed`, the value `buf_sel` takes on the next edge: the blanking
latch commits the staged selection one clock after it is set. Ids, byte strobes and the magic word
carry no state; reset happens before `Init`.

### PageFlip

One access of the player to a register per step. `DmaRow` is one row of the DMA, `VblEdge` the start of
a blank and `VsFall` the end of the sync, where the scaler takes the base address. The 50 ms waits H
and J end early only in a player that was not scheduled (`Prompt = FALSE`) or when the scaler has
stopped (a mode change, `PauseScan`); the 200 ms DMA timeout only strikes when the DMA has ended, since
200 ms are many times the length of a DMA. `Kill` is `killall -9` at any point, `Start` the next run.
`Start` is followed by `WriteHeader`, which puts the mode line into the first bytes of buffer A, and the pause of 100 ms
(`Settle`), or, when the page cannot be mapped, by neither (`HeaderNotMapped`, `main.cpp:1070`). `settled` is history: no DMA
of an earlier run can be under way any more.

### YuvFbDma

A step is one clock; each state of the FSM is an action with the same name. Data is named by its
origin: a beat is `<<<<plane, row>>, number>>`, a pixel the beats it was made of, an address a plane and
a row. Rows and chroma sharing, beats, `pack_beat` and the pipeline depth are as in the code; the
arithmetic of the conversion is not. The memory (`ServeRead`, `ServeWrite`) is external: it accepts a
command in its first clock or keeps it waiting, and delays beats, as it likes, one burst at a time. `early` is history: the
rows whose luma read was accepted in its first clock. The two toggle synchronisers are included.

### Launcher

Each command of the daemon is a step; `script` chooses the form (the shell script checks the core and knows
the file bit, the C program ends its loop on a signal where the script runs its trap before the next
command). `ret` is where `stop_video` returns to, `todo` the rising bits still to be handled. Players start
(and set the clock), poll the shared status, end (and set it back) or give up early. `Select` is the latch of
`Groovy.sv`: the register's input stays high from then on. `groovy` is what `/tmp/CORENAME` and the FPGA hold;
a status read on another core hangs. Neither the daemon, which checks before, nor the player, which never does, is safe
from it: the daemon gets to `hung`, and a player that polls on another core is counted in `hung`, where no kill reaches it.
Which file plays is left out.

### Ram2Arb, FbScanOut, DdrSvcPort

A step is one clock. `Ram2Arb` holds the arbiter's state, what each master sees of the memory's signals, and the
memory itself: one read at a time, each burst kept waiting for at most `MaxWait` clocks in all. `FbScanOut`
adds `fb_scan_out` as master B and any master A that starts at most one burst per line; the buffers hold, for each
beat, the line it was fetched for. `fb_active` changes at any clock. `DdrSvcPort` adds
`ddr_svc` as master A and any master B. `synced` and `put` are history; addresses, colours and `hs_out` are left out.
`InterlacedScan` is what an observer of `display_line` is promised; the refinement shows "off" until the first
vertical sync after switching on, since before it the buffers still belong to an earlier time.

### YuvToRgb

Every stage as an operator, every register as a number wrapped to its width (`Signed`). `Red`, `Green` and `Blue` are
the BT.601 formulas in unbounded integers.

### GroovyLink

`cl`, `net`, `sv` and `poc` are the client, the packets under way, the server's flags and its session block. A step is
one call of the client, one packet handled by the server or one act of the network. Packets carry their real lengths,
since the server knows them by nothing else, and where a chunk comes from, which only the properties look at.

| Action | Code |
|---|---|
| `CmdInit`, `Connect`, `GiveUp` | `CmdInit` with its 60 ms wait for an answer |
| `CmdSwitchres`, `CmdBlit`, `CmdAudio`, `WaitSync`, `CmdClose` | functions of the same name, as RetroArch calls them |
| `DropBroken`, `SkipNoModeline`, `setBlitRaw`, `setBlitRawAudio`, `IgnoreChunk` | the branches of `process_packet` for data |
| `setInit` ... `setBlitDup` | its branches for commands, each also on the state a broken transfer leaves |
| `Lose`, `LoseAnswer`, `Repeat`, `Overtake`, `Vanish` | the network, clients that die |

`announced` and `frame_ddr` are the header in DDR by which the FPGA follows the frame; `hps` is the server's option
to announce complete frames only. `own`, `held` and `ended` are history: whether each chunk since the header was one of its
frame in its place, which frame DDR holds whole, and how the last transfer of pixels ended:

| `ended` | |
|---|---|
| `whole`, `torn` | all bytes were counted; all, or not all, were the frame's own |
| `marked` | a loss was noticed, and the FPGA told (unless `hps`) |
| `kept`, `stale` | a duplicate, announced complete over what lies in DDR: the frame before it, or something else |

A chunk nobody waits for is read as a command. Its bytes are any bytes, so where its length is that of a command it is also
taken for each command of that length (`Readings`): the lengths, the older ones included, are those of `process_packet`; the
frames and sizes it may spell are those of some client, which bounds them. `mixed` notes that this, or
the opposite, has happened.

The packets that open and close a session are lost, repeated and overtaken like the others, counted apart (`faults.sess`):
a second `CMD_CLOSE` frees the block again (`groovy.cpp:836`), and nothing in the code prevents it. `uses` is the
history of who used the block after it was freed:

| `uses` | |
|---|---|
| `packet`, `free` | a command that needs the block; a second `CMD_CLOSE` |
| `logo` | with the screensaver on, `setClose` itself goes on to draw the logo (836, 844, 609) and `groovy_FPGA_status` reads the block (454-469); so does the logo of each poll (2508, 627) until the next `CMD_INIT` |
| `input` | `groovy_send_joystick`, and alike `groovy_send_analog` and `groovy_send_keyboard` (2523, 2546, 2587), which ask nobody whether there is a block |

## 3. Runs

| Run | Shows |
|---|---|
| `playback_faults` | Under all faults, with and without audio, at 48 kHz and below: ring ownership, no lost wakeup, no sleeper at the join, pictures never go back, both rings implement `FrameFifo`, the schedule only moves later, the clock lies behind the stream by what is held back, lost or unplayed, and playback ends or comes to one of three stands |
| `playback_alsa_fails` (violation) | ALSA does not open: nobody drains the audio queue, the decoder sleeps for good |
| `playback_slow_sound` (violation) | Sound of less than 48 kHz: the resampler is given too little room, and the clock falls behind the stream with each frame |
| `ctrl_regs` | No pulse lost, write halves match, the slave implements `CtrlRegs` |
| `page_flip_one_run` | A promptly scheduled player: no tearing, whole frames, each scanned, once and in order, no false timeout |
| `page_flip_restarts` | Killed and restarted players, scaler pauses, the launcher reads the status: planes stable under the DMA, completions are one's own, but for the first frame of a run that made no pause |
| `page_flip_descheduled` (violation) | A player not run between seeing the blank and flipping, or through its waits, draws into the scanned buffer |
| `yuv_fb_dma` | The converted frame is complete and right, but for the luma of the odd rows whose read was accepted in its first clock; bursts are whole, every end is reported |
| `launcher` | One player at a time, the clock up only to play, nothing left behind, signals obeyed, the first selection launches; when the core goes, daemon or player may hang |
| `scan_out` | Behind the arbiter, with the other master's bursts: beats reach their master, the line on the screen is the one fetched for it, lines come in interlaced order and all of them again and again |
| `ddr_svc_starves` (violation) | `ddr_svc` waits for its waitrequest to fall, the arbiter for its read: audio and palette are never read |
| `groovy_link` | In a session, an unmarked frame is announced under its number and, after at most one loss, whole, and a duplicate stands for what is in DDR unless something was lost; headers are seen as such unless as long as the last chunk; no packet uses the freed block; the loop ends while packets come |

What `EndsOrStands` names, and the code comes to:

* `ClockShort`: the sound is over, or was given up, before the clock has reached the picture. The display spins
  (`main.cpp:848`) until a signal. A file whose audio ends with the video gets there, since the clock stops short of the end by
  what ALSA holds at the last write; `PlaybackTail.cfg` shows it.
* `Circle`: the audio of a picture comes further behind it in the file than the video queue is deep. The display spins for a clock
  that needs sound, the sound is behind a frame the decoder holds, and the decoder waits for the display. A signal ends it.
* `Stranded`: the audio thread has ended (ALSA failed, or no memory), the audio queue is full, and the display waits for
  a picture behind the sound. `on_signal` (`main.cpp:43`) wakes nobody, so a signal does not end this one.

### Bounds

* Threads: rings of 2 slots. A ring of 2 wraps, fills and empties; the files of `MixedFiles` hold more
  frames of each kind than that, and stretches of one kind longer than the ring, so that every wait is
  reached from both sides. `MaxTime` bounds the clock only while nobody sleeps to a target; files end by tick 6 of frames.
  `FrameTicks = 2` with room for 1 or 2 ticks is sound at half the rate and at the full one. `MaxDelay = 1` leaves half a
  frame unplayed. Files with and without audio, audio that outlasts the video, that ends with it, and that comes late.
  The proofs hold for every depth, every file and every rate.
* Registers: one alias of the status word is read and one of the control word written, data is selection
  on or off, `MaxAhead = 2` writes are under way, which is what lets the halves of two
  writes overlap. The input pulse besides the blank is the DMA's; the file selection has the same code.
* Page flip: 2 rows (a frame can be half drawn), 3 or 4 frames (each buffer is reused), 3 runs of the player
  (two deaths). `frame` and `runs` are the only counters.
* DMA: 16 columns by 4 rows, 4 bytes per beat: two chroma rows, each used twice, several beats
  per burst, and a row longer than the pipeline. Two triggers: the second may fall into the first frame,
  where the engine ignores it, or start a second.
* Launcher: two selections, the core away and back, room for two player processes, of
  which the second must never be used.
* Scan-out: 4 lines (two per field), 2 beats of 2 pixels, 2 clocks per pixel, `MaxBurst = 2` and `MaxWait = 1`. With
  `H_BP = 9` the horizontal blank is one pixel longer than a burst of A and two fetches may take, and exactly what
  `BlankSuffices` asks for; with 7 `LineOnScreenIsFetched` fails. The code has 218 pixels of six clocks for it.
* Groovy link: frames of two full packets and a rest (raw) or one and a rest (compressed), sound of one and a rest. One
  of the two compressed sizes, 1484, ends in a chunk of 12 bytes, as long as the header of a compressed frame. Two frames per
  session, any number of sessions, and two faults of any kinds: packets or answers lost, packets repeated or overtaken, clients
  that vanish, answers that come late. `Window` bounds the packets in flight when the client sends more. The proofs hold for any
  sizes and bounds. `FramesEndWhole` states its own premise: with a second loss, or one repeated or overtaken packet, it
  fails, since chunks have no numbers and lengths can add up.

`CHECK_DEADLOCK FALSE` stands only in the runs of the threads under faults, where the system really stops (a
violation run shows where), and in those of the launcher, which may have exited or hang.

### Fairness

* Threads: weak fairness of each thread and of the clock. The kernel runs a thread that can run. No fairness
  for spurious wakeups, signals and faults; nothing is assumed of a sleeper. Strong fairness of a pop in the loop before
  playback (`Discard`): it tries `av_frame_alloc` again and again, and memory does not fail for ever.
* Page flip: weak fairness of the player, of a DMA under way, and of the scaler while it scans.
* DMA: the clock runs; strong fairness that the memory accepts a command and delivers a beat: the port
  serves its masters in turn and does not starve one forever.
* Launcher: weak fairness of the daemon.
* Scan-out and arbiter: the clock runs. The memory answers within `MaxWait` by construction.
* Groovy link: weak fairness of `groovy_poll`, which the main loop of the binary calls for ever. Nothing is assumed of
  the client: `PriorityGivenUp` has the arrival of packets as its premise, and fails without it (a client that dies
  within a frame leaves the server in `while (isCorePriority)` until somebody sends something).

### Not given a run

More departures were met. Four have a configuration of their own:

* `tlc -config PlaybackTail.cfg MCPlaybackThreads.tla`, `SpinEnds` fails: the clock stops short of the end of the
  stream by what ALSA holds at the last write (`main.cpp:848`); a video frame beyond it is waited for for ever.
* `tlc -config PageFlipTwoReaders.cfg PageFlip.tla`, `NoFalseTimeout` fails: the launcher polls the clear-on-read status
  register too (`mp4_launcher.c:163`) and takes the player's done bit.
* `tlc -config LauncherPicks.cfg Launcher.tla`, `SelectionLaunches` fails for a second selection: `file_selected_latch`
  (`Groovy.sv:370`) is never reset, although line 376 says "Clear latch when bit is read by ARM"; the status bit is set
  again at once and never rises again. `FirstSelectionLaunches`, which the run `launcher` checks, is what remains of it.
* `tlc -config FbScanOutColours.cfg FbScanOut.tla`, `ColoursWhenEnabled` fails: the colours follow `de_out` one pixel
  later (`fb_scan_out.sv:238-249`), although `sys_top.v:1619-1620` takes them for aligned: each line starts with a
  black pixel and loses its last one.

The others are seen by looking at a run's exceptions:

* `YuvFbDma`, `FrameConverted`: an odd row skips `GUARD`, and the first clock of `FETCH_Y` puts the old `y_addr_reg` on
  the bus; a memory that accepts a read in its first clock delivers the row before, though `yuv_fb_dma.v:303` says the
  address is calculated there "too (for odd rows that skip S_GUARD)". The property says that such rows, and no others, have
  the luma of the row before. Whether the port ever accepts at once is up to the memory controller: the sources do not say.
* `PageFlip`, `PlanesStable` and `DoneIsOwn`: a run that cannot map the header page starts at once, and a DMA of the run
  killed before may still be reading the planes, or end in time to be taken for the new run's own. From the first end that it
  sees on, such a run is covered too.
* `PlaybackThreads`: the three stands above; and a failed or short write, whose samples the clock never counts (`lost`).
* `GroovyLink`, `HeaderStartsFrame`: a header as long as the last chunk of the transfer it meets is dropped with it, or, when the
  count fits, completes it as pixels (`groovy.cpp:1964`, 1935). A compressed frame may have any length (`groovymister.cpp:568`).
* `GroovyLink`, `FramesEndWhole`: a duplicate of a frame that was lost is announced complete (`setBlit`, 1198) under its own
  number, and shows what DDR happens to hold; nothing in the protocol says so.
* `GroovyLink`, `FreedUsedByNoPacket`: with the screensaver the block is read right after it was freed, and inputs write to it.
* `Launcher`: bit 2 of the status is the blanking latch, which `mp4_launcher.c:37` takes for the T2 button. In
  the model `Poll` finds it risen without any selection, and `Dispatch` goes on to kill and launch. The buttons
  T0 and T1 have no bit in the register at all.

## 4. Proofs

Theorems stand in eight modules.

`PlaybackThreads_proofs` proves, for all ring depths, files and faults,

    TypeCorrect          Spec => []TypeOK
    OwnershipKept        Spec => []RingOwnership
    NoLostWakeup         Spec => []SleepersJustified
    JoinMeetsNoSleeper   Spec => []NoSleeperAtJoin
    ShownForward         Spec => []ShownInOrder
    QueuesImplementFifo  Spec => StreamsInOrder
    ScheduleForward      Spec => ScheduleOnlyMovesLater
    ClockOnTimeline      Spec => []AudioClockTracksStream

from `DepthAssumption` (depths are positive), `FileAssumption` (a file is a sequence of frames),
`SoundAssumption` (frames and rooms are not empty), `TimeAssumption` and `FaultAssumption`.

* The first two follow from `IInv`. `TypeOK` and `RingOwnership` are not inductive alone: that a push
  fills its slot needs the frame in the decoder's hand to be a frame (`HandsFull`), and that the clock
  computed from a queued frame is a number needs every queued frame to have a timestamp (`QueuedStamped`).
  The ring algebra is in three lemmas: `WindowAsInterval` turns the window of a ring, with its wrap, into
  two intervals; `PushKeepsRing` and `PopKeepsRing` follow from it.
* The next two follow from `SleepInv`: besides the sleepers' reasons, how far the shutdown has come
  (`ShutdownProgress`). After `Shut` the flag is set, so no thread can fall asleep any more; after each
  signal nobody sleeps on that queue. With `stop` set, a thread that tests its predicate leaves.
  `TypeCorrect` is used for the places of the threads.
* `ShownForward` follows from `OrderInv`: what was shown, what is in the display thread's hand and what is queued follow each
  other in the file, and none of it lies behind the last frame that has left the decoder's hand (`Newest`). That a push,
  a pop and a show keep this are lemmas about the ring; all other steps drop frames or leave them where they are.
* `QueuesImplementFifo` is the refinement the run checks on a small instance: with the slots from head to tail, across
  the wrap, for the queue, every step is a `Put` or `Get` of `FrameFifo` or a stutter. It rests on `StreamInv`
  (`StreamsKept`): what was taken from a ring, followed by what is in it, are the first frames of the stream, none
  left out, and the frame the decoder holds for it is the next. A pop leaves that sequence alone, a push appends to it.
* `ScheduleForward` is the lateness test at work: the schedule is only set anew from a frame that is late by more than a
  period, and that the frame in hand has a timestamp to set it by is `HandsFull` again.
* `ClockOnTimeline` follows from `ClockInv`: the frame taken last ends where `firstPts` and the ticks written, held back and lost
  say, and the clock lies behind that by what the device may hold. That the next frame taken continues it comes
  from `StreamInv` (`NextHeard`), for sound in which one frame begins where the one before ends, which is a premise of the
  property and not of the theorem: the code never looks at a later timestamp, so a gap shifts the clock for good.

`GroovyLink_proofs` proves, for all sizes of frames and sound, all bounds and any number of faults,

    TypeCorrect          Spec => []TypeOK
    HeadersStartFrames   Spec => HeaderStartsFrame
    FreedByNoPacket      Spec => []FreedUsedByNoPacket
    FramesWhole          Spec => []FramesEndWhole

from `SizeAssumption` (sizes are positive) and `BoundAssumption`.

* `IInv` adds to `TypeOK` the types of packets (`Packets`: commands have the length of their kind, chunks at most
  `Mtu`) and `Counted`: while a transfer is under way its count is a multiple of `Mtu` below what is expected. A shorter
  packet that does not complete the transfer ends it, so only full packets are ever added. Hence a short packet completes a
  transfer only when it is as long as its last chunk, and a header of any other length always gets through.
* `FreedByNoPacket` needs `SessionInv` on top, for as long as `InSession` holds: the opening and closing packets under way, in
  their order, agree with the client's state and with whether the block is live. Losing, repeating and overtaking other packets
  keeps it; a client that gives up sends no `CMD_CLOSE`, and one that was answered has had its `CMD_INIT` handled.
* `FramesWhole` adds three invariants. `ModeInv`: both sides agree on compression, and so do the headers under way.
  `EndInv`: while pixels come in, no frame has ended and the FPGA has been told this frame's number, or nothing when
  only complete frames are blitted. `WholeInv`: without repetition and overtaking, what is left of an announced frame
  follows its header. As long as one packet at most was lost, the server is either where the client is (its count is
  the place of the next chunk) or one packet behind, and then the rest of the frame cannot bring the
  count to what is expected: the loss shows. For duplicates, `DupInv` and `KeptInv`: while nothing is lost, the frame that DDR
  holds whole when a duplicate is handled is the one numbered before it. A header or a chunk mistaken for the other
  ends the session's premise (`mixed`), whatever the sizes.

`Mp4CtrlRegs_proofs` proves, for all words read and written, all inputs and any number of writes under way,

    TypeCorrect   Spec => []TypeOK
    NoPulseLost   Spec => []PulsesNeitherLostNorInvented
    HalvesMatch   Spec => []WriteHalvesMatch
    Implements    Spec => ImplementsAccess

from `DataAssumption` (words are made of the bits told apart), `PulseAssumption` and `AheadAssumption`.

* `NoPulseLost` rests on a read being answered with the latches of the very clock it clears them on
  (`StatusReadAnswered`).
* `WriteHalvesMatch` is not inductive: `Halves` says which write each channel is at. The write being collected or
  answered is number `answered`; a channel that has delivered its half, or any channel while the response waits, is
  at the next one (`Turn`). The slave takes no half while it answers, so no channel ever gets two ahead.
* `Implements` is the refinement the run checks on a small instance: every clock is a step of `CtrlRegs`, with the
  pulses of the clock, the status read it accepts, and the write it performs (`StepIsAccess`). It is what lets
  `PageFlip` and `Launcher`, which extend `CtrlRegs`, take an access for one step.

`PageFlip_proofs` proves, for buffers of any size and any number of frames,

    TypeCorrect      Spec => []TypeOK
    PlanesHoldStill  Spec => []PlanesStable
    EndIsOwn         Spec => DoneIsOwn
    EndIsSeen        ASSUME Prompt, ~OtherReader                PROVE Spec => []NoFalseTimeout
    NoTear           ASSUME Prompt, ~ScanMayStop, MaxRuns = 1   PROVE Spec => []NoTearing
    WholeFrames      ASSUME Prompt, ~ScanMayStop, MaxRuns = 1   PROVE Spec => []WholeFramesOnly

from `SizeAssumption` and `SwitchAssumption`. The conditions of the last three are those of the runs; the first three
need none, so they cover every kill, restart, pause of the scaler and second reader, with and without a header mapped.

* `DmaInv` says at which steps of the player the DMA rests (`Resting`), the planes hold the frame in hand (`Filled`) and
  the completed frame is that one, once the run is `settled`. The settling wait, or the first end seen, at the start and the clearing of the status before the trigger are
  what keeps it through a restart: the bit a dead player left is not there when the next one polls.
* `EndLatched` adds that the bit, once set, stays until the player reads it, which a second reader breaks.
* `NoTear` needs both buffers followed at once. `SelectInv`: staged selection, committed selection, scanned buffer and the
  player's `front` agree but for the time from the flip to the scan's next start. `BufferInv`: the front buffer is whole,
  the back one whole or, while the DMA draws, up to its row. A flip that was not waited for, which a kill can leave,
  breaks the first, hence `MaxRuns = 1`.

`YuvFbDma_proofs` proves, for rows, frames and bursts of any size, any number of triggers and any delays of the memory,

    TypeCorrect   Spec => []TypeOK
    BurstsWhole   Spec => []WholeBursts
    EndsReported  Spec => []EveryEndReported
    FrameRight    Spec => []FrameConverted

from `SizeAssumption` (a beat holds an even number of bytes, a row a whole number of chroma beats, a frame an even number
of rows), out of which `Counted` gets that a row is a whole number of beats of each kind.

* `ReadInv` and `WriteInv` relate engine and memory: the beats the memory still owes are those the engine has not counted,
  the beats it has accepted are those the engine has sent. Without them not even the types hold: `beat_cnt` stays in
  range only because no beat comes that was not asked for.
* `SyncInv`: an end of a frame is in one place at a time, and each clock moves it on by a register (`MovesOn`).
* `DataInv` follows the pixels. `LinesInv`: the line buffers hold the beats of this row as far as they have arrived, the
  chroma also through the odd row that follows. `PipeInv`: after `t` clocks, stage `i` holds pixel `t - i`. `RowInv`: the row
  buffer is right up to the pixel collected last; the first beat is packed a clock before the last pixel is in, which is
  right as a row has more than one beat (`FirstBeat`). `MemInv`: rows and beats written stay.
  The luma address is a clock old when the read goes out, so its row is `Luma(row)`: `early` decides in the clock the read
  is accepted, and nothing else does.

`Launcher_proofs` proves, for both forms of the daemon and any number of selections and core changes,

    TypeCorrect        Spec => []TypeOK
    OneAtATime         Spec => []OnePlayer
    BoostedOnlyToPlay  Spec => []BoostMeansPlaying
    EndsClean          Spec => []NothingLeftBehind

from `BoundAssumption`. `OnePlayer` is not inductive: that a launch finds no player running needs `PlayerInv`, by which
nothing plays from a kill to the next launch, and nothing starts a player but the daemon. The two about the clock
are inductive together with it.

`FbScanOut_proofs` proves, for all sizes of lines, frames and bursts,

    TypeCorrect   Spec => []TypeOK
    BurstsWhole   Spec => []BurstsStayWhole
    LinesInOrder  Spec => Scan!ScanSpec
    LineOnScreen  ASSUME BlankSuffices   PROVE Spec => []LineOnScreenIsFetched

from `WaitAssumption`, `FrameAssumption`, `TimingAssumption` and `BurstAssumption`.

* The arbiter counts the beats of a read in `cnt`, the memory in `owed`, the master in `beat_cnt` or `aLeft`. That they
  agree, which is what keeps a grant until its last beat, needs the masters to keep a command up until it is taken:
  `BKeepsOn` and `AKeepsOn`. A master that dropped its read a clock early would leave the arbiter in a state nobody ends.
* For the types, `EnableFollows` ties the data enable and the pixels put out to the timing counters: `put` stays
  within a line because the counter wraps.
* `LinesInOrder` is the safety part of `ImplementsScan`: `SignalsFollow` gives the registered signals as functions of the
  counters, so the sync ends and a line ends at known places of the raster (`EdgesFromCounters`), and `LineDue` gives
  the line due there. That the output can be switched off and on at any clock costs nothing: the counters start again.
* `LineOnScreen` is an argument about time. `Work` is the number of clocks the port may still be taken: what is left of
  A's burst, or a whole one if A may still begin it, what is left of the fetch, and a whole fetch if one is pending.
  While nothing new is asked for, it falls at every clock, whoever has the port and whether the memory waits
  (`WorkFalls`); so does the time to the next line (`TimeRuns`). `FetchInTime`: the one never exceeds the other.
  Fetches left from before the output was switched off are covered too: they end in the first line of the vertical blank.
  `BuffersFill` then follows a line through both buffers: the request lasts for a pixel of several clocks, so it is
  seen again while the fetch it began is under way, and every line is fetched twice, into one buffer and then the other.
  The two selectors, which nothing keeps in step, therefore never matter.
* `BlankSuffices` says that a pixel lasts for more than one clock (with one, lines are fetched once and the selectors do
  matter) and that `7 + MaxBurst + 2 * BEATS + 3 * MaxWait <= CeDiv * (H_TOTAL - W - 3)`. The code's sizes give
  `MaxBurst + 3 * MaxWait <= 963`: for the longest burst of 255 beats the memory may take 236 clocks extra per burst.

`YuvToRgb` proves `ConversionExact` (for all samples, the limited range or not, the pipeline's colours are those of
BT.601: `ProductsFit`, `SumsFit` and `ClampExact`, a register at a time) and
`ColoursReachTheScreen` (packed by the DMA and unpacked by the scan-out, they lose only their lowest bits).

Only model-checked: liveness, which is out of the prover's reach (`EndsOrStands`, `EveryFrameScanned`,
`EveryFrameEnds`, `TermEnds`, `FirstSelectionLaunches`, `PriorityGivenUp` and the second part of `ImplementsScan`). Every safety
property of a passing run is the subject of a theorem.

## 5. Not modelled

* Codecs and scaling; memory management of the player (a frame freed while still in its slot on out of memory,
  `main.cpp:795`, and 60 audio frames never freed, `main.cpp:958`); a torn read of the audio clock (`main.cpp:533`);
  the locks inside the C library that the signal handler may meet (`main.cpp:44`); a resampler that does not initialise.
* What follows a hung read of the bus: the models end there, for the daemon and for the player.
* Scan-out: `hs_out`, the frame buffer's base address, the output multiplexer.
* Groovy server: the AF_XDP path (a second way of the same packets into the same handler), the input sockets, version and
  status queries (`CMD_GET_STATUS` too uses the freed block, 2042; no client sends it), the deprecated blit commands, the logo, jumbo packets (which its loss test does not support either:
  "jumbo to do", `groovy.cpp:1930`). Groovy client: pacing by the raster, congestion pauses, delta compression, inputs;
  RetroArch's jump of its frame number to the core's when that is ahead (`gfx_mister.c:389`).
* The FPGA side of the Groovy core (`Groovy.sv`, `hps_ext.v`, `lz4.v`, `vga.v`, `sound.v`, `ddram.sv`): the header in DDR is
  where `GroovyLink` ends.
* The MiSTer framework, RetroArch but for the calls above, libbpf, FFmpeg and LZ4: most of the repository by
  size, used and not written here; debug output.

## 6. Plan

1. The Groovy core's side of the DDR header: frames announced whole or growing, the core's skipping of frames, and its
   composition with `GroovyLink`.
2. Proofs: what follows from several components at once, first that every frame the player converts is on the screen
   whole (`PageFlip` with `YuvFbDma` in place of its coarse DMA).
