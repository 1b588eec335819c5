# Jamodio audio engine: TLA+ models, model checking and proofs

This directory holds the formal models of the Jamodio agent, the program that runs on each
musician's machine, captures the instrument, sends it to the other musicians over RTP and plays
what they send back, and of the bench that measures it. It is written beside the source of
`jamodio-audio-core`, `jamodio-agent`, the two plugin hosts and `jamodio-bench`; every module names
the files it translates and every definition is tied to its
lines in `PROJECT.json` ("map"). Paths below are relative to `src/`.

Contents: 1 inventory of the system, 2 modules and their correspondence with the code, 3 the
runs and what they show, 4 bounds, 5 fairness, 6 proofs, 7 where the code and its comments
disagree, 8 what is abstracted or not modelled, 9 plan.

## 1. Inventory

### 1.1 Threads and how they meet

| Thread | Runs | Shares |
|---|---|---|
| WebSocket server (tokio tasks, `ws_server.rs`) | the browser's messages, one connection at a time, under the lock of `PipelineState` | the mixer, the command queue of the receive thread |
| receive thread (`pipeline/recv_thread.rs`) | one for all the received streams: sockets, decoding, deadlines | the mixer's cells |
| output callback (`audio/playback.rs`, `mixer.mix_into`) | pulls every cell, mixes, feeds the mix file | the mixer's cells, the record queue |
| input callbacks and encode stages (`audio/capture.rs`, `pipeline.rs`) | capture, plugin, encoding, sending; the self-monitor | rings, the mixer's own-strip cell |
| record thread (`record/mod.rs`) | writes the stems and the mix | a bounded queue |
| audio supervisor and health task (`ws_server.rs`, `device_loss.rs`) | rebuilds the audio when a device goes or comes back | `PipelineState` |
| plugin scan (`plugin_scan/`) | a worker process and its pump thread | the scan's cache |
| loops of measures (`perfstats_task` in `ws_server.rs`) | one per connection: reads the counters each second, cuts a plugin that harms, asks for larger buffers | the plugin's slot, the policy of the buffers' size |
| COM thread (`audio/com_exec.rs`) and the driver's own (Windows) | every ASIO call, one job at a time; the driver's callbacks | the driver, the registry of callbacks |
| main thread (macOS), thread `vst3-main` (Windows) | what touches a plugin and its window | the plugin |
| bench (`jamodio-bench`) | a run, a thread per simulated stream, a second machine | the agent, through the messages of a browser |

### 1.2 Components

**Packet ordering** (`jamodio-audio-core/src/net/seq.rs`). State: highest number seen, two 128-bit
masks (received, replaced by an invented frame), a quarantined candidate for a restart, counters.
Operations: `on_packet`, `on_concealed`, `start`. Hard: wrap of 16 bits, reordering, duplication,
restart just behind the old numbers, frames invented in between. Correct when what is played is
in order, no place is filled twice, verdicts are true, losses are not overstated, a flow that
restarts is heard again.

**Jitter buffer** (`mixer/ring_buffer.rs`). State: the ring, the target and the four margins it
sums (network floor, glitch floor, late margin, reactive margin), priming, pressure, the untold
hole. Operations: push, pull, six ways to change the target, recovery. Shared by three threads
under a lock. Correct when the target always covers the margins known and stays within its cap, a
hole is told once, bursts are drained, latency is kept after a hole and returned after a calm.

**Concealment** (`pipeline.rs` 5330-6226, `mixer/conceal.rs`, `recv_thread.rs` 344-364). State per
stream: deadline, next check, invented frames in a row, the hole awaiting its explanation.
Operations: a packet is played, a deadline is examined, a frame is invented. Hard: the decision
reads a buffer the output callback empties meanwhile, two mechanisms spend one budget, several
streams are examined at an instant later than the one at which their sockets were read. Correct
when the budget holds, a hole is classified once, a silent stream stops waking the thread, and a
packet already in the machine is not replaced.

**Receive thread** (`recv_thread.rs`, `recv_activity.rs`, `PipelineState::add_stream`,
`remove_stream`, `teardown_session`). State: the registered streams and their generation on the
control side; the queue; the sockets, pauses and decoding states on the thread's side. Hard:
edge-triggered readiness, pauses that drop signals, removal and re-adding through a queue, a wait
that fails, joining. Correct when one generation of a producer lives at a time, the mixer holds no
ghost, no packet is forgotten in a socket, sockets are bounded, the end is clean and never stuck.

**Mixer** (`mixer/mixer.rs`). State: cells by producer, settings remembered across cells, the
armed peers, the strip's wishes (armed, private). Hard: each setter and each birth of a cell is
several lock acquisitions. Correct when what is heard is what was asked, and nothing played in
private reaches a file.

**Session lifecycle** (`pipeline.rs`, `PipelineState`). State: capture or idle, the streams open,
the driver kept warm and its grace, the encoder, talkback, received streams, recorder, the losses
known (`device_loss.rs`). Operations: `start_capture`, `teardown_session`, `park`,
`leave_session`, `stop_all`, `rebuild_audio_streams`, `keep_listening_without_input`,
`add_stream`, all behind one mutex. Hard: each can fail half way and leaves what it had begun.
Correct when nothing of a session outlives it and what it says of the devices is true.

**Client slot** (`ws_server.rs` 830-2320). State: the place of the one active browser, its killer,
the connections, who waits for the mutex. Operations: connect, promote (the first message),
displace, watchdog, cleanup. Hard: a displaced connection sees its kick only between two messages,
its cleanup may run after the next session began, and gives up after 500 ms. Correct when one
browser holds the place, a session is ended by its own browser, and what was told to go goes.

**Audio supervisor** (`ws_server.rs` 2545-3384, `device_loss.rs`). State: what a task per
connection knows from one turn to the next: silent rebuilds, attempts, the time of the last
repair. Operations: about fifteen branches of a turn, each taking the mutex once or more. Hard: it
decides on what it read before waiting; the browser starts and stops meanwhile; devices leave
again while they return. Correct when the browser is told of exactly the losses known, a loss of a
device that is back ends, the input delivers again, an output noted as lost is opened again.

**Recorder** (`record/`, and the taps in the mixer). State: the gate, the queue of 256 commands,
the writers, a stop under way. Operations: start, send a block, stop, encode, finish. Hard: an
audio thread holds a sender after the stop; two recordings overlap; a full queue. Correct when a
file holds all that was accepted, in pages that can be read, and a stop returns.

**Encode pipeline** (`pipeline.rs` 3929-4922, `audio/capture.rs`). State: the channel of the
callback, two bounded queues between three stages, a stop flag. Hard: two chains may read one
channel under a warm driver; each stage blocks on the next. Correct when what is sent is in order
and of this session, and a chain that is stopped ends.

**Talkback** (`pipeline.rs` 2843-3128, 3700-3743, 4948-5228, `audio/voice_*.rs`). State: the stage,
the tap's commands, the microphone's sender, a call that waits while holding the session's mutex.
Hard: models that load for seconds, a stage let go before it is ready. Correct when one voice is
heard and no call hangs.

**Plugin scan** (`plugin_scan/`). State: the cache on disk, the list given to the studio, the
scan's thread, a worker process and what it has written. Hard: plugins that crash or hang, a worker
that dies between two, a file updated meanwhile, the agent restarted. Correct when a scan accepted
ends with a verdict for each plugin, nobody is condemned for another, a crash is remembered.

**Plugin hosts** (`PluginControl` in `pipeline.rs`, the plugin queue in `ws_server.rs`,
`jamodio-vst3-host`, `jamodio-au-host`). State: the slot (handle, description, bypass), one queue
per connection, the lock of plugin operations; then the jobs of the thread `vst3-main`, the
windows, the wiring of each component. Hard: native calls of unbounded length that outlive the
connection, plugins that treat messages while they are called, windows closed by the musician.
Correct when the slot, the host and the studio agree, and no plugin is called once terminated.

**Reference playback** (`mixer/reference.rs`). State: the metronome's grid, its last onset and the
voices that sound; the backing track's pieces, the frame due at the next block, the fades.
Operations: set, move and stop the grid; load, anchor, pause and stop the file; a block. Hard: the
grid moves under the blocks to follow the sound card, onsets fall on the edges of blocks, a start
is asked for ahead. Correct when a beat is clicked once, and the sound of the file neither starts
nor stops at once.

**ASIO host and bindings** (`audio/asio_host.rs`, `com_exec.rs`, `device.rs`,
`vendor/asio-sys`). State: the one driver of the process, up to three instances of the binding on
it, the registry of callbacks, the queue of the COM thread, the script of who holds the session's
lock. Operations: open, close, reopen, warm reuse, enumeration, change of apartment. Hard: any call
of the driver may fail, it calls back at any time, the enumeration does not take the lock. Correct
when no callback touches buffers that are gone, the driver is loaded once, an open host is heard,
a closed driver is free, every call returns.

**Buffer policy** (`audio/buffer_policy.rs`) and **measures** (`perfstats_task`, `perfstats.rs`).
State: the size asked for and the one in use, the windows under pressure; per loop, what it read of
the plugin and when. Hard: two loops read for a while, a repair or a reconnection falls between a
request and its effect, an operation replaces the plugin between the reading and the cut. Correct
when a change asked for is made, a plugin is judged on measures taken since its loading, and a cut
is told once.

**Bench** (`jamodio-bench`). State: the run's steps and musicians, the requests that wait for an
answer, the threads that send, the second machine, the rows, campaigns, tolerances and reference.
Hard: answers that are errors, an agent that leaves, threads retired while they send, counters that
start again, a machine or a library that changes between campaigns. Correct when no error is
swallowed, the run and its threads end, figures and verdicts are those of what was measured.

**Hole verdicts, network transport, clock estimators, codec, voice isolation, the tables of
devices, agent shell, message types**: signal processing, byte formats, operating system calls.
Their results enter the models as arbitrary inputs (a jitter tail, a decoding that fails, a device
that does not open); section 8 says why they have no module.

### 1.3 Interactions

A packet goes: socket → receive thread (`read_one`) → `RxCore::on_packet` → `SeqTracker` → decoder
→ `mixer.push_samples` → the stream's `JitterBuffer` → output callback (`pull`). Back-channels: a
hole met by `pull` is told by the next `push` and classified by the receive thread; the jitter
tail and late arrivals raise the buffer's target; the buffer's fill and playing state decide
whether a frame is invented. The control thread meets this path at three points: the command
queue, the mixer's remembered settings, the buffer's target.

A block goes: input callback → capture channel → capture stage (which also feeds the voice's tap)
→ process stage (plugin) → encode stage → socket. A browser message goes: connection → promotion →
the mutex of `PipelineState` → answer through the connection's queue; plugin messages go through a
queue of their own and take the mutex only to copy references. The supervisor of each connection,
its loop of measures and the cleanup of the former one ask for the same mutex. Under ASIO, who
holds that mutex sends jobs to the COM thread and waits for each; the enumeration sends its own
without the mutex.

## 2. Modules

| Module | Models | State and actions |
|---|---|---|
| `SeqTracker` | `net/seq.rs`, whole | a tracker is a record, the masks are sets of bit positions; `Classify` gives the verdict, `Record` the next tracker, `Invented` is `on_concealed` |
| `RtpStream` | `SeqTracker` between a sender, a wire and the playback deadline | `Send`, `Lose`, `Deliver` (`decode_one_packet` up to the decoder), `Conceal`; packets are absolute slots, the tracker sees them modulo `SeqMod` |
| `JitterBuffer` | `mixer/ring_buffer.rs` | one action per method; sound is counted in units; `Pull` is `Silence`, `Full` or `Hole`; `local` distinguishes the self-monitor from a network stream |
| `Concealment` | the receive thread's core for several streams | `Read` (all verdicts), `Select` / `ReadAgain` / `WouldBlock` / `BeginConceal` (`conceal_pass`), `Examine` and `Invent` (`conceal_due_streams`), `Pull` and `Tick` around them |
| `RecvThread` | control thread, command queue, receive thread, edge-triggered sockets | `BeginAdd`/`FinishAdd`/`RefuseAdd`, `RemoveStream`, the teardown in four steps; the loop's phases as `pc` |
| `MixerSettings` | setters against births of cells | one action per lock acquisition on either side |
| `PrivateMix` | own strip, arming, private mode, files | capture, output, browser and health threads, one action per lock or flag access |
| `Session` | the methods of `PipelineState` | no variable: each method is a function from a record to the set of records it may leave, all its failures included |
| `ClientSlot` | the connections around one `Session` record and its mutex | `Receive`, `Promote`, `Displaces`, `Handle`, `Reply`, `SeeKick`, `Close`, `BeginCleanup`, `Leave`, `SkipLeave`; the supervisor of each connection as `Look`, `Act` and `GoOn` (waits, takes the mutex, changes the session as `Turn` says of its stage), `Grace`, and the abort by the cleanup (`Aborted`, `Cancelled`, `Dropped`); the mutex is a queue, served in order |
| `Supervisor` | one supervisor, the browser and the devices around one `Session` record | one action per time the mutex is taken; delays are choices |
| `Recorder` | gate, sender, queue, record thread, stop, pages | `LookAtGate` / `RecordSend` on the audio side, `TakeRecorder` / `SendFinalize` / `Receive` / `TimeOut` on the control side, `Consume` / `Finish` on the thread's |
| `PluginScan` | scan thread, worker process, cache, list, restart | the pipe between them is one FIFO; the lists of items are sets, taken in any order; a plugin's `nature` says what it does when loaded |
| `ScanPromise` | what a scan promises the studio | abstract specification, implemented by `PluginScan` (`Promise == INSTANCE ScanPromise WITH scanning <- list.scanning, verdict <- Judged`) |
| `EncodeChain` | callback, channel, three stages, stop flag, over several captures | `TestGate` / `TrySend` of the callback, `Take` / `Push` / `GiveUp` per stage, `Launch` / `ObeyStop` / `Join` of the encoder thread |
| `Talkback` | start, change and stop of the voice, tap, microphone, stage | a call that waits keeps the mutex (`call`) |
| `PluginSlot` | the slot, one queue and worker per connection, the lock of plugin operations | one action per store between which another thread may look |
| `Vst3Editor` | the jobs of `vst3-main`, its windows, the nesting of messages in calls | `stack` holds the calls into views; jobs and the musician's closing happen in the middle of them |
| `AuHost` | an Audio Unit's life and window, the blocks of the main thread of macOS | a wait of ten seconds ends by running the block oneself if it has not begun, or by leaving it at work |
| `Metronome`, `Backing` | `mixer/reference.rs` | one action per call under the lock and one per block |
| `AsioHost` | driver, binding, host, COM thread, callers | `native` is the driver, `st` the instances, `queue` the COM thread's jobs step by step, `todo` the script of the lock's holder; a call takes `[s, n, ok]` to the set of what it may become |
| `BufferBackoff` | the size of the buffers | `Window` (a reading), the supervisor's repair, the openings of the session |
| `Measures` | the loops of measures beside the operations on the plugin | one action per store between which another thread may look |
| `Overload` | when an overload is told | the clock of the connection against the one of the process |
| `BenchRun` | a run and its link to the agent | the answers in their order, timeouts at any moment |
| `BenchStreams` | the threads that send, the relay | a packet is sent, then counted: two actions |
| `BenchCalls` | the second machine | one campaign at a time, answers by order alone |
| `BenchReport` | the rows, the steps, the first criterion | a row is a time, a step, a stream and a count |
| `BenchCampaign` | campaigns, noise, tolerances, reference, verdict | |
| `BenchSchedule` | the frames of a simulated musician | losses, delays and disorder as choices |
| `BenchSeries` | a run, the second machine and the campaigns together | what is proved of the bench |
| `MCReceive`, `MCMixer`, `MCSession`, `MCPlugins`, `MCSending`, `MCMachine`, `MCBench` | several modules explored in one run | `part` says which moves |
| `RtpStreamProofs`, `JitterBufferProofs`, `MixerSettingsProofs`, `ClientSlotProofs`, `EncodeChainProofs`, `PluginScanProofs`, `AsioHostProofs`, `BenchProofs` | proofs about the module of the name and those explored in the same run | section 6 |

`RtpStream` composes the tracker with its environment by `EXTENDS`; `ClientSlot` and `Supervisor`
both call the functions of `Session`. The other modules take a neighbour's result as any value that
neighbour can return, so each covers more than the composed system: `Concealment` lets a packet
receive any verdict `SeqTracker` may give and keeps the buffer at a fixed target; `JitterBuffer`
accepts pushes and reports in any order; `PluginSlot` lets any load be refused or fail, whatever
the inventory says; `BufferBackoff` and `Session` let an opening end in any way, whatever the
driver does in `AsioHost`. In the MC modules with several parts, the parts share no variable and no
action of one depends on the other, so each is explored while the others rest in their initial
state: every interleaving within a part is covered, and nothing could come from interleaving the
parts.

Atomicity follows the locks. A method under the buffer's lock is one action. Where the code lets a
lock go between a reading and the action based on it, the model has two actions: `Examine` then
`Invent` (the output callback may empty the buffer in between), `ReadSettings` / `ReadArmed` /
`Insert`, the `Set…`/`Apply…` pairs, `StemOpen` and the following tap, `LookAtGate` and
`RecordSend`, `TestGate` and `TrySend`, the stages of a supervisor between which the session may end, `Take` / `Remove` / `Forget` of a plugin, each step of a job of the COM thread, between
which the driver may call back. What a task does between taking the
session's mutex and letting it go is one step (`Handle`, each branch of the supervisor).

## 3. Runs

Passing runs. Those with several parts name what each part shows.

- `rtp_stream` (647 060 states). The wire loses, duplicates and reorders; the sender may jump
  by 6 or 12 of 16 numbers, the latter landing just behind the old ones; frames are invented at any
  moment. `PlayedInOrder`, `NoSlotFilledTwice`, `VerdictExact`, `LossNeverOverstated` and
  `FlowIsHeard` hold. `VerdictExact` is about streams whose outage did not span the whole
  numbering (`spanned`): 65 536 numbers are 163 s of sound, after which sixteen bits cannot tell
  an old number from a new one and the restart rule is what counts (`FlowIsHeard`, without that
  restriction).
- `receive` (295 137 states, under fairness). The buffer, for a network stream and for the
  self-monitor: `OneHoleAtATime`, `TargetCovers`, and in `AllServed` a burst is drained within a
  pull, latency gained from a hole is kept for a while, then given back. The inventions:
  `Concealed`, where the deadline and the arrival share one budget and what the output met, what
  the buffer holds and what the stream keeps agree, with pulls between decision and push; a silent
  stream lets the thread sleep. The receive thread, with a wait that may fail: `NoGhost`, every
  packet in the socket of a stream that stays is read, a teardown ends.
- `mixer` (2 955 636 states with symmetry). `LostOnlyAtBirth`: a setting can be lost only by being
  changed while the cell it is for is being born. `NothingSecretWritten`: what was played in
  private is not written while private lasts, with the strip's cell replaced twice.
  `BeatsAndTrack`: while the grid is set, moved and stopped, every beat is clicked once; the
  backing track's sound neither starts nor stops at once.
- `session` (396 389 states, under fairness). `OneClient`; `EmptyHouse`: when everyone who spoke
  has left, nothing of a session runs, unless a cleanup gave the mutex up (500 ms); a supervisor
  that was at work when the session ended may leave the gate of the capture open or an output
  reopened, and nothing more (section 7); `SessionLeftAlone`: a browser's session is ended by
  another connection only if that one was in the middle of a message when displaced, or if its
  supervisor saw the rate drift, and one that never spoke leaves no trace; `ToldTruth`:
  the browser knows exactly the losses the session knows, whatever start and stop came between;
  `NothingIsLost`: the displaced leave, the parked driver is let go, the loss of a device that is
  back is declared over, a capture whose devices are healthy delivers again, and an output noted
  as lost is opened again once it is there (one left closed by a reopening that failed is not noted
  as lost, and stays closed: section 7).
- `plugins` (1 311 618 states). Of the inventory: `Condemned` (nobody for another's fault, the
  cache is of the files as they were read), `CrashIsRemembered` (an action property), and
  `KeepsPromise`, the refinement of `ScanPromise`. Of the slot: `SlotIsTrue`. Of the two hosts:
  `TornDownSafely` and `WindowIsTrue`.
- `sending` (560 145 states, under fairness). `SentInOrder` and `FreshSound` for the instrument:
  what is sent is of the present session, but for one block at most, the one whose callback had
  passed the gate when it began (section 7); `OneVoice` for the talkback; `FilesAreWhole`: the files
  returned hold every block accepted before the stop, in pages that respect the format, but for a
  last page that the frame padded by `finalize` takes past its table (section 7); `AllFlows`: what is captured is sent, a chain that is
  stopped ends, no call hangs, and a stop of the recording returns unless the record thread is
  stuck with its queue full (section 7).
- `machine` (692 684 states, under fairness). Of the ASIO driver, any call of which may fail:
  `DriverHandled` (a callback touches only the buffers of its own live instance, the driver is not
  loaded under a live instance but by the two openings of section 7, an instance is dropped in its
  apartment), `HostIsTrue` (an open host is heard, a closed driver is free), and in `MachineServes`
  every call returns and a change of the buffers' size asked for in a session that goes on is made.
  Of the loops of measures: `JudgedFresh`, none judges what is of before its client, and a cut is
  told once.
- `bench` (692 452 states, under fairness). `RunIsTrue`: no error is swallowed, the musicians are
  those of the step; `StreamsAccounted`: a stream still sent has a thread, the windows reported
  hold what was sent; `CampaignServed`: a request is answered once, by the session it was sent to;
  `FiguresAreTrue`, `VerdictIsEarned` and `ScheduleIsKept` for the rows, the verdicts and the
  simulated musicians; `BenchEnds`.

Runs that end in a counterexample, each against a sentence of the source (section 7):
`private_file`, `editor_teardown`, `overload_silent` and `backing_start`.

Each property of a passing run has been seen to fail on a wrong form of the code it is about; the
wrong forms stand before the right ones in the modules ("First a wrong form…") and are listed in
`PROJECT.json` ("mutants"). Every module states a `TypeOK`; those that are proved are in section 6,
the others document the state.

## 4. Bounds and why they are enough

The constants keep the order relations of the program's and scale the values.

- `RtpStream`: 16 numbers for 65 536, `MAX_DROPOUT` 6, `MAX_MISORDER` 4, a history of 5. Starting
  at 13, six packets cross the wrap; the gaps 1, 6 and 12 reach each branch of `on_packet`
  (forward, jump, just behind). One duplicate and one invented frame in a row are enough for each
  pair of events to meet. What `MaxSends` leaves open, the proofs close.
- `JitterBuffer` has no bound on behaviours (its state is finite); `HeldPulls` = 2 is the longest
  memory the property needs; blocks of 1 and 3 against frames of 2 give full pulls, partial pulls
  and drains.
- `Concealment`: one stream, two ticks per frame, four of staleness, four packets, gaps up to one
  beyond what arrival may fill; a budget of 2 for 3.
- `RecvThread`: two producers, two generations, two packets (one read, one waiting), two errors
  (the first free, the second pauses), a wait that may fail.
- `MixerSettings`: two peers and two values per setting: a setter and a birth can be of the same
  peer or not; any number is in the proof. `PrivateMix`: three cells (made, rebuilt, rebuilt
  again), one block in each. `Metronome`: blocks of three frames against beats of four, so that an
  onset falls at every place of a block, two figures, two grids, two moves of one frame.
  `Backing`: a file of two pieces, a start within or beyond the tolerance.
- `ClientSlot`: two connections, three messages and turns of supervisors in all (two turns at most),
  both kinds of host: a session begun by one, displaced by the other, with a message of the first
  still in hand; a capture started, seen by a supervisor, and ended before it acts; any number of
  each is in the proof. `Supervisor`: two silent rebuilds, two attempts, three events of the devices: a loss during
  the repair of another and its return.
- `Recorder`: two recordings, two stems, a queue of two, frames of two blocks, two packets a page,
  three segments, packets of one or two: a partial frame, a full page, a page that would
  overflow and a last page that does all occur.
- `PluginScan`: two items, two worker sessions, three scans, one update, one failure nobody caused;
  any number of each is in the proof. `PluginSlot`: two connections, two requests over a slot that
  may already hold a plugin, hence every pair of operations in every order of their steps; three
  requests (4.8 million states) were explored apart and hold too. `Vst3Editor`: two instances and
  three windows, so that a window is reopened and a plugin replaced. `AuHost`: two plugins tried,
  three openings, two closings, waits that time out.
- `EncodeChain`: a channel of two and queues of one, two captures, two blocks, both kinds of host:
  with queues of one every stage can be blocked at once; any sizes are in the proof. `Talkback`: a
  tap of one, two commands, two voices.
- `AsioHost`: two attempts of a repair (one that fails, one that opens) are the only bound; the
  rest of its state is finite. `BufferBackoff`: two windows under pressure, two clients, two
  openings that fail. `Measures`: two loops, one operation. `Overload`: a cooldown of two seconds,
  nine in all: a connection shorter than the former one.
- `BenchRun`: from two to three musicians, one with a voice, one who leaves and returns.
  `BenchStreams`: two streams of two frames, on one thread or two, with the relay or without.
  `BenchCalls`: two campaigns, three requests, one that vanishes. `BenchReport`: steps of three
  seconds of which one is left out, one musician who leaves and returns, one hole, a reading late
  by one. `BenchCampaign`: a series of two scenarios with one change of machine, library or bench
  between campaigns, or one scenario and a noise campaign of two runs. `BenchSchedule`: two links,
  five frames, spikes at most two units apart, turns of speech of one frame.

## 5. Fairness

- `JitterBuffer`: the stream flows (`WF` of a push), the output callback runs for each block size
  (`WF`), time passes. `LatencyReturns` is conditional on there being no more holes, so nothing is
  assumed of the network beyond its flow.
- `Concealment`: the receive thread is scheduled (`WF` of each of its steps but reading what is
  signalled, which silence needs not) and time passes in spite of the examinations, which take no
  time in the model (`SF` of `Tick`). The output callback has no fairness: its device may be gone,
  and a silent stream must let the thread sleep all the same.
- `RecvThread`: the thread runs (`WF`), a paused stream is retried, since its pause ends within
  10 ms whatever else happens (`SF` of the retries that include it: the turn may come with other
  streams' pauses not over), and the control thread finishes the teardown it began.
- `ClientSlot`: tokio runs its tasks and its mutex serves in order (`WF` per connection of
  `EndPause`, `Handle`, `Reply`, `SeeKick`, `Leave`, and of `GoOn`, `Act` and the abort of each
  supervisor); the grace period ends although the mutex is often taken (`SF` of `Grace`). Nobody has to connect or speak.
- `Supervisor`: its turns and the answers go on (`WF`), and a look at the output, a probe of the
  input and a repair, each behind a delay that other branches may use up, are taken if they are
  possible again and again (`SF`). Devices and browser have none.
- `Recorder`: a gate that is being opened opens, and for each recording `WF` of what the control
  side and the record thread do; a thread that is stuck is disabled, not unfair.
- `PluginScan`: the worker process and the scan thread run (`WF`), and a silence is noticed.
- `EncodeChain`: `WF` of the encoder thread and of each stage. `Talkback`: `WF` of the steps of a
  call, of `Obey`, of `Encode` and `Finish` per voice; none for `Load`, which has no bound.
- `AsioHost`: the COM thread goes on although a callback in flight may stop it again and again
  (`SF`: it waits for the registry's lock, which the driver's thread holds for one block), a
  callback ends (`WF`), the holder of the lock sends its next job (`WF`), and the enumeration's job
  is sent although changes of apartment may hold the worker (`SF`). The driver need never call back.
- `BufferBackoff`: the supervisor does the repair it was asked for (`WF`).
- `BenchRun`: the bench's own steps (`WF`); the agent may never answer, a wait ends by its limit.
  `BenchStreams`: the threads run and a retirement that was begun goes on (`WF`). `BenchCalls`: the
  second machine and each campaign go on (`WF`) until the campaign vanishes.
- `PluginSlot`, `Vst3Editor` and `AuHost` assume none: a native call may never return, and nothing
  promises more than safety there. `Metronome`, `Backing`, `Measures`, `BenchReport`,
  `BenchCampaign` and `BenchSchedule` promise safety only.

## 6. Proofs

Checked by TLAPS for every value of the constants that satisfies the named assumptions
(`SeqConstants`, `StreamConstants`, `BufferConstants`, `SettingsConstants`, `ClientConstants`,
`ChainConstants`, `ScanAssumption`, `NobodyAssumption`, `AsioConstants`, and those of the parts, which
the MC modules name: `ReceiveConstants`, `BenchAssumption` and their like). They are relations between
the program's constants, such as `MAX_MISORDER =< HISTORY_BITS` and `MAX_DROPOUT + MAX_MISORDER =<
SeqMod`, which the values of `seq.rs` satisfy, or say that a bound is a number and a set finite.
`StreamConstants` also bounds the reordering of the wire: a packet is delivered at most
`Displacement` slots late and `Displacement + MAX_CONSECUTIVE < MAX_MISORDER` (100 packets,
250 ms).

Each module proves its invariant once, by a lemma for each action, and its theorems from it. TLC
checked every conjunct of these invariants on the bounds of section 4 before they were proved. A
proof module extends the MC module its component is explored in (`BenchProofs` only `BenchSeries`,
which `MCBench` extends), for the theorems about the other parts of that run: `Life!Spec => []NoGhost` is about `RecvThread` alone, whose specification the
instance `Life` names, with any constants.

`RtpStreamProofs`:

- `TypeCorrect`: `[]TypeOK`, inductive together with `TrackerOK` (a tracker that has started has
  its two masks disjoint, place 0 in one of them).
- `InOrder`: `PlayedInOrder`, from `OrderInv`: no place played or invented lies beyond `top`, the
  tracker's highest number is `top` modulo `SeqMod`, a packet in flight is at most `Displacement`
  behind the last one sent, and `top` is beyond that one by the invented frames at most. A packet
  is played only when `Classify` finds it ahead, hence beyond `top`.
- `FilledOnce`: `NoSlotFilledTwice`, from the same invariant: a frame is invented at `top + 1`,
  beyond all that was played.
- `TrueVerdicts`: `VerdictExact`, from `MaskInv`: while no outage spanned the numbering, the
  places within the history are in `history` exactly when received, in `concealed` exactly when
  invented and not received. The theorem says that the relations between the four constants are
  all the classification needs.
- `LossIsReal`: `LossNeverOverstated`, from `LossInv`: what is expected is the number of the slots
  covered, and at least one arrival is counted for each slot received. It rests on the distance
  seen between two numbers never exceeding the one between their slots (`AheadIsShorter`).
- `FlowHeard`: `FlowIsHeard`, from `FlowInv`: of two packets in a row that are not played, the
  first is just behind the numbers reached or has made its successor the one that is believed.

`JitterBufferProofs`: `BufferTypeCorrect`, `TypeOK` inductive as it stands; `HolesToldOnce`
(`OneHoleAtATime`) and `CoversMargins` (`TargetCovers`), inductive relative to it; `ModeFixed` says
that the mode the cap depends on never changes.

`MixerSettingsProofs`: `SettingsTyped`; `LostAtBirthOnly` (`LostOnlyAtBirth`) for any peers and
values. The property alone is not inductive: it speaks of the mixer when nobody is at work. The
invariant follows the two steps of a setter and the four of a birth: a setter holds what it has
just written (`SetterTrue`), a birth has read what is remembered now unless it was crossed
(`BirthTrue`), a cell holds what is remembered or what the setter is about to give (`CellsTrue`).

`ClientSlotProofs`, for any number of connections: `ClientsTyped`; `OneClientAtATime`
(`OneClient`); `EmptyHouseAfterAll` (`EmptyHouse`); `SessionsLeftAlone`, the action property
`SessionLeftAlone`. The invariant adds to the types what the handlers leave of the session whatever
fails in them (`Sane`), who was promoted and killed (`Promotions`), that a session which is not
empty has somebody left to end it, whatever a supervisor overtaken by its end has done to it since
(`Looked`), that a supervisor in the middle of a turn has a capture before it or was overtaken
(`Late`), what the queue of the mutex holds (`Waiting`), and that one displaced while it did nothing leaves before its successor is served (`Behind`), the fact
`SessionLeftAlone` depends on.

`EncodeChainProofs`, for any sessions, blocks and queue sizes: `ChainsSendInOrder` (`SentInOrder`)
and `ChainsSendFreshSound` (`FreshSound`), also when two chains read one channel. A chain is seen
as seven places in a row from what it sent to the channel it reads; blocks are in order along the
row (`Rows`), a block is in one place (`Apart`), and a step of a stage only moves one block one
place down or loses it. `FreshSound` needs `Threads` besides (after the flag a stage takes no
second block), and `InHand`: the block of a callback between its two steps is younger than all the
channels hold, and if it is of a former session it is the one noted when the present chain began
(`stray`).

`PluginScanProofs`, for any plugins, scans, deaths and updates: `ScanTyped`; `OnlyTheGuiltyCondemned`
(`Condemned`); `CrashRemembered`, the action property `CrashIsRemembered`; `PromiseKept`, that
`PluginScan` implements the safety part of `ScanPromise` step by step. The invariant ties worker,
pipe and session: the pipe is a chain from what the session heard last to what the worker does
(`Pipe`), so a dead worker whose pipe is read out was at the item the session holds for current;
an item has one turn (`Turns`) and one list (`Apart`); what is read of a file is read after its
fingerprint (`Fresh`); what the studio was told of is on record while the file is the same
(`Remembered`).

`AsioHostProofs`, for any number of attempts: `DriverTyped`; `DriverIsHandled` (`DriverHandled`);
`HostIsSound` (`HostIsTrue`). `DriverHandled` speaks of callbacks and loads, but whether a load may
fall under a live instance depends on everybody who can send one. The invariant says that the
holder of the lock is inside one of his scripts (`OneScript`), that the COM thread's queue holds
one job of his and one of the enumeration's at most and only the first has begun (`Jobs`), that
what the script has closed is closed (`Ready`), and that a live instance has the driver and is
known of by those who could load it again: the flag that keeps the enumeration away is up, or the
job that will raise it is not over (`Owned`). `Registered` ties callbacks to live buffers. For
`HostIsTrue`, `Heard` and `Released` say that a host no job is at is running and heard, and that
what is open is the session's, the warm driver's, or being closed.

The parts of the composed runs:

- `NoGhostInTheMixer` (`NoGhost`, in `JitterBufferProofs`): which stream lives depends on what the
  queue still holds. The invariant says of its order that of one producer an older stream is removed
  before a newer one is added (`InTurn`, `AfterLive`), and that a stream to be received is the one
  registered or has its removal behind it (`Asked`); what is in the mixer is decoded, what is decoded
  is received (`Decoded`), a thread that is over holds nothing (`Handled`).
- `InventionIsBounded` (`Concealed`): an invention decided on what was read before the lock was let
  go is pushed later; the invariant ties the stream being invented for to the pass that examines it
  and to a budget not yet spent (`OnBudget`), a hole that is told to a buffer that is empty and does
  not play (`HolesTold`).
- `NothingSecretIsWritten` (`NothingSecretWritten`, in `MixerSettingsProofs`): what was captured in
  private is only in cells that are not armed, in the hand of the callback or of the output for such
  a cell, and only while private lasts (`StripInv`).
- `BeatsAndTrackKept` (`BeatsAndTrack`, also there), for any tempi, figures, block and fade: the
  onsets of a grid are a whole number of frames apart (`OnsetIs`) and no onset of a block is outside
  the beats looked at for it (`AllAreLookedAt`); behind the frames rendered every key is clicked
  (`Passed`), and so is every key up to the last one whose onset the grid has begun (`Hidden`), which
  is what is left of it when the grid moves back over it. Of the track, `TrackInv`. The proof asks
  that a move be no more than a block (`Drift =< BLOCK` in `MetronomeConstants`): the browser follows
  the slow drift of a quartz (`reference.rs:17`), frames at a time. With blocks of one frame and moves
  of two, TLC shows that a beat of before the grid began may be taken beyond the frames rendered, where
  the last key hides it.
- `OneVoiceIsHeard` (`OneVoice`, in `EncodeChainProofs`): where a call on the talkback is, and what it
  has let go or starts (`Calling`); a stage that is not over is the present one, the call's, or was
  given up while it loaded (`Alone`); the tap's last command decides (`Tapped`).
- `TheFilesAreWhole` (`FilesAreWhole`): the blocks accepted are those in the frames, in the frame
  begun and in the queue (`Written`, where `Queued` counts a queue's blocks of a stem), and `Finalize`
  is the last command of its queue, since it is sent once the mixer has let go of its sender. A page
  fits its table unless it is the last and holds the padded frame (`padded`, a history of its size).
- `TheSlotIsTrue` (`SlotIsTrue`, in `PluginScanProofs`): each is once in the line for the lock and who
  works is at its head (`InLine`); what handle, description and host are at each step (`OnePlugin`);
  a connection that was not overtaken knows the plugin or waits to be told (`Knows`); its last
  request is the last of its queue (`LastCounts`).
- `MeasuresAreFresh` (`JudgedFresh`, in `AsioHostProofs`): the loop that reads holds the pipeline's
  lock, and only one that has not read yet may find what is of before its client (`MeasInv`).
- `CampaignsAreServed` (`CampaignServed`, in `BenchProofs`): answers carry no name and are matched by
  their order alone; a campaign has one command on its way at most, or its answer (`OneCall`).
- `VerdictsAreEarned` (`VerdictIsEarned`), also in `BenchProofs`, for any series of scenarios, results
  and lengths of a noise campaign: it holds for the values of `Several`, given by the cfg, as for those
  of `Noisy`, which are written in `BenchSeries`. What was said of a
  campaign stays true while it is said: the entries of a campaign keep what was measured of them or
  nothing (`Faithful`), one that runs is not judged yet, and any change of a campaign silences what
  was said of it.

Checked by TLC only:

- everything under fairness: `AllServed`, `NothingIsLost`, `AllFlows`, `MachineServes`,
  `BenchEnds` and the liveness part of `KeepsPromise`, which are out of the prover's reach;
- of `TypeOK` in `PluginScan`, the bounds on versions and sessions and the link between the steps of
  a job, the list's flag and a living worker (`ScanTyped` is about `Shapes`, the types of everything,
  the events in the pipe included);
- `StreamsAccounted`, which equates sums over what each thread has sent and each reading took,
  `FiguresAreTrue`, whose figures are selections and sums of the rows, and `ScheduleIsKept`, whose
  frames are sorted and whose bursts are drawn by a recursive function: what a fold or a recursion
  computes for every input needs induction over data;
- `ToldTruth`, `TornDownSafely` and `WindowIsTrue`, which have no proof yet
  (section 9).

## 7. Where the code and its comments disagree

Found by a run:

- `mixer.rs:470` says that nothing private must reach the file. On leaving private, what the
  strip's buffer still holds is mixed and recorded (`private_file`).
- `editor.rs:357` (VST3) says that `view.removed()` comes before `component.terminate()`. A plugin
  that treats messages in `attached()` lets the musician close its window before it is registered:
  `WM_DESTROY` finds nothing to remove, the window is published as open on a handle that is gone,
  and unloading terminates the component with its view attached (`editor_teardown`). A click on
  the plugin's name then brings to the front a window that no longer exists, against `lib.rs:359`.
- An overload is told "at most once in 10 s" (`protocol.rs:1074`). The last time is kept for the
  process but in the clock of the connection (`ws_server.rs:1637`): after a reconnection nothing is
  told until the new connection is as old as the former was when it last spoke (`overload_silent`).
- `protocol.rs:492` says that the anchor's frame of the backing track emerges at the anchor's frame
  of the output. When the start is still to come the file is at a frame below 0;
  `reference.rs:489` takes 0, finds itself too far at the next block and jumps to 0 again: the
  first block is heard over and over until the start (`backing_start`).

Seen while modelling, receive path and mixer:

- `recv_thread.rs:24`: a packet already in the machine is never replaced by an invented frame.
  `conceal_pass` (363) selects the due streams at one instant and decides at a later one; a stream
  that becomes due in between has not been read again.
- `recv_thread.rs:115`: the thread stops with `shutdown` only and sending cannot fail before. A
  `poll` that fails (224) ends it; the handle stays, commands are dropped and `add_stream` still
  answers that the stream was added.
- `mixer.rs:675`: a cell is born with the settings known. A setter that runs between the reading of
  the settings (679) and the insertion finds no cell and is lost; `LostOnlyAtBirth` says it is the
  only way. `mixer.rs:474`: the effective arming is "user and not private"; a capture started again
  makes an unarmed strip whatever the user asked (734).
- `seq.rs:66`: `lost()` is described as the packets never arrived. Packets that come after the first
  one received but were sent before it count as received without having been expected, so the
  published loss can fall short (`LossNeverOverstated` states the half that holds).
- `ring_buffer.rs:1005`: the sum of the margins is said never to exceed the cap. The glitch floor is
  raised after the bound is taken, and the floor may rise later; the target itself is clamped.
  `ring_buffer.rs:13`: a value chosen by hand is said to be fixed by `set_target_ms`;
  `reset_for_recovery` puts the initial target in its place, in every mode.
- `pipeline.rs:6060` and `6076`: the budget of inventions is reset "since there is real matter
  again", but before the packet is decoded. When decoding fails no real sound was pushed and the
  next deadlines may invent a full budget more. `InventionBounded` counts by packet put in place,
  as the code does.

Session, recording and sending:

- `pipeline.rs:3221`: a rebuild requires that the streams were closed before. The supervisor closes
  them, lets the mutex go, waits and rebuilds (`ws_server.rs:3349`): the browser may have stopped
  and started again in between, and the rebuild then finds streams open.
- `pipeline.rs:4094`: stages are said to drain their queues at the stop, so that no block is lost.
  Each tests the flag at the head of its loop and leaves what waits, which is what `FreshSound`
  asks. `pipeline.rs:4212`: the capture stage is said not to block when the next queue is full; its
  `send` waits for room.
- `pipeline.rs:3108`: a talkback that stops is said to be waited for, so that its resets cannot fall
  on the next one. A stage that is still loading is not (3726); it resets the lights it shares when
  it ends.
- `record/mod.rs:193`: a stop is said never to wedge. It first sends on a bounded queue without a
  timeout (179): a stuck thread with a full queue keeps it for ever.
- `capture.rs:95` tests the gate and 99 pushes (434 and 445 of `asio_host.rs`): a block that passed
  before `teardown_session` shut it (`pipeline.rs:2159`) may be pushed once the next session has
  emptied the warm channel (2349), and is then sent by the next session. One block at most, and the only one: `FreshSound`.
- `ogg.rs:119` says, and asserts in debug builds, that the caller keeps every page within 255
  segments. `finalize` (`opus_ogg.rs:159`) adds the padded frame to the last page without the test
  `push_samples` makes; past 255 the count is truncated (`ogg.rs:148`) and the last page cannot be
  read. `FilesAreWhole` holds of every other page, and of that one up to the padded frame.
- A repair lets the mutex go while it waits, and two of its ends do not look at what the session has
  become. The long settle of a resume raises the gate of the capture whatever happened meanwhile
  (`ws_server.rs:2955`): if the session was parked in between, the gate stays open with nobody to
  read the channel, and the cleanup's `leave_session` does nothing of a driver already parked
  (`pipeline.rs:2267`). `return_to_chosen_output` (3416) and `keep_listening_without_input` (3339)
  open an output without the test of `follow_os_default_output` (2097), whose comment speaks of a
  "playback orphelin sur un pipeline idle". A request to stop for a drifting rate, taken under one
  lock (`ws_server.rs:2677`), is obeyed under another (2684): it may end the session that began
  in between. `EmptyHouse` and `SessionLeftAlone` name these cases and allow nothing else.
- An output whose reopening fails while the capture's succeeds is left closed, and nothing is noted
  (`pipeline.rs:3279`): the supervisor, which looks for outputs noted as lost, leaves it closed
  until the musician selects one. `NothingIsLost` claims nothing of it.
- An `add_stream` that fails to open its output leaves the stream registered and received, with an
  error as its answer (`pipeline.rs:3604`); the next teardown removes it.

Plugins:

- `plugin_scan/mod.rs:74` and 210: nothing is said to be left to scan after a full scan. A worker
  that dies without progress or culprit ends it with items never loaded, reported as none pending.
  `cache.rs:170` says that fingerprints are taken again at writing; they are those taken before the
  scan, the safer choice and what `Condemned` rests on.
- A request of unload or bypass is dropped without a word when the session's mutex stays taken for
  three seconds; a load answers an error. An `InstrumentPluginError` does not tell a refused load
  (the former plugin stays) from one that failed natively (it is gone), so `SlotIsTrue` says
  nothing of the studio that got one.
- The answer to a load is sent after the lock of operations is released, and the plugin's state is
  told when a connection opens, not when it is promoted. The state task sends while it holds that
  lock: a browser that no longer reads holds every plugin operation.
- The overload detector stores the bypass and its own flag without that lock (`ws_server.rs:1700`
  and 1742), beside `set_bypass` (`pipeline.rs:1475`), which stores the same two in the same order:
  between the two stores of one the other may pass, and the flags then disagree. The windows it
  judges are counted per loop, the measures are of the process: two loops read side by side while a
  connection is displaced, and each sees a part.
- A job delivered while another runs is posted again at once (`main_thread.rs:154`): a plugin that
  treats messages for long turns the thread in a busy loop. The guard covers jobs only: if a plugin
  treats messages in `removed()` after the musician closed its window, a job of unload is run inside
  that call (`RemovedPumps = TRUE` breaks `TornDownSafely`). A job that panics while it opens a
  window leaves the studio with "opening".
- `au_host.mm:601`: the wait is said to keep the entry alive during the whole teardown. It ends
  after ten seconds (235); a block at work by then goes on with an entry that is freed.
  `WindowIsTrue` speaks of the runs where no wait reached its end.

Devices:

- The enumeration keeps away while a host is open or its flag is up. Two openings escape this and
  are the ones `DriverHandled` names (`alone`): an output opened alone through cpal, and a host
  opened by a start while a repair has closed it and waits, the lock free, to open it again. By
  them, and only by them, the driver may be loaded under a live instance.
- A driver loaded whose `ASIOInit` fails (`asio-sys/src/bindings/mod.rs:459`) stays loaded until
  the next load.
- `ws_server.rs:2759`: a request of larger buffers made out of session is void since the next start
  opens at the size asked for. A start that takes up the driver kept warm does not open: the streams
  stay at the small size, and the request is spent.

Bench:

- `report.rs:388`: what a counter counted before it started again stays counted. It does from one
  reading to the next; what came between the last reading and the departure is lost, hence the
  inequality of `FiguresAreTrue`.
- `server.rs:383`: the last measures of a retired stream are said to be kept. The window is taken
  before the thread is joined: a packet sent in between is counted nowhere. In shared mode the pass
  under way still sends after the retirement.
- `profile.rs:138`: a fixed burst is said to have its exact length; a change of link cuts it.
- The first criterion holds when there is nothing to read; a precision that was not measured
  (`analysis.rs:101`) is accepted; a campaign may become the reference without being complete
  (`tools.rs:115`); a stream of the reference that the campaign lacks is not compared; a scenario
  whose summary cannot be read counts as complete when its metrics are read again
  (`campaign.rs:743`).

## 8. Abstractions, and what is not modelled

The map covers 23 % of the lines of the implementation. Most of the rest is signal processing,
calls to the operating system and to native plugins, types of messages and tests within the source
files.

Samples are counted, never represented; which samples are faded or crossfaded has no effect on
control. The resampler's ratio is a slack of one unit on the frames pushed by a playing network
stream. Fractional decays (pressure, shrinking) become integers with the same thresholds. Time is
ticks relative to the present in `Concealment`, an "elapsed" flag in `JitterBuffer`, a choice
elsewhere. Logs, meters and statistics are left out, except the counters of `SeqTracker`.

- `Concealment`: a packet's pushes are one action: a pull between two of them is taken before them;
  the budget, the deadline and the classification do not depend on it.
- `RecvThread`: no hole punching, no announcement of a silence; `add_stream` succeeds.
- `Session`: one input device; the COM recycle, the refusal of a capture without ASIO on Windows,
  changes of device, buffer size or input source in session, and the names and latencies are left
  out. `asio = FALSE` is CoreAudio.
- `Supervisor`: following the system's default output is left out (it is in `ClientSlot`); a silent
  input that revives and is cut once is not explored.
- `ClientSlot`: the 50 ms given to a displaced connection are assumed enough for an idle one to see
  its kick; a connection inside a message may take any time. A supervisor's turns are
  what they may do to the session, stage by stage: what makes it choose is in `Supervisor`. A
  supervisor told to stop goes on until its next wait (it has the
  mutex at once or not at all).
- `Recorder`: the bytes and checksums of pages are left out.
- `PluginScan`: no items without fingerprint (Audio Units), no unreadable cache or failed save; the
  inventory at start has no guard against a panic; a forced scan whose worker never starts writes
  an empty cache, as in the code; `wait()` on a worker whose output is closed is assumed to return.
- `EncodeChain`: a time-out that finds no flag is a stutter; a packet the socket refuses counts as
  sent; the gate raised by a supervisor outside a capture (section 7) is not composed with it; what a
  stage does to a block is left out, as is a stage that cannot create its encoder and
  leaves a capture that is mute. A block taken by the old chain of a shared channel is `Stolen`.
- `Talkback`: levels, and the count of slow windows: isolation may be given up at any block.
- `PluginSlot`: the audio stage (it tries the lock and goes on without), MIDI and latency; the
  overload detector is in `Measures`. `Vst3Editor`: sizes, focus, the scan's own jobs, the drop of the host at
  shutdown. That a component refuses a view while it knows another controller is what `editor.rs`
  says of JUCE.

- `AuHost`: bringing an open window to the front, sizes, titles, rendering, MIDI.
- `AsioHost`: the calls of the SDK are outcomes; what follows a driver loaded twice is not explored.
- `BufferBackoff`: the severity of a window is a choice. `Measures`: the measures only shown, the
  thresholds. `Overload`: one connection reads at a time.
- `Metronome`, `Backing`: frames are whole, the servo moves a block by one frame at most; timbre,
  levels, accents and interpolation are left out.
- `BenchRun`: time; the run begins once connected (`connect_async`, `driver.rs:56`, has no limit of
  its own). `BenchStreams`: the format of packets. `BenchReport`: one counter stands for
  those that follow the same path; with one hole a counter never passes, after a return, the value it
  had before (`report.rs:388`), where only the inequality is claimed. `BenchCampaign`: one machine, one figure per stream, one
  criterion. `BenchSchedule`: the laws of delay, the clock's drift; two links or one that is drawn.

Not modelled: signal processing (codec, isolation, limiter, gains, summation), floating-point
estimators, the classification of holes for the log, cryptography and byte formats, RTCP, the
tables of devices, the operating system's audio services other than ASIO, native plugin code, the
shell, message types. They keep no state whose interleavings matter here, or belong to the system.

## 9. Plan

Done: the receive path from the socket to the mixer, its settings, the private mode and the
reference source; the session, its clients and its supervisor; recording; the sending path and the
talkback; the plugins' inventory, slot, windows and measures; the ASIO driver and the buffers'
policy; the bench. Proved: the modules of section 6.

Theorems to come, simplest first: `TornDownSafely` of `Vst3Editor`; `ToldTruth` of `Supervisor`.

Modules that could follow: changes of device in session, on `Session`; `Concealment` with frames of
the size learnt by the decoder (`decoder.rs:86`) and `JitterBuffer` instead of a fixed target; the
RTCP uplink report.
