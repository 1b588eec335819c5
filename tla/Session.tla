------------------------------- MODULE Session -------------------------------
(***************************************************************************)
(* The session of the audio engine: the methods of PipelineState           *)
(* (jamodio-agent/src/pipeline.rs) that open, keep and close the sound     *)
(* card and what runs on it.  The program keeps one PipelineState behind   *)
(* one mutex, so a method is a function from the state it finds to the     *)
(* states it may leave: ClientSlot and Supervisor say who calls it when.   *)
(*                                                                         *)
(* Under ASIO input and output are one device that is kept warm when the   *)
(* musician leaves; elsewhere (CoreAudio) they are two streams.            *)
(***************************************************************************)
EXTENDS Naturals, Sequences

\* What the browser is told of the devices (device_loss.rs, DeviceEvent).
Loss     == {"unplugged", "silent"}
Lost(r)  == <<"input", r>>
Restored == <<"input", "none">>
FellBack == <<"output", TRUE>>
WentBack == <<"output", FALSE>>
DeviceEvent == {Lost(r) : r \in Loss} \cup {Restored, FellBack, WentBack}

PipelineState == [
  asio: BOOLEAN,                             \* the host found when the program starts
  state: {"Idle", "Capturing"},
  encoder: BOOLEAN,                          \* the encoder thread runs
  channel: BOOLEAN,                          \* capture_sample_tx
  feeding: BOOLEAN,                          \* capture_feeding
  input: BOOLEAN,                            \* the capture stream, or the ASIO host
  output: {"closed", "chosen", "fallback"},
  warm: {"none", "active", "parked"},        \* WarmAudio and its parked_since
  awake: BOOLEAN,                            \* keep_awake and the fine timer
  peers: BOOLEAN,                            \* recv_streams is not empty
  voice: {"none", "tap", "mic"},             \* the talkback and its source
  recorder: BOOLEAN,
  lostIn: {"none"} \cup Loss,                \* DeviceLoss.input
  lostOut: BOOLEAN,                          \* DeviceLoss.output
  drift: BOOLEAN,                            \* rate_drift_stop
  pending: Seq(DeviceEvent)]                 \* DeviceLoss.pending

Boot(asio) == [
  asio |-> asio, state |-> "Idle", encoder |-> FALSE, channel |-> FALSE, feeding |-> FALSE,
  input |-> FALSE, output |-> "closed", warm |-> "none", awake |-> FALSE, peers |-> FALSE,
  voice |-> "none", recorder |-> FALSE, lostIn |-> "none", lostOut |-> FALSE,
  drift |-> FALSE, pending |-> <<>>]

IsCapturing(pl) == pl.state = "Capturing"

-----------------------------------------------------------------------------
\* The losses (device_loss.rs).

InputLost(pl, reason) ==
  IF pl.lostIn = reason THEN pl
  ELSE [pl EXCEPT !.lostIn = reason, !.pending = Append(@, Lost(reason))]
InputBack(pl) ==
  IF pl.lostIn = "none" THEN pl
  ELSE [pl EXCEPT !.lostIn = "none", !.pending = Append(@, Restored)]
OutputFellBack(pl) ==
  IF pl.lostOut THEN pl ELSE [pl EXCEPT !.lostOut = TRUE, !.pending = Append(@, FellBack)]
OutputBack(pl) ==
  IF ~pl.lostOut THEN pl ELSE [pl EXCEPT !.lostOut = FALSE, !.pending = Append(@, WentBack)]

\* output_fell_back_at_open: noted without an event, CaptureStarted says it.
OutputFellBackAtOpen(pl) == [pl EXCEPT !.lostOut = (@ \/ pl.output = "fallback")]

\* forget.  (First a wrong form: only the events are.)
EventsForgotten(pl) == [pl EXCEPT !.pending = <<>>]
Forgotten(pl) == [pl EXCEPT !.lostIn = "none", !.lostOut = FALSE, !.pending = <<>>]

-----------------------------------------------------------------------------
\* Closing.

\* A wrong form of the definition below: the receivers of a finished session stay.
TornDownKeeping(pl, preservePeers) ==
  [pl EXCEPT !.feeding = FALSE, !.encoder = FALSE, !.voice = "none"]

\* teardown_session: a change of input keeps the reception of the others.
TornDown(pl, preservePeers) ==
  [pl EXCEPT !.feeding = FALSE, !.encoder = FALSE, !.voice = "none",
             !.awake = @ /\ preservePeers, !.peers = @ /\ preservePeers]

\* close_audio_streams_for_reset
StreamsClosed(pl) == [pl EXCEPT !.input = FALSE, !.output = "closed"]

\* close_audio_driver
DriverClosed(pl) == [StreamsClosed(pl) EXCEPT !.channel = FALSE, !.warm = "none"]

\* park: the recording, if any, is thrown away.
Parked(pl) ==
  [TornDown(pl, FALSE) EXCEPT !.recorder = FALSE, !.state = "Idle", !.warm = "parked"]

\* stop_all
StoppedAll(pl) ==
  [DriverClosed(TornDown(pl, FALSE)) EXCEPT !.recorder = FALSE, !.state = "Idle"]

\* leave_session: a warm driver is parked once, then left to its grace.
Left(pl) ==
  IF pl.asio /\ pl.warm # "none"
  THEN IF IsCapturing(pl) THEN Parked(pl) ELSE pl
  ELSE StoppedAll(pl)

\* close_warm_if_grace_expired, once the grace is over
Released(pl) == IF pl.warm = "parked" THEN DriverClosed(pl) ELSE pl

-----------------------------------------------------------------------------
\* Opening.  Each of these gives the set of states the call may end in.

Outcome(pl, ok) == [pl |-> pl, ok |-> ok]

\* open_duplex_on_com: under ASIO one device; elsewhere the output may be the
\* system's, or missing.
Outputs(pl) == IF pl.asio THEN {"chosen"} ELSE {"chosen", "fallback", "closed"}

\* prepare_audio_for_session up to the opening: the losses are forgotten, what
\* ran is torn down, and a driver that cannot be used again is closed.
Emptied(pl, preservePeers) ==
  [DriverClosed(TornDown(Forgotten(pl), preservePeers)) EXCEPT !.channel = TRUE]
CanReuse(pl) == pl.asio /\ pl.input /\ pl.warm # "none"
Reused(pl, preservePeers) ==
  [TornDown(Forgotten(pl), preservePeers) EXCEPT !.warm = "active"]

\* prepare_audio_for_session
Acquired(pl, preservePeers) ==
  LET empty == Emptied(pl, preservePeers)
  IN {Outcome(empty, FALSE)}
     \cup {Outcome(OutputFellBackAtOpen(
                     [empty EXCEPT !.input = TRUE, !.output = o,
                                   !.warm = IF pl.asio THEN "active" ELSE "none"]), TRUE)
           : o \in Outputs(pl)}
     \cup (IF CanReuse(pl) THEN {Outcome(Reused(pl, preservePeers), TRUE)} ELSE {})

\* The end of start_capture: encoder, wakefulness, feeding, then the state.
Capturing(pl) ==
  [pl EXCEPT !.encoder = TRUE, !.awake = TRUE, !.feeding = TRUE, !.state = "Capturing"]

\* start_capture: no device; a device that is not at 48 kHz; no address, key,
\* socket or thread once the device is open; or a session.
StartCapture(pl, sessionContinues) ==
  LET acquired == Acquired(pl, sessionContinues)
      opened   == {a.pl : a \in {b \in acquired : b.ok}}
  IN {a \in acquired : ~a.ok}
     \cup {Outcome(DriverClosed(q), FALSE) : q \in opened}
     \cup {Outcome(q, FALSE) : q \in opened}
     \cup {Outcome(Capturing(q), TRUE) : q \in opened}

\* start_voice_capture: the former talkback stops before the new one is tried.
\* A tap needs a capture, a microphone of its own does not.
StartVoice(pl) ==
  {pl, [pl EXCEPT !.voice = "none"], [pl EXCEPT !.voice = "mic"]}
  \cup (IF pl.encoder THEN {[pl EXCEPT !.voice = "tap"]} ELSE {})
StopVoice(pl) == [pl EXCEPT !.voice = "none"]

\* add_stream: refused; or registered, and then the output is opened if nothing
\* plays, which may fail and be reported without undoing the rest.
NeedsOutput(pl) == pl.output = "closed" /\ ~(pl.asio /\ pl.input)
AddStream(pl) ==
  {pl, [pl EXCEPT !.peers = TRUE]}
  \cup (IF NeedsOutput(pl) THEN {[pl EXCEPT !.peers = TRUE, !.output = "chosen"]} ELSE {})
\* remove_stream: the last one, or another.
RemoveStream(pl) == {pl, [pl EXCEPT !.peers = FALSE]}

\* start_recording and take_recorder
StartRecording(pl) == {pl, [pl EXCEPT !.recorder = TRUE]}

\* restart_playback: the chosen output, else the system's (never under ASIO), else none.
Playback(pl, outHere) ==
  IF outHere THEN {[pl EXCEPT !.output = "chosen"]}
  ELSE {[pl EXCEPT !.output = "closed"]}
       \cup (IF pl.asio THEN {} ELSE {OutputFellBack([pl EXCEPT !.output = "fallback"])})

\* return_to_chosen_output: it is back only if it is the one that opened.
ReturnToChosen(pl, outHere) ==
  {IF q.output = "chosen" THEN OutputBack(q) ELSE q : q \in Playback(pl, outHere)}

\* rebuild_audio_streams, on the devices that are there: nothing to do outside a
\* capture, an error without a channel; a driver that reopens under ASIO may have
\* left 48 kHz, which is noted for the supervisor.
OutputReopened(pl, o) ==
  LET q == [pl EXCEPT !.input = TRUE, !.output = o]
  IN CASE o = "chosen"   -> OutputBack(q)
       [] o = "fallback" -> OutputFellBack(q)
       [] o = "closed"   -> q
AsioReopened(pl) == {[pl EXCEPT !.input = TRUE, !.output = "chosen", !.drift = d] : d \in BOOLEAN}
Rebuilt(pl, outHere) ==
  IF ~IsCapturing(pl) THEN {pl}
  ELSE IF pl.asio THEN AsioReopened(pl)
  ELSE {OutputReopened(pl, o) : o \in IF outHere THEN {"chosen"} ELSE {"fallback", "closed"}}

\* keep_listening_without_input: the loss is noted, the output reopened alone.
KeepListening(pl, outHere) ==
  LET q == InputLost(pl, "unplugged")
  IN IF q.output # "closed" THEN {q} ELSE Playback(q, outHere)
=============================================================================
