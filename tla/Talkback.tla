------------------------------ MODULE Talkback ------------------------------
(***************************************************************************)
(* The talkback (jamodio-agent/src/pipeline.rs, audio/voice_tap.rs): the   *)
(* musician's voice, taken from a channel of the instrument's capture (the *)
(* tap) or from a microphone of its own, goes through a queue to a voice   *)
(* stage, a thread that isolates, encodes and sends it.                    *)
(*                                                                         *)
(* start_voice_capture, stop_voice_capture and the end of a session run    *)
(* one at a time, behind the pipeline's mutex, which they keep while they  *)
(* wait for a stage to be ready or to end.  The stages share the lights    *)
(* that the window shows.                                                  *)
(*                                                                         *)
(* Blocks are counted, not told apart; the levels, reset with the lights,  *)
(* are left out, as is the count of the windows in which the isolation is  *)
(* too slow: it may be given up at any block.                              *)
(***************************************************************************)
EXTENDS Naturals, Sequences, FiniteSets

CONSTANTS
  VOICE_TAP_MAX,  \* blocks the queue of a stage accepts (VOICE_TAP_MAX_MS)
  CTRL,           \* capacity of the channel of the tap's commands (4)
  MaxVoices       \* bound: talkbacks started

TalkbackConstants == VOICE_TAP_MAX \in Nat /\ CTRL \in Nat /\ MaxVoices \in Nat

Voices == 1..MaxVoices
None   == 0

VARIABLES
  capturing,        \* a capture runs: voice_ctrl_tx exists
  ctrl,             \* commands the capture stage has not read: a voice to tap, or None
  tap,              \* voice_out: the voice the capture stage pushes to
  mics,             \* voices a dedicated microphone still pushes to
  voices,           \* talkbacks started so far
  stage,            \* voice_encode_stage
  active,           \* voice_active
  call,             \* the call that runs, what it waits for and what it does next
  pc,               \* where each voice stage is
  ready,            \* its ready flag
  closed,           \* its queue was closed
  queued,           \* blocks in its queue
  isolates,         \* it still has its isolator
  isolationActive,  \* the shared lights
  voiceOnAir,
  abandoned         \* history: stages let go before they were ready

pipelineVars == <<capturing, voices, stage, active, call>>
tapVars      == <<ctrl, tap, mics>>
stageVars    == <<pc, ready, isolates>>
lights       == <<isolationActive, voiceOnAir>>
vars == <<pipelineVars, tapVars, stageVars, closed, queued, lights, abandoned>>

Idle             == [op |-> "none", on |-> None, next |-> "nothing"]
Waiting(op, k, next) == [op |-> op, on |-> k, next |-> next]

TypeOK ==
  /\ capturing \in BOOLEAN /\ active \in BOOLEAN /\ voices \in 0..MaxVoices
  /\ ctrl \in Seq(0..MaxVoices) /\ Len(ctrl) <= CTRL /\ tap \in 0..MaxVoices
  /\ mics \subseteq Voices /\ stage \in 0..MaxVoices
  /\ call \in [op: {"none", "join", "await"}, on: 0..MaxVoices, next: {"nothing", "tap", "mic"}]
  /\ pc \in [Voices -> {"unborn", "loading", "loop", "ended"}]
  /\ ready \in [Voices -> BOOLEAN] /\ closed \in [Voices -> BOOLEAN]
  /\ queued \in [Voices -> 0..VOICE_TAP_MAX] /\ isolates \in [Voices -> BOOLEAN]
  /\ isolationActive \in BOOLEAN /\ voiceOnAir \in BOOLEAN /\ abandoned \subseteq Voices

Init ==
  /\ capturing = FALSE /\ ctrl = <<>> /\ tap = None /\ mics = {} /\ voices = 0
  /\ stage = None /\ active = FALSE /\ call = Idle
  /\ pc = [k \in Voices |-> "unborn"] /\ ready = [k \in Voices |-> FALSE]
  /\ closed = [k \in Voices |-> FALSE] /\ queued = [k \in Voices |-> 0]
  /\ isolates = [k \in Voices |-> FALSE]
  /\ isolationActive = FALSE /\ voiceOnAir = FALSE /\ abandoned = {}

-----------------------------------------------------------------------------
\* The calls.

\* Drop for VoiceEncodeStage: the queue is closed; the thread is waited for only
\* if it is ready.  (First a wrong form: never.)
NotJoined(k) == {}
Joined(k) == IF k # None /\ ready[k] THEN {k} ELSE {}
LetGo(k, next) ==
  /\ closed' = [j \in Voices |-> closed[j] \/ j = k]
  /\ abandoned' = abandoned \cup (IF k # None /\ ~ready[k] THEN {k} ELSE {})
  /\ call' = Waiting("join", IF Joined(k) # {} THEN k ELSE None, next)

\* stop_voice, up to the wait: the capture stage is told to take the tap away.
\* A full channel swallows the command: the closed queue will do.
StopVoice(next) ==
  /\ LetGo(stage, next)
  /\ ctrl' = IF active /\ capturing /\ Len(ctrl) < CTRL THEN Append(ctrl, None) ELSE ctrl

\* stop_voice_capture
Stop ==
  /\ call = Idle /\ StopVoice("nothing")
  /\ UNCHANGED <<capturing, voices, stage, active, tap, mics, stageVars, queued, lights>>

\* start_voice_capture: the former talkback stops first.  A tap needs a capture.
Start(source) ==
  /\ call = Idle /\ voices < MaxVoices /\ (source = "tap" => capturing)
  /\ StopVoice(source)
  /\ UNCHANGED <<capturing, voices, stage, active, tap, mics, stageVars, queued, lights>>

\* start_capture and teardown_session, as far as the talkback is concerned: the
\* command channel begins and ends with the capture, and so does the tap.
StartCapture ==
  /\ call = Idle /\ ~capturing /\ capturing' = TRUE
  /\ UNCHANGED <<voices, stage, active, call, tapVars, stageVars, closed, queued, lights, abandoned>>
EndCapture ==
  /\ call = Idle /\ capturing /\ capturing' = FALSE
  /\ LetGo(stage, "nothing") /\ ctrl' = <<>> /\ tap' = None
  /\ UNCHANGED <<voices, stage, active, mics, stageVars, queued, lights>>

\* The end of stop_voice: the microphone is released -- on macOS its callback
\* lives on.  Then start_voice_capture goes on: no address, key, socket or thread;
\* or a stage that loads its models.
StopDone ==
  /\ call.op = "join" /\ (call.on # None => pc[call.on] = "ended")
  /\ stage' = None /\ active' = FALSE
  /\ mics' \in {mics, mics \ {stage}}
  /\ \/ call' = Idle /\ UNCHANGED <<voices, pc>>
     \/ /\ call.next # "nothing"
        /\ voices' = voices + 1
        /\ pc' = [pc EXCEPT ![voices + 1] = "loading"]
        /\ call' = Waiting("await", voices + 1, call.next)
  /\ UNCHANGED <<capturing, ctrl, tap, ready, isolates, closed, queued, lights, abandoned>>

\* The stage is ready, or ten seconds went by: its source is connected.
Connect ==
  /\ call.op = "await" /\ pc[call.on] # "ended"
  /\ \/ /\ call.next = "tap" /\ Len(ctrl) < CTRL
        /\ ctrl' = Append(ctrl, call.on) /\ UNCHANGED mics
     \/ /\ call.next = "mic" /\ mics' = mics \cup {call.on} /\ UNCHANGED ctrl
  /\ stage' = call.on /\ active' = TRUE /\ call' = Idle
  /\ UNCHANGED <<capturing, voices, tap, stageVars, closed, queued, lights, abandoned>>

\* The microphone does not open, the command channel is full or gone, or the stage
\* ended before it was ready: the stage is let go.
Fail ==
  /\ call.op = "await"
  /\ LetGo(call.on, "nothing")
  /\ UNCHANGED <<capturing, voices, stage, active, tapVars, stageVars, queued, lights>>

-----------------------------------------------------------------------------
\* The producers.

\* VoiceTapSender::push: refused when the queue is closed, thrown away when it is
\* full; an empty queue takes any block.
Pushed(k) ==
  queued' = [queued EXCEPT ![k] = IF ~closed[k] /\ @ < VOICE_TAP_MAX THEN @ + 1 ELSE @]

\* The head of capture_stage_loop: the commands are read in their order.
ReadFirst(commands) == <<Head(commands), Tail(commands)>>
Obey ==
  /\ capturing /\ ctrl # <<>>
  /\ tap' = ReadFirst(ctrl)[1] /\ ctrl' = ReadFirst(ctrl)[2]
  /\ UNCHANGED <<pipelineVars, mics, stageVars, closed, queued, lights, abandoned>>

\* A block of the instrument; a stage that is gone is tapped no more.
TapBlock ==
  /\ capturing /\ ctrl = <<>> /\ tap # None
  /\ tap' = IF closed[tap] THEN None ELSE tap
  /\ Pushed(tap)
  /\ UNCHANGED <<pipelineVars, ctrl, mics, stageVars, closed, lights, abandoned>>

\* A block of a dedicated microphone.
MicBlock(k) ==
  /\ k \in mics /\ Pushed(k)
  /\ UNCHANGED <<pipelineVars, tapVars, stageVars, closed, lights, abandoned>>

-----------------------------------------------------------------------------
\* The voice stage: voice_encode_stage_loop.

\* The encoder and the models are loaded, or the encoder cannot be had.
Load(k) ==
  /\ pc[k] = "loading"
  /\ \/ \E isolator \in BOOLEAN :
          /\ isolates' = [isolates EXCEPT ![k] = isolator]
          /\ isolationActive' = isolator
          /\ ready' = [ready EXCEPT ![k] = TRUE]
          /\ pc' = [pc EXCEPT ![k] = "loop"]
     \/ pc' = [pc EXCEPT ![k] = "ended"] /\ UNCHANGED <<ready, isolates, isolationActive>>
  /\ UNCHANGED <<pipelineVars, tapVars, closed, queued, voiceOnAir, abandoned>>

\* A block is isolated, encoded and sent.  The isolation may fail or be too slow:
\* it is given up, and the light says so.
Encode(k) ==
  /\ pc[k] = "loop" /\ ~closed[k] /\ queued[k] > 0
  /\ queued' = [queued EXCEPT ![k] = @ - 1]
  /\ \/ isolates[k] /\ voiceOnAir' \in BOOLEAN /\ UNCHANGED <<isolates, isolationActive>>
     \/ /\ isolates[k] /\ isolates' = [isolates EXCEPT ![k] = FALSE]
        /\ voiceOnAir' = FALSE /\ isolationActive' = FALSE
     \/ ~isolates[k] /\ UNCHANGED <<isolates, isolationActive, voiceOnAir>>
  /\ UNCHANGED <<pipelineVars, tapVars, pc, ready, closed, abandoned>>

\* The queue is closed: the lights go out and the thread ends, whoever still holds a sender.
IsClosed(k) == closed[k]
Finish(k) ==
  /\ pc[k] = "loop" /\ IsClosed(k)
  /\ pc' = [pc EXCEPT ![k] = "ended"]
  /\ isolationActive' = FALSE /\ voiceOnAir' = FALSE
  /\ UNCHANGED <<pipelineVars, tapVars, ready, isolates, closed, queued, abandoned>>

-----------------------------------------------------------------------------
Next ==
  \/ Stop \/ StartCapture \/ EndCapture \/ StopDone \/ Connect \/ Fail
  \/ \E source \in {"tap", "mic"} : Start(source)
  \/ Obey \/ TapBlock
  \/ \E k \in Voices : MicBlock(k) \/ Load(k) \/ Encode(k) \/ Finish(k)

Spec == Init /\ [][Next]_vars
\* A stage that is ready runs and a call that waits no more goes on.  Nothing says
\* that the models are ever loaded.
Fairness ==
  /\ WF_vars(StopDone) /\ WF_vars(Connect \/ Fail) /\ WF_vars(Obey)
  /\ \A k \in Voices : WF_vars(Encode(k)) /\ WF_vars(Finish(k))
FairSpec == Spec /\ Fairness

-----------------------------------------------------------------------------
\* At most one voice is encoded and sent: a stage that runs is the present one or
\* the one being started, however the talkback was changed, and none is left when
\* a call has returned with the talkback off.
OneStage ==
  \A k \in Voices :
    pc[k] = "loop" /\ k \notin abandoned => k \in {stage, call.on}

\* Once it has read its commands the capture stage taps the present talkback, or
\* nobody that listens.
TapFollows ==
  capturing /\ ctrl = <<>> /\ call = Idle =>
    /\ active /\ stage \notin mics => tap = stage
    /\ tap # None /\ tap # stage => closed[tap]

\* One voice is heard: the talkback's present one.
OneVoice == OneStage /\ TapFollows

\* A stage that runs ends once it is let go, even if the callback of its
\* microphone never lets its sender go.
StageEnds == []<>(\A k \in Voices : ~(closed[k] /\ pc[k] = "loop"))

\* A call on the talkback returns, and with it the pipeline's mutex, although the
\* loading of the models has no bound.
CallsReturn == []<>(call = Idle)

\* Neither waits for the other for ever.
NothingHangs == StageEnds /\ CallsReturn
=============================================================================
