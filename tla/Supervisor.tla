----------------------------- MODULE Supervisor -----------------------------
(***************************************************************************)
(* The supervisor of the audio callbacks (audio_liveness_supervisor and    *)
(* repair_audio_streams, jamodio-agent/src/ws_server.rs) beside the        *)
(* browser's messages, on one session (Session), over devices that are     *)
(* unplugged, fall silent and come back.                                   *)
(*                                                                         *)
(* The supervisor takes the pipeline's mutex for one step at a time and    *)
(* lets it go while it waits: between two of its steps the browser may     *)
(* start, change or stop the session.  What it tells the browser goes      *)
(* through the connection's queue, beside the answers to the messages.     *)
(*                                                                         *)
(* Its delays (the gap between two repairs, the flatline, the poll of a    *)
(* lost device) are choices: a step they guard may always be put off, and  *)
(* fairness says that it is not put off for ever.                          *)
(***************************************************************************)
EXTENDS Session

CONSTANTS
  Hosts,                \* the values of Session's asio to consider
  SILENT_REBUILD_LIMIT,
  Attempts,             \* tries of one repair (BACKOFF_MS)
  MaxEvents             \* bound: captures started, and what happens to the devices

SupervisorConstants ==
  /\ Hosts \subseteq BOOLEAN
  /\ SILENT_REBUILD_LIMIT \in Nat \ {0} /\ Attempts \in Nat \ {0}
  /\ MaxEvents \in Nat

VARIABLES
  pl,        \* the session
  inHere,    \* the chosen input is plugged (under ASIO: the interface)
  outHere,   \* the chosen output is plugged
  healthy,   \* a stream opened now would deliver
  capLive,   \* the open input delivers
  outLive,   \* the open output asks for sound
  events,
  pc,        \* where the supervisor is
  seen,      \* what it observed: callbacks that advance, a capture stream
  why,       \* what the repair is for
  tries,     \* failed attempts of this repair
  result,    \* of the repair
  held,      \* events taken from the session, not yet sent
  active,    \* session_active
  silent,    \* silent_rebuilds, up to its limit
  degraded,
  rebuilt,   \* input_rebuilt_at: an input was reopened and is not confirmed
  answer,    \* CaptureStarted not yet sent: its output
  told,      \* what the browser was told: the input's loss, the output's
  crossed    \* history: a start overlapped a relay of events

deviceVars == <<inHere, outHere, healthy>>
liveVars   == <<capLive, outLive>>
localVars  == <<seen, why, tries, result, active, silent, degraded, rebuilt>>
talkVars   == <<held, answer, told, crossed>>
vars == <<pl, deviceVars, liveVars, events, pc, localVars, talkVars>>

Steps    == {"wake", "halt", "relay", "send", "observe", "judge", "settle", "lost", "return",
             "health", "close", "try", "after"}
Nothing  == [input |-> "none", output |-> FALSE]

Init ==
  /\ \E asio \in Hosts : pl = Boot(asio)
  /\ inHere = TRUE /\ outHere = TRUE /\ healthy = TRUE /\ events = 0
  /\ capLive = FALSE /\ outLive = FALSE
  /\ pc = "wake" /\ seen = [advancing |-> FALSE, stream |-> FALSE]
  /\ why = "health" /\ tries = 0 /\ result = "ok"
  /\ active = FALSE /\ silent = 0 /\ degraded = FALSE /\ rebuilt = FALSE
  /\ held = <<>> /\ answer = "none"
  /\ told = Nothing /\ crossed = FALSE

Delivers == inHere /\ healthy
\* Callbacks advance: the capture's, and the output's if there is one.
Advancing == capLive /\ (pl.asio \/ pl.output = "closed" \/ outLive)

\* The output of q asks for sound (under ASIO it goes with the input).
Sounds(q) == ~q.asio /\ (q.output = "fallback" \/ (q.output = "chosen" /\ outHere))

\* The session becomes q.  A stream just opened delivers if its device is there
\* and well; one that stays open keeps its state.
Reopens(q) ==
  /\ pl' = q /\ capLive' = (q.input /\ Delivers)
  /\ outLive' = Sounds(q)
ReopensOutput(q) ==
  /\ pl' = q /\ UNCHANGED capLive
  /\ outLive' = Sounds(q)
Closes(q) ==
  /\ pl' = q /\ capLive' = (capLive /\ q.input) /\ outLive' = (outLive /\ q.output # "closed")
Notes(q) == pl' = q /\ UNCHANGED liveVars

-----------------------------------------------------------------------------
\* The devices.

Event == events < MaxEvents /\ events' = events + 1

Unplug ==
  /\ inHere /\ Event
  /\ inHere' = FALSE /\ capLive' = FALSE
  /\ UNCHANGED <<pl, outHere, healthy, outLive, pc, localVars, talkVars>>
UnplugOutput ==
  /\ ~pl.asio /\ outHere /\ Event
  /\ outHere' = FALSE /\ outLive' = (outLive /\ pl.output = "fallback")
  /\ UNCHANGED <<pl, inHere, healthy, capLive, pc, localVars, talkVars>>
\* The driver stops its callbacks; reopened, it may stay mute or refuse.
Freeze ==
  /\ capLive /\ Event
  /\ capLive' = FALSE /\ healthy' \in BOOLEAN
  /\ UNCHANGED <<pl, inHere, outHere, outLive, pc, localVars, talkVars>>
\* What was broken is repaired.
Heal ==
  /\ \/ ~inHere /\ inHere' = TRUE /\ UNCHANGED <<outHere, healthy>>
     \/ ~outHere /\ outHere' = TRUE /\ UNCHANGED <<inHere, healthy>>
     \/ ~healthy /\ healthy' = TRUE /\ UNCHANGED <<inHere, outHere>>
  /\ UNCHANGED <<pl, liveVars, events, pc, localVars, talkVars>>

-----------------------------------------------------------------------------
\* The browser.

\* What an opening may find of the devices that are there.
Possible(q) ==
  /\ q.input => inHere \/ q.asio
  /\ q.output = "chosen" => outHere
  /\ q.output = "fallback" => ~outHere

\* StartCapture, for a new session or for another input of the present one
\* (session_continues).
Start ==
  /\ answer = "none" /\ Event
  /\ \E o \in StartCapture(pl, IsCapturing(pl)) :
       /\ Possible(o.pl)
       /\ Reopens(o.pl)
       /\ answer' = IF ~o.ok THEN "none" ELSE IF o.pl.output = "fallback" THEN "fallback" ELSE "chosen"
  /\ crossed' = (held # <<>>)
  /\ UNCHANGED <<deviceVars, pc, localVars, held, told>>
\* CaptureStarted reaches the connection's queue.
Answer ==
  /\ answer # "none" /\ answer' = "none"
  /\ told' = [Nothing EXCEPT !.output = (answer = "fallback")]
  /\ UNCHANGED <<pl, deviceVars, liveVars, events, pc, localVars, held, crossed>>
Stop ==
  /\ answer = "none" /\ Left(pl) # pl
  /\ Closes(Left(pl))
  /\ UNCHANGED <<deviceVars, events, pc, localVars, talkVars>>

Browser == Start \/ Answer \/ Stop

-----------------------------------------------------------------------------
\* One turn of the supervisor.

GoTo(step) == pc' = step /\ UNCHANGED <<deviceVars, talkVars>>

\* A reopening that left 48 kHz stops the capture, under the next lock.
Wake ==
  /\ pc = "wake"
  /\ Notes([pl EXCEPT !.drift = FALSE])
  /\ GoTo(IF pl.drift THEN "halt" ELSE "relay")
  /\ UNCHANGED <<events, localVars>>
Halt ==
  /\ pc = "halt" /\ GoTo("wake")
  /\ Closes(StoppedAll(pl)) /\ active' = FALSE
  /\ UNCHANGED <<events, seen, why, tries, result, silent, degraded, rebuilt>>

\* The grace of a parked driver is over.
Grace ==
  /\ pc = "relay" /\ pl.warm = "parked" /\ GoTo("relay")
  /\ Closes(Released(pl))
  /\ UNCHANGED <<events, localVars>>

\* The events are taken under the lock, and sent without it.
Relay ==
  /\ pc = "relay" /\ pc' = "send"
  /\ held' = pl.pending /\ Notes([pl EXCEPT !.pending = <<>>])
  /\ crossed' = (crossed \/ (answer # "none" /\ pl.pending # <<>>))
  /\ UNCHANGED <<deviceVars, events, localVars, answer, told>>
SendEvent ==
  /\ pc = "send" /\ held # <<>>
  /\ LET e == Head(held)
     IN told' = IF e[1] = "input" THEN [told EXCEPT !.input = e[2]] ELSE [told EXCEPT !.output = e[2]]
  /\ held' = Tail(held)
  /\ UNCHANGED <<pl, deviceVars, liveVars, events, pc, localVars, answer, crossed>>

\* The observation, under the lock; what follows acts on it after the lock.
Observe ==
  /\ pc = "send" /\ held = <<>>
  /\ IF IsCapturing(pl) /\ active
     THEN /\ GoTo("judge") /\ seen' = [advancing |-> Advancing, stream |-> pl.input]
          /\ UNCHANGED <<active, silent, degraded>>
     ELSE /\ GoTo("wake") /\ active' = IsCapturing(pl) /\ silent' = 0 /\ degraded' = FALSE
          /\ UNCHANGED seen
  /\ UNCHANGED <<pl, liveVars, events, why, tries, result, rebuilt>>

\* A repair counts its attempts from zero.
BeginRepair(w) == why' = w /\ tries' = 0

\* The detector of a capture that left 48 kHz; a rebuild asked for by the buffer policy.
MeasureDrift ==
  /\ pc = "judge" /\ seen.advancing /\ Event
  /\ GoTo("halt")
  /\ UNCHANGED <<pl, liveVars, localVars>>
Resize ==
  /\ pc = "judge" /\ Event
  /\ GoTo("close") /\ BeginRepair("buffer")
  /\ UNCHANGED <<pl, liveVars, seen, result, active, silent, degraded, rebuilt>>
\* The machine woke up: muted, closed, and a long settle without the lock.
Resume ==
  /\ pc = "judge" /\ pl.asio /\ Event
  /\ GoTo("settle") /\ Closes(StreamsClosed([pl EXCEPT !.feeding = FALSE]))
  /\ UNCHANGED localVars
Judged ==
  /\ pc = "judge" /\ GoTo("lost")
  /\ UNCHANGED <<pl, liveVars, events, localVars>>

-----------------------------------------------------------------------------
\* Reopening the streams.

\* rebuild_audio_streams.  An ASIO driver that is still open may refuse to be
\* opened again; one whose interface is gone opens and stays mute, or fails.
Rebuilds ==
  IF ~IsCapturing(pl) THEN {"ok"}
  ELSE IF ~pl.channel THEN {"error"}
  ELSE IF ~pl.asio /\ ~inHere THEN {"missing"}
  ELSE IF Delivers /\ ~(pl.asio /\ pl.input) THEN {"ok"}
  ELSE {"ok", "error"}
Rebuild(r, feeding) ==
  LET fed(q) == [q EXCEPT !.feeding = @ \/ feeding]
  IN IF r = "ok" /\ IsCapturing(pl)
     THEN \E q \in Rebuilt(pl, outHere) : Reopens(fed(q))
     ELSE Notes(fed(pl))

Settle ==
  /\ pc = "settle" /\ GoTo("wake")
  /\ \E r \in Rebuilds : Rebuild(r, TRUE)
  /\ UNCHANGED <<events, localVars>>

\* repair_audio_streams: the lock is free between the closing and each attempt.
Close ==
  /\ pc = "close" /\ GoTo("try")
  /\ Closes(StreamsClosed(pl))
  /\ UNCHANGED <<events, localVars>>
Try ==
  /\ pc = "try"
  /\ \E r \in Rebuilds :
       /\ Rebuild(r, FALSE)
       /\ result' = r
       /\ tries' = IF r = "error" THEN tries + 1 ELSE tries
       /\ GoTo(IF r = "error" /\ tries + 1 < Attempts THEN "try" ELSE "after")
  /\ UNCHANGED <<events, seen, why, active, silent, degraded, rebuilt>>

-----------------------------------------------------------------------------
\* A device lost in session.

\* The chosen output is there again.
SeeOutput ==
  /\ pc = "lost" /\ pl.lostOut /\ pl.lostIn = "none" /\ outHere
  /\ GoTo("return") /\ rebuilt' = FALSE
  /\ UNCHANGED <<pl, liveVars, events, seen, why, tries, result, active, silent, degraded>>
ReturnOutput ==
  /\ pc = "return" /\ GoTo("health")
  /\ \E q \in ReturnToChosen(pl, outHere) : ReopensOutput(q)
  /\ UNCHANGED <<events, localVars>>
NoInputLost ==
  /\ pc = "lost" /\ (pl.lostIn = "none" \/ pl.asio)
  /\ GoTo("health") /\ rebuilt' = (rebuilt /\ pl.lostIn # "none")
  /\ UNCHANGED <<pl, liveVars, events, seen, why, tries, result, active, silent, degraded>>

\* lost_input_step, when the output goes on without the input.  It is back once
\* reopened and heard.
WaitsForInput == pc = "lost" /\ pl.lostIn # "none" /\ ~pl.asio
InputConfirmed == rebuilt /\ capLive
SeeInputBack ==
  /\ WaitsForInput /\ InputConfirmed
  /\ GoTo("wake") /\ Notes(InputBack(pl)) /\ rebuilt' = FALSE
  /\ UNCHANGED <<events, seen, why, tries, result, active, silent, degraded>>
ProbeInput ==
  /\ WaitsForInput /\ ~InputConfirmed /\ inHere
  /\ GoTo("close") /\ BeginRepair("lost") /\ rebuilt' = FALSE
  /\ UNCHANGED <<pl, liveVars, events, seen, result, active, silent, degraded>>
WaitForInput ==
  /\ WaitsForInput /\ ~InputConfirmed
  /\ GoTo("wake") /\ rebuilt' \in {rebuilt, rebuilt /\ inHere}
  /\ UNCHANGED <<pl, liveVars, events, seen, why, tries, result, active, silent, degraded>>

-----------------------------------------------------------------------------
\* The health of the callbacks, as they were observed.

Healthy ==
  /\ pc = "health" /\ seen.advancing
  /\ GoTo("wake") /\ Notes(InputBack(pl)) /\ silent' = 0 /\ degraded' = FALSE
  /\ UNCHANGED <<events, seen, why, tries, result, active, rebuilt>>
\* No flatline yet, or a repair too recent.
PutOff ==
  /\ pc = "health" /\ ~seen.advancing
  /\ GoTo("wake")
  /\ UNCHANGED <<pl, liveVars, events, localVars>>
\* The streams fell or froze.
Repair ==
  /\ pc = "health" /\ ~seen.advancing
  /\ GoTo("close") /\ BeginRepair("health")
  /\ silent' = IF seen.stream /\ silent < SILENT_REBUILD_LIMIT THEN silent + 1 ELSE silent
  /\ UNCHANGED <<pl, liveVars, events, seen, result, active, degraded, rebuilt>>
\* The driver asked for a reset.
Reset ==
  /\ pc = "health" /\ pl.asio /\ Event
  /\ GoTo("close") /\ BeginRepair("health")
  /\ UNCHANGED <<pl, liveVars, seen, result, active, silent, degraded, rebuilt>>

\* What follows a repair: a driver that reopens proves nothing.
After ==
  LET listens == \E q \in KeepListening(pl, outHere) :
                   IF q.output = pl.output THEN Notes(q) ELSE ReopensOutput(q)
  IN CASE why = "buffer" -> UNCHANGED <<pl, liveVars, degraded, rebuilt>>
       [] why = "lost" ->
            /\ IF result = "ok" THEN UNCHANGED <<pl, liveVars>> ELSE listens
            /\ rebuilt' = (result = "ok") /\ UNCHANGED degraded
       [] why = "health" /\ result = "missing" -> listens /\ UNCHANGED <<degraded, rebuilt>>
       [] why = "health" /\ result = "ok" ->
            IF silent = SILENT_REBUILD_LIMIT /\ ~degraded
            THEN Notes(InputLost(pl, "silent")) /\ degraded' = TRUE /\ UNCHANGED rebuilt
            ELSE UNCHANGED <<pl, liveVars, degraded, rebuilt>>
       [] why = "health" /\ result = "error" ->
            IF degraded THEN UNCHANGED <<pl, liveVars, degraded, rebuilt>>
            ELSE Notes(InputLost(pl, "unplugged")) /\ degraded' = TRUE /\ UNCHANGED rebuilt
Repaired ==
  /\ pc = "after" /\ GoTo("wake") /\ After
  /\ UNCHANGED <<events, seen, why, tries, result, active, silent>>

-----------------------------------------------------------------------------
Turn ==
  \/ Wake \/ Halt \/ Relay \/ SendEvent \/ Observe \/ Judged
  \/ Settle \/ Close \/ Try \/ ReturnOutput \/ NoInputLost \/ SeeInputBack \/ WaitForInput
  \/ Healthy \/ PutOff \/ Repaired
Chance == MeasureDrift \/ Resize \/ Resume \/ Reset
Device == Unplug \/ UnplugOutput \/ Freeze \/ Heal

Next == Turn \/ Chance \/ Grace \/ SeeOutput \/ ProbeInput \/ Repair \/ Device \/ Browser

\* The runtime serves the supervisor and the connection; a delay of the
\* supervisor elapses in the end.  No device owes a fault nor a repair, and the
\* browser owes nothing.
Fairness ==
  /\ WF_vars(Turn) /\ WF_vars(Answer)
  /\ SF_vars(SeeOutput) /\ SF_vars(ProbeInput) /\ SF_vars(Repair)
FairSpec == Init /\ [][Next]_vars /\ Fairness

-----------------------------------------------------------------------------
TypeOK ==
  /\ pl \in PipelineState
  /\ inHere \in BOOLEAN /\ outHere \in BOOLEAN /\ healthy \in BOOLEAN
  /\ capLive \in BOOLEAN /\ outLive \in BOOLEAN
  /\ events \in 0 .. MaxEvents
  /\ pc \in Steps /\ seen \in [advancing: BOOLEAN, stream: BOOLEAN]
  /\ why \in {"buffer", "lost", "health"} /\ tries \in 0 .. Attempts
  /\ result \in {"ok", "missing", "error"}
  /\ held \in Seq(DeviceEvent) /\ answer \in {"none", "chosen", "fallback"}
  /\ active \in BOOLEAN /\ silent \in 0 .. SILENT_REBUILD_LIMIT
  /\ degraded \in BOOLEAN /\ rebuilt \in BOOLEAN
  /\ told \in [input: {"none"} \cup Loss, output: BOOLEAN] /\ crossed \in BOOLEAN

\* Whatever is lost, reopened and lost again, once the events are sent the
\* browser has been told of exactly the losses the session knows, unless a
\* start of a capture overlapped the sending.
Quiet == answer = "none" /\ held = <<>> /\ pl.pending = <<>>
ToldTruth ==
  pl.encoder /\ Quiet /\ ~crossed => told = [input |-> pl.lostIn, output |-> pl.lostOut]

\* A capture that the supervisor can repair, on an input that would deliver.
Repairable == IsCapturing(pl) /\ pl.channel /\ Delivers

\* An input that is plugged again and well is declared back in the end: the
\* session does not stay in its loss (it did until 21/09/2026).
LossesEnd == []<>(pl.lostIn = "none" \/ ~Repairable)

\* A capture whose streams fell, froze or failed to reopen delivers again.
InputReturns == []<>(capLive \/ ~Repairable)

\* An output the session knows to be lost, whether the sound fell back on the
\* system's or has none since, is opened again once it is there.  An output that a
\* reopening left closed without falling back is not known to be lost: it stays
\* closed until the musician chooses one, and nothing is claimed of it.
OutputReturns ==
  []<>~(Repairable /\ outHere /\ (pl.lostOut \/ pl.output = "fallback"))

\* However the repairs fail on the way, the input comes back with its device, and
\* the output that was noted as lost with its own.
SoundReturns == InputReturns /\ OutputReturns

=============================================================================
