----------------------------- MODULE ClientSlot -----------------------------
(***************************************************************************)
(* The WebSocket connections of the audio engine and the session they      *)
(* share (jamodio-agent/src/ws_server.rs, handle_connection).  A           *)
(* connection that speaks is promoted: it takes the place of the previous  *)
(* one, which it asks to leave.  A connection that leaves its place waits  *)
(* for the pipeline's mutex and leaves the session (Session!Left); a       *)
(* connection that never spoke touches nothing.                            *)
(*                                                                         *)
(* Each connection of a browser has a supervisor of its own (Supervisor    *)
(* follows one closely).  It looks at the session, lets the mutex go,      *)
(* waits, and changes the session under another lock: what it saw may have *)
(* ended meanwhile.                                                        *)
(*                                                                         *)
(* The mutex is tokio's: those who wait are served in order.  What its     *)
(* holder does is one step, taken when it lets go.                         *)
(***************************************************************************)
EXTENDS Session, FiniteSets

CONSTANTS
  Connections,
  Internal,    \* those of the program's own window
  None,        \* no connection
  Messages,    \* what a browser may send
  Hosts,       \* the values of Session's asio to consider
  MaxMessages, \* bound: messages handled
  MaxTurns     \* bound: turns of the supervisors, and tries made again

ASSUME ClientConstants ==
  /\ Internal \subseteq Connections /\ None \notin Connections
  /\ \A c, d \in Connections : <<c>> # d  \* <<c>> stands for the supervisor of c
  /\ Hosts \subseteq BOOLEAN
  /\ Messages \subseteq {"Hello", "StartCapture", "AddStream", "RemoveStream", "StartVoice",
                         "StopVoice", "StartRecording", "Stop"}
  /\ MaxMessages \in Nat /\ MaxTurns \in Nat

External == Connections \ Internal

VARIABLES
  pl,        \* the session
  queue,     \* those who wait for its mutex; the first holds it
  pc,        \* where each connection is
  msg,       \* the message it handles
  promoted,  \* slot_taken
  kicked,    \* its killer was sent
  slot,      \* active_client_killer: whose sender is stored
  messages,  \* messages handled so far
  sup,       \* where the supervisor of each connection is
  turns,     \* turns of the supervisors so far
  owner,     \* history: who started the present session
  busy,      \* history: was in a handler when it was kicked
  skipped,   \* history: some cleanup gave the mutex up
  overtaken    \* history: the last session to end did under a supervisor that acts on it

netVars  == <<pc, msg, promoted, kicked, slot, messages>>
supVars  == <<sup, turns>>
histVars == <<owner, busy, skipped, overtaken>>
vars == <<pl, queue, netVars, supVars, histVars>>

Gone(c)     == pc[c] = "gone"
Present(c)  == pc[c] \notin {"away", "gone"}
Handling    == {"pause", "wait", "reply"}
\* The connections that hold the place: promoted, and not asked to leave.
Clients     == {c \in Connections : promoted[c] /\ pc[c] \in {"open"} \cup Handling /\ ~kicked[c]}
IsHolder(c) == queue # <<>> /\ Head(queue) = c
Waits(c)    == \E i \in DOMAIN queue : queue[i] = c
Task(c)     == <<c>>
\* The queue once the one that waits at i no longer does.
Without(i)  == SubSeq(queue, 1, i - 1) \o SubSeq(queue, i + 1, Len(queue))

Init ==
  /\ \E asio \in Hosts : pl = Boot(asio)
  /\ queue = <<>>
  /\ pc = [c \in Connections |-> "away"] /\ msg = [c \in Connections |-> "Hello"]
  /\ promoted = [c \in Connections |-> FALSE] /\ kicked = [c \in Connections |-> FALSE]
  /\ slot = None /\ messages = 0
  /\ sup = [c \in Connections |-> "none"] /\ turns = 0
  /\ owner = None /\ busy = [c \in Connections |-> FALSE] /\ skipped = FALSE /\ overtaken = FALSE

-----------------------------------------------------------------------------
\* The supervisors: when they run, and where.

Stages == {"none", "rest",
           "judged",   \* saw a capture, and looks for what to do about it
           "health",   \* done with the devices, looks at the callbacks
           "halt",     \* is to stop a capture whose rate drifted
           "resume",   \* muted and closed the streams, and lets them settle
           "repair",   \* closed the streams, and waits before it opens them
           "missing",  \* its repair found no input
           "return"}   \* saw the chosen output there again
Sleeps == {"rest", "resume", "repair", "return"}

\* The connection runs its supervisor; the supervisor is to act on the session it saw.
Alive(c)   == c \in External /\ Present(c) /\ pc[c] # "leave"
Midway(c)  == sup[c] \notin {"none", "rest", "halt"}
Supervised == \E c \in Connections : Alive(c)

\* abort, at the start of the cleanup: the supervisor stops at its next wait.  If
\* it does not wait at that instant, it may go on until then.
Aborted(c) ==
  \E s \in {"none", sup[c]} :
    /\ s # "none" => IsHolder(Task(c)) \/ (Midway(c) /\ ~Waits(Task(c)))
    /\ sup' = [sup EXCEPT ![c] = s]

\* What the end of a session, that leaves q, owes to the supervisors.  An end that
\* finds nothing to end owes nothing more.
Overtakes(q) == overtaken' = ((\E c \in Connections : Midway(c)) \/ (overtaken /\ q = pl))

-----------------------------------------------------------------------------
\* The receive loop.

Connect(c) ==
  /\ pc[c] = "away"
  /\ pc' = [pc EXCEPT ![c] = "open"]
  /\ sup' = [sup EXCEPT ![c] = IF c \in External THEN "rest" ELSE "none"]
  /\ UNCHANGED <<pl, queue, msg, promoted, kicked, slot, messages, turns, histVars>>

\* handle_one_message: those that need the session wait for its mutex.
Dispatch(c, m) ==
  IF m = "Hello"
  THEN pc' = [pc EXCEPT ![c] = "reply"] /\ UNCHANGED queue
  ELSE pc' = [pc EXCEPT ![c] = "wait"] /\ queue' = Append(queue, c)

\* A wrong form of the step below: the former client is not told.
ReplacedOnly(c) ==
  /\ slot' = c /\ promoted' = [promoted EXCEPT ![c] = TRUE]
  /\ UNCHANGED <<kicked, busy>>

\* The promotion: the stored sender is replaced, the former one is used.  It
\* has an effect while its receiver lives.
Promote(c) ==
  /\ slot' = c /\ promoted' = [promoted EXCEPT ![c] = TRUE]
  /\ IF slot # None /\ ~Gone(slot)
     THEN /\ kicked' = [kicked EXCEPT ![slot] = TRUE]
          /\ busy' = [busy EXCEPT ![slot] = pc[slot] \in Handling]
     ELSE UNCHANGED <<kicked, busy>>
Displaces == slot # None /\ ~Gone(slot)

\* A message from the browser.  The kick goes first (biased).
Receive(c, m) ==
  /\ pc[c] = "open" /\ ~kicked[c] /\ messages < MaxMessages
  /\ c \in Internal => m = "Hello"
  /\ messages' = messages + 1 /\ msg' = [msg EXCEPT ![c] = m]
  /\ IF promoted[c] \/ c \in Internal
     THEN Dispatch(c, m) /\ UNCHANGED <<promoted, kicked, slot, busy>>
     ELSE /\ Promote(c)
          /\ IF Displaces THEN pc' = [pc EXCEPT ![c] = "pause"] /\ UNCHANGED queue
                          ELSE Dispatch(c, m)
  /\ UNCHANGED <<pl, supVars, owner, skipped, overtaken>>

\* The 50 ms pause.  Assumed: it is enough for a connection that is not in a
\* handler to see its kick.
EndPause(c) ==
  /\ pc[c] = "pause"
  /\ \A d \in Connections : kicked[d] => pc[d] # "open"
  /\ Dispatch(c, msg[c])
  /\ UNCHANGED <<pl, msg, promoted, kicked, slot, messages, supVars, histVars>>

\* lock_pipeline_wait gives up after 3 s; the browser gets an error.
GiveUpWait(c) ==
  /\ pc[c] = "wait" /\ ~IsHolder(c)
  /\ \E i \in DOMAIN queue : queue[i] = c /\ queue' = Without(i)
  /\ pc' = [pc EXCEPT ![c] = "reply"] /\ msg' = [msg EXCEPT ![c] = "Hello"]
  /\ UNCHANGED <<pl, promoted, kicked, slot, messages, supVars, histVars>>

\* handle_message under the mutex: what each message does to the session.
Handled(m) ==
  CASE m = "StartCapture"   -> {Outcome(o.pl, o.ok) : o \in StartCapture(pl, FALSE)}
    [] m = "AddStream"      -> {Outcome(q, FALSE) : q \in AddStream(pl)}
    [] m = "RemoveStream"   -> {Outcome(q, FALSE) : q \in RemoveStream(pl)}
    [] m = "StartVoice"     -> {Outcome(q, FALSE) : q \in StartVoice(pl)}
    [] m = "StopVoice"      -> {Outcome(StopVoice(pl), FALSE)}
    [] m = "StartRecording" -> {Outcome(q, FALSE) : q \in StartRecording(pl)}
    [] m = "Stop"           -> {Outcome(Left(pl), FALSE)}

Handle(c) ==
  /\ pc[c] = "wait" /\ IsHolder(c)
  /\ \E o \in Handled(msg[c]) :
       /\ pl' = o.pl
       /\ IF msg[c] = "Stop" THEN Overtakes(o.pl) ELSE UNCHANGED overtaken
       /\ owner' = IF o.ok THEN c ELSE IF IsCapturing(o.pl) THEN owner ELSE None
  /\ queue' = Tail(queue)
  /\ pc' = [pc EXCEPT ![c] = "reply"] /\ msg' = [msg EXCEPT ![c] = "Hello"]
  /\ UNCHANGED <<promoted, kicked, slot, messages, supVars, busy, skipped>>

\* The answer waits for room in the connection's own queue: a browser that no
\* longer reads holds the handler here.  A failed send ends the loop.
Reply(c) ==
  /\ pc[c] = "reply"
  /\ pc' = [pc EXCEPT ![c] = "open"]
  /\ UNCHANGED <<pl, queue, msg, promoted, kicked, slot, messages, supVars, histVars>>

-----------------------------------------------------------------------------
\* The end of a connection.

\* A wrong form of the step below: every connection leaves the session.
AlwaysLeave(c) ==
  /\ queue' = Append(queue, c) /\ pc' = [pc EXCEPT ![c] = "leave"] /\ Aborted(c)

\* The cleanup: only a promoted connection has something to leave.
BeginCleanup(c) ==
  /\ Aborted(c)
  /\ IF promoted[c]
     THEN pc' = [pc EXCEPT ![c] = "leave"] /\ queue' = Append(queue, c)
     ELSE pc' = [pc EXCEPT ![c] = "gone"] /\ UNCHANGED queue

\* The kick is seen, once no handler runs.  (First a wrong form: one that came
\* while a handler ran is not.)
SeeKickIfIdle(c) ==
  /\ pc[c] = "open" /\ kicked[c] /\ ~busy[c]
  /\ BeginCleanup(c)
  /\ UNCHANGED <<pl, msg, promoted, kicked, slot, messages, turns, histVars>>
SeeKick(c) ==
  /\ pc[c] = "open" /\ kicked[c]
  /\ BeginCleanup(c)
  /\ UNCHANGED <<pl, msg, promoted, kicked, slot, messages, turns, histVars>>

\* The browser closes, the socket fails, the watchdog or the idle delay expires.
Close(c) ==
  /\ pc[c] \in {"open", "reply"} /\ ~kicked[c]
  /\ BeginCleanup(c)
  /\ UNCHANGED <<pl, msg, promoted, kicked, slot, messages, turns, histVars>>

\* leave_session, under the mutex...
Leave(c) ==
  /\ pc[c] = "leave" /\ IsHolder(c)
  /\ pl' = Left(pl) /\ owner' = None /\ Overtakes(Left(pl))
  /\ queue' = Tail(queue) /\ pc' = [pc EXCEPT ![c] = "gone"]
  /\ UNCHANGED <<msg, promoted, kicked, slot, messages, supVars, busy, skipped>>

\* ...or skipped after 500 ms without it.
SkipLeave(c) ==
  /\ pc[c] = "leave" /\ ~IsHolder(c)
  /\ \E i \in DOMAIN queue : queue[i] = c /\ queue' = Without(i)
  /\ pc' = [pc EXCEPT ![c] = "gone"] /\ skipped' = TRUE
  /\ UNCHANGED <<pl, msg, promoted, kicked, slot, messages, supVars, owner, busy, overtaken>>

-----------------------------------------------------------------------------
\* What a supervisor does to the session, each time it has the mutex.  The losses
\* of the input, and what the browser is told, are Supervisor's subject: here
\* nothing depends on them and none is kept.

Outcomes(sessions, next) ==
  {[pl |-> [q EXCEPT !.lostIn = "none", !.pending = <<>>], next |-> next] : q \in sessions}

\* Playback reopened, the chosen output being there or not.
FollowsDefault == IsCapturing(pl) /\ ~pl.asio /\ pl.output # "closed"
Reopened(Op(_, _)) == Op(pl, TRUE) \cup Op(pl, FALSE)

\* rebuild_audio_streams: nothing to do outside a capture.  It may fail, for want of
\* an input or not.
Fed(sessions) == {[q EXCEPT !.feeding = TRUE] : q \in sessions}
RepairFails   == {"repair", "missing"} \ (IF pl.asio THEN {"missing"} ELSE {})

Turn(stage) ==
  CASE stage = "rest" ->
         IF pl.drift THEN Outcomes({[pl EXCEPT !.drift = FALSE]}, "halt")
         ELSE Outcomes({pl}, IF IsCapturing(pl) THEN "judged" ELSE "rest")
    [] stage = "halt" -> Outcomes({StoppedAll(pl)}, "rest")
    [] stage = "judged" ->
         Outcomes({pl}, "halt") \cup Outcomes({pl}, "health")
         \cup Outcomes({StreamsClosed(pl)}, "repair")
         \cup (IF FollowsDefault THEN Outcomes(Reopened(Playback), "health") ELSE {})
         \cup (IF pl.asio THEN Outcomes({StreamsClosed([pl EXCEPT !.feeding = FALSE])}, "resume") ELSE {})
         \cup (IF pl.lostOut THEN Outcomes({pl}, "return") ELSE {})
    [] stage = "return" -> Outcomes(Reopened(ReturnToChosen), "health")
    [] stage = "health" ->
         Outcomes({pl}, "rest") \cup Outcomes({StreamsClosed(pl)}, "repair")
    [] stage = "resume" -> Outcomes(Fed({pl} \cup Reopened(Rebuilt)), "rest")
    [] stage = "repair" ->
         Outcomes({pl} \cup Reopened(Rebuilt), "rest")
         \cup (IF IsCapturing(pl) THEN UNION {Outcomes({pl}, next) : next \in RepairFails} ELSE {})
    [] stage = "missing" -> Outcomes(Reopened(KeepListening), "rest")

\* A turn begins; it matters when there is a capture, or one to stop.
Look(c) ==
  /\ sup[c] = "rest" /\ Alive(c) /\ ~Waits(Task(c))
  /\ IsCapturing(pl) \/ pl.drift
  /\ turns < MaxTurns /\ turns' = turns + 1
  /\ queue' = Append(queue, Task(c))
  /\ UNCHANGED <<pl, netVars, sup, histVars>>

\* The wait is over.  A supervisor told to stop has the mutex at once or not at all.
GoOn(c) ==
  /\ sup[c] \notin {"none", "rest"} /\ ~Waits(Task(c))
  /\ Alive(c) \/ queue = <<>>
  /\ queue' = Append(queue, Task(c))
  /\ UNCHANGED <<pl, netVars, supVars, histVars>>

Act(c) ==
  /\ IsHolder(Task(c)) /\ sup[c] # "none"
  /\ \E o \in Turn(sup[c]) :
       /\ pl' = o.pl
       /\ IF sup[c] = "repair" /\ o.next = "repair"
          THEN turns < MaxTurns /\ turns' = turns + 1 ELSE UNCHANGED turns
       /\ sup' = [sup EXCEPT ![c] = IF Alive(c) \/ o.next \notin Sleeps THEN o.next ELSE "none"]
       /\ owner' = IF IsCapturing(o.pl) THEN owner ELSE None
       /\ IF sup[c] = "halt" THEN Overtakes(o.pl) ELSE UNCHANGED overtaken
  /\ queue' = Tail(queue)
  /\ UNCHANGED <<netVars, busy, skipped>>

\* The abort takes effect; one that waits for the mutex no longer does.
Cancelled(c) ==
  /\ sup[c] # "none" /\ ~Alive(c) /\ ~Waits(Task(c))
  /\ sup' = [sup EXCEPT ![c] = "none"]
  /\ UNCHANGED <<pl, queue, netVars, turns, histVars>>
Dropped(c) ==
  /\ sup[c] = "none"
  /\ \E i \in DOMAIN queue : queue[i] = Task(c) /\ queue' = Without(i)
  /\ UNCHANGED <<pl, netVars, supVars, histVars>>

\* The grace is over: close_warm_if_grace_expired.
Grace(c) ==
  /\ Alive(c) /\ sup[c] = "rest" /\ queue = <<>> /\ pl.warm = "parked"
  /\ pl' = Released(pl)
  /\ UNCHANGED <<queue, netVars, supVars, histVars>>

Supervision(c) == Look(c) \/ GoOn(c) \/ Act(c) \/ Cancelled(c) \/ Dropped(c) \/ Grace(c)

Connection(c) ==
  \/ Connect(c) \/ (\E m \in Messages : Receive(c, m)) \/ EndPause(c) \/ GiveUpWait(c)
  \/ Handle(c) \/ Reply(c) \/ SeeKick(c) \/ Close(c) \/ Leave(c) \/ SkipLeave(c)

Next == \E c \in Connections : Connection(c) \/ Supervision(c)

Spec == Init /\ [][Next]_vars

\* The runtime serves its tasks, and the mutex those who wait for it in turn; a
\* browser that no longer reads ends by losing its socket, which ends the wait
\* of its answer.  No client owes a message, a connection or a departure.
Serves(c)     == EndPause(c) \/ Handle(c) \/ Reply(c) \/ SeeKick(c) \/ Leave(c)
Supervises(c) == GoOn(c) \/ Act(c) \/ Cancelled(c) \/ Dropped(c)
Fairness ==
  /\ \A c \in Connections : WF_vars(Serves(c)) /\ WF_vars(Supervises(c))
  /\ SF_vars(\E c \in Connections : Grace(c))
FairSpec == Spec /\ Fairness

-----------------------------------------------------------------------------
TypeOK ==
  /\ pl \in PipelineState
  /\ queue \in Seq(Connections \cup {Task(c) : c \in Connections})
  /\ pc \in [Connections -> {"away", "open", "leave", "gone"} \cup Handling]
  /\ msg \in [Connections -> Messages \cup {"Hello"}]
  /\ promoted \in [Connections -> BOOLEAN] /\ kicked \in [Connections -> BOOLEAN]
  /\ busy \in [Connections -> BOOLEAN] /\ skipped \in BOOLEAN
  /\ slot \in Connections \cup {None} /\ owner \in Connections \cup {None}
  /\ messages \in 0 .. MaxMessages
  /\ sup \in [Connections -> Stages] /\ turns \in 0 .. MaxTurns /\ overtaken \in BOOLEAN

\* However connections open, speak, freeze and close: one browser at most holds
\* the place, and it is the one whose killer is stored (so the next one can
\* make it leave).
OneClient == \A c \in Clients : c = slot /\ Clients = {c}

\* When every connection that spoke is gone, and no cleanup gave the mutex up,
\* nothing of a session runs: no capture, no encoder, the machine may sleep.
\* Outside ASIO nothing is open at all, whatever failed on the way.  The one that
\* may spoil it is a supervisor that acts on a session it saw and that has ended
\* since: it may feed the encoder that is no longer there, or reopen an output,
\* and nothing more.
EveryoneLeft == \A c \in Connections : promoted[c] => Gone(c)
EmptyHouse ==
  EveryoneLeft /\ ~skipped =>
    /\ pl.state = "Idle" /\ ~pl.encoder /\ ~pl.awake
    /\ ~overtaken => ~pl.feeding
    /\ ~pl.asio => LET q == IF overtaken THEN [pl EXCEPT !.feeding = FALSE, !.output = "closed"] ELSE pl
                   IN Forgotten(q) = Boot(FALSE)

\* A session ends under a browser that is still there only if the one that ends
\* it was in the middle of a message when it was displaced, or if it is its own,
\* or if a supervisor stops it for a rate it once saw drift.
EndsSessionOf(d) ==
  /\ IsCapturing(pl) /\ ~IsCapturing(pl)' /\ owner = d /\ d \in Clients /\ pc[d]' = pc[d]
Stalled(d)    == \E c \in Connections \ {d} : busy[c] /\ Waits(c)
StopsForRate  == \E c \in Connections : sup[c] = "halt" /\ IsHolder(Task(c))
CutShortOnlyByStalled ==
  [][\A d \in Connections : EndsSessionOf(d) => Stalled(d) \/ StopsForRate]_vars

\* A connection that never spoke (a probe, the program's window) leaves without
\* a trace: the session and the place are as it found them.
VisitorsLeaveNoTrace ==
  [][\A c \in Connections : ~promoted[c] /\ ~Gone(c) /\ Gone(c)'
       => UNCHANGED <<pl, queue, slot, kicked>>]_vars

\* A browser's session is left alone by the connections that come and go beside it.
SessionLeftAlone == CutShortOnlyByStalled /\ VisitorsLeaveNoTrace

\* A browser that was asked to leave leaves, whatever it was doing.
KickedLeaves == []<>(\A c \in Connections : kicked[c] => Gone(c))

\* A driver kept warm is let go, or used again, as long as some connection is
\* there to run the supervisor.
ParkedIsReleased == []<>(pl.warm # "parked" \/ ~Supervised)

\* What was told to go goes, connection or driver.
NothingLingers == KickedLeaves /\ ParkedIsReleased
=============================================================================
