------------------------------ MODULE BenchRun ------------------------------
(***************************************************************************)
(* One run of the measuring bench (jamodio-bench/src/run.rs) against the   *)
(* Audio Engine, through the link that speaks to it as the studio does     *)
(* (driver.rs): the preparation, the steps of the campaign that each add a *)
(* simulated musician, the departures and returns, the second-by-second    *)
(* readings, and the clean exit.                                           *)
(*                                                                         *)
(* A request leaves a key in a table and waits for the answer that removes *)
(* it; the wait ends after REPLY_TIMEOUT whatever happens.  The Audio      *)
(* Engine is seen from here: it takes the messages in their order, accepts *)
(* or refuses each, reports errors nobody asked for, and goes away.        *)
(*                                                                         *)
(* Time is left out: a wait may end at any moment by its limit, and what   *)
(* is scheduled may happen at any reading of its step, in its order.       *)
(***************************************************************************)
EXTENDS Naturals, Sequences, FiniteSets

Ext == INSTANCE SequencesExt

CONSTANTS
  From, To,     \* from_musicians, to_musicians
  StepSecs,     \* readings of one step
  Voiced,       \* musicians whose profile has a voice
  Absent,       \* musicians whose profile has one absence
  SendsVoice,   \* send_voice_channel is set
  MaxLists,     \* requests of the inventory before its two minutes are over
  MaxReports    \* bound: errors the Audio Engine reports of itself

BenchConstants ==
  /\ From \in Nat /\ To \in Nat /\ 2 <= From /\ From <= To
  /\ StepSecs \in Nat \ {0} /\ MaxLists \in Nat \ {0} /\ MaxReports \in Nat
  /\ Voiced \subseteq 2..To /\ Absent \subseteq 2..To /\ SendsVoice \in BOOLEAN

VARIABLES
  pc,
  sent,         \* of the message link: the run has asked and waits for the answer
  pending,      \* keys in AgentLink.pending
  awaited,      \* keys whose receiver the run still holds
  got,          \* answers received: <<key, ok>>
  errors,       \* unread messages of AgentLink.errors
  lists,        \* inventory requests so far
  plugin_loaded, plugin_line,
  musicians,    \* of the present step
  coming,       \* musicians still to be added to it
  adding,       \* the stream being added: musician, rejoin, voice
  out,          \* streams of this musician added so far
  producers, links, downs,
  moves,        \* departures and returns to come
  secs,         \* readings left in the step
  interrupted,
  end,
  engine,       \* the Audio Engine: its link, its queue, its streams, capture, plugin
  reports,
  struck        \* history: an error or Ctrl-C came with a reading still to come

linkVars == <<pending, awaited, got, errors>>
planVars == <<musicians, coming, adding, out, producers, links, downs, moves, secs>>
endVars  == <<interrupted, end, plugin_loaded, plugin_line, lists>>
vars == <<pc, sent, linkVars, planVars, endVars, engine, reports, struck>>

Prepare  == <<"devices", "capture", "voice", "plugins", "load">>
Adding   == {"arrive", "open"}
Over     == {"clean", "unload", "stop", "ended", "done", "killed"}
Nobody   == [m |-> 0, rejoin |-> 0, voice |-> FALSE]
\* The identifier of a stream: new at each return.
Pid(a)    == <<"stream", a.m, a.rejoin, a.voice>>
Voices(m) == IF m \in Voiced THEN BOOLEAN ELSE {FALSE}

\* The keys of the answers to a request.
KeysOf(step) == IF step = "capture" THEN {<<"capture">>, <<"capture-started">>} ELSE {<<step>>}

Init ==
  /\ pc = "devices" /\ sent = FALSE
  /\ pending = {} /\ awaited = {} /\ got = {} /\ errors = 0 /\ lists = 0
  /\ plugin_loaded = FALSE /\ plugin_line = "none"
  /\ musicians = From /\ coming = <<>> /\ adding = Nobody /\ out = {}
  /\ producers = {} /\ links = {} /\ downs = {} /\ moves = {} /\ secs = 0
  /\ interrupted = FALSE /\ end = "none"
  /\ engine = [linked |-> TRUE, inbox |-> <<>>, streams |-> {}, capture |-> FALSE, plugin |-> FALSE]
  /\ reports = 0 /\ struck = FALSE

\* A reading of the messages' errors and of Ctrl-C is still to come.
ReadingToCome == pc \notin Over /\ ~(pc = "sampling" /\ secs = 0 /\ musicians = To)

(* The link. *)

Say(e, commands) == IF e.linked THEN [e EXCEPT !.inbox = @ \o commands] ELSE e
Ask(command, keys) ==
  /\ sent' = TRUE /\ pending' = pending \cup keys /\ awaited' = keys /\ got' = {}
  /\ engine' = Say(engine, <<command>>)

Heard(keys)   == \A k \in keys : <<k, TRUE>> \in got
\* The wait is over: an error came, or its limit.
Unanswered    == sent /\ ~Heard(awaited)
Forget        == sent' = FALSE /\ awaited' = {} /\ got' = {} /\ UNCHANGED pending

\* dispatch(): the answer r to key k goes to who waits for it, if anybody does.
Resolves(k, r) ==
  /\ pending' = pending \ {k}
  /\ got' = IF k \in pending /\ k \in awaited THEN got \cup {<<k, r>>} ELSE got
\* Wrong: an error nobody waits for is dropped.
Swallowed(k) ==
  /\ Resolves(k, FALSE) /\ UNCHANGED errors
  /\ struck' = (struck \/ ReadingToCome)
\* An error goes to the wait it answers, else to the errors' queue.
Fails(k) ==
  /\ Resolves(k, FALSE)
  /\ errors' = IF k \in pending THEN errors ELSE errors + 1
  /\ struck' = (struck \/ ReadingToCome)

(* The preparation. *)

After(step) ==
  CASE step = "devices" -> "capture"
    [] step = "capture" -> IF SendsVoice THEN "voice" ELSE "plugins"
    [] step = "voice"   -> "plugins"
    [] step = "plugins" -> "load"
    [] step = "load"    -> "arrive"

InPreparation == \E i \in 1..Len(Prepare) : pc = Prepare[i]

Request ==
  /\ InPreparation /\ ~sent
  /\ Ask(<<pc>>, KeysOf(pc))
  /\ lists' = IF pc = "plugins" THEN lists + 1 ELSE lists
  /\ UNCHANGED <<pc, errors, planVars, interrupted, end, plugin_loaded, plugin_line, reports, struck>>

\* The answer is the one expected.  An inventory under way is asked again.
Prepared ==
  /\ InPreparation /\ sent /\ Heard(awaited) /\ Forget
  /\ \/ pc' = After(pc) /\ UNCHANGED <<coming, plugin_loaded, plugin_line>> /\ pc # "load"
     \/ pc = "plugins" /\ lists < MaxLists /\ UNCHANGED <<pc, coming, plugin_loaded, plugin_line>>
     \/ /\ pc = "load" /\ pc' = "arrive"
        /\ plugin_loaded' = TRUE /\ plugin_line' = "loaded"
        /\ coming' = [i \in 1..(From - 1) |-> i + 1]
  /\ UNCHANGED <<errors, musicians, adding, out, producers, links, downs, moves, secs, interrupted,
                 end, lists, engine, reports, struck>>

\* The scenario has no plugin.
NoPlugin ==
  /\ pc = "plugins" /\ ~sent /\ lists = 0
  /\ pc' = "arrive" /\ coming' = [i \in 1..(From - 1) |-> i + 1]
  /\ UNCHANGED <<sent, linkVars, musicians, adding, out, producers, links, downs, moves, secs, endVars,
                 engine, reports, struck>>

\* Wrong: only a refusal ends the wait for an answer.
GiveUpRefused ==
  /\ InPreparation /\ (sent => \E k \in awaited : <<k, FALSE>> \in got)
  /\ pc' = "done" /\ Forget
  /\ UNCHANGED <<errors, planVars, endVars, engine, reports, struck>>

\* A device, a transport or a plugin is not found, the answer is a refusal or does
\* not come: run() returns the error at once.
GiveUp ==
  /\ InPreparation /\ (pc = "load" /\ sent => Unanswered)
  /\ pc' = "done" /\ Forget
  /\ UNCHANGED <<errors, planVars, endVars, engine, reports, struck>>

(* The campaign. *)

CampaignFails ==
  /\ end' = "bench" /\ pc' = "clean" /\ adding' = Nobody /\ out' = {}

\* The next musician of the step, with what is scheduled for them.
Arrive ==
  /\ pc = "arrive" /\ coming # <<>>
  /\ LET m == Head(coming) IN
       /\ adding' = [Nobody EXCEPT !.m = m] /\ pc' = "open"
       /\ moves' = IF m \in Absent THEN moves \cup {<<m, "leaves">>, <<m, "returns">>} ELSE moves
  /\ coming' = Tail(coming)
  /\ UNCHANGED <<sent, linkVars, musicians, out, producers, links, downs, secs, endVars, engine, reports, struck>>

Sample1 ==
  /\ pc = "arrive" /\ coming = <<>>
  /\ pc' = "sampling" /\ secs' = StepSecs
  /\ UNCHANGED <<sent, linkVars, musicians, coming, adding, out, producers, links, downs, moves, endVars,
                 engine, reports, struck>>

\* add_musician: a transport of the bench, then the request to the Audio Engine.
OpenDownlink ==
  /\ pc = "open" /\ ~sent
  /\ downs' = downs \cup {Pid(adding)}
  /\ Ask(Pid(adding), {Pid(adding)})
  /\ UNCHANGED <<pc, errors, musicians, coming, adding, out, producers, links, moves, secs, endVars, reports, struck>>

\* Its keys came: the stream starts.  After the last one of the musician the run
\* knows of them all.
StartDownlink ==
  /\ pc = "open" /\ sent /\ Heard(awaited) /\ Forget
  /\ LET all == out \cup {Pid(adding)} IN
       IF ~adding.voice /\ adding.m \in Voiced
       THEN /\ adding' = [adding EXCEPT !.voice = TRUE] /\ out' = all
            /\ UNCHANGED <<pc, producers, links>>
       ELSE /\ producers' = producers \cup all /\ links' = links \cup all
            /\ adding' = Nobody /\ out' = {}
            /\ pc' = IF secs = 0 THEN "arrive" ELSE "sampling"
  /\ UNCHANGED <<errors, musicians, coming, downs, moves, secs, endVars, engine, reports, struck>>

AddFails ==
  /\ pc = "open" /\ (sent => Unanswered) /\ Forget
  /\ CampaignFails
  /\ UNCHANGED <<errors, musicians, coming, producers, links, downs, moves, secs, interrupted,
                 plugin_loaded, plugin_line, lists, engine, reports, struck>>

StreamsOf(m) == {p \in producers : p[2] = m}
\* In any order: no property tells them apart.
Removals(ps) == LET s == Ext!SetToSeq(ps) IN [i \in 1..Len(s) |-> <<"remove", s[i]>>]

\* Their time has come, before the reading: streams removed, transports retired.
Leave(m) ==
  /\ pc = "sampling" /\ secs > 0 /\ <<m, "leaves">> \in moves
  /\ moves' = moves \ {<<m, "leaves">>}
  /\ engine' = Say(engine, Removals(StreamsOf(m)))
  /\ producers' = producers \ StreamsOf(m)
  /\ links' = links \ StreamsOf(m) /\ downs' = downs \ StreamsOf(m)
  /\ UNCHANGED <<pc, sent, linkVars, musicians, coming, adding, out, secs, endVars, reports, struck>>

\* A message or the retirement of a transport fails on the way.
LeaveFails(m) ==
  /\ pc = "sampling" /\ secs > 0 /\ <<m, "leaves">> \in moves
  /\ \E p \in StreamsOf(m) : engine' = Say(engine, Removals({p}))
  /\ moves' = moves \ {<<m, "leaves">>} /\ CampaignFails
  /\ UNCHANGED <<sent, linkVars, musicians, coming, producers, links, downs, secs, interrupted,
                 plugin_loaded, plugin_line, lists, reports, struck>>

\* A return is a new stream.
Return(m) ==
  /\ pc = "sampling" /\ secs > 0 /\ <<m, "returns">> \in moves /\ <<m, "leaves">> \notin moves
  /\ moves' = moves \ {<<m, "returns">>}
  /\ adding' = [m |-> m, rejoin |-> 1, voice |-> FALSE] /\ pc' = "open"
  /\ UNCHANGED <<sent, linkVars, musicians, coming, out, producers, links, downs, secs, endVars, engine,
                 reports, struck>>

\* The reading of a second: one error at most, then Ctrl-C.
Read ==
  /\ pc = "sampling" /\ secs > 0
  /\ secs' = secs - 1
  /\ IF errors > 0
     THEN errors' = errors - 1 /\ end' = "engine" /\ pc' = "clean"
     ELSE /\ UNCHANGED errors
          /\ IF interrupted THEN end' = "interrupted" /\ pc' = "clean" ELSE UNCHANGED <<end, pc>>
  /\ UNCHANGED <<sent, pending, awaited, got, musicians, coming, adding, out, producers, links, downs, moves,
                 interrupted, plugin_loaded, plugin_line, lists, engine, reports, struck>>

\* The transports' measures do not come.
ReadFails ==
  /\ pc = "sampling" /\ secs > 0 /\ CampaignFails
  /\ UNCHANGED <<sent, linkVars, musicians, coming, producers, links, downs, moves, secs, interrupted,
                 plugin_loaded, plugin_line, lists, engine, reports, struck>>

NextStep ==
  /\ pc = "sampling" /\ secs = 0
  /\ IF musicians < To
     THEN musicians' = musicians + 1 /\ coming' = <<musicians + 1>> /\ pc' = "arrive" /\ UNCHANGED end
     ELSE end' = "complete" /\ pc' = "clean" /\ UNCHANGED <<musicians, coming>>
  /\ UNCHANGED <<sent, linkVars, adding, out, producers, links, downs, moves, secs, interrupted,
                 plugin_loaded, plugin_line, lists, engine, reports, struck>>

(* The clean exit. *)

Clean ==
  /\ pc = "clean"
  /\ IF plugin_loaded
     THEN /\ pc' = "unload" /\ sent' = TRUE /\ awaited' = {<<"unload">>} /\ got' = {}
          /\ pending' = pending \cup {<<"unload">>}
          /\ engine' = Say(engine, Append(Removals(producers), <<"unload">>))
     ELSE /\ pc' = "stop" /\ engine' = Say(engine, Removals(producers))
          /\ UNCHANGED <<sent, pending, awaited, got>>
  /\ UNCHANGED <<errors, planVars, endVars, reports, struck>>

Unloaded ==
  /\ pc = "unload" /\ Forget /\ pc' = "stop"
  /\ plugin_line' \in {IF Heard(awaited) THEN "returned" ELSE "not returned"}
  /\ UNCHANGED <<errors, planVars, interrupted, end, plugin_loaded, lists, engine, reports, struck>>

Stop ==
  /\ pc = "stop" /\ pc' = "ended"
  /\ engine' = Say(engine, <<<<"stop">>>>)
  /\ UNCHANGED <<sent, linkVars, planVars, endVars, reports, struck>>

\* The results are written; the process ends and its connection with it.
Exit ==
  /\ pc = "ended" /\ pc' = "done"
  /\ UNCHANGED <<sent, linkVars, planVars, endVars, engine, reports, struck>>

(* The Audio Engine, and what may happen at any moment. *)

Streamless(e) == [e EXCEPT !.streams = {}, !.capture = FALSE]

Accept ==
  /\ engine.inbox # <<>>
  /\ LET c == Head(engine.inbox)
         e == [engine EXCEPT !.inbox = Tail(@)]
     IN
     /\ engine' = CASE c[1] = "capture" -> [e EXCEPT !.capture = TRUE]
                    [] c[1] = "load"    -> [e EXCEPT !.plugin = TRUE]
                    [] c[1] = "unload"  -> [e EXCEPT !.plugin = FALSE]
                    [] c[1] = "stream"  -> [e EXCEPT !.streams = @ \cup {c}]
                    [] c[1] = "remove"  -> [e EXCEPT !.streams = @ \ {c[2]}]
                    [] c[1] = "stop"    -> Streamless(e)
                    [] OTHER            -> e
     /\ CASE c[1] \in {"remove", "stop"} -> UNCHANGED <<pending, got>>
          [] c[1] = "capture" ->
               /\ pending' = pending \ KeysOf("capture")
               /\ got' = got \cup {<<k, TRUE>> : k \in KeysOf("capture") \cap pending \cap awaited}
          [] OTHER -> Resolves(c, TRUE)
  /\ UNCHANGED <<pc, sent, awaited, errors, planVars, endVars, reports, struck>>

Refuse ==
  /\ engine.inbox # <<>> /\ Head(engine.inbox)[1] \in {"capture", "voice", "load", "stream"}
  /\ engine' = [engine EXCEPT !.inbox = Tail(@)]
  /\ Fails(Head(engine.inbox))
  /\ UNCHANGED <<pc, sent, awaited, planVars, endVars, reports>>

\* An error of the session nobody asked for.
Report ==
  /\ engine.linked /\ pc \notin {"done", "killed"} /\ reports < MaxReports
  /\ reports' = reports + 1
  /\ Fails(<<"report">>)
  /\ UNCHANGED <<pc, sent, awaited, planVars, endVars, engine>>

\* The connection is lost: every wait fails, and the Audio Engine drops the session but
\* keeps its plugin.
LoseLink ==
  /\ engine.linked /\ pc \notin {"done", "killed"}
  /\ engine' = Streamless([engine EXCEPT !.linked = FALSE, !.inbox = <<>>])
  /\ got' = got \cup {<<k, FALSE>> : k \in pending \cap awaited} /\ pending' = {}
  /\ errors' = errors + 1 /\ struck' = (struck \/ ReadingToCome)
  /\ UNCHANGED <<pc, sent, awaited, planVars, endVars, reports>>

\* The bench is gone and all it said is done.
Disconnect ==
  /\ pc \in {"done", "killed"} /\ engine.linked /\ engine.inbox = <<>>
  /\ engine' = Streamless([engine EXCEPT !.linked = FALSE])
  /\ UNCHANGED <<pc, sent, linkVars, planVars, endVars, reports, struck>>

\* Ctrl-C: its handler is there only once the campaign begins.
CtrlC ==
  /\ pc \notin Over /\ ~interrupted
  /\ IF InPreparation THEN pc' = "killed" /\ UNCHANGED <<interrupted, struck>>
     ELSE interrupted' = TRUE /\ struck' = (struck \/ ReadingToCome) /\ UNCHANGED pc
  /\ UNCHANGED <<sent, linkVars, planVars, end, plugin_loaded, plugin_line, lists, engine, reports>>

Bench ==
  \/ Request \/ Prepared \/ NoPlugin \/ GiveUp
  \/ Arrive \/ Sample1 \/ OpenDownlink \/ StartDownlink \/ AddFails
  \/ \E m \in 2..To : Leave(m) \/ LeaveFails(m) \/ Return(m)
  \/ Read \/ ReadFails \/ NextStep \/ Clean \/ Unloaded \/ Stop \/ Exit
Engine == Accept \/ Refuse \/ Report \/ LoseLink \/ Disconnect
Next == Bench \/ Engine \/ CtrlC
Spec == Init /\ [][Next]_vars /\ WF_vars(Bench)

(* What the run promises. *)

\* driver.rs:7 "Aucune erreur n'est avalée": an error or Ctrl-C with a reading still to
\* come, and the campaign never passes for complete.
NoErrorSwallowed == end = "complete" => ~struck

\* The streams m should have now: those of their last arrival, none while absent.
Scheduled(m) ==
  LET away == <<m, "returns">> \in moves /\ <<m, "leaves">> \notin moves
      back == m \in Absent /\ <<m, "returns">> \notin moves
  IN IF away THEN {}
     ELSE {Pid([m |-> m, rejoin |-> IF back THEN 1 ELSE 0, voice |-> v]) : v \in Voices(m)}
\* At each reading the bench, its transports and the Audio Engine agree on who plays:
\* the musicians of the step but the absent, each with the streams of their last arrival.
WhoPlays ==
  pc = "sampling" =>
    LET there == UNION {Scheduled(m) : m \in 2..musicians} IN
      /\ producers = there /\ links = there /\ downs = there
      /\ engine.linked /\ engine.inbox = <<>> => engine.streams = there

\* The bench is gone and the Audio Engine has done all it was told.
Quiet == pc = "done" /\ engine.inbox = <<>> /\ ~engine.linked
\* A plugin the bench knows it loaded is returned, or its report says it is not; before
\* it goes, its streams and its capture are stopped, those of a half-added musician too.
NothingLeftBehind ==
  /\ Quiet /\ plugin_loaded /\ engine.plugin => plugin_line = "not returned"
  /\ pc = "ended" /\ engine.linked /\ engine.inbox = <<>> => engine.streams = {} /\ ~engine.capture

\* What a run says is true: of its end, of who plays at each reading, of what it leaves.
RunIsTrue == NoErrorSwallowed /\ WhoPlays /\ NothingLeftBehind

\* Whatever the Audio Engine answers or does not, the run ends.
RunEnds == <>(pc \in {"done", "killed"})
=============================================================================
