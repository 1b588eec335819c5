------------------------------ MODULE Measures ------------------------------
(***************************************************************************)
(* The loop that reads the measures once a second and cuts a plugin that   *)
(* harms (jamodio-agent/src/ws_server.rs, perfstats_task).  Each connection*)
(* of a studio has one; it reads from the promotion of its connection to   *)
(* the abort of its tasks, so two may read for a while.  A reading takes   *)
(* what it reads, under the pipeline's lock.  The operations on the plugin *)
(* (PluginControl) and the audio threads that feed the measures do not take*)
(* that lock.                                                              *)
(*                                                                         *)
(* The measures that are only shown are left out, as are the sizes of      *)
(* buffer (BufferBackoff) and the clock of what is told (Overload).        *)
(***************************************************************************)
EXTENDS Naturals

CONSTANTS
  Loops,        \* the connections of studios
  MaxOps        \* bound: operations on the plugin
Nobody == "nobody"
MeasuresConstants == MaxOps \in Nat /\ Nobody \notin Loops

RUNAWAY_WINDOWS_TO_TRIP == 2

VARIABLES
  link,             \* of each connection: away, promoted, gone
  refused, heavy, loud,   \* capture_drops past the threshold; the plugin long; output_peak
  foreign,          \* history: connections promoted since what is measured began
  handle, info,     \* a plugin plays; one is known
  bypass, auto,     \* instrument_plugin_bypass, plugin_auto_bypass_active
  op, asked,        \* the operation on the plugin at work; operations begun
  lock,             \* who holds the pipeline's lock
  pc, seen,         \* of each loop: where it is, what it read
  first, runaway,   \* of each loop: first_window, runaway_windows
  alerted, twice    \* history: a cut was told and not acknowledged since; told again
vars == <<link, refused, heavy, loud, foreign, handle, info, bypass, auto, op, asked, lock, pc, seen,
          first, runaway, alerted, twice>>
windowVars == <<refused, heavy, loud, foreign>>
pluginVars == <<handle, info, bypass, auto, op, asked>>
loopVars   == <<lock, pc, seen, first, runaway>>
toldVars   == <<alerted, twice>>

Idle == "idle"
NoWindow == [refused |-> FALSE, heavy |-> FALSE, loud |-> FALSE, foreign |-> {}, known |-> FALSE]

TypeOK ==
  /\ link \in [Loops -> {"away", "promoted", "gone"}]
  /\ {refused, heavy, loud, handle, info, bypass, auto, alerted, twice} \subseteq BOOLEAN
  /\ foreign \subseteq Loops /\ asked \in 0..MaxOps
  /\ lock \in Loops \cup {Nobody}
  /\ pc \in [Loops -> {Idle, "name", "judge", "mark", "runaway", "mark2"}]
  /\ first \in [Loops -> BOOLEAN] /\ runaway \in [Loops -> 0..RUNAWAY_WINDOWS_TO_TRIP]

Init ==
  /\ link = [c \in Loops |-> "away"]
  /\ refused = FALSE /\ heavy = FALSE /\ loud = FALSE /\ foreign = {}
  /\ handle = TRUE /\ info = TRUE /\ bypass = FALSE /\ auto = FALSE /\ op = Idle /\ asked = 0
  /\ lock = Nobody /\ pc = [c \in Loops |-> Idle] /\ seen = [c \in Loops |-> NoWindow]
  /\ first = [c \in Loops |-> TRUE] /\ runaway = [c \in Loops |-> 0]
  /\ alerted = FALSE /\ twice = FALSE

-----------------------------------------------------------------------------
(* The connections.                                                        *)

\* The first message of the studio: from now on this connection's loop reads.  Whoever
\* was promoted before reads until it hears that it is displaced.
Promote(c) ==
  /\ link[c] = "away" /\ link' = [link EXCEPT ![c] = "promoted"]
  /\ foreign' = IF refused \/ heavy \/ loud THEN foreign \cup {c} ELSE foreign
  /\ UNCHANGED <<refused, heavy, loud, pluginVars, loopVars, toldVars>>
\* The end of a connection aborts its loop where it waits, never in a reading.
Close(c) ==
  /\ link[c] = "promoted" /\ pc[c] = Idle
  /\ link' = [link EXCEPT ![c] = "gone"]
  /\ UNCHANGED <<windowVars, pluginVars, loopVars, toldVars>>

-----------------------------------------------------------------------------
(* What is measured, by the audio threads.                                 *)

Audio(r, h, l) ==
  /\ h => handle /\ ~bypass
  /\ refused' = (refused \/ r) /\ heavy' = (heavy \/ h) /\ loud' = (loud \/ l)
  /\ UNCHANGED <<link, foreign, pluginVars, loopVars, toldVars>>

-----------------------------------------------------------------------------
(* PluginControl, one operation at a time.                                 *)

\* Without a plugin there is nothing to unload.
Begin(kind) ==
  /\ op = Idle /\ asked < MaxOps /\ asked' = asked + 1
  /\ op' = IF handle \/ kind \notin {"unload", "load"} THEN kind ELSE IF kind = "load" THEN "native" ELSE Idle
  /\ handle' = (handle /\ kind \notin {"unload", "load"})
  /\ bypass' = IF kind = "bypass_on" THEN TRUE ELSE IF kind = "bypass_off" THEN FALSE ELSE bypass
  /\ UNCHANGED <<link, windowVars, info, auto, loopVars, toldVars>>
\* The alert may be given again.
Acknowledged == auto' = FALSE /\ alerted' = FALSE
SetBypassEnds ==
  /\ op \in {"bypass_on", "bypass_off"} /\ op' = Idle /\ Acknowledged
  /\ UNCHANGED <<link, windowVars, handle, info, bypass, asked, loopVars, twice>>
Forget ==
  /\ op \in {"unload", "load"} /\ op' = IF op = "load" THEN "load_lift" ELSE "lift"
  /\ info' = FALSE
  /\ UNCHANGED <<link, windowVars, handle, bypass, auto, asked, loopVars, toldVars>>
Lift ==
  /\ op \in {"lift", "load_lift", "loaded"} /\ bypass' = FALSE
  /\ op' = CASE op = "lift" -> "clear" [] op = "load_lift" -> "load_clear" [] op = "loaded" -> "loaded_clear"
  /\ UNCHANGED <<link, windowVars, handle, info, auto, asked, loopVars, toldVars>>
Clear ==
  /\ op \in {"clear", "load_clear", "loaded_clear"} /\ Acknowledged
  /\ op' = CASE op = "clear" -> Idle [] op = "load_clear" -> "native" [] op = "loaded_clear" -> "publish"
  /\ UNCHANGED <<link, windowVars, handle, info, bypass, asked, loopVars, twice>>
\* The native load, which may fail; the plugin plays from then on.
Native ==
  /\ op = "native" /\ handle' \in BOOLEAN /\ op' = IF handle' THEN "loaded" ELSE Idle
  /\ UNCHANGED <<link, windowVars, info, bypass, auto, asked, loopVars, toldVars>>
\* The plugin's measures begin again, then it is known.
Publish ==
  /\ op = "publish" /\ op' = Idle /\ heavy' = FALSE /\ info' = TRUE
  /\ UNCHANGED <<link, refused, loud, foreign, handle, bypass, auto, asked, loopVars, toldVars>>
Plugin == \/ \E kind \in {"bypass_on", "bypass_off", "unload", "load"} : Begin(kind)
          \/ SetBypassEnds \/ Forget \/ Lift \/ Clear \/ Native \/ Publish

-----------------------------------------------------------------------------
(* The loop.                                                               *)

At(c, here) == pc[c] = here
Moves(c, there) == pc' = [pc EXCEPT ![c] = there]

\* Everything is read and begins again; the first window of a client is not judged.
\* (First a wrong form: it is judged like the others.)
JudgeAll(c) == FALSE
Discards(c) == first[c]
Tick(c) ==
  /\ At(c, Idle) /\ link[c] = "promoted" /\ lock = Nobody
  /\ refused' = FALSE /\ heavy' = FALSE /\ loud' = FALSE /\ foreign' = {}
  /\ first' = [first EXCEPT ![c] = FALSE]
  /\ IF Discards(c) THEN UNCHANGED <<lock, pc, seen>>
     ELSE /\ lock' = c /\ Moves(c, "name")
          /\ seen' = [seen EXCEPT ![c] = [refused |-> refused, heavy |-> heavy, loud |-> loud,
                                          foreign |-> foreign, known |-> FALSE]]
  /\ UNCHANGED <<link, pluginVars, runaway, toldVars>>
Name(c) ==
  /\ At(c, "name") /\ Moves(c, "judge") /\ seen' = [seen EXCEPT ![c].known = info]
  /\ UNCHANGED <<link, windowVars, pluginVars, lock, first, runaway, toldVars>>

\* A plugin is cut: the bypass, then the mark that it is automatic.
CutAt(c, mark) == Moves(c, mark) /\ bypass' = TRUE /\ twice' = (twice \/ alerted) /\ alerted' = TRUE
Spares(c, there) == Moves(c, there) /\ UNCHANGED <<bypass, twice, alerted>>
\* The reading is over: the lock is let go.
Done(c) == lock' = Nobody /\ seen' = [seen EXCEPT ![c] = NoWindow]
\* A plugin that takes long is cut if blocks were refused, unless one was already.
MayCut == ~auto
Judge(c) ==
  /\ At(c, "judge")
  /\ IF seen[c].refused /\ seen[c].heavy /\ MayCut THEN CutAt(c, "mark") ELSE Spares(c, "runaway")
  /\ UNCHANGED <<link, windowVars, handle, info, auto, op, asked, lock, seen, first, runaway>>
\* runaway_tick: two windows too loud.
Runaway(c) ==
  /\ At(c, "runaway")
  /\ LET n == IF seen[c].known /\ seen[c].loud
              THEN (IF runaway[c] < RUNAWAY_WINDOWS_TO_TRIP THEN runaway[c] + 1 ELSE runaway[c]) ELSE 0
         trips == n >= RUNAWAY_WINDOWS_TO_TRIP /\ MayCut
     IN /\ runaway' = [runaway EXCEPT ![c] = IF trips THEN 0 ELSE n]
        /\ IF trips THEN CutAt(c, "mark2") /\ UNCHANGED <<lock, seen>> ELSE Spares(c, Idle) /\ Done(c)
  /\ UNCHANGED <<link, windowVars, handle, info, auto, op, asked, first>>
Mark(c) ==
  /\ \/ At(c, "mark") /\ Moves(c, "runaway") /\ UNCHANGED <<lock, seen>>
     \/ At(c, "mark2") /\ Moves(c, Idle) /\ Done(c)
  /\ auto' = TRUE
  /\ UNCHANGED <<link, windowVars, handle, info, bypass, op, asked, first, runaway, toldVars>>
Loop(c) == Tick(c) \/ Name(c) \/ Judge(c) \/ Runaway(c) \/ Mark(c)

Next ==
  \/ \E c \in Loops : Promote(c) \/ Close(c) \/ Loop(c)
  \/ \E r, h, l \in BOOLEAN : Audio(r, h, l)
  \/ Plugin
Spec == Init /\ [][Next]_vars

-----------------------------------------------------------------------------
\* No loop judges what was measured before its client was there (ws_server.rs:1371).
JudgedFresh == \A c \in Loops : pc[c] # Idle => c \notin seen[c].foreign

\* A cut is told once until the musician or a load acknowledges it (protocol.rs:1031).
AlertedOnce == ~twice
=============================================================================
