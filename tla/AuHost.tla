-------------------------------- MODULE AuHost --------------------------------
(***************************************************************************)
(* The life and the window of an Audio Unit (jamodio-au-host: au_host.mm,  *)
(* lib.rs).  The caller, who holds the lock of the plugin operations,      *)
(* loads, unloads, opens and closes; what touches the plugin is a block in *)
(* the queue of the main thread of macOS, where the musician closes        *)
(* windows too.  A load and an unload wait for their block ten seconds     *)
(* (jmo_run_on_main_sync): a block that has not begun by then is run by    *)
(* the caller, one that is at work is left behind.                         *)
(*                                                                         *)
(* There is one plugin at a time (PluginControl), and what is told of its  *)
(* window does not name it.  Bringing an open window to the front, sizes,  *)
(* titles, rendering and MIDI are left out.                                *)
(***************************************************************************)
EXTENDS Integers, Sequences

CONSTANTS
  MaxEntries,  \* bound: plugins a load was tried for
  MaxOpened,   \* bound: openings asked for
  MaxClosed,   \* bound: closings asked for
  MayTimeOut   \* whether a wait may reach its ten seconds

None == 0

VARIABLES
  entry,      \* the handle found in JmoAuHost.entries, or None
  made,       \* handles so far
  fields,     \* of each handle, its Entry: is_v3, editor_opening, editor_window
  instance,   \* of each handle: "none", "live", "disposed"
  freed,      \* handles whose Entry is freed
  call,       \* what the caller is at, in its block or after
  queue,      \* blocks of the main queue
  running,    \* the block at work on the main thread
  requested,  \* handles whose plugin owes its view controller
  shown,      \* windows on the screen
  windows,    \* windows built
  told,       \* the last state told of the window
  opened, closed,  \* openings and closings asked for
  late        \* history: a wait reached its ten seconds

entryVars == <<entry, made, fields, instance, freed>>
mainVars  == <<queue, running, requested>>
seenVars  == <<shown, windows, told>>
askVars   == <<opened, closed>>
vars == <<entryVars, call, mainVars, seenVars, askVars, late>>

Block(do, h, n) == [do |-> do, of |-> h, n |-> n]
Nothing == Block("nothing", None, 0)
Idle    == [block |-> Nothing, at |-> "none", ok |-> FALSE, had |-> FALSE]
Fresh   == [v3 |-> FALSE, opening |-> FALSE, window |-> None]

Init ==
  /\ entry = None /\ made = 0 /\ fields = [h \in 1 .. MaxEntries |-> Fresh]
  /\ instance = [h \in 1 .. MaxEntries |-> "none"] /\ freed = {}
  /\ call = Idle /\ queue = <<>> /\ running = Nothing /\ requested = {}
  /\ shown = {} /\ windows = 0 /\ told = "closed" /\ opened = 0 /\ closed = 0 /\ late = FALSE

-----------------------------------------------------------------------------
\* The bodies of the two blocks that are waited for, wherever they run.

Loaded(h, ok) ==
  \/ ~ok /\ UNCHANGED <<fields, instance>>
  \/ /\ ok /\ instance' = [instance EXCEPT ![h] = "live"]
     /\ \E v3 \in BOOLEAN : fields' = [fields EXCEPT ![h].v3 = v3]

\* The observers are removed, the window closed, then the plugin disposed of.
TornDown(h) ==
  /\ shown' = shown \ {fields[h].window}
  /\ fields' = [fields EXCEPT ![h].window = None]
  /\ instance' = [instance EXCEPT ![h] = "disposed"]

-----------------------------------------------------------------------------
\* The caller.

Post(block) == queue' = Append(queue, block)
Wait(block, had) ==
  /\ Post(block)
  /\ call' = [block |-> block, at |-> "queued", ok |-> FALSE, had |-> had]

\* load: one kind is tried, then the other.
Load ==
  /\ call = Idle /\ entry = None /\ made < MaxEntries /\ made' = made + 1
  /\ Wait(Block("load", made', 1), FALSE)
  /\ UNCHANGED <<entry, fields, instance, freed, running, requested, seenVars, askVars, late>>
LoadReturns ==
  /\ call.block.do = "load" /\ call.at = "over"
  /\ \/ /\ call.ok /\ entry' = call.block.of /\ call' = Idle
        /\ UNCHANGED <<freed, queue>>
     \/ /\ ~call.ok /\ call.block.n = 1 /\ Wait(Block("load", call.block.of, 2), FALSE)
        /\ UNCHANGED <<entry, freed>>
     \/ /\ ~call.ok /\ call.block.n = 2 /\ freed' = freed \cup {call.block.of} /\ call' = Idle
        /\ UNCHANGED <<entry, queue>>
  /\ UNCHANGED <<made, fields, instance, running, requested, seenVars, askVars, late>>

\* unload: the Entry is taken out of the table, then torn down; its window, open or
\* about to be, is told closed once.
HadEditor(e) == e.window # None \/ e.opening
Unload ==
  /\ call = Idle /\ entry # None /\ entry' = None
  /\ Wait(Block("teardown", entry, 0), HadEditor(fields[entry]))
  /\ UNCHANGED <<made, fields, instance, freed, running, requested, seenVars, askVars, late>>
UnloadReturns ==
  /\ call.block.do = "teardown" /\ call.at = "over"
  /\ told' = IF call.had THEN "closed" ELSE told
  /\ freed' = freed \cup {call.block.of} /\ call' = Idle
  /\ UNCHANGED <<entry, made, fields, instance, mainVars, shown, windows, askVars, late>>

\* jmo_run_on_main_sync after ten seconds.
TimeOut ==
  /\ MayTimeOut /\ call.at \in {"queued", "running"} /\ late' = TRUE
  /\ \/ /\ call.at = "queued" /\ queue' = SelectSeq(queue, LAMBDA b : b # call.block)
        /\ \/ /\ call.block.do = "load"
              /\ \E ok \in BOOLEAN : /\ Loaded(call.block.of, ok)
                                     /\ call' = [call EXCEPT !.at = "over", !.ok = ok]
              /\ UNCHANGED shown
           \/ /\ call.block.do = "teardown" /\ TornDown(call.block.of)
              /\ call' = [call EXCEPT !.at = "over"]
     \/ /\ call.at = "running" /\ call' = [call EXCEPT !.at = "over"]
        /\ UNCHANGED <<fields, instance, queue, shown>>
  /\ UNCHANGED <<entry, made, freed, running, requested, windows, told, askVars>>

\* openEditor: nothing while a window is being built, or open; otherwise it is told,
\* then built on the main thread, by the plugin itself if it is v3.
OpenEditor ==
  /\ call = Idle /\ entry # None /\ opened < MaxOpened /\ opened' = opened + 1
  /\ ~fields[entry].opening /\ fields[entry].window = None
  /\ fields' = [fields EXCEPT ![entry].opening = TRUE]
  /\ call' = [Idle EXCEPT !.block = Block("open", entry, 0)]
  /\ UNCHANGED <<entry, made, instance, freed, mainVars, seenVars, closed, late>>
TellOpening ==
  /\ call.block.do = "open" /\ told' = "opening" /\ call' = Idle
  /\ Post(Block(IF fields[entry].v3 THEN "request" ELSE "build", entry, 0))
  /\ UNCHANGED <<entryVars, running, requested, shown, windows, askVars, late>>

\* closeEditor: nothing if there is no window.
CloseEditor ==
  /\ call = Idle /\ entry # None /\ closed < MaxClosed /\ closed' = closed + 1
  /\ fields[entry].window # None /\ Post(Block("close", entry, fields[entry].window))
  /\ UNCHANGED <<entryVars, call, running, requested, seenVars, opened, late>>

-----------------------------------------------------------------------------
\* The main thread.

Take(do) ==
  /\ running = Nothing /\ queue # <<>> /\ Head(queue).do = do /\ queue' = Tail(queue)
Signal(ok) ==
  call' = IF call.block = running THEN [call EXCEPT !.at = "over", !.ok = ok] ELSE call

BeginWaited ==
  /\ Take("load") \/ Take("teardown")
  /\ running' = Head(queue) /\ call' = [call EXCEPT !.at = "running"]
  /\ UNCHANGED <<entryVars, requested, seenVars, askVars, late>>
EndLoad ==
  /\ running.do = "load" /\ running' = Nothing
  /\ \E ok \in BOOLEAN : Loaded(running.of, ok) /\ Signal(ok)
  /\ UNCHANGED <<entry, made, freed, queue, requested, seenVars, askVars, late>>
EndTeardown ==
  /\ running.do = "teardown" /\ running' = Nothing
  /\ TornDown(running.of) /\ Signal(TRUE)
  /\ UNCHANGED <<entry, made, freed, queue, requested, windows, told, askVars, late>>

\* A v3 plugin is asked for its view, and answers when it likes.
Request ==
  /\ Take("request") /\ requested' = requested \cup {Head(queue).of}
  /\ UNCHANGED <<entryVars, call, running, seenVars, askVars, late>>
Answer(h) ==
  /\ h \in requested /\ requested' = requested \ {h} /\ Post(Block("build", h, 0))
  /\ UNCHANGED <<entryVars, call, running, seenVars, askVars, late>>

\* The window is built only if the plugin is still there.
StillThere(h) == entry = h
Build ==
  /\ Take("build") /\ running' = (IF StillThere(Head(queue).of) THEN Head(queue) ELSE Nothing)
  /\ UNCHANGED <<entryVars, call, requested, seenVars, askVars, late>>

\* presentEditorView: the window is shown, then recorded if the plugin is still there,
\* otherwise closed again.
Present ==
  /\ running.do = "build" /\ windows' = windows + 1
  /\ \/ /\ entry = running.of /\ running' = Block("tell open", running.of, 0)
        /\ fields' = [fields EXCEPT ![entry].window = windows', ![entry].opening = FALSE]
        /\ shown' = shown \cup {windows'}
     \/ /\ entry # running.of /\ running' = Nothing
        /\ UNCHANGED <<fields, shown>>
  /\ UNCHANGED <<entry, made, instance, freed, call, queue, requested, told, askVars, late>>

\* A window closes, whoever asked for it: its observer forgets the window of the plugin,
\* if it is still there, then tells it.
Closing(h, w) ==
  /\ shown' = shown \ {w}
  /\ \/ /\ entry = h /\ running' = Block("tell closed", h, 0)
        /\ fields' = [fields EXCEPT ![h].window = None]
     \/ /\ entry # h /\ running' = Nothing
        /\ UNCHANGED fields
  /\ UNCHANGED <<entry, made, instance, freed, call, requested, windows, told, askVars, late>>
CloseWindow ==
  /\ Take("close") /\ Head(queue).n \in shown
  /\ Closing(Head(queue).of, Head(queue).n)
AlreadyClosed ==
  /\ Take("close") /\ Head(queue).n \notin shown
  /\ UNCHANGED <<entryVars, call, running, requested, seenVars, askVars, late>>
UserCloses ==
  /\ running = Nothing
  /\ \E h \in 1 .. made : fields[h].window \in shown /\ Closing(h, fields[h].window)
  /\ UNCHANGED queue

Tell ==
  /\ running.do \in {"tell open", "tell closed"} /\ running' = Nothing
  /\ told' = IF running.do = "tell open" THEN "open" ELSE "closed"
  /\ UNCHANGED <<entryVars, call, queue, requested, shown, windows, askVars, late>>

Main == \/ BeginWaited \/ EndLoad \/ EndTeardown \/ Request \/ Build \/ Present
        \/ CloseWindow \/ AlreadyClosed \/ UserCloses \/ Tell
Caller == \/ Load \/ LoadReturns \/ Unload \/ UnloadReturns \/ TimeOut
          \/ OpenEditor \/ TellOpening \/ CloseEditor
Next == Main \/ Caller \/ \E h \in requested : Answer(h)

Spec == Init /\ [][Next]_vars

-----------------------------------------------------------------------------
\* au_host.mm, on the crash of 28/05: while no wait has reached its ten seconds, a
\* plugin is called by the main thread only between its load and its disposal, and an
\* Entry lives as long as a block writes in it.
TornDownSafely ==
  ~late => /\ running.do = "build" => instance[running.of] = "live"
           /\ running.do \in {"load", "teardown"} => running.of \notin freed

\* Once the main thread has nothing left to do the studio sees what is: a window is
\* said open when it is on the screen, no window is there that the host does not know,
\* and one that was being built for a plugin since removed is said closed.
StudioSeesWindow ==
  ~late /\ running = Nothing /\ queue = <<>> /\ call = Idle =>
    IF entry = None THEN shown = {} /\ told = "closed"
    ELSE /\ shown = {fields[entry].window} \ {None}
         /\ (told = "open") = (shown # {})
         /\ told = "opening" => fields[entry].opening

===============================================================================
