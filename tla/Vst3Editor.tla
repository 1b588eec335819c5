----------------------------- MODULE Vst3Editor ------------------------------
(***************************************************************************)
(* The window of a VST3 plugin (jamodio-vst3-host: main_thread.rs,         *)
(* editor.rs, lib.rs).  Whatever touches a plugin runs on one thread,      *)
(* vst3-main: the requests of the host are jobs in a queue, and that       *)
(* thread also treats the messages of the windows.                         *)
(*                                                                         *)
(* Plugin code may treat messages in its turn while it is called, while    *)
(* its view is attached for instance: a window can be closed by the        *)
(* musician, and jobs can be signalled, in the middle of a job.            *)
(*                                                                         *)
(* Sizes, focus, titles and the sound are left out.  That a component      *)
(* refuses its view while it knows another controller is what editor.rs    *)
(* says of JUCE.                                                           *)
(***************************************************************************)
EXTENDS Naturals, Sequences

CONSTANTS
  RemovedPumps,  \* whether plugins treat messages in removed() as in attached()
  MaxInstances,  \* bound: plugins loaded
  MaxWindows     \* bound: windows asked for

Instances == 1..MaxInstances
Windows   == 1..MaxWindows
None      == 0

VARIABLES
  entry,       \* the instance of Vst3Host's entry
  loading,     \* the instance load() waits for
  editor,      \* the window of the entry
  instances,   \* instances asked for so far
  windows,     \* windows asked for so far
  owner,       \* the instance each window shows
  jobs,        \* the queue of vst3-main
  stack,       \* calls into a view, the innermost last
  component,   \* of each instance
  wired,       \* instances whose component knows a controller
  view,        \* the view of each window
  state,       \* EditorShared.state
  hwnd,        \* windows whose EditorShared.hwnd is set
  alive,       \* windows on the screen
  registered,  \* OPEN_EDITORS
  struck       \* history: windows closed by the musician while they were built

hostVars   == <<entry, loading, editor, instances, windows, owner>>
windowVars == <<view, state, hwnd, alive, registered>>
vars == <<hostVars, jobs, stack, component, wired, windowVars, struck>>

Job(do, i, w) == [do |-> do, of |-> i, window |-> w]
\* A call into a view; inJob: made by a job; ends: the instance torn down after it.
Call(fn, w, inJob, ends) == [fn |-> fn, window |-> w, inJob |-> inJob, ends |-> ends]

TypeOK ==
  /\ entry \in 0..instances /\ loading \in 0..instances /\ editor \in 0..windows
  /\ instances \in 0..MaxInstances /\ windows \in 0..MaxWindows
  /\ owner \in [Windows -> 0..MaxInstances]
  /\ \A k \in DOMAIN jobs :
       jobs[k] \in [do : {"load", "open", "close", "teardown"}, of : 0..instances, window : 0..windows]
  /\ \A k \in DOMAIN stack :
       stack[k] \in [fn : {"attached", "removed"}, window : 1..windows, inJob : BOOLEAN,
                     ends : 0..instances]
  /\ component \in [Instances -> {"none", "live", "terminated"}] /\ wired \subseteq Instances
  /\ view \in [Windows -> {"none", "attached", "removed"}]
  /\ state \in [Windows -> {"pending", "open", "closed"}]
  /\ hwnd \subseteq Windows /\ alive \subseteq Windows /\ registered \subseteq Windows
  /\ struck \subseteq Windows

Init ==
  /\ entry = None /\ loading = None /\ editor = None /\ instances = 0 /\ windows = 0
  /\ owner = [w \in Windows |-> None] /\ jobs = <<>> /\ stack = <<>>
  /\ component = [i \in Instances |-> "none"] /\ wired = {}
  /\ view = [w \in Windows |-> "none"] /\ state = [w \in Windows |-> "pending"]
  /\ hwnd = {} /\ alive = {} /\ registered = {} /\ struck = {}

-----------------------------------------------------------------------------
\* Vst3Host: its callers hold the lock of the plugin operations, load() as long as
\* it waits.

Post(job) == jobs' = Append(jobs, job)
\* Drop for EditorWindow: a close is posted, whatever became of the window.
Dropped(w) == IF w = None THEN <<>> ELSE <<Job("close", owner[w], w)>>

Load ==
  /\ entry = None /\ loading = None /\ instances < MaxInstances
  /\ instances' = instances + 1 /\ loading' = instances' /\ Post(Job("load", instances', None))
  /\ UNCHANGED <<entry, editor, windows, owner, stack, component, wired, windowVars, struck>>

Unload ==
  /\ entry # None /\ entry' = None /\ editor' = None
  /\ Post(Job("teardown", entry, editor))
  /\ UNCHANGED <<loading, instances, windows, owner, stack, component, wired, windowVars, struck>>

\* A window thought open or on its way is only brought to the front; one known to be
\* closed gives way to a new one.
OpenEditor ==
  /\ entry # None /\ windows < MaxWindows
  /\ editor # None => state[editor] = "closed"
  /\ LET w == windows + 1
     IN /\ windows' = w /\ editor' = w /\ owner' = [owner EXCEPT ![w] = entry]
        /\ jobs' = jobs \o Dropped(editor) \o <<Job("open", entry, w)>>
  /\ UNCHANGED <<entry, loading, instances, stack, component, wired, windowVars, struck>>

CloseEditor ==
  /\ entry # None /\ editor # None /\ editor' = None
  /\ jobs' = jobs \o Dropped(editor)
  /\ UNCHANGED <<entry, loading, instances, windows, owner, stack, component, wired, windowVars,
                 struck>>

-----------------------------------------------------------------------------
\* vst3-main.

Idle == stack = <<>>
Top  == stack[Len(stack)]
\* The thread treats messages: its own pump, or one of the plugin it has called.
Pumps == RemovedPumps \/ \A k \in DOMAIN stack : k = Len(stack) => stack[k].fn = "attached"
\* hidden_wnd_proc: no job within a job.  (First a wrong form: any job when messages
\* are treated.)
NoGuard  == TRUE
MayDrain == \A k \in DOMAIN stack : ~stack[k].inJob
NextJob(do) == Pumps /\ MayDrain /\ jobs # <<>> /\ Head(jobs).do = do /\ jobs' = Tail(jobs)

Push(call) == stack' = Append(stack, call)
Pop == stack' = SubSeq(stack, 1, Len(stack) - 1)

\* The module is loaded and the component made, or not.
RunLoad ==
  /\ NextJob("load") /\ loading' = None
  /\ \/ entry' = loading /\ component' = [component EXCEPT ![loading] = "live"]
     \/ UNCHANGED <<entry, component>>
  /\ UNCHANGED <<editor, instances, windows, owner, stack, wired, windowVars, struck>>

\* open_editor_on_main_thread, up to attached(): a controller is wired to the
\* component, which ignores it if it already knows one and then refuses its view;
\* it may refuse it anyway.  (First a wrong form of teardown_partial: nothing.)
LeftWired(i) == wired \cup {i}
Unwired(i) == wired \ {i}
RunOpen ==
  /\ NextJob("open")
  /\ LET w == Head(jobs).window  i == Head(jobs).of
     IN \/ /\ i \notin wired /\ wired' = wired \cup {i} /\ alive' = alive \cup {w}
           /\ view' = [view EXCEPT ![w] = "attached"] /\ Push(Call("attached", w, TRUE, None))
           /\ UNCHANGED state
        \/ /\ wired' = Unwired(i) /\ state' = [state EXCEPT ![w] = "closed"]
           /\ UNCHANGED <<alive, view, stack>>
  /\ UNCHANGED <<hostVars, component, hwnd, registered, struck>>

\* attached() returns.  The window is published, whether it still exists or not; or
\* it is destroyed, which does nothing more for a window not registered.
Attached ==
  /\ ~Idle /\ Top.fn = "attached" /\ Pop
  /\ LET w == Top.window
     IN \/ /\ hwnd' = hwnd \cup {w} /\ state' = [state EXCEPT ![w] = "open"]
           /\ registered' = registered \cup {w} /\ UNCHANGED <<wired, alive, view>>
        \/ /\ alive' = alive \ {w} /\ view' = [view EXCEPT ![w] = "none"]
           /\ wired' = Unwired(owner[w]) /\ state' = [state EXCEPT ![w] = "closed"]
           /\ UNCHANGED <<hwnd, registered>>
  /\ UNCHANGED <<hostVars, jobs, component, struck>>

\* editor_wnd_proc, WM_DESTROY: a registered window leaves the registry and removed()
\* is called; nothing is done for another.
Destroy(w, inJob, ends) ==
  /\ w \in alive /\ w \in registered
  /\ alive' = alive \ {w} /\ registered' = registered \ {w}
  /\ Push(Call("removed", w, inJob, ends))
\* DestroyWindow fails for a window already destroyed, and is not called for one that
\* was never published.
Spared(w) == w \notin hwnd \/ w \notin alive

RunClose ==
  /\ NextJob("close")
  /\ LET w == Head(jobs).window
     IN \/ w \in hwnd /\ Destroy(w, TRUE, None)
        \/ Spared(w) /\ UNCHANGED <<stack, alive, registered>>
  /\ UNCHANGED <<hostVars, component, wired, view, state, hwnd, struck>>

\* unload: the window is closed, within the job, then the instance dropped: the
\* component is terminated.
Terminated(i) == [component EXCEPT ![i] = "terminated"]
RunTeardown ==
  /\ NextJob("teardown")
  /\ LET w == Head(jobs).window  i == Head(jobs).of
     IN \/ w # None /\ w \in hwnd /\ Destroy(w, TRUE, i) /\ UNCHANGED component
        \/ (w = None \/ Spared(w)) /\ component' = Terminated(i) /\ UNCHANGED <<stack, alive, registered>>
  /\ UNCHANGED <<hostVars, wired, view, state, hwnd, struck>>

\* removed() returns: the rest of WM_DESTROY, then what called DestroyWindow.
Removed ==
  /\ ~Idle /\ Top.fn = "removed" /\ Pop
  /\ LET w == Top.window
     IN /\ view' = [view EXCEPT ![w] = "removed"] /\ wired' = Unwired(owner[w])
        /\ hwnd' = hwnd \ {w} /\ state' = [state EXCEPT ![w] = "closed"]
        /\ component' = IF Top.ends = None THEN component ELSE Terminated(Top.ends)
  /\ UNCHANGED <<hostVars, jobs, alive, registered, struck>>

\* The musician closes a window, whenever messages are treated.
UserCloses(w) ==
  /\ Pumps
  /\ \/ Destroy(w, FALSE, None) /\ UNCHANGED struck
     \/ /\ w \in alive /\ w \notin registered
        /\ alive' = alive \ {w} /\ struck' = struck \cup {w} /\ UNCHANGED <<stack, registered>>
  /\ UNCHANGED <<hostVars, jobs, component, wired, view, state, hwnd>>

-----------------------------------------------------------------------------
MainThread == RunLoad \/ RunOpen \/ RunClose \/ RunTeardown \/ Attached \/ Removed

Next ==
  \/ Load \/ Unload \/ OpenEditor \/ CloseEditor \/ MainThread
  \/ \E w \in Windows : UserCloses(w)

Spec == Init /\ [][Next]_vars

-----------------------------------------------------------------------------
\* No component is terminated under a call into one of its views, though that call
\* treats messages and jobs wait.
NotUnderfoot ==
  \A k \in DOMAIN stack : component[owner[stack[k].window]] = "live"

\* The view is removed before the component is terminated, unless its window was
\* closed by the musician while it was being built.
RemovedFirst ==
  \A w \in Windows : view[w] = "attached" /\ w \notin struck => component[owner[w]] = "live"

\* A plugin is never called again once it is torn down, whatever the musician closes
\* and the studio asks meanwhile.
TornDownSafely == NotUnderfoot /\ RemovedFirst

\* When nothing is left to do the window the host thinks open is on the screen, and
\* no other; and a plugin that shows none can be shown again, however it was closed
\* or failed -- unless a window of its own was closed while it was being built.
Reopens ==
  Idle /\ jobs = <<>> /\ (\A w \in struck : owner[w] # entry) =>
    /\ alive = {w \in {editor} : w # None /\ state[w] = "open"}
    /\ entry \in wired => alive # {}

\* "garantir `view.removed()` AVANT `component.terminate()`" (editor.rs, close)
RemovedBeforeTerminate ==
  \A w \in Windows : view[w] = "attached" => component[owner[w]] # "terminated"
=============================================================================
