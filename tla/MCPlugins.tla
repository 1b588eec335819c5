------------------------------ MODULE MCPlugins ------------------------------
(***************************************************************************)
(* The plugins in one run: their inventory (PluginScan), the plugin of the *)
(* instrument (PluginSlot), its life and its window in the host of each    *)
(* system (Vst3Editor, AuHost).  What they tell one another -- a plugin    *)
(* the inventory knows or not, a load that fails or not -- is any value in *)
(* the one that hears it, so each is explored while the others rest, every *)
(* interleaving within it included.                                        *)
(***************************************************************************)
EXTENDS PluginScan

CONSTANTS MaxConns, MaxAsked, RemovedPumps, MaxInstances, MaxWindows, MaxEntries, MaxOpened, MaxClosed,
          MayTimeOut
VARIABLES conns, open, pending, request, step, mine, line, stating, host, handle, info, bypassed,
          made, asked, last, slot_told, overtaken
VARIABLES entry, loading, editor, instances, windows, owner, jobs, stack, component, wired, view,
          state, hwnd, alive, registered, struck
VARIABLES au_entry, au_made, fields, au_instance, freed, call, queue, running, requested, shown,
          au_windows, au_told, opened, closed, late

slotVars == <<conns, open, pending, request, step, mine, line, stating, host, handle, info,
              bypassed, made, asked, last, slot_told, overtaken>>
editorVars == <<entry, loading, editor, instances, windows, owner, jobs, stack, component, wired,
                view, state, hwnd, alive, registered, struck>>
auVars == <<au_entry, au_made, fields, au_instance, freed, call, queue, running, requested, shown,
            au_windows, au_told, opened, closed, late>>
Slot   == INSTANCE PluginSlot WITH told <- slot_told
Editor == INSTANCE Vst3Editor
Unit   == INSTANCE AuHost WITH entry <- au_entry, made <- au_made, instance <- au_instance,
                               windows <- au_windows, told <- au_told

ASSUME PluginConstants == Slot!SlotConstants

ScanRests   == Init /\ \A i \in Items : nature[i] = "sound"
SlotRests   == Slot!Init /\ made = 0
EditorRests == Editor!Init
UnitRests   == Unit!Init

MCInit == Init /\ Slot!Init /\ Editor!Init /\ Unit!Init
MCNext ==
  \/ SlotRests /\ EditorRests /\ UnitRests /\ Next /\ UNCHANGED <<slotVars, editorVars, auVars>>
  \/ ScanRests /\ EditorRests /\ UnitRests /\ Slot!Next /\ UNCHANGED <<vars, editorVars, auVars>>
  \/ ScanRests /\ SlotRests /\ UnitRests /\ Editor!Next /\ UNCHANGED <<vars, slotVars, auVars>>
  \/ ScanRests /\ SlotRests /\ EditorRests /\ Unit!Next /\ UNCHANGED <<vars, slotVars, editorVars>>
\* The fairness is the inventory's.
MCSpec == /\ MCInit /\ [][MCNext]_<<vars, slotVars, editorVars, auVars>>
          /\ WF_vars(Worker) /\ WF_vars(Thread)

\* Of the slot: as soon as no operation is at work, the plugin the sound uses, the one
\* the studio is told of and the one the host keeps are the same or none; once all is
\* quiet the last studio to connect knows the plugin that plays, and its last gesture on
\* the bypass is the one that counts.
SlotIsTrue == Slot!SlotIsTrue /\ Slot!StudioKnows
\* Of both hosts: a plugin is not called again once it is torn down, nor torn down
\* while it is called; what is written by its teardown is still there.
TornDownSafely == Editor!TornDownSafely /\ Unit!TornDownSafely
\* Of both windows: once its jobs are done, what the VST3 host believes of its window is
\* true, and a plugin that shows none can show one again; of the Audio Unit's, once all
\* is quiet the studio sees what is there.
WindowIsTrue == Editor!Reopens /\ Unit!StudioSeesWindow
==============================================================================
