----------------------------- MODULE PluginSlot ------------------------------
(***************************************************************************)
(* The plugin of the musician's instrument (jamodio-agent/src/pipeline.rs  *)
(* PluginControl, ws_server.rs run_plugin_op).                             *)
(*                                                                         *)
(* Each connection has a queue of plugin requests and a worker that treats *)
(* them one by one.  A request waits for the pipeline's mutex, only to     *)
(* copy references, then for the lock of plugin operations, which native   *)
(* calls of unbounded length hold until they really return.  A connection  *)
(* is told what is loaded when that lock lets it.                          *)
(*                                                                         *)
(* A plugin is the number of its instance; which plugin it is, its name,   *)
(* its latency and MIDI are left out, as is the audio stage, which takes   *)
(* the handle it finds and goes on without it when the host is busy.       *)
(***************************************************************************)
EXTENDS Naturals, Sequences

CONSTANTS
  MaxConns,  \* bound: connections
  MaxAsked   \* bound: requests

SlotConstants == MaxConns \in Nat /\ MaxAsked \in Nat

Conns  == 1..MaxConns
None   == 0
\* An instance may be unknown: nothing said yet, or an error that does not say what
\* is left.
Unsure == MaxAsked + 2
Known  == 0..Unsure

Load   == [op |-> "load",   bypass |-> FALSE]
Unload == [op |-> "unload", bypass |-> FALSE]
Bypass(b) == [op |-> "bypass", bypass |-> b]
Nothing   == [op |-> "none",   bypass |-> FALSE]
Requests  == {Load, Unload} \cup {Bypass(b) : b \in BOOLEAN}

VARIABLES
  conns,       \* connections accepted so far
  open,        \* those not closed
  pending,     \* requests in each queue
  request,     \* what each worker treats
  step,        \* where it is
  mine,        \* the instance it removes or made, or what it will answer
  line,        \* who waits for plugin_ops_lock, in order; its head holds it
  stating,     \* connections whose state task has not asked for it
  host,        \* instances alive in the host
  handle,      \* instrument_plugin_handle
  info,        \* instrument_plugin_info
  bypassed,    \* instrument_plugin_bypass
  made,        \* instances made so far, the first by a session before
  asked,       \* requests so far
  last,        \* history: the last request of each connection, if no other's began since
  told,        \* history: the plugin each connection was last told of
  overtaken    \* history: connections another's request began after they were told

connVars   == <<conns, open, pending, asked>>
workerVars == <<request, step, mine>>
lineVars   == <<line, stating>>
hostVars   == <<host, made>>
slotVars   == <<handle, info, bypassed>>
histVars   == <<last, told, overtaken>>
vars == <<connVars, workerVars, lineVars, hostVars, slotVars, histVars>>

Entry(what, c) == [what |-> what, conn |-> c]

TypeOK ==
  /\ conns \in 0..MaxConns /\ open \subseteq 1..conns /\ asked \in 0..MaxAsked
  /\ \A c \in Conns : \A i \in DOMAIN pending[c] : pending[c][i] \in Requests
  /\ request \in [Conns -> Requests \cup {Nothing}] /\ last \in [Conns -> Requests \cup {Nothing}]
  /\ step \in [Conns -> {"idle", "asks", "waits", "take", "removing", "forget",
                         "loading", "publish", "release", "answer"}]
  /\ mine \in [Conns -> Known] /\ told \in [Conns -> Known] /\ overtaken \subseteq Conns
  /\ \A i \in DOMAIN line : line[i] \in [what : {"op", "state"}, conn : Conns]
  /\ stating \subseteq Conns /\ made \in 0..(MaxAsked + 1) /\ host \subseteq 1..made
  /\ handle \in 0..made /\ info \in 0..made
  /\ bypassed \in BOOLEAN

\* A plugin, kept from a session before, or none.
Init ==
  /\ made \in 0..1 /\ host = 1..made /\ handle = made /\ info = made
  /\ conns = 0 /\ open = {} /\ pending = [c \in Conns |-> <<>>] /\ asked = 0
  /\ request = [c \in Conns |-> Nothing] /\ step = [c \in Conns |-> "idle"]
  /\ mine = [c \in Conns |-> None]
  /\ line = <<>> /\ stating = {} /\ bypassed = FALSE
  /\ last = [c \in Conns |-> Nothing] /\ told = [c \in Conns |-> Unsure] /\ overtaken = {}

-----------------------------------------------------------------------------
\* The connections.

\* A connection opens.  What is loaded, if anything, is told at once; a task then
\* asks for the lock to tell it for certain, "none" included.
Connect ==
  /\ conns < MaxConns /\ conns' = conns + 1
  /\ open' = open \cup {conns'} /\ stating' = stating \cup {conns'}
  /\ told' = [told EXCEPT ![conns'] = IF info = None THEN Unsure ELSE info]
  /\ UNCHANGED <<pending, asked, workerVars, line, hostVars, slotVars, last, overtaken>>

\* A request of the studio joins its connection's queue, a bypass too: set on
\* arrival it would be undone by the load it was asked after.
Ask(c, r) ==
  /\ c \in open /\ asked < MaxAsked /\ asked' = asked + 1
  /\ last' = [last EXCEPT ![c] = r]
  /\ pending' = [pending EXCEPT ![c] = Append(@, r)]
  /\ UNCHANGED <<conns, open, workerVars, lineVars, hostVars, slotVars, told, overtaken>>

\* Whoever is i-th in the line gives up.
LineWithout(i) == [j \in 1 .. Len(line) - 1 |-> IF j < i THEN line[j] ELSE line[j + 1]]

\* A connection ends: its state task is aborted and its queue closed, but what its
\* worker has begun goes to its end.
Disconnect(c) ==
  /\ c \in open /\ open' = open \ {c} /\ stating' = stating \ {c}
  /\ \/ \E i \in DOMAIN line : line[i] = Entry("state", c) /\ line' = LineWithout(i)
     \/ (\A i \in DOMAIN line : line[i] # Entry("state", c)) /\ UNCHANGED line
  /\ UNCHANGED <<conns, pending, asked, workerVars, hostVars, slotVars, histVars>>

\* send_plugin_state_when_idle asks for the lock.
JoinState(c) ==
  /\ c \in stating /\ stating' = stating \ {c} /\ line' = Append(line, Entry("state", c))
  /\ UNCHANGED <<connVars, workerVars, hostVars, slotVars, histVars>>

\* Its turn.  An answer of its own still on the way would come after.
TellState(c) ==
  /\ line # <<>> /\ Head(line) = Entry("state", c) /\ line' = Tail(line)
  /\ told' = [told EXCEPT ![c] = info]
  /\ overtaken' = IF step[c] = "answer" THEN overtaken ELSE overtaken \ {c}
  /\ UNCHANGED <<connVars, workerVars, stating, hostVars, slotVars, last>>

-----------------------------------------------------------------------------
\* The worker of a connection.

Goes(c, where) == step' = [step EXCEPT ![c] = where]
Keeps(c, what) == mine' = [mine EXCEPT ![c] = what]

\* OrderedQueue: the next request, abandoned if the connection is closed.
PickUp(c) ==
  /\ step[c] = "idle" /\ pending[c] # <<>>
  /\ pending' = [pending EXCEPT ![c] = Tail(@)]
  /\ IF c \in open
     THEN request' = [request EXCEPT ![c] = Head(pending[c])] /\ Goes(c, "asks")
     ELSE UNCHANGED <<request, step>>
  /\ UNCHANGED <<conns, open, asked, mine, lineVars, hostVars, slotVars, histVars>>

\* plugin_control: the pipeline's mutex is had, or three seconds pass and the
\* request is dropped: a load is answered by an error, the rest by nothing.
GetControl(c) ==
  /\ step[c] = "asks"
  /\ \/ /\ Goes(c, "waits") /\ line' = Append(line, Entry("op", c))
        /\ UNCHANGED <<last, told>>
     \/ /\ Goes(c, "idle")
        /\ last' = [last EXCEPT ![c] = Nothing]
        /\ told' = IF request[c] = Load THEN [told EXCEPT ![c] = Unsure] ELSE told
        /\ UNCHANGED line
  /\ UNCHANGED <<connVars, request, mine, stating, hostVars, slotVars, overtaken>>

\* The lock of the operations is had.  (First a wrong form: nothing is waited for.)
NoLock(c) == TRUE
HoldsLock(c) == line # <<>> /\ Head(line) = Entry("op", c)

\* set_bypass; unload; load, refused before anything is touched when the scan does
\* not know the plugin.
Begin(c) ==
  /\ step[c] = "waits" /\ HoldsLock(c)
  /\ \/ request[c].op = "bypass" /\ bypassed' = request[c].bypass
        /\ Goes(c, "release") /\ UNCHANGED mine
     \/ request[c].op # "bypass" /\ Goes(c, "take") /\ UNCHANGED <<bypassed, mine>>
     \/ request[c] = Load /\ Goes(c, "release") /\ Keeps(c, Unsure) /\ UNCHANGED bypassed
  /\ last' = [d \in Conns |-> IF d = c THEN last[d] ELSE Nothing]
  /\ overtaken' = overtaken \cup (open \ {c})
  /\ UNCHANGED <<connVars, request, lineVars, hostVars, handle, info, told>>

\* PluginControl::unload, also the first half of load: the handle goes first, so
\* that the sound is dry at once; nothing to do if there was none.
Unloaded(c) == Goes(c, IF request[c] = Load THEN "loading" ELSE "release")
Take(c) ==
  /\ step[c] = "take" /\ handle' = None /\ Keeps(c, handle)
  /\ IF handle = None THEN Unloaded(c) ELSE Goes(c, "removing")
  /\ UNCHANGED <<connVars, request, lineVars, hostVars, info, bypassed, histVars>>

\* Then the instance.
Remove(c) ==
  /\ step[c] = "removing" /\ host' = host \ {mine[c]} /\ Goes(c, "forget")
  /\ UNCHANGED <<connVars, request, mine, lineVars, made, slotVars, histVars>>
\* Then what is said of it.
Forget(c) ==
  /\ step[c] = "forget" /\ info' = None /\ bypassed' = FALSE
  /\ Keeps(c, None) /\ Unloaded(c)
  /\ UNCHANGED <<connVars, request, lineVars, hostVars, handle, histVars>>

\* PluginControl::load, the native part, which may fail: the error
\* does not say that the former plugin is gone.
LoadNative(c) ==
  /\ step[c] = "loading"
  /\ \/ /\ made' = made + 1 /\ host' = host \cup {made'}
        /\ Keeps(c, made') /\ Goes(c, "publish")
     \/ Keeps(c, Unsure) /\ Goes(c, "release") /\ UNCHANGED <<made, host>>
  /\ UNCHANGED <<connVars, request, lineVars, slotVars, histVars>>
Publish(c) ==
  /\ step[c] = "publish" /\ handle' = mine[c] /\ info' = mine[c] /\ bypassed' = FALSE
  /\ Goes(c, "release")
  /\ UNCHANGED <<connVars, request, mine, lineVars, hostVars, histVars>>

\* The native call has returned and the lock with it; the answer follows.
Release(c) ==
  /\ step[c] = "release" /\ line' = Tail(line)
  /\ Goes(c, "answer")
  /\ UNCHANGED <<connVars, request, mine, stating, hostVars, slotVars, histVars>>
Answer(c) ==
  /\ step[c] = "answer" /\ Goes(c, "idle")
  /\ told' = IF request[c].op = "bypass" THEN told ELSE [told EXCEPT ![c] = mine[c]]
  /\ Keeps(c, None)
  /\ UNCHANGED <<connVars, request, lineVars, hostVars, slotVars, last, overtaken>>

-----------------------------------------------------------------------------
Worker(c) ==
  \/ PickUp(c) \/ GetControl(c) \/ Begin(c) \/ Take(c) \/ Remove(c) \/ Forget(c)
  \/ LoadNative(c) \/ Publish(c) \/ Release(c) \/ Answer(c)

Next ==
  \/ Connect
  \/ \E c \in Conns : \/ \E r \in Requests : Ask(c, r)
                      \/ Disconnect(c) \/ JoinState(c) \/ TellState(c) \/ Worker(c)

Spec == Init /\ [][Next]_vars
-----------------------------------------------------------------------------
AtWork == \E c \in Conns : step[c] \notin {"idle", "asks", "waits", "release", "answer"}

\* The handle the sound uses, what the studio is told and what the host keeps are
\* one plugin or none as soon as no operation is at work, whichever connections
\* asked, closed and failed; and no instance is ever made beside another.
SlotIsTrue ==
  /\ \A a, b \in host : a = b
  /\ ~AtWork => handle = info /\ host = {handle} \ {None}

Quiet ==
  /\ line = <<>> /\ stating = {} /\ pending[conns] = <<>>
  /\ \A c \in Conns : step[c] = "idle"

\* When all is quiet the last studio to connect knows the plugin that plays -- a
\* load of the page before it included -- and its last gesture on the bypass is the
\* one that counts, unless another open page asked for something since.
StudioKnows ==
  conns \in open /\ Quiet =>
    /\ told[conns] # Unsure /\ conns \notin overtaken => told[conns] = info
    /\ last[conns].op = "bypass" => bypassed = last[conns].bypass
=============================================================================
