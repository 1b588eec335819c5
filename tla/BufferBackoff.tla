--------------------------- MODULE BufferBackoff ----------------------------
(***************************************************************************)
(* The size of the audio buffers (jamodio-agent/src/audio/buffer_policy.rs)*)
(* and those who change it or read it: the client's loop of measures, which*)
(* asks once for the safe size when the low one does not hold; its         *)
(* supervisor, which opens the streams again; the session, which opens them*)
(* or takes up a driver kept warm.  All but the supervisor's pauses happen *)
(* under the pipeline's lock.                                              *)
(***************************************************************************)
EXTENDS Naturals

CONSTANTS
  EscalateAt,      \* windows under pressure before the size changes
  MaxConnections,  \* bound: clients one after the other
  MaxFailures      \* bound: openings that fail
BackoffConstants == {EscalateAt, MaxConnections, MaxFailures} \subseteq Nat \ {0}

VARIABLES
  target,      \* TARGET
  request,     \* REBUILD_PENDING
  size,        \* of the streams open, or closed
  capturing,   \* in session
  warm,        \* the driver is kept, in session or parked
  pressure,    \* buffer_low_pressure of the client's loop
  session_active,  \* what the client's supervisor knows
  repairing,   \* between its closing and its opening
  connections, failures
vars == <<target, request, size, capturing, warm, pressure, session_active, repairing, connections, failures>>
policyVars == <<target, request>>
clientVars == <<pressure, session_active, repairing, connections>>

TypeOK ==
  /\ target \in {"low", "safe"} /\ size \in {"low", "safe", "closed"}
  /\ {request, capturing, warm, session_active, repairing} \subseteq BOOLEAN
  /\ pressure \in 0..EscalateAt /\ connections \in 1..MaxConnections /\ failures \in 0..MaxFailures

Init ==
  /\ target = "low" /\ request = FALSE /\ size = "closed" /\ capturing = FALSE /\ warm = FALSE
  /\ pressure = 0 /\ session_active = FALSE /\ repairing = FALSE /\ connections = 1 /\ failures = 0

-----------------------------------------------------------------------------
\* One window of the measures: pressure rises with a bad one, falls with a good one.  A
\* session is known to the supervisor, who has four turns in a window, long before
\* EscalateAt of them.
Escalate == target' = "safe" /\ request' = TRUE
Window(bad) ==
  /\ LET level == IF bad THEN pressure + 1 ELSE IF pressure > 0 THEN pressure - 1 ELSE 0
     IN IF ~(capturing /\ target = "low") THEN pressure' = 0 /\ UNCHANGED policyVars
        ELSE IF level >= EscalateAt THEN session_active /\ pressure' = 0 /\ Escalate
        ELSE pressure' = level /\ UNCHANGED policyVars
  /\ UNCHANGED <<size, capturing, warm, session_active, repairing, connections, failures>>

\* An opening reads the target, once for both directions; it may fail.
Opened ==
  \/ size' = target /\ UNCHANGED failures
  \/ size' = "closed" /\ failures < MaxFailures /\ failures' = failures + 1

\* prepare_audio_for_session: the warm driver of the same devices is used as it is.
Reuse ==
  /\ warm /\ size # "closed" /\ capturing' = TRUE
  /\ UNCHANGED <<policyVars, size, warm, clientVars, failures>>
Acquire ==
  /\ Opened /\ capturing' = (size' # "closed")
  /\ warm' \in {FALSE, capturing'}
  /\ UNCHANGED <<policyVars, clientVars>>
\* leave_session: a driver kept warm is parked, its streams open.
Leave ==
  /\ capturing /\ capturing' = FALSE
  /\ size' = IF warm THEN size ELSE "closed"
  /\ UNCHANGED <<policyVars, warm, clientVars, failures>>
\* close_warm_if_grace_expired
GraceOver ==
  /\ warm /\ ~capturing /\ warm' = FALSE /\ size' = "closed"
  /\ UNCHANGED <<policyVars, capturing, clientVars, failures>>

\* Out of a session, and at the first turn of one, a request is dropped.
TickIdle ==
  /\ ~repairing /\ ~(capturing /\ session_active)
  /\ session_active' = capturing /\ request' = FALSE
  /\ UNCHANGED <<target, size, capturing, warm, pressure, repairing, connections, failures>>
\* A request, or streams that deliver nothing: repair_audio_streams closes them.
\* (First a wrong form: the request is taken only if nothing else is to be repaired.)
TakenIfSilent == request' = FALSE /\ size = "closed"
Taken == request' = FALSE /\ (request \/ size = "closed")
TickRepair ==
  /\ ~repairing /\ capturing /\ session_active /\ Taken
  /\ repairing' = TRUE /\ size' = "closed"
  /\ UNCHANGED <<target, capturing, warm, pressure, session_active, connections, failures>>
\* After the driver's pause rebuild_audio_streams opens them, if the session is still there.
Rebuild ==
  /\ repairing /\ repairing' = FALSE
  /\ IF capturing THEN Opened ELSE UNCHANGED <<size, failures>>
  /\ UNCHANGED <<policyVars, capturing, warm, pressure, session_active, connections>>

\* Another client, whose page was loaded again: a loop and a supervisor of its own.  The
\* session is left, or stays if the lock did not come in time.
Reconnect ==
  /\ connections < MaxConnections /\ connections' = connections + 1
  /\ pressure' = 0 /\ session_active' = FALSE /\ repairing' = FALSE
  /\ UNCHANGED <<policyVars, size, capturing, warm, failures>>

Supervisor == TickIdle \/ TickRepair \/ Rebuild
Next == (\E bad \in BOOLEAN : Window(bad)) \/ Reuse \/ Acquire \/ Leave \/ GraceOver
        \/ Supervisor \/ Reconnect
Spec == Init /\ [][Next]_vars /\ WF_vars(Supervisor)

-----------------------------------------------------------------------------
\* A change of size asked for in a session that goes on is made (ws_server.rs:2910).
BackoffServed ==
  (request /\ capturing /\ session_active) ~> (size = "safe" \/ ~capturing \/ ~session_active)
=============================================================================
