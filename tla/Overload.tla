------------------------------ MODULE Overload ------------------------------
(***************************************************************************)
(* When the studio is told that blocks of sound are refused in number      *)
(* (jamodio-agent/src/ws_server.rs, perfstats_task): not again within ten  *)
(* seconds, by a clock that starts with each connection, while the last    *)
(* time is kept for the whole process.  One connection reads at a time.    *)
(***************************************************************************)
EXTENDS Naturals

CONSTANTS
  PIPELINE_OVERLOAD_COOLDOWN,   \* in seconds
  MaxClock                      \* bound: seconds
OverloadConstants == {PIPELINE_OVERLOAD_COOLDOWN, MaxClock} \subseteq Nat

VARIABLES
  clock, started,   \* seconds; when the present connection was made
  last_emit,        \* LAST_PIPELINE_OVERLOAD_EMIT_MS
  told_at,          \* history: when an overload was last told
  kept              \* history: one was kept from the studio
overloadVars == <<clock, started, last_emit, told_at, kept>>

Init == clock = 0 /\ started = 0 /\ last_emit = 0 /\ told_at = 0 /\ kept = FALSE

Now == clock' - started
Elapsed == IF Now > last_emit THEN Now - last_emit ELSE 0
Emits == Elapsed > PIPELINE_OVERLOAD_COOLDOWN
\* A second of sound, with or without an overload.
Window(overloaded) ==
  /\ clock < MaxClock /\ clock' = clock + 1
  /\ last_emit' = IF overloaded /\ Emits THEN Now ELSE last_emit
  /\ told_at' = IF overloaded /\ Emits THEN clock' ELSE told_at
  /\ kept' = (kept \/ (/\ overloaded /\ ~Emits
                       /\ Now > PIPELINE_OVERLOAD_COOLDOWN
                       /\ clock' - told_at > PIPELINE_OVERLOAD_COOLDOWN))
  /\ UNCHANGED started
\* The studio's page is closed and opened again.
Reconnect ==
  /\ clock < MaxClock /\ started' = clock
  /\ UNCHANGED <<clock, last_emit, told_at, kept>>
Next == Reconnect \/ \E o \in BOOLEAN : Window(o)
Spec == Init /\ [][Next]_overloadVars

-----------------------------------------------------------------------------
\* Blocks refused in number are told of, once the cooldown is over since the last time
\* they were and since the connection (protocol.rs:1064).
OverloadTold == ~kept
=============================================================================
