---------------------------- MODULE ScanPromise ----------------------------
(***************************************************************************)
(* What the plugin inventory promises the studio, whatever processes die   *)
(* on the way: a scan that was accepted ends, it judges an item at most    *)
(* once, and what it publishes is exactly what it judged.                  *)
(* The variables are what `list_instrument_plugins` could be asked.        *)
(***************************************************************************)
EXTENDS Naturals

CONSTANT Items

VARIABLES
  scanning,     \* the list answers "in progress"
  verdict,      \* what the scan under way, or the last one, says of each item
  boots         \* how many times the agent was started again

vars == <<scanning, verdict, boots>>

Unjudged == [i \in Items |-> "none"]

Init == scanning = TRUE /\ verdict = Unjudged /\ boots = 0

(* A scan is accepted only when none is under way, and starts from nothing. *)
Accept == ~scanning /\ scanning' = TRUE /\ verdict' = Unjudged /\ UNCHANGED boots

(* A verdict once given is never taken back by the same scan. *)
Judge ==
  /\ scanning
  /\ verdict' \in [Items -> {"none", "sound", "condemned"}]
  /\ \A i \in Items : verdict[i] # "none" => verdict'[i] = verdict[i]
  /\ UNCHANGED <<scanning, boots>>

Publish == scanning /\ scanning' = FALSE /\ UNCHANGED <<verdict, boots>>

(* The scanning thread panicked: the list is emptied, not left in progress. *)
Abort == scanning /\ scanning' = FALSE /\ verdict' = Unjudged /\ UNCHANGED boots

(* The agent itself died and was started again. *)
Restart == scanning' = TRUE /\ verdict' = Unjudged /\ boots' = boots + 1

Next == Accept \/ Judge \/ Publish \/ Abort \/ Restart

Spec == Init /\ [][Next]_vars /\ WF_vars(Publish \/ Abort)
============================================================================
