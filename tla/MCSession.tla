------------------------------ MODULE MCSession ------------------------------
(***************************************************************************)
(* The session and those who change it, in one run: the browsers that take *)
(* the place of one another (ClientSlot) and the supervisor beside one of  *)
(* them (Supervisor), both written on Session.  A message handled by a     *)
(* supervised browser is a step of the supervisor's module, and what a     *)
(* supervisor does to the session is one of the clients', the devices left *)
(* out: each is explored while the other rests, every interleaving within  *)
(* it included.                                                            *)
(***************************************************************************)
EXTENDS ClientSlot

CONSTANTS
  SILENT_REBUILD_LIMIT, Attempts, MaxEvents,
  MaxSteps  \* bound: messages and turns of the clients' supervisors together
VARIABLES inHere, outHere, healthy, capLive, outLive, sound, events, turn, seen, why, tries, result,
          active, silent, degraded, rebuilt, held, answer, told, crossed
VARIABLE part  \* the one that is explored

soundVars == <<inHere, outHere, healthy, capLive, outLive, sound, events, turn, seen, why, tries,
               result, active, silent, degraded, rebuilt, held, answer, told, crossed>>
Sound == INSTANCE Supervisor WITH pl <- sound, pc <- turn
ASSUME Sound!SupervisorConstants

InSlot  == part = "slot"
InSound == part = "sound"
\* The kind of audio host is chosen for the part explored only.
MCInit == /\ Init /\ Sound!Init /\ part \in {"slot", "sound"}
          /\ IF InSlot THEN sound = Boot(FALSE) ELSE pl = Boot(FALSE)
MCNext == /\ \/ InSlot /\ Next /\ (messages + turns)' <= MaxSteps /\ UNCHANGED soundVars
             \/ InSound /\ Sound!Next /\ UNCHANGED vars
          /\ UNCHANGED part

\* The fairness of each, where it is explored.
SlotFairness ==
  /\ \A c \in Connections : WF_vars(InSlot /\ Serves(c)) /\ WF_vars(InSlot /\ Supervises(c))
  /\ SF_vars(InSlot /\ \E c \in Connections : Grace(c))
SoundFairness ==
  /\ WF_soundVars(InSound /\ Sound!Turn) /\ WF_soundVars(InSound /\ Sound!Answer)
  /\ SF_soundVars(InSound /\ Sound!SeeOutput) /\ SF_soundVars(InSound /\ Sound!ProbeInput)
  /\ SF_soundVars(InSound /\ Sound!Repair)
MCSpec == /\ MCInit /\ [][MCNext]_<<vars, soundVars, part>> /\ SlotFairness /\ SoundFairness

\* Of the supervisor: whatever is lost, reopened and lost again, once the events are
\* sent the browser has been told of exactly the losses the session knows.
ToldTruth == Sound!ToldTruth
\* Of the supervisor: an input that is back is declared back, it delivers again, and an
\* output noted as lost is opened again, however the repairs fail on the way.  (An output
\* left closed by a reopening that failed is not noted as lost: see Supervisor.)
SoundReturns == Sound!LossesEnd /\ Sound!SoundReturns
\* Of the clients: one that was displaced leaves, and a driver kept warm by a session that
\* ended is let go.
NothingIsLost == NothingLingers /\ SoundReturns
==============================================================================
