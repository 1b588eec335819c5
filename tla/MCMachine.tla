------------------------------ MODULE MCMachine ------------------------------
(***************************************************************************)
(* The musician's machine in one run: the ASIO driver (AsioHost), the size *)
(* of the audio buffers (BufferBackoff) and the measures that cut a plugin *)
(* (Measures).  An opening is any result in those that hear of it: each is *)
(* explored while the others rest, every interleaving within it included.  *)
(***************************************************************************)
EXTENDS AsioHost

CONSTANTS EscalateAt, MaxConnections, MaxFailures, Loops, MaxOps
VARIABLES target, request, size, in_session, kept, pressure, session_active, repairing, connections,
          failures
VARIABLES link, refused, heavy, loud, foreign, handle, info, bypass, auto, op, asked, lock, pc, seen,
          first, runaway, alerted, told_twice
VARIABLE part  \* the one that is explored

sizeVars    == <<target, request, size, in_session, kept, pressure, session_active, repairing,
                 connections, failures>>
measureVars == <<link, refused, heavy, loud, foreign, handle, info, bypass, auto, op, asked, lock, pc,
                 seen, first, runaway, alerted, told_twice>>
Sizes    == INSTANCE BufferBackoff WITH capturing <- in_session, warm <- kept
Measured == INSTANCE Measures WITH twice <- told_twice
ASSUME MachineConstants == Sizes!BackoffConstants /\ Measured!MeasuresConstants

InDriver == part = "driver" /\ ~twice
InSizes  == part = "sizes"
MCInit == Init /\ Sizes!Init /\ Measured!Init /\ part \in {"driver", "sizes", "measures"}
MCNext == /\ \/ InDriver /\ Next /\ UNCHANGED <<sizeVars, measureVars>>
             \/ InSizes /\ Sizes!Next /\ UNCHANGED <<vars, measureVars>>
             \/ part = "measures" /\ Measured!Next /\ UNCHANGED <<vars, sizeVars>>
          /\ UNCHANGED part

\* The fairness of each, where it is explored.
Fairness ==
  /\ SF_vars(InDriver /\ ComThread) /\ WF_vars(InDriver /\ SwitchOver) /\ WF_vars(InDriver /\ Send)
  /\ WF_vars(InDriver /\ Recycled) /\ SF_vars(InDriver /\ SendList)
  /\ WF_sizeVars(InSizes /\ Sizes!Supervisor)
MCSpec == MCInit /\ [][MCNext]_<<vars, sizeVars, measureVars, part>> /\ Fairness

\* Of the driver: a call on it returns; of the buffers: a change of size asked for in a
\* session that goes on is made (ws_server.rs:2910).
MachineServes == CallsReturn /\ Sizes!BackoffServed
\* Of the measures: none is judged that is of before the client, and a cut is told once
\* until it is acknowledged (ws_server.rs:1371, protocol.rs:1031).
JudgedFresh == Measured!JudgedFresh /\ Measured!AlertedOnce
==============================================================================
