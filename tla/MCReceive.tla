------------------------------ MODULE MCReceive ------------------------------
(***************************************************************************)
(* What a received stream goes through before it is heard, in one run: the *)
(* life of the receive thread and of its streams (RecvThread), the buffer  *)
(* (JitterBuffer), under all that its three threads may do to it, and the  *)
(* inventions of the receive thread (Concealment), which know of the       *)
(* buffer its fill, its priming and its hole.  Each is explored while the  *)
(* others rest, every interleaving within it included.                     *)
(***************************************************************************)
EXTENDS JitterBuffer

CONSTANTS Streams, None, FRAME, STALE, MAX_CONSECUTIVE, PLC_MAX_GAP, Tails, BLOCK, WAKE_SLACK,
          TARGET, STREAM_CAPACITY, MaxGap, MaxPackets, DecodeMayFail
VARIABLES socket, sent, started, deadline, check, consecutive, tail, unclassified, held, playing,
          hole, pc, ready, left, inventing, run, longest, untold
CONSTANTS Producers, MAX_RECV_STREAMS, PollMayFail, MaxEpoch, MaxSent, MaxErrors
VARIABLES registered, epoch, handle, job, queue, closed, alive, loop_pc, reading, live, paused,
          errors, states, mixer, inbox, armed, signalled, packets, faults
VARIABLE part  \* the one that is explored

threadVars == <<socket, sent, started, deadline, check, consecutive, tail, unclassified, held,
                playing, hole, pc, ready, left, inventing, run, longest, untold>>
Thread == INSTANCE Concealment
            WITH CAPACITY <- STREAM_CAPACITY, fill <- held, primed <- playing, pending <- unclassified
Life == INSTANCE RecvThread WITH pc <- loop_pc, ready <- reading, MaxPackets <- MaxSent
lifeVars == <<registered, epoch, handle, job, queue, closed, alive, loop_pc, reading, live, paused,
              errors, states, mixer, inbox, armed, signalled, packets, faults>>
ASSUME ReceiveConstants == Thread!ConcealConstants /\ Life!RecvConstants

InBuffer == part = "buffer"
InThread == part = "thread"
InLife   == part = "life"
MCInit == /\ Init /\ Thread!Init /\ Life!Init
          /\ part \in {"buffer", "thread", "life"} /\ (part # "buffer" => ~local)
MCNext == /\ \/ InBuffer /\ Next /\ UNCHANGED <<threadVars, lifeVars>>
             \/ InThread /\ Thread!Next /\ UNCHANGED <<vars, lifeVars>>
             \/ InLife /\ Life!Next /\ UNCHANGED <<vars, threadVars>>
          /\ UNCHANGED part

\* The fairness of each, where it is explored.
BufferFairness ==
  /\ WF_vars(InBuffer /\ \E n \in Frames : Push(n))
  /\ \A n \in Blocks : WF_vars(InBuffer /\ Pull(n))
  /\ WF_vars(InBuffer /\ Elapse)
ThreadFairness ==
  /\ SF_threadVars(InThread /\ Thread!Tick)
  /\ \A s \in Streams :
       /\ WF_threadVars(InThread /\ Thread!ReadAgain(s)) /\ WF_threadVars(InThread /\ Thread!WouldBlock(s))
       /\ WF_threadVars(InThread /\ Thread!Examine(s)) /\ WF_threadVars(InThread /\ Thread!Invent(s))
  /\ WF_threadVars(InThread /\ Thread!Select) /\ WF_threadVars(InThread /\ Thread!BeginConceal)
  /\ WF_threadVars(InThread /\ Thread!EndConceal)
LifeFairness ==
  /\ WF_lifeVars(InLife /\ Life!Thread)
  /\ \A e \in Life!Epochs : SF_lifeVars(InLife /\ \E over \in SUBSET paused :
                                           (\E s \in over : s.epoch = e) /\ Life!Retry(over))
  /\ WF_lifeVars(InLife /\ \E p \in Producers : Life!TeardownStream(p))
  /\ WF_lifeVars(InLife /\ Life!CloseQueue) /\ WF_lifeVars(InLife /\ Life!Join)

MCSpec == /\ MCInit /\ [][MCNext]_<<vars, threadVars, lifeVars, part>>
          /\ BufferFairness /\ ThreadFairness /\ LifeFairness

\* Of the thread: no more frames are invented in a row than the buffer was promised, and
\* every hole of the output is classified, once.
Concealed == Thread!InventionBounded /\ Thread!HolesAccounted
\* Of the streams: no peer stays in the mixer that the thread does not receive, none
\* outlives the thread, and one generation of it is there at a time.
NoGhost == Life!NoGhost
\* A stream that fell silent no longer wakes the thread, a packet in the socket of a stream
\* that stays is read, and the end of a session is never stuck on the thread it joins.
ThreadServes == Thread!SilentStreamSleeps /\ Life!EveryPacketIsRead /\ Life!TeardownEnds
\* Of the buffer: latency learnt from holes, or piled up, is given back after a calm.
AllServed == LatencyReturns /\ ThreadServes
==============================================================================
