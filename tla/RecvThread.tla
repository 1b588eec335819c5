------------------------------ MODULE RecvThread ------------------------------
(***************************************************************************)
(* The life of the received streams: PipelineState::add_stream,            *)
(* remove_stream and teardown_session (jamodio-agent/src/pipeline.rs) on   *)
(* one side, the receive thread on the other (pipeline/recv_thread.rs),    *)
(* and between them a queue of commands.  The thread owns the sockets, the *)
(* decoding states and, for the peers, the mixer.                          *)
(*                                                                         *)
(* A stream is a producer and a generation (epoch): one per add_stream.    *)
(* The sockets are watched on edges (mio): after a signal, the system owes *)
(* no other one until a read has found the socket empty.                   *)
(***************************************************************************)
EXTENDS Integers, Sequences, FiniteSets

CONSTANTS
  Producers,
  MAX_RECV_STREAMS,
  PollMayFail,   \* waiting on the sockets may fail
  MaxEpoch,      \* bound: streams ever added
  MaxPackets,    \* bound: packets sent
  MaxErrors      \* bound: reads that fail

RecvConstants ==
  /\ MAX_RECV_STREAMS \in Nat \ {0} /\ PollMayFail \in BOOLEAN
  /\ MaxEpoch \in Nat \ {0} /\ MaxPackets \in Nat /\ MaxErrors \in Nat

VARIABLES
  registered,  \* recv_streams: the generation of each producer, 0 for none
  epoch,       \* recv_epoch
  handle,      \* recv_thread is Some
  job,         \* what the control thread is doing
  queue,       \* the commands not yet received
  closed,      \* the sending end was dropped
  alive,       \* the receive thread runs
  pc,          \* where it is in its loop
  ready,       \* the sockets it is reading
  live,        \* the streams it has registered with the system
  paused,      \* the streams with a retry_at
  errors,      \* consecutive_errors of each generation
  states,      \* RxCore.states: the generation decoded for each producer, 0 for none
  mixer,       \* the generation whose cell is in the mixer, 0 for none
  inbox,       \* packets in the socket of each generation
  armed,       \* sockets whose next packet will be signalled
  signalled,   \* signals not yet taken by the thread
  packets,     \* packets sent so far
  faults       \* reads that failed so far

controlVars == <<registered, epoch, handle, job, closed>>
loopVars    == <<alive, pc, ready, live, paused, errors>>
coreVars    == <<states, mixer>>
systemVars  == <<inbox, armed, signalled, packets, faults>>
vars == <<controlVars, queue, loopVars, coreVars, systemVars>>

Epochs  == 1 .. MaxEpoch
Stream  == [producer: Producers, epoch: Epochs]
Add(s)    == [cmd |-> "Add", stream |-> s]
Remove(s) == [cmd |-> "Remove", stream |-> s]
Command == {Add(s) : s \in Stream} \cup {Remove(s) : s \in Stream}
Queued  == {queue[i] : i \in DOMAIN queue}

Nobody == [p \in Producers |-> 0]
Wanted(p) == [producer |-> p, epoch |-> registered[p]]

Init ==
  /\ registered = Nobody /\ epoch = 0 /\ handle = FALSE /\ job = <<"idle">>
  /\ queue = <<>> /\ closed = FALSE
  /\ alive = FALSE /\ pc = "poll" /\ ready = {} /\ live = {} /\ paused = {}
  /\ errors = [e \in Epochs |-> 0]
  /\ states = Nobody /\ mixer = Nobody
  /\ inbox = [e \in Epochs |-> 0] /\ armed = {} /\ signalled = {}
  /\ packets = 0 /\ faults = 0

-----------------------------------------------------------------------------
\* The control thread, under the pipeline's lock.

\* RecvThread::send: the failure of a send is ignored.
Sent(q, c) == IF alive THEN Append(q, c) ELSE q

\* PipelineState::remove_stream
Unregister(p) ==
  /\ registered' = [registered EXCEPT ![p] = 0]
  /\ queue' = IF registered[p] # 0 /\ handle THEN Sent(queue, Remove(Wanted(p))) ELSE queue

RemoveStream(p) ==
  /\ job = <<"idle">>
  /\ registered[p] # 0
  /\ Unregister(p)
  /\ UNCHANGED <<epoch, handle, job, closed, loopVars, coreVars, systemVars>>

\* add_stream starts with the removal of the producer's former stream.
BeginAdd(p) ==
  /\ job = <<"idle">> /\ epoch < MaxEpoch
  /\ job' = <<"add", p>>
  /\ Unregister(p)
  /\ UNCHANGED <<epoch, handle, closed, loopVars, coreVars, systemVars>>

\* check_recv_capacity
HasCapacity(current) == current < MAX_RECV_STREAMS
Received == {q \in Producers : registered[q] # 0}

\* add_stream, refused: too many streams, a bad address or key, no socket, no
\* thread.  Nothing of it remains.
RefuseAdd ==
  /\ job[1] = "add"
  /\ job' = <<"idle">>
  /\ UNCHANGED <<registered, epoch, handle, closed, queue, loopVars, coreVars, systemVars>>

\* add_stream: the thread is started with the first stream.  Whether the output
\* opens afterwards decides what the browser is told, not what is registered here.
FinishAdd(p) ==
  /\ job = <<"add", p>> /\ HasCapacity(Cardinality(Received))
  /\ job' = <<"idle">>
  /\ epoch' = epoch + 1
  /\ registered' = [registered EXCEPT ![p] = epoch + 1]
  /\ LET add == Add([producer |-> p, epoch |-> epoch + 1])
     IN IF handle
        THEN /\ queue' = Sent(queue, add)
             /\ UNCHANGED <<handle, alive, pc>>
        ELSE /\ handle' = TRUE /\ alive' = TRUE /\ pc' = "poll"
             /\ queue' = <<add>>
  /\ UNCHANGED <<closed, ready, live, paused, errors, coreVars, systemVars>>

\* teardown_session(false): each stream is removed...
BeginTeardown ==
  /\ job = <<"idle">> /\ (handle \/ Received # {})
  /\ job' = <<"teardown">>
  /\ UNCHANGED <<registered, epoch, handle, closed, queue, loopVars, coreVars, systemVars>>
TeardownStream(p) ==
  /\ job = <<"teardown">> /\ registered[p] # 0
  /\ Unregister(p)
  /\ UNCHANGED <<epoch, handle, job, closed, loopVars, coreVars, systemVars>>

\* ...then RecvThread::shutdown: the sending end is dropped, the thread is joined.
CloseQueue ==
  /\ job = <<"teardown">> /\ Received = {}
  /\ IF handle THEN job' = <<"join">> /\ closed' = TRUE
               ELSE job' = <<"idle">> /\ UNCHANGED closed
  /\ UNCHANGED <<registered, epoch, handle, queue, loopVars, coreVars, systemVars>>
Join ==
  /\ job = <<"join">> /\ ~alive
  /\ job' = <<"idle">> /\ closed' = FALSE /\ handle' = FALSE
  /\ UNCHANGED <<registered, epoch, queue, loopVars, coreVars, systemVars>>

Control ==
  \/ \E p \in Producers : RemoveStream(p) \/ BeginAdd(p) \/ FinishAdd(p) \/ TeardownStream(p)
  \/ RefuseAdd \/ BeginTeardown \/ CloseQueue \/ Join

-----------------------------------------------------------------------------
\* The network and the system.  A socket exists from add_stream on; a socket that
\* is not armed may be signalled all the same (kqueue does, IOCP does not).
Bound == live \cup {c.stream : c \in {d \in Queued : d.cmd = "Add"}}

Arrive(s) ==
  /\ s \in Bound /\ packets < MaxPackets
  /\ packets' = packets + 1
  /\ inbox' = [inbox EXCEPT ![s.epoch] = @ + 1]
  /\ armed' = armed \ {s}
  /\ signalled' \in IF s \in armed THEN {signalled \cup {s}}
                    ELSE {signalled} \cup (IF s \in live THEN {signalled \cup {s}} ELSE {})
  /\ UNCHANGED <<faults, controlVars, queue, loopVars, coreVars>>

-----------------------------------------------------------------------------
\* The receive thread: recv_loop.

At(label) == alive /\ pc = label

\* poll.poll, 1: the signals of paused streams are dropped, their retry will read.
Wake ==
  /\ At("poll")
  /\ pc' = "read"
  /\ ready' = signalled \ paused
  /\ signalled' = {}
  /\ UNCHANGED <<alive, live, paused, errors, inbox, armed, packets, faults, controlVars, queue,
                 coreVars>>

\* RxCore::on_packet: a generation older than the decoded one is ignored, a newer
\* one takes its place.  A decoder that cannot be created leaves no state.
OnPacket(s) ==
  LET p == s.producer
  IN CASE states[p] >= s.epoch -> UNCHANGED coreVars
       [] states[p] < s.epoch ->
            \/ /\ states' = [states EXCEPT ![p] = s.epoch]
               /\ mixer' = [mixer EXCEPT ![p] = s.epoch]
            \/ /\ mixer' = IF states[p] # 0 THEN [mixer EXCEPT ![p] = 0] ELSE mixer
               /\ UNCHANGED states

\* read_one: a packet, or a datagram that is not for us (RTCP, SRTP failure).
ReadPacket(s) ==
  /\ inbox[s.epoch] > 0
  /\ inbox' = [inbox EXCEPT ![s.epoch] = @ - 1]
  /\ \/ OnPacket(s) /\ errors' = [errors EXCEPT ![s.epoch] = 0]
     \/ UNCHANGED <<coreVars, errors>>
  /\ UNCHANGED <<alive, pc, ready, live, paused, armed, signalled, packets, faults>>

\* read_one: WouldBlock.
ReadEmpty(s) ==
  /\ inbox[s.epoch] = 0
  /\ ready' = ready \ {s}
  /\ armed' = armed \cup {s}
  /\ UNCHANGED <<alive, pc, live, paused, errors, coreVars, inbox, signalled, packets, faults>>

\* recv_error_backoff: the first error costs nothing, the next ones pause the stream.
Backoff(s) ==
  IF errors[s.epoch] = 0 THEN UNCHANGED <<ready, paused>>
  ELSE ready' = ready \ {s} /\ paused' = paused \cup {s}

ReadError(s) ==
  /\ faults < MaxErrors
  /\ faults' = faults + 1
  /\ errors' = [errors EXCEPT ![s.epoch] = @ + 1]
  /\ Backoff(s)
  /\ UNCHANGED <<alive, pc, live, coreVars, inbox, armed, signalled, packets>>

ReadOne(s) ==
  /\ alive /\ s \in ready
  /\ ReadPacket(s) \/ ReadEmpty(s) \/ ReadError(s)
  /\ UNCHANGED <<controlVars, queue>>

\* A wrong form of the rule below: the mixer keeps its cell.
StateRemoved(gone) ==
  /\ states' = [p \in Producers |-> IF [producer |-> p, epoch |-> states[p]] \in gone THEN 0
                                    ELSE states[p]]
  /\ UNCHANGED mixer

\* RxCore::remove: only the generation that is decoded.
CoreRemoved(gone) ==
  LET ended == {p \in Producers : [producer |-> p, epoch |-> states[p]] \in gone}
  IN /\ states' = [p \in Producers |-> IF p \in ended THEN 0 ELSE states[p]]
     /\ mixer' = [p \in Producers |-> IF p \in ended THEN 0 ELSE mixer[p]]

\* 2. The commands.
BeginCommands ==
  /\ At("read") /\ ready = {}
  /\ pc' = "commands"
  /\ UNCHANGED <<alive, ready, live, paused, errors, controlVars, queue, coreVars, systemVars>>

\* A socket the system refuses to watch is dropped with its stream.
HandleAdd ==
  /\ At("commands") /\ queue # <<>> /\ Head(queue).cmd = "Add"
  /\ queue' = Tail(queue)
  /\ LET s == Head(queue).stream
     IN \/ /\ live' = live \cup {s}
           /\ IF inbox[s.epoch] > 0 THEN signalled' = signalled \cup {s} /\ UNCHANGED armed
                                    ELSE armed' = armed \cup {s} /\ UNCHANGED signalled
        \/ UNCHANGED <<live, armed, signalled>>
  /\ UNCHANGED <<alive, pc, ready, paused, errors, inbox, packets, faults, controlVars, coreVars>>

\* remove: the socket first, then the state and the mixer's cell.
HandleRemove ==
  /\ At("commands") /\ queue # <<>> /\ Head(queue).cmd = "Remove"
  /\ queue' = Tail(queue)
  /\ LET gone == {Head(queue).stream} \cap live
     IN /\ live' = live \ gone
        /\ paused' = paused \ gone
        /\ armed' = armed \ gone /\ signalled' = signalled \ gone
        /\ CoreRemoved(gone)
  /\ UNCHANGED <<alive, pc, ready, errors, inbox, packets, faults, controlVars>>

\* The thread's end: what it still holds is dropped, Drop for RxCore included.
Ended ==
  /\ alive' = FALSE
  /\ pc' = "poll"
  /\ ready' = {} /\ live' = {} /\ paused' = {} /\ armed' = {} /\ signalled' = {}
  /\ queue' = <<>>
  /\ mixer' = [p \in Producers |-> IF states[p] # 0 THEN 0 ELSE mixer[p]]
  /\ states' = Nobody
  /\ UNCHANGED <<errors, inbox, packets, faults, controlVars>>

\* The queue is drained and its sending end is gone.
Stop     == At("commands") /\ queue = <<>> /\ closed /\ Ended
PollFail == At("poll") /\ PollMayFail /\ Ended

\* 3. The streams whose pause is over are read.
Retry(over) ==
  /\ At("commands") /\ queue = <<>> /\ ~closed
  /\ pc' = "retry"
  /\ paused' = paused \ over
  /\ ready' = over
  /\ UNCHANGED <<alive, live, errors, controlVars, queue, coreVars, systemVars>>

\* 4. conceal_pass reads again the streams that are due, but for the paused ones.
Reread(due) ==
  /\ At("retry") /\ ready = {}
  /\ pc' = "conceal"
  /\ ready' = due \ paused
  /\ UNCHANGED <<alive, live, paused, errors, controlVars, queue, coreVars, systemVars>>
EndTurn ==
  /\ At("conceal") /\ ready = {}
  /\ pc' = "poll"
  /\ UNCHANGED <<alive, ready, live, paused, errors, controlVars, queue, coreVars, systemVars>>

Thread ==
  \/ Wake \/ BeginCommands \/ HandleAdd \/ HandleRemove \/ Stop \/ EndTurn
  \/ \E s \in ready : ReadOne(s)
  \/ \E over \in SUBSET paused : Retry(over)
  \/ \E due \in SUBSET live : Reread(due)

Next == Control \/ Thread \/ PollFail \/ \E s \in Bound : Arrive(s)

Spec == Init /\ [][Next]_vars

\* The thread runs (a paused stream is retried within 10 ms, whatever else happens)
\* and the control thread finishes the teardown it began.
FairSpec ==
  /\ Spec
  /\ WF_vars(Thread)
  /\ \A e \in Epochs : SF_vars(\E over \in SUBSET paused :
                                 (\E s \in over : s.epoch = e) /\ Retry(over))
  /\ WF_vars(\E p \in Producers : TeardownStream(p)) /\ WF_vars(CloseQueue) /\ WF_vars(Join)

-----------------------------------------------------------------------------
\* Every variable has its type; the thread never outlives its handle, and what is
\* said of a stream (a pause, a signal) goes with it.
TypeOK ==
  /\ registered \in [Producers -> 0 .. epoch] /\ epoch \in 0 .. MaxEpoch
  /\ handle \in BOOLEAN /\ closed \in BOOLEAN
  /\ job \in {<<"idle">>, <<"teardown">>, <<"join">>} \cup {<<"add", p>> : p \in Producers}
  /\ queue \in Seq(Command)
  /\ alive \in BOOLEAN /\ (alive => handle)
  /\ pc \in {"poll", "read", "commands", "retry", "conceal"}
  /\ live \subseteq Stream /\ ready \subseteq live /\ paused \subseteq live
  /\ armed \subseteq live /\ signalled \subseteq live
  /\ errors \in [Epochs -> Nat] /\ inbox \in [Epochs -> Nat]
  /\ states \in [Producers -> 0 .. MaxEpoch] /\ mixer \in [Producers -> 0 .. MaxEpoch]
  /\ packets \in 0 .. MaxPackets /\ faults \in 0 .. MaxErrors

\* A packet of an old generation can never meet a newer state: "impossible tant que
\* le retrait d'un flux passe avant l'ajout du suivant, ce que garantit l'ordre des
\* commandes du fil" (pipeline.rs:5531).  The thread never holds two generations of
\* a producer, however the browser repeats add-stream.
OneGeneration == \A s, t \in live : s.producer = t.producer => s = t

\* No ghost: a peer in the mixer is one the thread still receives, and a stream the
\* thread receives is one the browser asked for, unless its removal is on its way
\* (recv_thread.rs:29 "rien ne peut suivre son dernier paquet").  Nothing outlives the
\* thread, asked to end or not ("aucun pair ne reste dans le mixer", pipeline.rs:5607).
NoGhost ==
  /\ OneGeneration
  /\ \A p \in Producers : mixer[p] # 0 => /\ mixer[p] = states[p]
                                         /\ [producer |-> p, epoch |-> mixer[p]] \in live
  /\ \A s \in live : s = Wanted(s.producer) \/ Remove(s) \in Queued

\* The end of a session is never stuck on the thread it joins.
TeardownEnds == []<>(job # <<"join">>)

\* A packet in the socket of a stream is read, in spite of errors, pauses, signals
\* dropped and other streams added and removed.
Waits(e) == inbox[e] > 0 /\ \E s \in live : s.epoch = e
EveryPacketIsRead == \A e \in Epochs : []<>~Waits(e)
=============================================================================
