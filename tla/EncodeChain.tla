----------------------------- MODULE EncodeChain -----------------------------
(***************************************************************************)
(* From the sound card to the SFU (jamodio-agent/src/pipeline.rs): the     *)
(* callback pushes blocks into the capture channel; a capture starts an    *)
(* encoder thread, which starts three stages -- capture, process, encode   *)
(* -- joined by bounded queues and waits for the order to stop.            *)
(*                                                                         *)
(* teardown_session gives that order and does not wait: the chain of a     *)
(* former capture may still run when the next one starts, and under ASIO   *)
(* both read the same channel, which a driver kept warm feeds.             *)
(*                                                                         *)
(* What is done to the sound (remap, plugin, gain, Opus) is left out: a    *)
(* block is the number of its capture.                                     *)
(***************************************************************************)
EXTENDS Naturals, Sequences, FiniteSets

CONSTANTS
  Hosts,                   \* TRUE: ASIO, whose driver and channel outlive a session
  CHANNEL_CAPACITY,        \* of the capture channel (64)
  STAGE_CHANNEL_CAPACITY,  \* of a queue between two stages (32)
  MaxCaptures,             \* bound: sessions
  MaxBlocks                \* bound: blocks captured

ASSUME ChainConstants ==
  /\ Hosts \subseteq BOOLEAN /\ MaxCaptures \in Nat /\ MaxBlocks \in Nat
  /\ CHANNEL_CAPACITY \in Nat \ {0} /\ STAGE_CHANNEL_CAPACITY \in Nat \ {0}

Captures == 1..MaxCaptures
Blocks   == 1..MaxBlocks
Stages   == {"capture", "process", "encode"}
Before(s) == CASE s = "process" -> "capture" [] s = "encode" -> "process"
After(s)  == CASE s = "capture" -> "process" [] s = "process" -> "encode"

VARIABLES
  asio,       \* the host found when the program starts
  captures,   \* sessions started so far; the last is the present one
  running,    \* state = Capturing
  feeding,    \* capture_feeding
  blocks,     \* blocks captured so far
  passing,    \* the block whose callback tested the gate and has not pushed it yet (0: none)
  channel,    \* the capture channels: blocks waiting in each, one per opening of the card
  open,       \* channels whose sender still exists
  source,     \* the channel each chain reads
  asked,      \* chains whose stop was sent
  stopFlag,   \* stop_flag of each chain
  encoder,    \* where each encoder thread is
  pc,         \* where each stage is
  inbox,      \* blocks between two stages, kept with the one that reads
  held,       \* the block a stage works on (0: none)
  sent,       \* history: what each chain sent
  birth,      \* history: the session each block was captured in
  stray,      \* history: the block that was passing when each chain began (0: none)
  extra       \* history: blocks a stage took up after stop_flag

sessionVars == <<captures, running, feeding, source, open>>
cardVars    == <<blocks, passing>>
chainVars   == <<asked, stopFlag, encoder, pc, inbox, held>>
histVars    == <<sent, birth, stray, extra>>
vars == <<asio, sessionVars, cardVars, channel, chainVars, histVars>>

TypeOK ==
  /\ asio \in BOOLEAN /\ captures \in 0..MaxCaptures /\ blocks \in 0..MaxBlocks
  /\ running \in BOOLEAN /\ feeding \in BOOLEAN /\ open \subseteq Captures
  /\ passing \in 0..MaxBlocks /\ stray \in [Captures -> 0..MaxBlocks]
  /\ source \in [Captures -> 0..MaxCaptures]
  /\ asked \in [Captures -> BOOLEAN] /\ stopFlag \in [Captures -> BOOLEAN]
  /\ encoder \in [Captures -> {"unborn", "launch", "waits", "joins", "ended"}]
  /\ pc \in [Captures -> [Stages -> {"unborn", "wait", "push", "ended"}]]
  /\ held \in [Captures -> [Stages -> 0..MaxBlocks]]
  /\ \A g \in Captures : /\ Len(channel[g]) <= CHANNEL_CAPACITY
                         /\ \A s \in Stages : Len(inbox[g][s]) <= STAGE_CHANNEL_CAPACITY

Everywhere(v) == [g \in Captures |-> [s \in Stages |-> v]]

Init ==
  /\ asio \in Hosts /\ captures = 0 /\ running = FALSE /\ feeding = FALSE /\ blocks = 0 /\ passing = 0
  /\ channel = [c \in Captures |-> <<>>] /\ open = {} /\ source = [g \in Captures |-> 0]
  /\ asked = [g \in Captures |-> FALSE] /\ stopFlag = [g \in Captures |-> FALSE]
  /\ encoder = [g \in Captures |-> "unborn"]
  /\ pc = Everywhere("unborn") /\ inbox = Everywhere(<<>>) /\ held = Everywhere(0)
  /\ sent = [g \in Captures |-> <<>>] /\ birth = [n \in Blocks |-> 0]
  /\ stray = [g \in Captures |-> 0] /\ extra = Everywhere(0)

-----------------------------------------------------------------------------
\* The session.

\* prepare_audio_for_session finds a warm driver: its channel is emptied first.
\* (First a wrong form: it is read as it is.)
ReusedAsIs(c) == channel
Drained(c) == [channel EXCEPT ![c] = <<>>]

\* start_capture: the channel of the warm driver, or one of its own; then the
\* encoder thread.  A card that is closed first waits for its callback.
Start ==
  /\ ~running /\ captures < MaxCaptures
  /\ LET g == captures + 1
     IN /\ captures' = g
        /\ encoder' = [encoder EXCEPT ![g] = "launch"]
        /\ stray' = [stray EXCEPT ![g] = passing]
        /\ \/ \E c \in open : asio /\ channel' = Drained(c) /\ source' = [source EXCEPT ![g] = c]
                              /\ UNCHANGED open
           \/ passing = 0 /\ open' = {g} /\ source' = [source EXCEPT ![g] = g] /\ UNCHANGED channel
  /\ running' = TRUE
  /\ UNCHANGED <<asio, feeding, cardVars, asked, stopFlag, pc, inbox, held, sent, birth, extra>>

\* start_capture, after the thread was spawned: the callback may push.
Feed ==
  /\ running /\ ~feeding /\ feeding' = TRUE
  /\ UNCHANGED <<asio, captures, running, source, open, cardVars, channel, chainVars, histVars>>

\* teardown_session: the gate is shut, the stop is sent, nothing is waited for.
\* The driver is kept warm or, always outside ASIO, closed (it waits for its
\* callback): the channel loses its sender.
Stop ==
  /\ running /\ feeding
  /\ running' = FALSE /\ feeding' = FALSE
  /\ asked' = [asked EXCEPT ![captures] = TRUE]
  /\ \/ asio /\ UNCHANGED open
     \/ passing = 0 /\ open' = {}
  /\ UNCHANGED <<asio, captures, source, cardVars, channel, stopFlag, encoder, pc, inbox, held,
                 histVars>>

\* The callback of the card (forward_samples): first the gate...
TestGate ==
  /\ feeding /\ open # {} /\ passing = 0 /\ blocks < MaxBlocks
  /\ blocks' = blocks + 1 /\ passing' = blocks + 1
  /\ birth' = [birth EXCEPT ![blocks + 1] = captures]
  /\ UNCHANGED <<asio, sessionVars, channel, chainVars, sent, stray, extra>>

\* ...then the channel, whatever happened to the gate meanwhile; a block is
\* thrown away (and counted) when the channel is full.
TrySend ==
  /\ passing # 0 /\ passing' = 0
  /\ \E c \in open :
       channel' = [channel EXCEPT ![c] = IF Len(@) < CHANNEL_CAPACITY THEN Append(@, passing) ELSE @]
  /\ UNCHANGED <<asio, sessionVars, blocks, chainVars, histVars>>

-----------------------------------------------------------------------------
\* The encoder thread.

\* It starts the stages one after the other; if one cannot be started, those
\* before it are stopped.  The encode stage ends at once without an Opus encoder.
Launch(g) ==
  /\ encoder[g] = "launch"
  /\ \E started \in SUBSET Stages, opus \in BOOLEAN :
       /\ "encode" \in started => "process" \in started
       /\ "process" \in started => "capture" \in started
       /\ pc' = [pc EXCEPT ![g] = [s \in Stages |->
                   IF s \notin started \/ (s = "encode" /\ ~opus) THEN "ended" ELSE "wait"]]
       /\ stopFlag' = [stopFlag EXCEPT ![g] = started # Stages]
       /\ encoder' = [encoder EXCEPT ![g] = IF started = Stages THEN "waits" ELSE "joins"]
  /\ UNCHANGED <<asio, sessionVars, cardVars, channel, asked, inbox, held, histVars>>

ObeyStop(g) ==
  /\ encoder[g] = "waits" /\ asked[g]
  /\ encoder' = [encoder EXCEPT ![g] = "joins"]
  /\ stopFlag' = [stopFlag EXCEPT ![g] = TRUE]
  /\ UNCHANGED <<asio, sessionVars, cardVars, channel, asked, pc, inbox, held, histVars>>

Join(g) ==
  /\ encoder[g] = "joins" /\ \A s \in Stages : pc[g][s] = "ended"
  /\ encoder' = [encoder EXCEPT ![g] = "ended"]
  /\ UNCHANGED <<asio, sessionVars, cardVars, channel, asked, stopFlag, pc, inbox, held, histVars>>

-----------------------------------------------------------------------------
\* A stage: capture_stage_loop, process_stage_loop or encode_stage_loop.

Pending(g, s) == IF s = "capture" THEN channel[source[g]] ELSE inbox[g][s]
\* Nobody can push into what the stage reads any more.
Orphan(g, s) ==
  IF s = "capture" THEN source[g] \notin open ELSE pc[g][Before(s)] = "ended"
Goes(g, s, where) == pc' = [pc EXCEPT ![g][s] = where]

\* Back at the head of its loop a stage tests the flag, before anything that waits.
HeadOfLoop(g, s) == IF stopFlag[g] THEN "ended" ELSE "wait"

\* A block comes out of the queue.  (First a wrong form: the newest.)
TakeNewest(queue) == <<queue[Len(queue)], SubSeq(queue, 1, Len(queue) - 1)>>
TakeOldest(queue) == <<Head(queue), Tail(queue)>>
Take(g, s) ==
  /\ pc[g][s] = "wait" /\ Pending(g, s) # <<>>
  /\ LET taken == TakeOldest(Pending(g, s))
     IN /\ held' = [held EXCEPT ![g][s] = taken[1]]
        /\ IF s = "capture"
           THEN channel' = [channel EXCEPT ![source[g]] = taken[2]] /\ UNCHANGED inbox
           ELSE inbox' = [inbox EXCEPT ![g][s] = taken[2]] /\ UNCHANGED channel
  /\ Goes(g, s, "push")
  /\ extra' = [extra EXCEPT ![g][s] = IF stopFlag[g] THEN @ + 1 ELSE @]
  /\ UNCHANGED <<asio, sessionVars, cardVars, asked, stopFlag, encoder, sent, birth, stray>>

\* recv_timeout gives up: 100 ms without a block, or nobody left to send one.
GiveUp(g, s) ==
  /\ pc[g][s] = "wait" /\ Pending(g, s) = <<>>
  /\ Goes(g, s, IF Orphan(g, s) THEN "ended" ELSE HeadOfLoop(g, s))
  /\ UNCHANGED <<asio, sessionVars, cardVars, channel, asked, stopFlag, encoder, inbox, held, histVars>>

\* out_tx.send: it waits for room, unless the next stage is gone.
\* (First a wrong form: it waits for room whoever is left.)
WaitForRoom(g, s) ==
  /\ pc[g][s] = "push"
  /\ Len(inbox[g][After(s)]) < STAGE_CHANNEL_CAPACITY
  /\ inbox' = [inbox EXCEPT ![g][After(s)] = Append(@, held[g][s])]
  /\ Goes(g, s, HeadOfLoop(g, s))
  /\ held' = [held EXCEPT ![g][s] = 0]
  /\ UNCHANGED <<asio, sessionVars, cardVars, channel, asked, stopFlag, encoder, histVars>>
Push(g, s) ==
  /\ pc[g][s] = "push"
  /\ \/ /\ pc[g][After(s)] = "ended"
        /\ Goes(g, s, "ended") /\ UNCHANGED inbox
     \/ /\ pc[g][After(s)] # "ended" /\ Len(inbox[g][After(s)]) < STAGE_CHANNEL_CAPACITY
        /\ inbox' = [inbox EXCEPT ![g][After(s)] = Append(@, held[g][s])]
        /\ Goes(g, s, HeadOfLoop(g, s))
  /\ held' = [held EXCEPT ![g][s] = 0]
  /\ UNCHANGED <<asio, sessionVars, cardVars, channel, asked, stopFlag, encoder, histVars>>

\* The end of encode_stage_loop: the block is encoded and given to the socket,
\* which never makes the thread wait (it may lose the packet, as the network may).
Send(g) ==
  /\ pc[g]["encode"] = "push"
  /\ sent' = [sent EXCEPT ![g] = Append(@, held[g]["encode"])]
  /\ held' = [held EXCEPT ![g]["encode"] = 0]
  /\ Goes(g, "encode", HeadOfLoop(g, "encode"))
  /\ UNCHANGED <<asio, sessionVars, cardVars, channel, asked, stopFlag, encoder, inbox, birth, stray, extra>>

-----------------------------------------------------------------------------
CaptureStage(g) == Take(g, "capture") \/ GiveUp(g, "capture") \/ Push(g, "capture")
ProcessStage(g) == Take(g, "process") \/ GiveUp(g, "process") \/ Push(g, "process")
EncodeStage(g)  == Take(g, "encode") \/ GiveUp(g, "encode") \/ Send(g)
EncoderThread(g) == Launch(g) \/ ObeyStop(g) \/ Join(g)

Next ==
  \/ Start \/ Feed \/ Stop \/ TestGate \/ TrySend
  \/ \E g \in Captures :
       EncoderThread(g) \/ CaptureStage(g) \/ ProcessStage(g) \/ EncodeStage(g)

Spec == Init /\ [][Next]_vars
\* The threads run; nobody has to start, play or stop.
Fairness ==
  \A g \in Captures : /\ WF_vars(EncoderThread(g)) /\ WF_vars(CaptureStage(g))
                      /\ WF_vars(ProcessStage(g)) /\ WF_vars(EncodeStage(g))
FairSpec == Spec /\ Fairness

-----------------------------------------------------------------------------
Ended(g) == encoder[g] = "ended" /\ \A s \in Stages : pc[g][s] = "ended"

\* A chain sends what was captured once, in the order it was captured, whoever
\* else reads the channel.
SentInOrder ==
  /\ \A g \in Captures : \A i, j \in DOMAIN sent[g] : i < j => sent[g][i] < sent[g][j]
  /\ \A g, h \in Captures : \A i \in DOMAIN sent[g], j \in DOMAIN sent[h] :
       sent[g][i] = sent[h][j] => g = h

\* Nothing played in a former session is sent in a later one, save one block: what
\* waits in the channel of a warm driver is thrown away before the new chain reads
\* it, but a callback may hold a block that passed the gate before it was shut.
FromThisSession ==
  \A g \in Captures : \A i \in DOMAIN sent[g] : birth[sent[g][i]] >= g \/ sent[g][i] = stray[g]

\* Once the flag is up no stage takes up more than the block it was waiting for,
\* however many wait in its queue: the sound stops when the musician leaves.
StopsAtOnce == \A g \in Captures, s \in Stages : extra[g][s] <= 1

\* The sound of a session is sent in that session only, but for the block that was
\* passing when it ended: not before what it begins with was thrown away, nor when it
\* is over.
FreshSound == FromThisSession /\ StopsAtOnce

\* A chain that is asked to stop ends, with all its threads, also when a stage
\* could not be started or ended alone, and whatever its queues hold.
ChainEnds == []<>(\A g \in Captures : asked[g] => Ended(g))

\* What the channel of a session accepts is sent, unless the session stops or its
\* chain fails; or an older chain that has not stopped yet takes it, which sharing
\* the channel makes possible.
Stolen(n) == \E g \in Captures : g < birth[n] /\ asked[g]
EveryBlockLeaves ==
  \A n \in Blocks :
    (\E c \in Captures : \E i \in DOMAIN channel[c] : channel[c][i] = n) ~>
      \/ \E g \in Captures : \E i \in DOMAIN sent[g] : sent[g][i] = n
      \/ \E g \in Captures : birth[n] = g /\ (asked[g] \/ pc[g]["encode"] = "ended")
      \/ Stolen(n)

\* The chain never holds what it should pass on, nor itself.
SoundFlows == ChainEnds /\ EveryBlockLeaves
=============================================================================
