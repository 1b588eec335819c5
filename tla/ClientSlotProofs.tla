--------------------------- MODULE ClientSlotProofs ---------------------------
(***************************************************************************)
(* What ClientSlot promises of its connections and of their session, for   *)
(* any number of connections: one browser at most holds the place, nothing *)
(* runs once all have left, and a session is left alone by the others.     *)
(*                                                                         *)
(* The invariant: everything has its type (TypeOK) and an idle session     *)
(* encodes nothing (Sane); those who wait, pause or leave were promoted,   *)
(* and the one that was not asked to leave is the one in the slot          *)
(* (Promotions); the session is empty or somebody is still there to leave  *)
(* it (Looked); a supervisor that acts on a session that has ended was     *)
(* noted when it ended, and so was what such a one feeds (Late); the queue *)
(* holds those who say they wait, once each (Waiting); and one that was    *)
(* displaced while it did nothing leaves before the one that took its      *)
(* place is served (Behind).                                               *)
(***************************************************************************)
EXTENDS ClientSlot, TLAPS

-----------------------------------------------------------------------------
(* The session. *)

\* Nothing encodes and the machine may sleep; a session that may be.
Quiet(p) == ~p.encoder /\ ~p.awake
Sane(p)  == (p.drift => p.asio) /\ (p.state = "Idle" => Quiet(p))

\* One that was left, by all but perhaps a supervisor that acted on it afterwards.
Bare(p)        == ~p.channel /\ ~p.input /\ p.warm = "none" /\ ~p.peers /\ p.voice = "none" /\ ~p.recorder
Empty(p, late) == /\ p.state = "Idle" /\ Quiet(p) /\ (p.feeding => late)
                  /\ ~p.asio => Bare(p) /\ (p.output # "closed" => late)

\* q is p, but for what a supervisor may change outside a stop.
Kin(p, q) ==
  /\ q \in PipelineState /\ q.asio = p.asio /\ q.state = p.state
  /\ q.encoder = p.encoder /\ q.awake = p.awake
  /\ q.channel = p.channel /\ q.warm = p.warm /\ q.peers = p.peers /\ q.voice = p.voice /\ q.recorder = p.recorder
  /\ (q.drift => p.drift \/ p.asio) /\ (q.input => p.input \/ IsCapturing(p))

\* teardown_session stops what a session runs and keeps the rest.
LEMMA TornDownTyped ==
  ASSUME NEW p \in PipelineState
  PROVE  /\ TornDown(p, FALSE) \in PipelineState
         /\ Quiet(TornDown(p, FALSE)) /\ ~TornDown(p, FALSE).feeding
         /\ TornDown(p, FALSE).drift = p.drift
         /\ TornDown(p, FALSE).state = p.state /\ TornDown(p, FALSE).asio = p.asio
<1>1. TornDown(p, FALSE) \in PipelineState
  BY DEF PipelineState, TornDown
<1>2. Quiet(TornDown(p, FALSE)) /\ ~TornDown(p, FALSE).feeding
  BY DEF PipelineState, TornDown, Quiet
<1>3. TornDown(p, FALSE).drift = p.drift /\ TornDown(p, FALSE).state = p.state /\ TornDown(p, FALSE).asio = p.asio
  BY DEF PipelineState, TornDown
<1>4. QED
  BY <1>1, <1>2, <1>3

\* forget changes only what is known of the devices.
LEMMA ForgottenTyped ==
  ASSUME NEW p \in PipelineState
  PROVE  /\ Forgotten(p) \in PipelineState
         /\ Forgotten(p).encoder = p.encoder /\ Forgotten(p).feeding = p.feeding
         /\ Forgotten(p).awake = p.awake /\ Forgotten(p).drift = p.drift
         /\ Forgotten(p).state = p.state /\ Forgotten(p).asio = p.asio
<1>1. Forgotten(p) \in PipelineState
  <2>1. <<>> \in Seq(DeviceEvent)
    OBVIOUS
  <2>2. QED
    BY <2>1 DEF PipelineState, Forgotten
<1>2. QED
  BY <1>1 DEF PipelineState, Forgotten

\* Two sessions with the same fields are the same.
LEMMA SameFields ==
  ASSUME NEW p \in PipelineState, NEW q \in PipelineState,
         p.state = q.state, p.asio = q.asio, p.encoder = q.encoder, p.channel = q.channel,
         p.feeding = q.feeding, p.input = q.input, p.output = q.output, p.warm = q.warm,
         p.awake = q.awake, p.peers = q.peers, p.voice = q.voice, p.recorder = q.recorder,
         p.lostIn = q.lostIn, p.lostOut = q.lostOut, p.drift = q.drift, p.pending = q.pending
  PROVE  p = q
BY DEF PipelineState

\* A session with nothing open or running is, its losses forgotten, the one of the start.
LEMMA ForgottenIsBoot ==
  ASSUME NEW p \in PipelineState, p.state = "Idle", Quiet(p), Bare(p), ~p.drift, ~p.asio, ~p.feeding,
         p.output = "closed"
  PROVE  Forgotten(p) = Boot(FALSE)
<1> DEFINE q == Forgotten(p)
           b == Boot(FALSE)
<1>1. q \in PipelineState
  BY ForgottenTyped
<1>2. b \in PipelineState
  <2>1. <<>> \in Seq(DeviceEvent)
    OBVIOUS
  <2>2. QED
    BY <2>1 DEF PipelineState, Boot
<1>3. q.state = b.state /\ q.asio = b.asio /\ q.encoder = b.encoder /\ q.channel = b.channel
  BY DEF PipelineState, Quiet, Bare, Forgotten, Boot
<1>4. q.feeding = b.feeding /\ q.input = b.input /\ q.output = b.output /\ q.warm = b.warm
  BY DEF PipelineState, Bare, Forgotten, Boot
<1>5. q.awake = b.awake /\ q.peers = b.peers /\ q.voice = b.voice /\ q.recorder = b.recorder
  BY DEF PipelineState, Quiet, Bare, Forgotten, Boot
<1>6. q.lostIn = b.lostIn /\ q.lostOut = b.lostOut /\ q.drift = b.drift /\ q.pending = b.pending
  BY DEF PipelineState, Forgotten, Boot
<1> HIDE DEF q, b
<1>7. q = b
  BY <1>1, <1>2, <1>3, <1>4, <1>5, <1>6, SameFields
<1>8. QED
  BY <1>7 DEF q, b

\* close_audio_driver closes devices and keeps what runs.
LEMMA DriverClosedTyped ==
  ASSUME NEW p \in PipelineState
  PROVE  /\ DriverClosed(p) \in PipelineState
         /\ DriverClosed(p).encoder = p.encoder /\ DriverClosed(p).feeding = p.feeding
         /\ DriverClosed(p).awake = p.awake /\ DriverClosed(p).drift = p.drift
         /\ DriverClosed(p).state = p.state /\ DriverClosed(p).asio = p.asio
<1>1. DriverClosed(p) \in PipelineState
  BY DEF PipelineState, DriverClosed, StreamsClosed
<1>2. QED
  BY DEF PipelineState, DriverClosed, StreamsClosed

\* A parked session is idle and runs nothing.
LEMMA ParkedTyped ==
  ASSUME NEW p \in PipelineState, Sane(p), p.asio
  PROVE  Parked(p) \in PipelineState /\ Sane(Parked(p)) /\ Empty(Parked(p), FALSE)
<1> DEFINE t == TornDown(p, FALSE)
<1>1. t \in PipelineState /\ Quiet(t) /\ ~t.feeding /\ t.drift = p.drift /\ t.asio = p.asio
  BY TornDownTyped
<1>2. Parked(p) = [t EXCEPT !.recorder = FALSE, !.state = "Idle", !.warm = "parked"]
  BY DEF Parked
<1> HIDE DEF t
<1>3. Parked(p) \in PipelineState
  BY <1>1, <1>2, ZenonT(60) DEF PipelineState
<1>4. Parked(p).state = "Idle" /\ Quiet(Parked(p)) /\ ~Parked(p).feeding
  BY <1>1, <1>2 DEF PipelineState, Quiet
<1>5. Parked(p).asio
  BY <1>1, <1>2 DEF PipelineState
<1>6. QED
  BY <1>3, <1>4, <1>5 DEF Sane, Empty

\* stop_all leaves nothing open and nothing running.
LEMMA StoppedTyped ==
  ASSUME NEW p \in PipelineState, Sane(p)
  PROVE  StoppedAll(p) \in PipelineState /\ Sane(StoppedAll(p)) /\ Empty(StoppedAll(p), FALSE)
<1> DEFINE t == DriverClosed(TornDown(p, FALSE))
<1>1. t \in PipelineState /\ Quiet(t) /\ ~t.feeding /\ t.drift = p.drift /\ t.asio = p.asio
  BY TornDownTyped, DriverClosedTyped, ZenonT(60) DEF Quiet
<1>2. StoppedAll(p) = [t EXCEPT !.recorder = FALSE, !.state = "Idle"]
  BY DEF StoppedAll
<1>3. t.voice = "none" /\ ~t.peers /\ ~t.channel /\ ~t.input
  BY DEF PipelineState, DriverClosed, StreamsClosed, TornDown
<1>4. t.output = "closed" /\ t.warm = "none"
  BY DEF PipelineState, DriverClosed, StreamsClosed, TornDown
<1> HIDE DEF t
<1>5. StoppedAll(p) \in PipelineState
  BY <1>1, <1>2 DEF PipelineState
<1>6. StoppedAll(p).state = "Idle" /\ Quiet(StoppedAll(p)) /\ ~StoppedAll(p).feeding
  BY <1>1, <1>2 DEF PipelineState, Quiet
<1>7. StoppedAll(p).drift = p.drift /\ StoppedAll(p).asio = p.asio
  BY <1>1, <1>2 DEF PipelineState
<1>8. Bare(StoppedAll(p)) /\ StoppedAll(p).output = "closed"
  BY <1>1, <1>2, <1>3, <1>4 DEF PipelineState, Bare
<1>9. QED
  BY <1>5, <1>6, <1>7, <1>8 DEF Sane, Empty

\* leave_session empties the session, whatever it finds; or finds one that was left already.
LEMMA LeftKept ==
  ASSUME NEW p \in PipelineState, Sane(p)
  PROVE  /\ Left(p) \in PipelineState /\ Sane(Left(p)) /\ Left(p).state = "Idle"
         /\ \/ Empty(Left(p), FALSE)
            \/ Left(p) = p /\ p.state = "Idle" /\ p.asio
<1>1. CASE p.asio /\ p.warm # "none" /\ IsCapturing(p)
  <2>1. Left(p) = Parked(p)
    BY <1>1 DEF Left
  <2>2. QED
    BY <2>1, <1>1, ParkedTyped DEF Empty
<1>2. CASE p.asio /\ p.warm # "none" /\ ~IsCapturing(p)
  <2>1. Left(p) = p
    BY <1>2 DEF Left
  <2>2. p.state = "Idle"
    BY <1>2 DEF IsCapturing, PipelineState
  <2>3. QED
    BY <2>1, <2>2, <1>2
<1>3. CASE ~(p.asio /\ p.warm # "none")
  <2>1. Left(p) = StoppedAll(p)
    BY <1>3 DEF Left
  <2>2. QED
    BY <2>1, StoppedTyped DEF Empty
<1>4. QED
  BY <1>1, <1>2, <1>3

\* Releasing a parked driver starts and stops nothing else.
LEMMA ReleasedKept ==
  ASSUME NEW p \in PipelineState, Sane(p)
  PROVE  /\ Released(p) \in PipelineState /\ Sane(Released(p))
         /\ Released(p).state = p.state /\ Released(p).feeding = p.feeding
         /\ \A late \in BOOLEAN : Empty(p, late) => Empty(Released(p), late)
<1>1. CASE p.warm # "parked"
  <2>1. Released(p) = p
    BY <1>1 DEF Released
  <2>2. QED
    BY <2>1
<1>2. CASE p.warm = "parked"
  <2> DEFINE q == DriverClosed(p)
  <2>1. Released(p) = q
    BY <1>2 DEF Released
  <2>2. /\ q \in PipelineState
        /\ q.encoder = p.encoder /\ q.feeding = p.feeding
        /\ q.awake = p.awake /\ q.drift = p.drift
        /\ q.state = p.state /\ q.asio = p.asio
    BY DriverClosedTyped
  <2> HIDE DEF q
  <2>3. Sane(q)
    BY <2>2 DEF Sane, Quiet
  <2>4. ASSUME NEW late \in BOOLEAN, Empty(p, late) PROVE Empty(q, late)
    <3>1. p.asio
      BY <1>2, <2>4 DEF Empty, Bare
    <3>2. QED
      BY <2>2, <2>4, <3>1 DEF Empty, Quiet
  <2>5. QED
    BY <2>1, <2>2, <2>3, <2>4
<1>3. QED
  BY <1>1, <1>2

\* Every outcome of prepare_audio_for_session is a session that may be, and does not feed.
LEMMA AcquiredKept ==
  ASSUME NEW p \in PipelineState, Sane(p), NEW a \in Acquired(p, FALSE)
  PROVE  a.pl \in PipelineState /\ Sane(a.pl) /\ ~a.pl.feeding /\ a.pl.state = p.state /\ a.ok \in BOOLEAN
<1> DEFINE Fine(q) == q \in PipelineState /\ Quiet(q) /\ ~q.feeding /\ q.drift = p.drift /\ q.asio = p.asio
                      /\ q.state = p.state
           Good(q) == q \in PipelineState /\ Sane(q) /\ ~q.feeding /\ q.state = p.state
           t == TornDown(Forgotten(p), FALSE)
           d == DriverClosed(t)
           e == Emptied(p, FALSE)
<1>0. \A q : Fine(q) => Good(q)
  BY DEF Sane
<1>1. Fine(t)
  BY ForgottenTyped, TornDownTyped
<1>2. Fine(d)
  BY <1>1, DriverClosedTyped DEF Quiet
<1>3. e = [d EXCEPT !.channel = TRUE]
  BY DEF Emptied
<1>4. Reused(p, FALSE) = [t EXCEPT !.warm = "active"]
  BY DEF Reused
<1> HIDE DEF t, d
<1>5. Fine(e)
  BY <1>2, <1>3 DEF PipelineState, Quiet
<1>6. Fine(Reused(p, FALSE))
  BY <1>1, <1>4, ZenonT(60) DEF PipelineState, Quiet
<1> HIDE DEF e
<1>7. ASSUME NEW o \in Outputs(p), NEW w \in {"active", "none"}
      PROVE  Fine(OutputFellBackAtOpen([e EXCEPT !.input = TRUE, !.output = o, !.warm = w]))
  <2> DEFINE r == [e EXCEPT !.input = TRUE, !.output = o, !.warm = w]
  <2>1. Fine(r)
    <3>1. r \in PipelineState
      BY <1>5, <1>7 DEF PipelineState, Outputs
    <3>2. QED
      BY <3>1, <1>5 DEF PipelineState, Quiet
  <2> HIDE DEF r
  <2> DEFINE q == OutputFellBackAtOpen(r)
  <2>2. q \in PipelineState
    BY <2>1 DEF PipelineState, OutputFellBackAtOpen
  <2>3. Fine(q)
    BY <2>1, <2>2 DEF PipelineState, OutputFellBackAtOpen, Quiet
  <2>4. QED
    BY <2>3 DEF r
<1>8. \/ a = Outcome(e, FALSE)
      \/ \E o \in Outputs(p) :
           a = Outcome(OutputFellBackAtOpen([e EXCEPT !.input = TRUE, !.output = o,
                         !.warm = IF p.asio THEN "active" ELSE "none"]), TRUE)
      \/ a = Outcome(Reused(p, FALSE), TRUE)
  BY DEF Acquired, e
<1>9. PICK q \in PipelineState, k \in BOOLEAN : Fine(q) /\ a = Outcome(q, k)
  <2>1. CASE a = Outcome(e, FALSE)
    BY <1>5, <2>1
  <2>2. CASE a = Outcome(Reused(p, FALSE), TRUE)
    BY <1>6, <2>2
  <2>3. ASSUME NEW o \in Outputs(p),
               a = Outcome(OutputFellBackAtOpen([e EXCEPT !.input = TRUE, !.output = o,
                         !.warm = IF p.asio THEN "active" ELSE "none"]), TRUE)
        PROVE  \E q \in PipelineState, k \in BOOLEAN : Fine(q) /\ a = Outcome(q, k)
    <3>1. PICK w \in {"active", "none"} : w = IF p.asio THEN "active" ELSE "none"
      OBVIOUS
    <3>2. a = Outcome(OutputFellBackAtOpen([e EXCEPT !.input = TRUE, !.output = o, !.warm = w]), TRUE)
      BY <2>3, <3>1
    <3> DEFINE q == OutputFellBackAtOpen([e EXCEPT !.input = TRUE, !.output = o, !.warm = w])
    <3>3. Fine(q)
      BY <1>7
    <3>4. a = Outcome(q, TRUE)
      BY <3>2
    <3> HIDE DEF q
    <3>5. QED
      BY <3>3, <3>4
  <2>4. QED
    BY <1>8, <2>1, <2>2, <2>3
<1>10. a.pl = q /\ a.ok = k /\ Good(q)
  BY <1>0, <1>9 DEF Outcome
<1>11. QED
  BY <1>10

\* So is every outcome of start_capture, its failures included.
LEMMA CaptureKept ==
  ASSUME NEW p \in PipelineState, Sane(p), NEW a \in StartCapture(p, FALSE)
  PROVE  /\ a.pl \in PipelineState /\ Sane(a.pl) /\ a.ok \in BOOLEAN
         /\ IsCapturing(a.pl) \/ (~a.pl.feeding /\ a.pl.state = p.state)
<1> DEFINE Good(q) == q \in PipelineState /\ Sane(q) /\ (IsCapturing(q) \/ (~q.feeding /\ q.state = p.state))
<1>1. ASSUME NEW q \in PipelineState, Sane(q), ~q.feeding, q.state = p.state
      PROVE  Good(DriverClosed(q)) /\ Good(q) /\ Good(Capturing(q))
  <2>1. Good(DriverClosed(q))
    BY <1>1, DriverClosedTyped DEF Sane, Quiet
  <2>2. Capturing(q) \in PipelineState
    BY DEF PipelineState, Capturing
  <2>3. Sane(Capturing(q)) /\ IsCapturing(Capturing(q))
    BY <1>1 DEF PipelineState, Capturing, Sane, IsCapturing
  <2>4. QED
    BY <1>1, <2>1, <2>2, <2>3
<1>2. \A b \in Acquired(p, FALSE) :
        b.pl \in PipelineState /\ Sane(b.pl) /\ ~b.pl.feeding /\ b.pl.state = p.state /\ b.ok \in BOOLEAN
  BY AcquiredKept
<1> DEFINE opened == {b.pl : b \in {c \in Acquired(p, FALSE) : c.ok}}
<1>3. \A q \in opened : q \in PipelineState /\ Sane(q) /\ ~q.feeding /\ q.state = p.state
  <2> TAKE q \in opened
  <2>1. PICK b \in Acquired(p, FALSE) : q = b.pl
    OBVIOUS
  <2>2. QED
    BY <1>2, <2>1
<1>4. \/ a \in Acquired(p, FALSE)
      \/ \E q \in opened : a = Outcome(DriverClosed(q), FALSE)
      \/ \E q \in opened : a = Outcome(q, FALSE)
      \/ \E q \in opened : a = Outcome(Capturing(q), TRUE)
  BY DEF StartCapture
<1> HIDE DEF opened
<1>5. CASE a \in Acquired(p, FALSE)
  BY <1>2, <1>5
<1>6. ASSUME NEW q \in opened, a = Outcome(DriverClosed(q), FALSE) \/ a = Outcome(q, FALSE) \/ a = Outcome(Capturing(q), TRUE)
      PROVE  Good(a.pl) /\ a.ok \in BOOLEAN
  <2>1. Good(DriverClosed(q)) /\ Good(q) /\ Good(Capturing(q))
    BY <1>1, <1>3
  <2> HIDE DEF Good
  <2>2. PICK r \in {DriverClosed(q), q, Capturing(q)}, k \in BOOLEAN : Good(r) /\ a = Outcome(r, k)
    BY <1>6, <2>1
  <2>3. a.pl = r /\ a.ok = k
    BY <2>2 DEF Outcome
  <2>4. QED
    BY <2>2, <2>3
<1>7. QED
  BY <1>4, <1>5, <1>6

\* So is every outcome of the other messages.
LEMMA SmallKept ==
  ASSUME NEW p \in PipelineState, Sane(p),
         NEW q \in AddStream(p) \cup RemoveStream(p) \cup StartVoice(p) \cup {StopVoice(p)} \cup StartRecording(p)
  PROVE  q \in PipelineState /\ Sane(q) /\ q.feeding = p.feeding /\ q.state = p.state
<1>1. \/ q = p \/ q = [p EXCEPT !.peers = TRUE] \/ q = [p EXCEPT !.peers = FALSE]
      \/ q = [p EXCEPT !.peers = TRUE, !.output = "chosen"]
      \/ \E v \in {"none", "tap", "mic"} : q = [p EXCEPT !.voice = v]
      \/ q = [p EXCEPT !.recorder = TRUE]
  BY DEF AddStream, RemoveStream, StartVoice, StopVoice, StartRecording
<1>2. q \in PipelineState
  <2>1. CASE \E v \in {"none", "tap", "mic"} : q = [p EXCEPT !.voice = v]
    BY <2>1 DEF PipelineState
  <2>2. CASE q = [p EXCEPT !.peers = TRUE]
    BY <2>2 DEF PipelineState
  <2>3. CASE q = [p EXCEPT !.peers = FALSE]
    BY <2>3 DEF PipelineState
  <2>4. CASE q = [p EXCEPT !.peers = TRUE, !.output = "chosen"]
    BY <2>4 DEF PipelineState
  <2>5. CASE q = [p EXCEPT !.recorder = TRUE]
    BY <2>5 DEF PipelineState
  <2>6. QED
    BY <1>1, <2>1, <2>2, <2>3, <2>4, <2>5
<1>3. q.drift = p.drift /\ q.state = p.state /\ q.encoder = p.encoder /\ q.feeding = p.feeding /\ q.awake = p.awake
      /\ q.asio = p.asio
  BY <1>1 DEF PipelineState
<1>4. QED
  BY <1>2, <1>3 DEF Sane, Quiet

-----------------------------------------------------------------------------
(* What a supervisor does to the session. *)

LEMMA KinSelf == ASSUME NEW p \in PipelineState PROVE Kin(p, p)
BY DEF Kin

LEMMA KinChain ==
  ASSUME NEW p \in PipelineState, NEW q, NEW r, Kin(p, q), Kin(q, r)
  PROVE  Kin(p, r)
BY DEF Kin, IsCapturing

LEMMA KinKept ==
  ASSUME NEW p \in PipelineState, NEW q, Kin(p, q)
  PROVE  /\ Sane(p) => Sane(q)
         /\ Empty(p, TRUE) => Empty(q, TRUE)
         /\ \A late \in BOOLEAN :
              Empty(p, late) /\ q.feeding = p.feeding /\ q.output = p.output => Empty(q, late)
BY DEF Kin, Sane, Empty, Quiet, Bare, IsCapturing, PipelineState

\* The steps it is made of.
LEMMA KinSteps ==
  ASSUME NEW p \in PipelineState
  PROVE  /\ Kin(p, StreamsClosed(p))
         /\ \A b \in BOOLEAN : Kin(p, [p EXCEPT !.feeding = b])
         /\ Kin(p, [p EXCEPT !.drift = FALSE])
         /\ \A u \in {"closed", "chosen", "fallback"} : Kin(p, [p EXCEPT !.output = u])
         /\ Kin(p, OutputBack(p)) /\ Kin(p, OutputFellBack(p)) /\ Kin(p, InputLost(p, "unplugged"))
<1>1. Kin(p, StreamsClosed(p))
  BY DEF Kin, StreamsClosed, PipelineState
<1>2. ASSUME NEW b \in BOOLEAN PROVE Kin(p, [p EXCEPT !.feeding = b])
  BY DEF Kin, PipelineState
<1>3. Kin(p, [p EXCEPT !.drift = FALSE])
  BY DEF Kin, PipelineState
<1>4. ASSUME NEW u \in {"closed", "chosen", "fallback"} PROVE Kin(p, [p EXCEPT !.output = u])
  BY DEF Kin, PipelineState
<1>5. WentBack \in DeviceEvent /\ FellBack \in DeviceEvent /\ Lost("unplugged") \in DeviceEvent
  BY DEF DeviceEvent, Loss
<1>6. p.pending \in Seq(DeviceEvent)
  BY DEF PipelineState
<1>7. ASSUME NEW e \in DeviceEvent PROVE Append(p.pending, e) \in Seq(DeviceEvent)
  BY <1>6
<1>8. Kin(p, OutputBack(p))
  <2> DEFINE s == Append(p.pending, WentBack)
  <2>1. s \in Seq(DeviceEvent)
    BY <1>5, <1>7
  <2>2. OutputBack(p) = p \/ OutputBack(p) = [p EXCEPT !.lostOut = FALSE, !.pending = s]
    BY DEF OutputBack
  <2> HIDE DEF s
  <2>3. Kin(p, [p EXCEPT !.lostOut = FALSE, !.pending = s])
    BY <2>1 DEF Kin, PipelineState
  <2>4. QED
    BY <2>2, <2>3, KinSelf
<1>9. Kin(p, OutputFellBack(p))
  <2> DEFINE s == Append(p.pending, FellBack)
  <2>1. s \in Seq(DeviceEvent)
    BY <1>5, <1>7
  <2>2. OutputFellBack(p) = IF p.lostOut THEN p ELSE [p EXCEPT !.lostOut = TRUE, !.pending = s]
    BY DEF OutputFellBack
  <2> HIDE DEF s
  <2>3. QED
    BY <2>1, <2>2, ZenonT(60) DEF Kin, PipelineState
<1>10. Kin(p, InputLost(p, "unplugged"))
  <2> DEFINE s == Append(p.pending, Lost("unplugged"))
  <2>1. s \in Seq(DeviceEvent)
    BY <1>5, <1>7
  <2>2. InputLost(p, "unplugged")
          = IF p.lostIn = "unplugged" THEN p ELSE [p EXCEPT !.lostIn = "unplugged", !.pending = s]
    BY DEF InputLost
  <2> HIDE DEF s
  <2>3. QED
    BY <2>1, <2>2, ZenonT(60) DEF Kin, PipelineState, Loss
<1>11. QED
  BY <1>1, <1>2, <1>3, <1>4, <1>8, <1>9, <1>10

\* restart_playback, return_to_chosen_output and keep_listening_without_input.
LEMMA KinPlayback ==
  ASSUME NEW p \in PipelineState, NEW outHere \in BOOLEAN
  PROVE  /\ \A q \in Playback(p, outHere) : Kin(p, q)
         /\ \A q \in ReturnToChosen(p, outHere) : Kin(p, q)
         /\ \A q \in KeepListening(p, outHere) : Kin(p, q)
<1>1. ASSUME NEW r \in PipelineState, NEW q \in Playback(r, outHere) PROVE Kin(r, q)
  <2>1. \/ q = [r EXCEPT !.output = "chosen"]
        \/ q = [r EXCEPT !.output = "closed"]
        \/ q = OutputFellBack([r EXCEPT !.output = "fallback"])
    BY <1>1 DEF Playback
  <2>2. CASE q = OutputFellBack([r EXCEPT !.output = "fallback"])
    <3> DEFINE f == [r EXCEPT !.output = "fallback"]
    <3>1. Kin(r, f)
      BY KinSteps
    <3>2. f \in PipelineState
      BY <3>1 DEF Kin
    <3>3. q = OutputFellBack(f)
      BY <2>2
    <3> HIDE DEF f
    <3>4. Kin(f, q)
      BY <3>2, <3>3, KinSteps
    <3>5. QED
      BY <3>1, <3>4, KinChain
  <2>3. CASE q = [r EXCEPT !.output = "chosen"] \/ q = [r EXCEPT !.output = "closed"]
    BY <2>3, KinSteps
  <2>4. QED
    BY <2>1, <2>2, <2>3
<1>2. ASSUME NEW q \in ReturnToChosen(p, outHere) PROVE Kin(p, q)
  <2>1. PICK r \in Playback(p, outHere) : q = r \/ q = OutputBack(r)
    BY <1>2 DEF ReturnToChosen
  <2>2. Kin(p, r) /\ r \in PipelineState
    BY <1>1 DEF Kin
  <2>3. Kin(r, q)
    BY <2>1, <2>2, KinSteps, KinSelf
  <2>4. QED
    BY <2>2, <2>3, KinChain
<1>3. ASSUME NEW q \in KeepListening(p, outHere) PROVE Kin(p, q)
  <2> DEFINE r == InputLost(p, "unplugged")
  <2>1. q = r \/ q \in Playback(r, outHere)
    BY <1>3 DEF KeepListening
  <2>2. Kin(p, r)
    BY KinSteps
  <2>3. r \in PipelineState
    BY <2>2 DEF Kin
  <2> HIDE DEF r
  <2>4. Kin(r, q)
    BY <1>1, <2>1, <2>3, KinSelf
  <2>5. QED
    BY <2>2, <2>4, KinChain
<1>4. QED
  BY <1>1, <1>2, <1>3

\* rebuild_audio_streams.
LEMMA KinRebuilt ==
  ASSUME NEW p \in PipelineState, NEW outHere \in BOOLEAN, NEW q \in Rebuilt(p, outHere)
  PROVE  Kin(p, q)
<1>1. CASE ~IsCapturing(p)
  BY <1>1, KinSelf DEF Rebuilt
<1>2. CASE IsCapturing(p) /\ p.asio
  <2>1. PICK d \in BOOLEAN : q = [p EXCEPT !.input = TRUE, !.output = "chosen", !.drift = d]
    BY <1>2 DEF Rebuilt, AsioReopened
  <2>2. QED
    BY <1>2, <2>1 DEF Kin, PipelineState
<1>3. CASE IsCapturing(p) /\ ~p.asio
  <2>1. PICK u \in {"chosen", "fallback", "closed"} : q = OutputReopened(p, u)
    BY <1>3 DEF Rebuilt
  <2> DEFINE r == [p EXCEPT !.input = TRUE, !.output = u]
  <2>2. Kin(p, r)
    BY <1>3 DEF Kin, PipelineState
  <2>3. r \in PipelineState
    BY <2>2 DEF Kin
  <2>4. q \in {r, OutputBack(r), OutputFellBack(r)}
    BY <2>1 DEF OutputReopened
  <2> HIDE DEF r
  <2>5. Kin(r, q)
    BY <2>3, <2>4, KinSteps, KinSelf
  <2>6. QED
    BY <2>2, <2>5, KinChain
<1>4. QED
  BY <1>1, <1>2, <1>3

\* The losses are not kept.
Kept(q) == [q EXCEPT !.lostIn = "none", !.pending = <<>>]
LEMMA KinKeptFew ==
  ASSUME NEW q \in PipelineState
  PROVE  /\ Kin(q, Kept(q)) /\ Kept(q).feeding = q.feeding /\ Kept(q).output = q.output
<1>1. <<>> \in Seq(DeviceEvent)
  OBVIOUS
<1>2. QED
  BY <1>1 DEF Kin, Kept, PipelineState

LEMMA OutcomesAre ==
  ASSUME NEW sessions, NEW next, NEW o \in Outcomes(sessions, next)
  PROVE  o.next = next /\ \E q \in sessions : o.pl = Kept(q)
<1>1. Outcomes(sessions, next) = {[pl |-> Kept(q), next |-> next] : q \in sessions}
  BY Zenon DEF Outcomes, Kept
<1>2. PICK q \in sessions : o = [pl |-> Kept(q), next |-> next]
  BY <1>1
<1>3. QED
  BY <1>2

LEMMA OutcomeIs ==
  ASSUME NEW q, NEW next, NEW o \in Outcomes({q}, next)
  PROVE  o.next = next /\ o.pl = Kept(q)
BY OutcomesAre

\* A turn of a supervisor, but for the stop: a session that is kin to the one it found, and
\* where it goes on.  The look that begins the turns opens and feeds nothing.
LEMMA TurnKin ==
  ASSUME pl \in PipelineState, NEW stage \in Stages \ {"none", "halt"}, NEW o \in Turn(stage)
  PROVE  /\ Kin(pl, o.pl) /\ o.next \in Stages \ {"none"}
         /\ stage = "rest" => /\ o.pl.feeding = pl.feeding /\ o.pl.output = pl.output
                              /\ o.next \in {"rest", "halt"} \/ IsCapturing(pl)
<1>0. ASSUME NEW Q, NEW next \in Stages \ {"none"}, \A q \in Q : Kin(pl, q), o \in Outcomes(Q, next)
      PROVE  Kin(pl, o.pl) /\ o.next \in Stages \ {"none"}
  <2>1. PICK q \in Q : o.pl = Kept(q)
    BY <1>0, OutcomesAre
  <2>2. Kin(pl, q) /\ q \in PipelineState
    BY <1>0 DEF Kin
  <2>3. Kin(pl, Kept(q))
    BY <2>2, KinKeptFew, KinChain
  <2>4. QED
    BY <1>0, <2>1, <2>3, OutcomesAre
<1>1. Kin(pl, pl) /\ Kin(pl, StreamsClosed(pl)) /\ Kin(pl, [pl EXCEPT !.drift = FALSE])
  BY KinSelf, KinSteps
<1>2. /\ \A q \in Reopened(Playback) : Kin(pl, q)
      /\ \A q \in Reopened(ReturnToChosen) : Kin(pl, q)
      /\ \A q \in Reopened(KeepListening) : Kin(pl, q)
      /\ \A q \in Reopened(Rebuilt) : Kin(pl, q)
  BY KinPlayback, KinRebuilt DEF Reopened
<1>3. Kin(pl, StreamsClosed([pl EXCEPT !.feeding = FALSE]))
  <2> DEFINE q == [pl EXCEPT !.feeding = FALSE]
  <2>1. Kin(pl, q)
    BY KinSteps
  <2>2. q \in PipelineState
    BY <2>1 DEF Kin
  <2> HIDE DEF q
  <2>3. Kin(pl, StreamsClosed(q))
    BY <2>1, <2>2, KinSteps, KinChain
  <2>4. QED
    BY <2>3 DEF q
<1>4. \A q \in Fed({pl} \cup Reopened(Rebuilt)) : Kin(pl, q)
  <2>1. ASSUME NEW r \in {pl} \cup Reopened(Rebuilt) PROVE Kin(pl, [r EXCEPT !.feeding = TRUE])
    <3>1. Kin(pl, r)
      BY <1>1, <1>2
    <3>2. r \in PipelineState
      BY <3>1 DEF Kin
    <3>3. QED
      BY <3>1, <3>2, KinSteps, KinChain
  <2>2. QED
    BY <2>1 DEF Fed
<1>5. {"rest", "judged", "health", "halt", "resume", "repair", "missing", "return"} \subseteq Stages \ {"none"}
  BY DEF Stages
<1>6. CASE stage = "rest"
  <2>1. \/ o \in Outcomes({[pl EXCEPT !.drift = FALSE]}, "halt")
        \/ o \in Outcomes({pl}, "judged") /\ IsCapturing(pl)
        \/ o \in Outcomes({pl}, "rest")
    <3>1. o \in IF pl.drift THEN Outcomes({[pl EXCEPT !.drift = FALSE]}, "halt")
                ELSE Outcomes({pl}, IF IsCapturing(pl) THEN "judged" ELSE "rest")
      BY <1>6 DEF Turn
    <3>2. QED
      BY <3>1
  <2>2. \/ o.pl = Kept([pl EXCEPT !.drift = FALSE]) /\ o.next = "halt"
        \/ o.pl = Kept(pl) /\ o.next = "judged" /\ IsCapturing(pl)
        \/ o.pl = Kept(pl) /\ o.next = "rest"
    BY <2>1, OutcomeIs, Zenon
  <2>3. Kin(pl, o.pl) /\ o.next \in Stages \ {"none"}
    <3> DEFINE q == [pl EXCEPT !.drift = FALSE]
    <3>1. Kin(pl, q)
      BY <1>1
    <3>2. q \in PipelineState
      BY <3>1 DEF Kin
    <3> HIDE DEF q
    <3>3. Kin(pl, Kept(q)) /\ Kin(pl, Kept(pl))
      BY <3>1, <3>2, KinKeptFew, KinChain
    <3>4. QED
      BY <1>5, <2>2, <3>3 DEF q
  <2>4. o.next \in {"rest", "halt"} \/ IsCapturing(pl)
    BY <2>2
  <2>5. o.pl.feeding = pl.feeding /\ o.pl.output = pl.output
    <3> DEFINE q == [pl EXCEPT !.drift = FALSE]
    <3>1. q \in PipelineState /\ q.feeding = pl.feeding /\ q.output = pl.output
      BY DEF PipelineState
    <3> HIDE DEF q
    <3>2. Kept(q).feeding = q.feeding /\ Kept(q).output = q.output
      BY <3>1, KinKeptFew
    <3>3. QED
      BY <2>2, <3>1, <3>2, KinKeptFew DEF q
  <2>6. QED
    BY <2>3, <2>4, <2>5, <1>6
<1>7. CASE stage = "judged"
  <2>1. \/ o \in Outcomes({pl}, "halt") \/ o \in Outcomes({pl}, "health")
        \/ o \in Outcomes({StreamsClosed(pl)}, "repair")
        \/ o \in Outcomes(Reopened(Playback), "health")
        \/ o \in Outcomes({StreamsClosed([pl EXCEPT !.feeding = FALSE])}, "resume")
        \/ o \in Outcomes({pl}, "return")
    BY <1>7 DEF Turn
  <2>2. CASE o \in Outcomes({pl}, "halt") \/ o \in Outcomes({pl}, "health") \/ o \in Outcomes({pl}, "return")
    BY <1>0, <1>1, <1>5, <1>7, <2>2
  <2>3. CASE o \in Outcomes({StreamsClosed(pl)}, "repair")
    BY <1>0, <1>1, <1>5, <1>7, <2>3
  <2>4. CASE o \in Outcomes(Reopened(Playback), "health")
    BY <1>0, <1>2, <1>5, <1>7, <2>4
  <2>5. CASE o \in Outcomes({StreamsClosed([pl EXCEPT !.feeding = FALSE])}, "resume")
    <3> DEFINE q == StreamsClosed([pl EXCEPT !.feeding = FALSE])
    <3>1. Kin(pl, q) /\ o \in Outcomes({q}, "resume")
      BY <1>3, <2>5
    <3> HIDE DEF q
    <3>2. QED
      BY <1>0, <1>5, <1>7, <3>1
  <2>6. QED
    BY <2>1, <2>2, <2>3, <2>4, <2>5
<1>8. CASE stage = "return"
  <2>1. o \in Outcomes(Reopened(ReturnToChosen), "health")
    BY <1>8 DEF Turn
  <2>2. QED
    BY <1>0, <1>2, <1>5, <1>8, <2>1
<1>9. CASE stage = "health"
  <2>1. o \in Outcomes({pl}, "rest") \/ o \in Outcomes({StreamsClosed(pl)}, "repair")
    BY <1>9 DEF Turn
  <2>2. QED
    BY <1>0, <1>1, <1>5, <1>9, <2>1
<1>10. CASE stage = "resume"
  <2>1. o \in Outcomes(Fed({pl} \cup Reopened(Rebuilt)), "rest")
    BY <1>10 DEF Turn
  <2>2. QED
    BY <1>0, <1>4, <1>5, <1>10, <2>1
<1>11. CASE stage = "repair"
  <2>1. \/ o \in Outcomes({pl} \cup Reopened(Rebuilt), "rest")
        \/ o \in Outcomes({pl}, "repair") \/ o \in Outcomes({pl}, "missing")
    BY <1>11 DEF Turn, RepairFails
  <2>2. QED
    BY <1>0, <1>1, <1>2, <1>5, <1>11, <2>1
<1>12. CASE stage = "missing"
  <2>1. o \in Outcomes(Reopened(KeepListening), "rest")
    BY <1>12 DEF Turn
  <2>2. QED
    BY <1>0, <1>2, <1>5, <1>12, <2>1
<1>13. QED
  BY <1>6, <1>7, <1>8, <1>9, <1>10, <1>11, <1>12 DEF Stages

\* The stop for a rate that drifted.
LEMMA TurnHalt ==
  ASSUME pl \in PipelineState, Sane(pl), NEW o \in Turn("halt")
  PROVE  o.pl \in PipelineState /\ Sane(o.pl) /\ Empty(o.pl, FALSE) /\ o.next = "rest"
<1>1. o \in Outcomes({StoppedAll(pl)}, "rest")
  BY DEF Turn
<1>2. o.pl = Kept(StoppedAll(pl)) /\ o.next = "rest"
  BY <1>1, OutcomesAre
<1> DEFINE s == StoppedAll(pl)
<1>3. s \in PipelineState /\ Sane(s) /\ Empty(s, FALSE)
  BY StoppedTyped
<1> HIDE DEF s
<1>4. Kin(s, Kept(s)) /\ Kept(s).feeding = s.feeding /\ Kept(s).output = s.output
  BY <1>3, KinKeptFew
<1>5. Kept(s) \in PipelineState /\ Sane(Kept(s)) /\ Empty(Kept(s), FALSE)
  BY <1>3, <1>4, KinKept DEF Kin
<1>6. QED
  BY <1>2, <1>5 DEF s

-----------------------------------------------------------------------------
(* The queue of the mutex. *)

Member(q, x)    == \E i \in DOMAIN q : q[i] = x
Once(q)         == \A i, j \in DOMAIN q : q[i] = q[j] => i = j
Before(q, c, d) == \A i, j \in DOMAIN q : q[i] = c /\ q[j] = d => i < j
Waiters         == Connections \cup {Task(c) : c \in Connections}

\* The task of a connection is no connection, and no other's task.
LEMMA Tasks ==
  ASSUME NEW c \in Connections
  PROVE  /\ Task(c) \in Waiters /\ Task(c) \notin Connections
         /\ \A d \in Connections : Task(c) = Task(d) => c = d
BY ClientConstants DEF Task, Waiters

\* One that joins the queue is its last.
LEMMA Joined ==
  ASSUME NEW q \in Seq(Waiters), NEW x \in Waiters
  PROVE  /\ Append(q, x) \in Seq(Waiters)
         /\ \A y : Member(Append(q, x), y) <=> Member(q, y) \/ y = x
         /\ Once(q) /\ ~Member(q, x) => Once(Append(q, x))
         /\ \A c, d : Before(q, c, d) /\ c # x => Before(Append(q, x), c, d)
         /\ \A c : ~Member(q, x) /\ c # x => Before(Append(q, x), c, x)
<1> DEFINE r == Append(q, x)
<1>1. r \in Seq(Waiters) /\ DOMAIN r = 1 .. Len(q) + 1 /\ DOMAIN q = 1 .. Len(q) /\ Len(q) \in Nat
  OBVIOUS
<1>2. \A i \in 1 .. Len(q) : r[i] = q[i]
  OBVIOUS
<1>3. r[Len(q) + 1] = x
  OBVIOUS
<1> HIDE DEF r
<1>4. \A i \in DOMAIN r : i \in DOMAIN q \/ i = Len(q) + 1
  BY <1>1
<1>5. DOMAIN q \subseteq DOMAIN r /\ Len(q) + 1 \in DOMAIN r /\ \A i \in DOMAIN q : i < Len(q) + 1
  BY <1>1
<1>6. \A y : Member(r, y) <=> Member(q, y) \/ y = x
  BY <1>1, <1>2, <1>3, <1>4, <1>5 DEF Member
<1>7. ASSUME Once(q), ~Member(q, x) PROVE Once(r)
  BY <1>1, <1>2, <1>3, <1>4, <1>7 DEF Once, Member
<1>8. ASSUME NEW c, NEW d, Before(q, c, d), c # x PROVE Before(r, c, d)
  BY <1>1, <1>2, <1>3, <1>4, <1>5, <1>8 DEF Before
<1>9. ASSUME NEW c, ~Member(q, x), c # x PROVE Before(r, c, x)
  BY <1>1, <1>2, <1>3, <1>4, <1>5, <1>9 DEF Before, Member
<1>10. QED
  BY <1>1, <1>6, <1>7, <1>8, <1>9 DEF r

\* r is q without what was at k.
Removal(q, k, r) ==
  /\ r \in Seq(Waiters) /\ Len(r) = Len(q) - 1
  /\ \A i \in 1 .. Len(r) : r[i] = IF i < k THEN q[i] ELSE q[i + 1]

\* The tail of a queue lacks its first.
LEMMA TailRemoves ==
  ASSUME NEW q \in Seq(Waiters), q # <<>>
  PROVE  1 \in DOMAIN q /\ Head(q) = q[1] /\ Removal(q, 1, Tail(q))
BY DEF Removal

\* The elements of two sequences in a row.
LEMMA Concatenated ==
  ASSUME NEW a \in Seq(Waiters), NEW b \in Seq(Waiters)
  PROVE  /\ a \o b \in Seq(Waiters) /\ Len(a \o b) = Len(a) + Len(b)
         /\ \A i \in 1 .. Len(a) + Len(b) : (a \o b)[i] = IF i <= Len(a) THEN a[i] ELSE b[i - Len(a)]
OBVIOUS

\* One that gives up leaves a gap that is closed.
LEMMA WithoutRemoves ==
  ASSUME queue \in Seq(Waiters), NEW k \in DOMAIN queue
  PROVE  Removal(queue, k, Without(k))
<1>1. k \in 1 .. Len(queue) /\ Len(queue) \in Nat
  OBVIOUS
<1>2. SubSeq(queue, 1, k - 1) \in Seq(Waiters) /\ Len(SubSeq(queue, 1, k - 1)) = k - 1
      /\ \A i \in 1 .. k - 1 : SubSeq(queue, 1, k - 1)[i] = queue[i]
  BY <1>1
<1>3. SubSeq(queue, k + 1, Len(queue)) \in Seq(Waiters)
      /\ Len(SubSeq(queue, k + 1, Len(queue))) = Len(queue) - k
      /\ \A i \in 1 .. Len(queue) - k : SubSeq(queue, k + 1, Len(queue))[i] = queue[k + i]
  BY <1>1
<1>4. \A i \in 1 .. Len(queue) - 1 :
        (SubSeq(queue, 1, k - 1) \o SubSeq(queue, k + 1, Len(queue)))[i]
          = IF i < k THEN queue[i] ELSE queue[i + 1]
  <2> DEFINE a == SubSeq(queue, 1, k - 1)
             b == SubSeq(queue, k + 1, Len(queue))
  <2>1. a \in Seq(Waiters) /\ b \in Seq(Waiters) /\ Len(a) = k - 1 /\ Len(b) = Len(queue) - k
    BY <1>2, <1>3
  <2>2. \A i \in 1 .. Len(a) : a[i] = queue[i]
    BY <1>2
  <2>3. \A i \in 1 .. Len(b) : b[i] = queue[k + i]
    BY <1>3
  <2> HIDE DEF a, b
  <2>4. \A i \in 1 .. Len(queue) - 1 : (a \o b)[i] = IF i < k THEN a[i] ELSE b[i - (k - 1)]
    BY <1>1, <2>1, Concatenated
  <2>5. \A i \in 1 .. Len(queue) - 1 : (a \o b)[i] = IF i < k THEN queue[i] ELSE queue[i + 1]
    <3> TAKE i \in 1 .. Len(queue) - 1
    <3>1. CASE i < k
      BY <1>1, <2>1, <2>2, <2>4, <3>1
    <3>2. CASE ~(i < k)
      <4>1. i - (k - 1) \in 1 .. Len(b) /\ k + (i - (k - 1)) = i + 1
        BY <1>1, <2>1, <3>2
      <4>2. b[i - (k - 1)] = queue[i + 1]
        BY <2>3, <4>1
      <4>3. QED
        BY <2>4, <3>2, <4>2
    <3>3. QED
      BY <3>1, <3>2
  <2>6. QED
    BY <2>5 DEF a, b
<1>5. /\ Without(k) \in Seq(Waiters)
      /\ Len(Without(k)) = Len(queue) - 1
  <2> DEFINE a == SubSeq(queue, 1, k - 1)
             b == SubSeq(queue, k + 1, Len(queue))
  <2>1. a \in Seq(Waiters) /\ b \in Seq(Waiters) /\ Len(a) = k - 1 /\ Len(b) = Len(queue) - k
    BY <1>2, <1>3
  <2> HIDE DEF a, b
  <2>2. a \o b \in Seq(Waiters) /\ Len(a \o b) = Len(queue) - 1
    <3>1. Len(a) + Len(b) = Len(queue) - 1
      BY <1>1, <2>1
    <3>2. QED
      BY <2>1, <3>1, Concatenated
  <2>3. QED
    BY <2>2 DEF a, b, Without
<1>7. QED
  BY <1>4, <1>5 DEF Removal, Without

\* Those who stay keep their order when one goes.
LEMMA Removed ==
  ASSUME NEW q \in Seq(Waiters), NEW k \in DOMAIN q, NEW r, Removal(q, k, r)
  PROVE  /\ r \in Seq(Waiters)
         /\ Once(q) => (Once(r) /\ \A y : Member(r, y) <=> (Member(q, y) /\ y # q[k]))
         /\ \A c, d : Before(q, c, d) => Before(r, c, d)
<1>1. /\ k \in 1 .. Len(q) /\ Len(q) \in Nat /\ DOMAIN q = 1 .. Len(q)
      /\ DOMAIN r = 1 .. Len(q) - 1 /\ r \in Seq(Waiters)
      /\ \A i \in 1 .. Len(q) - 1 : r[i] = IF i < k THEN q[i] ELSE q[i + 1]
  BY DEF Removal
<1> DEFINE old(i) == IF i < k THEN i ELSE i + 1
<1>2. \A i \in DOMAIN r : old(i) \in DOMAIN q \ {k} /\ r[i] = q[old(i)]
  BY <1>1
<1>3. \A i, j \in DOMAIN r : i < j <=> old(i) < old(j)
  BY <1>1
<1>4. \A j \in DOMAIN q \ {k} : \E i \in DOMAIN r : old(i) = j
  <2> TAKE j \in DOMAIN q \ {k}
  <2>1. CASE j < k
    BY <1>1, <2>1
  <2>2. CASE j > k
    <3>1. j - 1 \in DOMAIN r /\ old(j - 1) = j
      BY <1>1, <2>2
    <3>2. QED
      BY <3>1
  <2>3. QED
    BY <1>1, <2>1, <2>2
<1>5. \A i, j \in DOMAIN r : old(i) = old(j) => i = j
  BY <1>1
<1> HIDE DEF old
<1>6. ASSUME Once(q) PROVE Once(r)
  BY <1>2, <1>5, <1>6 DEF Once
<1>7. ASSUME Once(q), NEW y PROVE Member(r, y) <=> Member(q, y) /\ y # q[k]
  BY <1>1, <1>2, <1>4, <1>7 DEF Once, Member
<1>8. ASSUME NEW c, NEW d, Before(q, c, d) PROVE Before(r, c, d)
  BY <1>2, <1>3, <1>8 DEF Before
<1>9. QED
  BY <1>1, <1>6, <1>7, <1>8
-----------------------------------------------------------------------------
(* The invariant. *)

\* Only those that were promoted wait, pause or leave; the last one is in the slot.
Promotions ==
  /\ \A c \in Connections : pc[c] \in {"wait", "leave", "pause"} => promoted[c]
  /\ \A c \in Connections : promoted[c] => pc[c] # "away"
  /\ \A c \in Connections : promoted[c] /\ ~kicked[c] /\ ~Gone(c) => slot = c
  /\ \A c \in Connections : slot = c \/ owner = c => promoted[c]
  /\ \A c \in Connections : promoted[c] => slot # None
  /\ \A c \in Connections : pc[c] = "wait" => msg[c] # "Hello"

\* The session is empty, or somebody is still there to leave it.
Looked == skipped \/ Empty(pl, overtaken) \/ \E c \in Connections : promoted[c] /\ ~Gone(c)

\* A supervisor that acts on a session that has ended was overtaken by its end; so was the
\* one that feeds what is not there.
Late == pl.state = "Idle" => (pl.feeding => overtaken) /\ \A c \in Connections : Midway(c) => overtaken

\* The queue holds those who say they wait, once each.
Waiting ==
  /\ Once(queue)
  /\ \A c \in Connections : pc[c] \in {"wait", "leave"} <=> Member(queue, c)

\* One that was displaced while it did nothing leaves before the one that took its place
\* is served.
Behind ==
  \A c, d \in Connections :
    c # d /\ promoted[c] /\ ~Gone(c) /\ kicked[c] /\ ~busy[c] /\ slot = d =>
      /\ owner # d
      /\ pc[c] = "leave" \/ (pc[c] = "open" /\ pc[d] = "pause")
      /\ Before(queue, c, d)

IInv == TypeOK /\ Sane(pl) /\ Promotions /\ Looked /\ Late /\ Waiting /\ Behind

\* Whatever message is handled, the session stays one that may be.
LEMMA HandledKept ==
  ASSUME pl \in PipelineState, Sane(pl),
         NEW m \in {"StartCapture", "AddStream", "RemoveStream", "StartVoice",
                    "StopVoice", "StartRecording", "Stop"},
         NEW o \in Handled(m)
  PROVE  /\ o.pl \in PipelineState /\ Sane(o.pl) /\ o.ok \in BOOLEAN
         /\ m = "Stop" => o.pl = Left(pl)
         /\ m # "Stop" => \/ IsCapturing(o.pl)
                          \/ o.pl.state = pl.state /\ (o.pl.feeding => pl.feeding)
<1>1. CASE m = "StartCapture"
  <2>1. PICK a \in StartCapture(pl, FALSE) : o = Outcome(a.pl, a.ok)
    BY <1>1 DEF Handled
  <2>2. QED
    BY <1>1, <2>1, CaptureKept DEF Outcome
<1>2. CASE m = "Stop"
  <2>1. o = Outcome(Left(pl), FALSE)
    BY <1>2 DEF Handled
  <2>2. QED
    BY <1>2, <2>1, LeftKept DEF Outcome
<1>3. CASE m \notin {"StartCapture", "Stop"}
  <2>1. PICK q \in AddStream(pl) \cup RemoveStream(pl) \cup StartVoice(pl) \cup {StopVoice(pl)}
                   \cup StartRecording(pl) : o = Outcome(q, FALSE)
    BY <1>3 DEF Handled
  <2>2. QED
    BY <1>3, <2>1, SmallKept DEF Outcome
<1>4. QED
  BY <1>1, <1>2, <1>3
\* What a step may do to the queue.
Joins(x) == x \in Waiters /\ ~Member(queue, x) /\ queue' = Append(queue, x)
Goes(x)  == \E k \in DOMAIN queue : queue[k] = x /\ Removal(queue, k, queue')

\* The queue once one has joined it...
LEMMA AfterJoin ==
  ASSUME queue \in Seq(Waiters), Once(queue), NEW x, Joins(x)
  PROVE  /\ queue' \in Seq(Waiters) /\ Once(queue')
         /\ \A y : Member(queue', y) <=> Member(queue, y) \/ y = x
         /\ \A c, d : Before(queue, c, d) /\ c # x => Before(queue', c, d)
         /\ \A c : c # x => Before(queue', c, x)
BY Joined DEF Joins

\* ...and once one has left it.
LEMMA AfterGo ==
  ASSUME queue \in Seq(Waiters), Once(queue), NEW x, Goes(x)
  PROVE  /\ queue' \in Seq(Waiters) /\ Once(queue')
         /\ \A y : Member(queue', y) <=> Member(queue, y) /\ y # x
         /\ \A c, d : Before(queue, c, d) => Before(queue', c, d)
<1>1. PICK k \in DOMAIN queue : queue[k] = x /\ Removal(queue, k, queue')
  BY DEF Goes
<1>2. QED
  BY <1>1, Removed

\* The holder of the mutex is behind nobody.
LEMMA HolderGoes ==
  ASSUME queue \in Seq(Waiters), NEW x, IsHolder(x), queue' = Tail(queue)
  PROVE  Goes(x) /\ Member(queue, x) /\ \A d : Member(queue, d) /\ d # x => ~Before(queue, d, x)
<1>1. 1 \in DOMAIN queue /\ queue[1] = x /\ Removal(queue, 1, queue')
  BY TailRemoves DEF IsHolder
<1>2. ASSUME NEW d, Member(queue, d), Before(queue, d, x) PROVE d = x
  BY <1>1, <1>2 DEF Member, Before
<1>3. QED
  BY <1>1, <1>2 DEF Goes, Member

\* One that gives up goes.
LEMMA WaiterGoes ==
  ASSUME queue \in Seq(Waiters), NEW x, \E i \in DOMAIN queue : queue[i] = x /\ queue' = Without(i)
  PROVE  Goes(x)
BY WithoutRemoves DEF Goes

\* The queue after each step of a connection.
LEMMA QueueOf ==
  ASSUME IInv, NEW c \in Connections, Connection(c)
  PROVE  \/ queue' = queue /\ (pc'[c] \in {"wait", "leave"} <=> pc[c] \in {"wait", "leave"})
         \/ Joins(c) /\ pc'[c] \in {"wait", "leave"}
         \/ Goes(c) /\ pc'[c] \notin {"wait", "leave"}
<1>1. queue \in Seq(Waiters) /\ c \in Waiters /\ pc \in [Connections -> {"away", "open", "leave", "gone"} \cup Handling]
  BY DEF IInv, TypeOK, Waiters
<1>2. ~Member(queue, c) <=> pc[c] \notin {"wait", "leave"}
  BY DEF IInv, Waiting
<1>3. CASE Connect(c)
  BY <1>1, <1>3 DEF Connect
<1>4. ASSUME NEW m \in Messages, Receive(c, m)
      PROVE  \/ queue' = queue /\ pc'[c] \notin {"wait", "leave"}
             \/ Joins(c) /\ pc'[c] \in {"wait", "leave"}
  BY <1>1, <1>2, <1>4 DEF Receive, Dispatch, Joins
<1>5. CASE EndPause(c)
  BY <1>1, <1>2, <1>5 DEF EndPause, Dispatch, Joins
<1>6. CASE GiveUpWait(c)
  <2>1. Goes(c)
    BY <1>1, <1>6, WaiterGoes DEF GiveUpWait
  <2>2. QED
    BY <1>1, <1>6, <2>1 DEF GiveUpWait
<1>7. CASE Handle(c)
  <2>1. Goes(c)
    BY <1>1, <1>7, HolderGoes DEF Handle
  <2>2. QED
    BY <1>1, <1>7, <2>1 DEF Handle
<1>8. CASE Reply(c)
  BY <1>1, <1>8 DEF Reply
<1>9. CASE SeeKick(c) \/ Close(c)
  BY <1>1, <1>2, <1>9 DEF SeeKick, Close, BeginCleanup, Joins
<1>10. CASE Leave(c)
  <2>1. Goes(c)
    BY <1>1, <1>10, HolderGoes DEF Leave
  <2>2. QED
    BY <1>1, <1>10, <2>1 DEF Leave
<1>11. CASE SkipLeave(c)
  <2>1. Goes(c)
    BY <1>1, <1>11, WaiterGoes DEF SkipLeave
  <2>2. QED
    BY <1>1, <1>11, <2>1 DEF SkipLeave
<1>12. QED
  <2>1. pc[c] = "open" => pc[c] \notin {"wait", "leave"}
    OBVIOUS
  <2>2. QED
    BY <1>3, <1>4, <1>5, <1>6, <1>7, <1>8, <1>9, <1>10, <1>11, <2>1 DEF Connection, Receive

\* A step of a connection changes no other's place in the program.
LEMMA OthersStay ==
  ASSUME TypeOK, NEW c \in Connections, Connection(c)
  PROVE  /\ \E p \in {"away", "open", "leave", "gone"} \cup Handling : pc' = [pc EXCEPT ![c] = p]
         /\ pc' \in [Connections -> {"away", "open", "leave", "gone"} \cup Handling]
<1>1. pc \in [Connections -> {"away", "open", "leave", "gone"} \cup Handling]
  BY DEF TypeOK
<1>2. \E p \in {"away", "open", "leave", "gone"} \cup Handling : pc' = [pc EXCEPT ![c] = p]
  <2>1. ASSUME NEW m \in Messages, Receive(c, m)
        PROVE  \E p \in {"away", "open", "leave", "gone"} \cup Handling : pc' = [pc EXCEPT ![c] = p]
    BY <2>1 DEF Receive, Dispatch, Handling
  <2>2. CASE Connect(c) \/ EndPause(c) \/ GiveUpWait(c) \/ Handle(c) \/ Reply(c)
    BY <2>2 DEF Connect, EndPause, GiveUpWait, Handle, Reply, Dispatch, Handling
  <2>3. CASE SeeKick(c) \/ Close(c) \/ Leave(c) \/ SkipLeave(c)
    BY <2>3 DEF SeeKick, Close, Leave, SkipLeave, BeginCleanup, Handling
  <2>4. QED
    BY <2>1, <2>2, <2>3 DEF Connection
<1>3. QED
  BY <1>1, <1>2

\* The steps of a supervisor are no business of the connections, but for the queue.
LEMMA SupervisionIs ==
  ASSUME IInv, NEW c \in Connections, Supervision(c)
  PROVE  /\ UNCHANGED <<netVars, busy, skipped>> /\ pc' = pc
         /\ queue' = queue \/ Joins(Task(c)) \/ Goes(Task(c))
<1>1. queue \in Seq(Waiters) /\ Task(c) \in Waiters
  BY Tasks DEF IInv, TypeOK, Waiters
<1>2. CASE Look(c) \/ GoOn(c)
  BY <1>1, <1>2 DEF Look, GoOn, Joins, Waits, Member, netVars, histVars
<1>3. CASE Act(c)
  BY <1>1, <1>3, HolderGoes DEF Act, netVars
<1>4. CASE Dropped(c)
  <2>1. Goes(Task(c))
    BY <1>1, <1>4, WaiterGoes DEF Dropped
  <2>2. QED
    BY <1>4, <2>1 DEF Dropped, netVars, histVars
<1>5. CASE Cancelled(c) \/ Grace(c)
  BY <1>5 DEF Cancelled, Grace, netVars, histVars
<1>6. QED
  BY <1>2, <1>3, <1>4, <1>5 DEF Supervision

\* Every step keeps the queue true.
LEMMA WaitingStep == ASSUME IInv, [Next]_vars PROVE Waiting' /\ queue' \in Seq(Waiters)
<1>1. queue \in Seq(Waiters) /\ TypeOK /\ Once(queue)
      /\ \A d \in Connections : pc[d] \in {"wait", "leave"} <=> Member(queue, d)
  BY DEF IInv, TypeOK, Waiters, Waiting
<1>2. ASSUME NEW c \in Connections, Connection(c) PROVE Waiting' /\ queue' \in Seq(Waiters)
  <2>1. \A d \in Connections \ {c} : pc'[d] = pc[d]
    BY <1>1, <1>2, OthersStay DEF TypeOK
  <2>2. CASE queue' = queue /\ (pc'[c] \in {"wait", "leave"} <=> pc[c] \in {"wait", "leave"})
    BY <1>1, <2>1, <2>2 DEF Waiting
  <2>3. CASE Joins(c) /\ pc'[c] \in {"wait", "leave"}
    BY <1>1, <2>1, <2>3, AfterJoin DEF Waiting
  <2>4. CASE Goes(c) /\ pc'[c] \notin {"wait", "leave"}
    BY <1>1, <2>1, <2>4, AfterGo DEF Waiting
  <2>5. QED
    BY <1>2, <2>2, <2>3, <2>4, QueueOf
<1>3. ASSUME NEW c \in Connections, Supervision(c) PROVE Waiting' /\ queue' \in Seq(Waiters)
  <2>1. pc' = pc /\ (queue' = queue \/ Joins(Task(c)) \/ Goes(Task(c)))
    BY <1>3, SupervisionIs
  <2>2. Task(c) \notin Connections
    BY Tasks
  <2>3. CASE queue' = queue
    BY <1>1, <2>1, <2>3 DEF Waiting
  <2>4. CASE Joins(Task(c))
    BY <1>1, <2>1, <2>2, <2>4, AfterJoin DEF Waiting
  <2>5. CASE Goes(Task(c))
    BY <1>1, <2>1, <2>2, <2>5, AfterGo DEF Waiting
  <2>6. QED
    BY <2>1, <2>3, <2>4, <2>5
<1>4. CASE UNCHANGED vars
  BY <1>1, <1>4 DEF Waiting, vars, netVars
<1>5. QED
  BY <1>2, <1>3, <1>4 DEF Next
-----------------------------------------------------------------------------
(* Each part of the invariant is kept. *)

\* The session of the start is empty.
LEMMA BootKept ==
  ASSUME NEW asio \in BOOLEAN
  PROVE  Boot(asio) \in PipelineState /\ Sane(Boot(asio)) /\ Empty(Boot(asio), FALSE)
<1> DEFINE b == Boot(asio)
<1>1. b \in PipelineState
  <2>1. <<>> \in Seq(DeviceEvent)
    OBVIOUS
  <2>2. QED
    BY <2>1 DEF PipelineState, Boot
<1>2. b.state = "Idle" /\ ~b.drift /\ ~b.encoder /\ ~b.feeding /\ ~b.awake /\ b.asio = asio
  BY DEF Boot
<1>3. b.voice = "none" /\ b.output = "closed" /\ b.warm = "none"
  BY DEF Boot
<1>4. ~b.peers /\ ~b.channel /\ ~b.input /\ ~b.recorder
  BY DEF Boot
<1> HIDE DEF b
<1>5. QED
  BY <1>1, <1>2, <1>3, <1>4 DEF Sane, Empty, Quiet, Bare, b

\* The invariant holds at the start.
LEMMA Starts == Init => IInv
<1> SUFFICES ASSUME Init PROVE IInv
  OBVIOUS
<1>1. pl \in PipelineState /\ Sane(pl) /\ Empty(pl, FALSE)
  BY BootKept, ClientConstants DEF Init
<1>2. TypeOK
  <2>1. /\ queue \in Seq(Connections \cup {Task(c) : c \in Connections}) /\ messages \in 0 .. MaxMessages
        /\ turns \in 0 .. MaxTurns
    BY ClientConstants DEF Init
  <2>2. sup \in [Connections -> Stages]
    BY DEF Init, Stages
  <2>3. QED
    BY <1>1, <2>1, <2>2 DEF Init, TypeOK
<1>3. Promotions
  BY ClientConstants DEF Init, Promotions
<1>4. Looked
  BY <1>1 DEF Looked, Init
<1>5. Waiting
  BY DEF Init, Waiting, Once, Member
<1>6. Behind
  BY DEF Init, Behind
<1>7. Late
  BY <1>1 DEF Init, Late, Midway, Empty
<1>8. QED
  BY <1>1, <1>2, <1>3, <1>4, <1>5, <1>6, <1>7 DEF IInv

\* A supervisor acts: what it leaves, and where it goes on.
LEMMA ActIs ==
  ASSUME IInv, NEW c \in Connections, Act(c)
  PROVE  /\ sup[c] \in Stages \ {"none"} /\ owner' \in {owner, None}
         /\ \E o \in Turn(sup[c]) :
              /\ pl' = o.pl /\ (sup[c] = "halt" => Overtakes(o.pl))
              /\ \E s \in {o.next, "none"} : sup' = [sup EXCEPT ![c] = s]
         /\ sup[c] # "halt" => overtaken' = overtaken
BY DEF IInv, TypeOK, Act

LEMMA ActKept ==
  ASSUME IInv, NEW c \in Connections, Act(c)
  PROVE  /\ pl' \in PipelineState /\ Sane(pl') /\ sup' \in [Connections -> Stages]
         /\ sup[c] = "halt" => Empty(pl', FALSE) /\ ~Midway(c)'
         /\ sup[c] # "halt" => Kin(pl, pl')
         /\ sup[c] = "rest" => pl'.feeding = pl.feeding /\ pl'.output = pl.output /\ (~Midway(c)' \/ IsCapturing(pl))
         /\ \A d \in Connections \ {c} : Midway(d)' <=> Midway(d)
<1>1. pl \in PipelineState /\ Sane(pl) /\ sup \in [Connections -> Stages] /\ sup[c] \in Stages \ {"none"}
  BY ActIs DEF IInv, TypeOK
<1>2. PICK o \in Turn(sup[c]) : pl' = o.pl /\ \E s \in {o.next, "none"} : sup' = [sup EXCEPT ![c] = s]
  BY ActIs
<1>3. PICK s \in {o.next, "none"} : sup' = [sup EXCEPT ![c] = s]
  BY <1>2
<1>4. /\ o.next \in Stages
      /\ sup[c] = "halt" => o.pl \in PipelineState /\ Sane(o.pl) /\ Empty(o.pl, FALSE) /\ o.next = "rest"
      /\ sup[c] # "halt" => Kin(pl, o.pl)
      /\ sup[c] = "rest" => /\ o.pl.feeding = pl.feeding /\ o.pl.output = pl.output
                            /\ o.next \in {"rest", "halt"} \/ IsCapturing(pl)
  <2>1. CASE sup[c] = "halt"
    BY <1>1, <2>1, TurnHalt DEF Stages
  <2>2. CASE sup[c] # "halt"
    BY <1>1, <2>2, TurnKin
  <2>3. QED
    BY <2>1, <2>2
<1>5. pl' \in PipelineState /\ Sane(pl')
  BY <1>1, <1>2, <1>4, KinKept DEF Kin
<1>6. sup' \in [Connections -> Stages] /\ sup'[c] = s /\ \A d \in Connections \ {c} : sup'[d] = sup[d]
  BY <1>1, <1>3, <1>4 DEF Stages
<1>7. QED
  BY <1>2, <1>4, <1>5, <1>6, <1>3 DEF Midway

\* What a step does to the session.
LEMMA SessionStep ==
  ASSUME IInv, [Next]_vars
  PROVE  pl' \in PipelineState /\ Sane(pl')
<1>1. pl \in PipelineState /\ Sane(pl)
  BY DEF IInv, TypeOK
<1>2. ASSUME NEW c \in Connections, Handle(c) PROVE pl' \in PipelineState /\ Sane(pl')
  <2>1. msg[c] \in {"StartCapture", "AddStream", "RemoveStream", "StartVoice",
                    "StopVoice", "StartRecording", "Stop"}
    BY <1>2, ClientConstants DEF IInv, TypeOK, Promotions, Handle
  <2>2. PICK o \in Handled(msg[c]) : pl' = o.pl
    BY <1>2 DEF Handle
  <2>3. QED
    BY <1>1, <2>1, <2>2, HandledKept
<1>3. ASSUME NEW c \in Connections, Leave(c) PROVE pl' \in PipelineState /\ Sane(pl')
  BY <1>1, <1>3, LeftKept DEF Leave
<1>4. ASSUME NEW c \in Connections, Connection(c), ~Handle(c), ~Leave(c) PROVE pl' = pl
  BY <1>4 DEF Connection, Connect, Receive, EndPause, GiveUpWait, Reply, SeeKick, Close, SkipLeave
<1>5. ASSUME NEW c \in Connections, Supervision(c) PROVE pl' \in PipelineState /\ Sane(pl')
  <2>1. CASE Grace(c)
    BY <1>1, <2>1, ReleasedKept DEF Grace
  <2>2. CASE Act(c)
    BY <2>2, ActKept
  <2>3. CASE Look(c) \/ GoOn(c) \/ Cancelled(c) \/ Dropped(c)
    BY <1>1, <2>3 DEF Look, GoOn, Cancelled, Dropped
  <2>4. QED
    BY <1>5, <2>1, <2>2, <2>3 DEF Supervision
<1>6. CASE UNCHANGED vars
  BY <1>1, <1>6 DEF vars
<1>7. QED
  BY <1>1, <1>2, <1>3, <1>4, <1>5, <1>6 DEF Next

\* Where the supervisors are, after a step.
LEMMA SupStep ==
  ASSUME IInv, [Next]_vars
  PROVE  /\ sup' \in [Connections -> Stages] /\ turns' \in 0 .. MaxTurns /\ overtaken' \in BOOLEAN
         /\ (\A c \in Connections : ~Act(c)) => \A c \in Connections : Midway(c)' => Midway(c)
<1>1. sup \in [Connections -> Stages] /\ turns \in 0 .. MaxTurns /\ overtaken \in BOOLEAN /\ MaxTurns \in Nat
  BY ClientConstants DEF IInv, TypeOK
<1>2. ASSUME NEW c \in Connections, NEW s \in {"none", "rest", sup[c]}, sup' = [sup EXCEPT ![c] = s]
      PROVE  /\ sup' \in [Connections -> Stages]
             /\ \A d \in Connections : Midway(d)' => Midway(d)
  <2>1. s \in Stages
    BY <1>1 DEF Stages
  <2>2. sup' \in [Connections -> Stages]
    BY <1>1, <1>2, <2>1
  <2>3. ASSUME NEW d \in Connections, Midway(d)' PROVE Midway(d)
    BY <1>1, <1>2, <2>3 DEF Midway
  <2>4. QED
    BY <2>2, <2>3
<1>3. ASSUME NEW c \in Connections, Connection(c)
      PROVE  /\ turns' = turns /\ overtaken' \in BOOLEAN /\ sup' \in [Connections -> Stages]
             /\ \A d \in Connections : Midway(d)' => Midway(d)
  <2>1. CASE Connect(c)
    <3>1. PICK s \in {"none", "rest"} : sup' = [sup EXCEPT ![c] = s]
      BY <2>1 DEF Connect
    <3>2. QED
      BY <1>1, <1>2, <2>1, <3>1 DEF Connect, histVars
  <2>2. CASE SeeKick(c) \/ Close(c)
    <3>1. Aborted(c) /\ UNCHANGED <<turns, overtaken>>
      BY <2>2 DEF SeeKick, Close, BeginCleanup, histVars
    <3>2. PICK s \in {"none", sup[c]} : sup' = [sup EXCEPT ![c] = s]
      BY <3>1 DEF Aborted
    <3>3. QED
      BY <1>1, <1>2, <3>1, <3>2
  <2>3. CASE (\E m \in Messages : Receive(c, m)) \/ EndPause(c) \/ GiveUpWait(c) \/ Handle(c) \/ Reply(c)
             \/ Leave(c) \/ SkipLeave(c)
    <3>1. UNCHANGED <<sup, turns>>
      BY <2>3 DEF Receive, EndPause, GiveUpWait, Handle, Reply, Leave, SkipLeave, supVars
    <3>2. overtaken' \in BOOLEAN
      BY <1>1, <2>3 DEF Receive, EndPause, GiveUpWait, Handle, Reply, Leave, SkipLeave, histVars, Overtakes
    <3>3. QED
      BY <1>1, <3>1, <3>2 DEF Midway
  <2>4. QED
    BY <1>3, <2>1, <2>2, <2>3 DEF Connection
<1>4. ASSUME NEW c \in Connections, Supervision(c)
      PROVE  /\ turns' \in 0 .. MaxTurns /\ overtaken' \in BOOLEAN /\ sup' \in [Connections -> Stages]
             /\ ~Act(c) => \A d \in Connections : Midway(d)' => Midway(d)
  <2>1. CASE Act(c)
    <3>1. sup' \in [Connections -> Stages]
      BY <2>1, ActKept
    <3>2. overtaken' \in BOOLEAN
      BY <1>1, <2>1, ActIs DEF Overtakes
    <3>3. turns' = turns \/ (turns < MaxTurns /\ turns' = turns + 1)
      BY <2>1 DEF Act
    <3>4. QED
      BY <1>1, <2>1, <3>1, <3>2, <3>3
  <2>2. CASE Cancelled(c)
    BY <1>1, <1>2, <2>2 DEF Cancelled, histVars
  <2>3. CASE Look(c) \/ GoOn(c) \/ Dropped(c) \/ Grace(c)
    <3>1. sup' = sup /\ overtaken' = overtaken
      BY <2>3 DEF Look, GoOn, Dropped, Grace, supVars, histVars
    <3>2. turns' = turns \/ (turns < MaxTurns /\ turns' = turns + 1)
      BY <2>3 DEF Look, GoOn, Dropped, Grace, supVars
    <3>3. QED
      BY <1>1, <3>1, <3>2 DEF Midway
  <2>4. QED
    BY <1>4, <2>1, <2>2, <2>3 DEF Supervision
<1>5. CASE UNCHANGED vars
  BY <1>1, <1>5 DEF vars, supVars, histVars, Midway
<1>6. QED
  BY <1>1, <1>3, <1>4, <1>5 DEF Next

\* Every step keeps the types.
LEMMA TypeStep == ASSUME IInv, [Next]_vars PROVE TypeOK'
<1>1. pl' \in PipelineState /\ queue' \in Seq(Waiters)
  BY SessionStep, WaitingStep
<1>2. TypeOK
  BY DEF IInv
<1>3. ASSUME NEW c \in Connections, Connection(c)
      PROVE  /\ pc' \in [Connections -> {"away", "open", "leave", "gone"} \cup Handling]
             /\ msg' \in [Connections -> Messages \cup {"Hello"}]
             /\ promoted' \in [Connections -> BOOLEAN] /\ kicked' \in [Connections -> BOOLEAN]
             /\ busy' \in [Connections -> BOOLEAN] /\ skipped' \in BOOLEAN
             /\ slot' \in Connections \cup {None} /\ owner' \in Connections \cup {None}
             /\ messages' \in 0 .. MaxMessages
  <2>1. pc' \in [Connections -> {"away", "open", "leave", "gone"} \cup Handling]
    BY <1>2, <1>3, OthersStay
  <2>2. ASSUME NEW m \in Messages, Receive(c, m)
        PROVE  /\ msg' \in [Connections -> Messages \cup {"Hello"}]
               /\ promoted' \in [Connections -> BOOLEAN] /\ kicked' \in [Connections -> BOOLEAN]
               /\ busy' \in [Connections -> BOOLEAN] /\ skipped' \in BOOLEAN
               /\ slot' \in Connections \cup {None} /\ owner' \in Connections \cup {None}
               /\ messages' \in 0 .. MaxMessages
    <3>1. messages' \in 0 .. MaxMessages
      BY <1>2, <2>2, ClientConstants DEF TypeOK, Receive
    <3>2. /\ promoted' \in [Connections -> BOOLEAN] /\ kicked' \in [Connections -> BOOLEAN]
          /\ busy' \in [Connections -> BOOLEAN] /\ slot' \in Connections \cup {None}
      <4>1. CASE UNCHANGED <<promoted, kicked, slot, busy>>
        BY <1>2, <4>1 DEF TypeOK
      <4>2. CASE Promote(c)
        <5>1. CASE slot # None /\ ~Gone(slot)
          <6> DEFINE b == pc[slot] \in Handling
          <6>1. b \in BOOLEAN
            OBVIOUS
          <6>2. busy' = [busy EXCEPT ![slot] = b] /\ kicked' = [kicked EXCEPT ![slot] = TRUE]
                /\ slot' = c /\ promoted' = [promoted EXCEPT ![c] = TRUE]
            BY <4>2, <5>1, Zenon DEF Promote
          <6> HIDE DEF b
          <6>3. QED
            BY <1>2, <6>1, <6>2 DEF TypeOK
        <5>2. CASE ~(slot # None /\ ~Gone(slot))
          BY <1>2, <4>2, <5>2 DEF TypeOK, Promote
        <5>3. QED
          BY <5>1, <5>2
      <4>3. QED
        BY <2>2, <4>1, <4>2 DEF Receive
    <3>3. QED
      BY <1>2, <2>2, <3>1, <3>2 DEF TypeOK, Receive
  <2>3. CASE Connect(c) \/ EndPause(c) \/ GiveUpWait(c) \/ Reply(c) \/ SeeKick(c) \/ Close(c)
    BY <1>2, <2>1, <2>3 DEF TypeOK, Connect, EndPause, GiveUpWait, Reply, SeeKick, Close, histVars
  <2>4. CASE Handle(c)
    <3>1. owner' \in Connections \cup {None}
      BY <1>2, <2>4 DEF TypeOK, Handle
    <3>2. QED
      BY <1>2, <2>1, <2>4, <3>1 DEF TypeOK, Handle
  <2>5. CASE Leave(c) \/ SkipLeave(c)
    BY <1>2, <2>1, <2>5 DEF TypeOK, Leave, SkipLeave
  <2>6. QED
    BY <1>3, <2>1, <2>2, <2>3, <2>4, <2>5 DEF Connection
<1>4. ASSUME NEW c \in Connections, Supervision(c)
      PROVE  UNCHANGED <<netVars, busy, skipped>> /\ owner' \in Connections \cup {None}
  <2>1. owner' \in {owner, None}
    BY <1>4, ActIs DEF Supervision, Look, GoOn, Cancelled, Dropped, Grace, histVars
  <2>2. QED
    BY <1>2, <1>4, <2>1, SupervisionIs DEF TypeOK
<1>5. /\ pc' \in [Connections -> {"away", "open", "leave", "gone"} \cup Handling]
      /\ msg' \in [Connections -> Messages \cup {"Hello"}]
      /\ promoted' \in [Connections -> BOOLEAN] /\ kicked' \in [Connections -> BOOLEAN]
      /\ busy' \in [Connections -> BOOLEAN] /\ skipped' \in BOOLEAN
      /\ slot' \in Connections \cup {None} /\ owner' \in Connections \cup {None}
      /\ messages' \in 0 .. MaxMessages
  <2>1. CASE \E c \in Connections : Connection(c)
    BY <1>3, <2>1
  <2>2. CASE \E c \in Connections : Supervision(c)
    BY <1>2, <1>4, <2>2 DEF TypeOK, netVars
  <2>3. CASE UNCHANGED vars
    BY <1>2, <2>3 DEF TypeOK, vars, netVars, histVars
  <2>4. QED
    BY <2>1, <2>2, <2>3 DEF Next
<1>6. QED
  BY <1>1, <1>5, SupStep DEF TypeOK, Waiters

\* Every step keeps the promotions true.
LEMMA PromotionsStep == ASSUME IInv, [Next]_vars PROVE Promotions'
<1>1. TypeOK /\ Promotions
  BY DEF IInv
<1>2. ASSUME NEW c \in Connections, Connection(c) PROVE Promotions'
  <2>1. ASSUME NEW m \in Messages, Receive(c, m) PROVE Promotions'
    <3>1. CASE UNCHANGED <<promoted, kicked, slot, busy>> /\ (promoted[c] \/ c \in Internal) /\ Dispatch(c, m)
      BY <1>1, <2>1, <3>1 DEF TypeOK, Promotions, Receive, Dispatch, Gone
    <3>2. CASE ~promoted[c] /\ Promote(c)
      <4>1. pc[c] = "open" /\ ~kicked[c] /\ msg' = [msg EXCEPT ![c] = m] /\ owner' = owner
            /\ slot' = c /\ promoted' = [promoted EXCEPT ![c] = TRUE]
        BY <2>1, <3>2 DEF Receive, Promote
      <4>2. \A d \in Connections \ {c} : pc'[d] = pc[d]
        BY <1>1, <1>2, OthersStay DEF TypeOK
      <4>3. pc'[c] \notin {"away", "gone"} /\ (pc'[c] = "wait" => m # "Hello")
        BY <1>1, <2>1, <3>2 DEF TypeOK, Receive, Dispatch
      <4>4. \A d \in Connections \ {c} : promoted[d] /\ ~kicked'[d] /\ ~Gone(d) => FALSE
        BY <1>1, <3>2, ClientConstants DEF TypeOK, Promotions, Promote, Gone
      <4>5. QED
        BY <1>1, <4>1, <4>2, <4>3, <4>4, ClientConstants DEF TypeOK, Promotions, Gone
    <3>3. QED
      BY <2>1, <3>1, <3>2 DEF Receive
  <2>2. CASE Connect(c) \/ EndPause(c) \/ GiveUpWait(c) \/ Reply(c)
    BY <1>1, <2>2 DEF TypeOK, Promotions, Connect, EndPause, GiveUpWait, Reply, Dispatch, Gone, histVars
  <2>3. CASE SeeKick(c) \/ Close(c)
    BY <1>1, <2>3 DEF TypeOK, Promotions, SeeKick, Close, BeginCleanup, Gone, histVars
  <2>4. CASE Handle(c)
    <3>1. pc[c] = "wait" /\ pc' = [pc EXCEPT ![c] = "reply"] /\ msg' = [msg EXCEPT ![c] = "Hello"]
          /\ UNCHANGED <<promoted, kicked, slot>>
      BY <2>4 DEF Handle
    <3>2. owner' \in {c, owner, None}
      BY <2>4 DEF Handle
    <3>3. QED
      BY <1>1, <3>1, <3>2, ClientConstants DEF TypeOK, Promotions, Gone
  <2>5. CASE Leave(c) \/ SkipLeave(c)
    BY <1>1, <2>5, ClientConstants DEF TypeOK, Promotions, Leave, SkipLeave, Gone
  <2>6. QED
    BY <1>2, <2>1, <2>2, <2>3, <2>4, <2>5 DEF Connection
<1>3. CASE UNCHANGED netVars /\ owner' \in {owner, None}
  BY <1>1, <1>3, ClientConstants DEF Promotions, netVars, Gone
<1>4. ASSUME NEW c \in Connections, Supervision(c) PROVE UNCHANGED netVars /\ owner' \in {owner, None}
  BY <1>4, SupervisionIs, ActIs DEF Supervision, Look, GoOn, Cancelled, Dropped, Grace, histVars
<1>5. QED
  BY <1>2, <1>3, <1>4 DEF Next, vars, histVars

\* A session that was left stays so, and one that ends is left.
LEMMA EmptyStep ==
  ASSUME IInv, [Next]_vars
  PROVE  /\ \A c \in Connections : Leave(c) => Empty(pl', overtaken')
         /\ \A c \in Connections : Supervision(c) /\ Empty(pl, overtaken) => Empty(pl', overtaken')
<1>1. TypeOK /\ Late /\ pl \in PipelineState /\ Sane(pl) /\ overtaken \in BOOLEAN /\ overtaken' \in BOOLEAN
  BY SupStep DEF IInv, TypeOK
<1>2. \A p : Empty(p, FALSE) => Empty(p, overtaken')
  BY DEF Empty
<1>3. ASSUME NEW c \in Connections, Leave(c) PROVE Empty(pl', overtaken')
  <2>1. pl' = Left(pl) /\ Overtakes(Left(pl))
    BY <1>3 DEF Leave
  <2>2. CASE Empty(Left(pl), FALSE)
    BY <1>2, <2>1, <2>2
  <2>3. CASE Left(pl) = pl /\ pl.state = "Idle" /\ pl.asio
    BY <1>1, <2>1, <2>3 DEF Overtakes, Late, Empty, Sane
  <2>4. QED
    BY <1>1, <2>2, <2>3, LeftKept
<1>4. ASSUME NEW c \in Connections, Supervision(c), Empty(pl, overtaken) PROVE Empty(pl', overtaken')
  <2>1. CASE Grace(c)
    BY <1>1, <1>4, <2>1, ReleasedKept DEF Grace, histVars
  <2>2. CASE Look(c) \/ GoOn(c) \/ Cancelled(c) \/ Dropped(c)
    <3>1. pl' = pl /\ overtaken' = overtaken
      BY <2>2 DEF Look, GoOn, Cancelled, Dropped, histVars
    <3>2. QED
      BY <1>4, <3>1
  <2>3. CASE Act(c) /\ sup[c] = "halt"
    BY <1>2, <2>3, ActKept
  <2>4. CASE Act(c) /\ sup[c] = "rest"
    <3>1. Kin(pl, pl') /\ pl'.feeding = pl.feeding /\ pl'.output = pl.output /\ overtaken' = overtaken
      BY <2>4, ActIs, ActKept
    <3>2. QED
      BY <1>1, <1>4, <3>1, KinKept, ZenonT(60)
  <2>5. CASE Act(c) /\ sup[c] \notin {"halt", "rest"}
    <3>1. Kin(pl, pl') /\ overtaken' = overtaken /\ sup[c] # "none"
      BY <2>5, ActIs, ActKept
    <3>2. overtaken = TRUE
      BY <1>1, <1>4, <2>5, <3>1 DEF Late, Midway, Empty
    <3>3. QED
      BY <1>1, <1>4, <3>1, <3>2, KinKept
  <2>6. QED
    BY <1>4, <2>1, <2>2, <2>3, <2>4, <2>5 DEF Supervision
<1>5. QED
  BY <1>3, <1>4

\* No step leaves a session behind with nobody to leave it.
LEMMA LookedStep == ASSUME IInv, [Next]_vars PROVE Looked'
<1>1. TypeOK /\ Promotions /\ Looked /\ pl \in PipelineState /\ Sane(pl)
  BY DEF IInv, TypeOK
<1>2. ASSUME NEW c \in Connections, Connection(c) PROVE Looked'
  <2>1. CASE Handle(c)
    <3>1. promoted'[c] /\ ~Gone(c)'
      BY <1>1, <2>1 DEF TypeOK, Promotions, Handle, Gone
    <3>2. QED
      BY <3>1 DEF Looked
  <2>2. CASE Leave(c)
    BY <2>2, EmptyStep DEF Looked
  <2>3. CASE SkipLeave(c)
    BY <2>3 DEF SkipLeave, Looked
  <2>4. ASSUME ~Handle(c), ~Leave(c), ~SkipLeave(c) PROVE Looked'
    <3>1. pl' = pl /\ skipped' = skipped /\ overtaken' = overtaken
      BY <1>2, <2>4 DEF Connection, Connect, Receive, EndPause, GiveUpWait, Reply, SeeKick, Close, histVars
    <3>2. \A d \in Connections : promoted[d] /\ ~Gone(d) => promoted'[d] /\ ~Gone(d)'
      <4>1. ASSUME NEW m \in Messages, Receive(c, m)
            PROVE  \A d \in Connections : promoted[d] /\ ~Gone(d) => promoted'[d] /\ ~Gone(d)'
        BY <1>1, <4>1 DEF TypeOK, Receive, Promote, Dispatch, Gone
      <4>2. CASE Connect(c) \/ EndPause(c) \/ GiveUpWait(c) \/ Reply(c) \/ SeeKick(c) \/ Close(c)
        BY <1>1, <4>2 DEF TypeOK, Connect, EndPause, GiveUpWait, Reply, SeeKick, Close, Dispatch,
                          BeginCleanup, Gone
      <4>3. QED
        BY <1>2, <2>4, <4>1, <4>2 DEF Connection
    <3>3. Empty(pl, overtaken) <=> Empty(pl, overtaken)'
      BY <3>1
    <3>4. QED
      BY <1>1, <3>1, <3>2, <3>3 DEF Looked
  <2>5. QED
    BY <2>1, <2>2, <2>3, <2>4
<1>3. ASSUME NEW c \in Connections, Supervision(c) PROVE Looked'
  <2>1. UNCHANGED <<pc, promoted, skipped>>
    BY <1>3, SupervisionIs DEF netVars
  <2>2. Empty(pl, overtaken) => Empty(pl', overtaken')
    BY <1>3, EmptyStep
  <2>3. QED
    BY <1>1, <2>1, <2>2 DEF Looked, Gone
<1>4. CASE UNCHANGED vars
  BY <1>1, <1>4 DEF Looked, vars, netVars, histVars, Gone
<1>5. QED
  BY <1>2, <1>3, <1>4 DEF Next

\* The end of a session leaves no supervisor that acts on it unnoticed.
LEMMA LateStep == ASSUME IInv, [Next]_vars PROVE Late'
<1>1. TypeOK /\ Late /\ pl \in PipelineState /\ Sane(pl) /\ Promotions
  BY DEF IInv, TypeOK
<1>2. \A p : Empty(p, FALSE) => ~p.feeding
  BY DEF Empty
<1>3. ASSUME pl'.state = "Idle" => pl.state = "Idle" /\ (pl'.feeding => pl.feeding),
             overtaken' = overtaken, \A c \in Connections : Midway(c)' => Midway(c)
      PROVE  Late'
  BY <1>1, <1>3 DEF Late
<1>4. ASSUME pl' = Left(pl), Overtakes(Left(pl)), \A c \in Connections : Midway(c)' => Midway(c)
      PROVE  Late'
  <2>1. pl'.feeding => overtaken'
    BY <1>1, <1>2, <1>4, LeftKept DEF Late, Overtakes
  <2>2. \A c \in Connections : Midway(c)' => overtaken'
    BY <1>4 DEF Overtakes
  <2>3. QED
    BY <2>1, <2>2 DEF Late
<1>5. ASSUME NEW c \in Connections, Connection(c), \A d \in Connections : Midway(d)' => Midway(d) PROVE Late'
  <2>1. CASE Handle(c)
    <3>1. msg[c] \in {"StartCapture", "AddStream", "RemoveStream", "StartVoice",
                      "StopVoice", "StartRecording", "Stop"}
      BY <1>1, <2>1, ClientConstants DEF TypeOK, Promotions, Handle
    <3>2. PICK o \in Handled(msg[c]) :
            pl' = o.pl /\ (IF msg[c] = "Stop" THEN Overtakes(o.pl) ELSE UNCHANGED overtaken)
      BY <2>1 DEF Handle
    <3>3. CASE msg[c] = "Stop"
      <4>1. o.pl = Left(pl) /\ Overtakes(o.pl)
        BY <1>1, <3>1, <3>2, <3>3, HandledKept
      <4>2. QED
        BY <1>4, <1>5, <3>2, <4>1
    <3>4. CASE msg[c] # "Stop"
      <4>1. IsCapturing(o.pl) \/ (o.pl.state = pl.state /\ (o.pl.feeding => pl.feeding))
        BY <1>1, <3>1, <3>2, <3>4, HandledKept
      <4>2. overtaken' = overtaken
        BY <3>2, <3>4
      <4>3. pl'.state = "Idle" => pl.state = "Idle" /\ (pl'.feeding => pl.feeding)
        BY <3>2, <4>1 DEF IsCapturing
      <4>4. QED
        BY <1>3, <1>5, <4>2, <4>3
    <3>5. QED
      BY <3>3, <3>4
  <2>2. CASE Leave(c)
    BY <1>4, <1>5, <2>2 DEF Leave
  <2>3. ASSUME ~Handle(c), ~Leave(c) PROVE Late'
    <3>1. pl' = pl /\ overtaken' = overtaken
      BY <1>5, <2>3 DEF Connection, Connect, Receive, EndPause, GiveUpWait, Reply, SeeKick, Close, SkipLeave,
                        histVars
    <3>2. QED
      BY <1>3, <1>5, <3>1
  <2>4. QED
    BY <2>1, <2>2, <2>3
<1>6. ASSUME NEW c \in Connections, Act(c) PROVE Late'
  <2>1. CASE sup[c] = "halt"
    <3>1. ~pl'.feeding
      BY <1>2, <1>6, <2>1, ActKept
    <3>2. \A d \in Connections : Midway(d)' => Midway(d)
      BY <1>6, <2>1, ActKept
    <3>3. \A d \in Connections : Midway(d) => overtaken'
      BY <1>6, <2>1, ActIs DEF Overtakes
    <3>4. QED
      BY <3>1, <3>2, <3>3 DEF Late
  <2>2. CASE sup[c] = "rest"
    <3>1. pl'.feeding = pl.feeding /\ pl'.state = pl.state /\ overtaken' = overtaken
      BY <1>6, <2>2, ActKept, ActIs DEF Kin
    <3>2. \A d \in Connections : Midway(d)' => Midway(d) \/ IsCapturing(pl)
      BY <1>6, <2>2, ActKept
    <3>3. QED
      BY <1>1, <3>1, <3>2 DEF Late, IsCapturing
  <2>3. CASE sup[c] \notin {"halt", "rest"}
    <3>1. pl'.state = pl.state /\ overtaken' = overtaken /\ Midway(c)
      BY <1>6, <2>3, ActKept, ActIs DEF Kin, Midway
    <3>2. QED
      BY <1>1, <3>1 DEF Late
  <2>4. QED
    BY <2>1, <2>2, <2>3
<1>7. ASSUME NEW c \in Connections, Supervision(c), ~Act(c), \A d \in Connections : Midway(d)' => Midway(d)
      PROVE  Late'
  <2>1. overtaken' = overtaken
    BY <1>7 DEF Supervision, Look, GoOn, Cancelled, Dropped, Grace, histVars
  <2>2. CASE Grace(c)
    BY <1>1, <1>3, <1>7, <2>1, <2>2, ReleasedKept DEF Grace
  <2>3. CASE ~Grace(c)
    <3>1. pl' = pl
      BY <1>7, <2>3 DEF Supervision, Look, GoOn, Cancelled, Dropped
    <3>2. QED
      BY <1>3, <1>7, <2>1, <3>1
  <2>4. QED
    BY <2>2, <2>3
<1>8. CASE \E c \in Connections : Act(c)
  BY <1>6, <1>8
<1>9. CASE \A c \in Connections : ~Act(c)
  <2>1. \A c \in Connections : Midway(c)' => Midway(c)
    BY <1>9, SupStep
  <2>2. CASE UNCHANGED vars
    BY <1>3, <2>1, <2>2 DEF vars, histVars
  <2>3. QED
    BY <1>5, <1>7, <1>9, <2>1, <2>2 DEF Next
<1>10. QED
  BY <1>8, <1>9

\* One that takes the place comes after those it displaces, in the queue too.
LEMMA BehindPromotion ==
  ASSUME IInv, NEW e \in Connections, NEW m \in Messages, Receive(e, m), ~promoted[e], Promote(e)
  PROVE  Behind'
<1>1. TypeOK /\ Promotions /\ Waiting /\ Behind /\ queue \in Seq(Waiters) /\ e \in Waiters
  BY DEF IInv, TypeOK, Waiters
<1>2. /\ pc[e] = "open" /\ slot' = e /\ promoted' = [promoted EXCEPT ![e] = TRUE] /\ owner' = owner
      /\ owner # e
  BY <1>1 DEF Receive, Promote, Promotions
<1>3. \A d \in Connections \ {e} : pc'[d] = pc[d]
  BY <1>1, OthersStay DEF TypeOK, Connection
<1>4. ~Member(queue, e)
  BY <1>1, <1>2 DEF Waiting
<1>5. CASE Displaces
  <2>1. /\ pc'[e] = "pause" /\ queue' = queue
        /\ kicked' = [kicked EXCEPT ![slot] = TRUE]
        /\ slot \in Connections /\ slot # e /\ ~Gone(slot)
    BY <1>1, <1>5 DEF Receive, Promote, Displaces, TypeOK, Promotions
  <2>2. ASSUME NEW c \in Connections, c # e, promoted'[c], ~Gone(c)', kicked'[c], ~busy'[c]
        PROVE  pc'[c] \in {"leave", "open"}
    <3>1. promoted[c] /\ pc'[c] = pc[c] /\ pc[c] \notin {"away", "gone"}
      BY <1>1, <1>2, <1>3, <2>2 DEF TypeOK, Gone, Promotions
    <3>2. CASE c = slot
      <4>1. busy'[c] <=> pc[c] \in Handling
        BY <1>1, <1>5, <2>1, <3>2 DEF Promote, Displaces, TypeOK
      <4>2. QED
        BY <1>1, <2>2, <3>1, <4>1 DEF TypeOK
    <3>3. CASE c # slot
      <4>1. kicked[c] /\ ~busy[c]
        BY <1>1, <2>1, <2>2, <3>3 DEF TypeOK, Promote
      <4>2. QED
        BY <1>1, <2>1, <3>1, <3>3, <4>1 DEF Behind, Gone
    <3>4. QED
      BY <3>2, <3>3
  <2>3. \A c : Before(queue, c, e)
    BY <1>4 DEF Before, Member
  <2>4. QED
    BY <1>2, <2>1, <2>2, <2>3 DEF Behind
<1>6. CASE ~Displaces
  <2>1. Dispatch(e, m) /\ kicked' = kicked /\ busy' = busy
    BY <1>6 DEF Receive, Promote, Displaces
  <2>2. ASSUME NEW c \in Connections, c # e, promoted'[c], ~Gone(c)', kicked'[c], ~busy'[c]
        PROVE  pc'[c] = "leave"
    <3>1. promoted[c] /\ pc'[c] = pc[c] /\ ~Gone(c) /\ kicked[c] /\ ~busy[c]
      BY <1>1, <1>2, <1>3, <2>1, <2>2 DEF TypeOK, Gone
    <3>2. slot \in Connections /\ Gone(slot) /\ c # slot
      BY <1>1, <1>6, <3>1 DEF Displaces, Promotions, TypeOK
    <3>3. QED
      BY <1>1, <3>1, <3>2 DEF Behind, Gone
  <2>3. \A c : c # e => Before(queue', c, e)
    <3>1. CASE queue' = queue
      BY <1>4, <3>1 DEF Before, Member
    <3>2. CASE Joins(e)
      BY <1>1, <3>2, AfterJoin DEF Waiting
    <3>3. QED
      BY <1>1, <1>4, <2>1, <3>1, <3>2 DEF Dispatch, Joins
  <2>4. QED
    BY <1>2, <2>2, <2>3 DEF Behind
<1>7. QED
  BY <1>5, <1>6

\* The other steps of a connection.
LEMMA BehindOther ==
  ASSUME IInv, NEW e \in Connections, Connection(e), UNCHANGED <<promoted, kicked, slot, busy>>
  PROVE  Behind'
<1>1. TypeOK /\ Promotions /\ Waiting /\ Once(queue) /\ Behind /\ queue \in Seq(Waiters)
  BY DEF IInv, TypeOK, Waiters, Waiting
<1>2. \A x \in Connections \ {e} : pc'[x] = pc[x]
  BY <1>1, OthersStay DEF TypeOK
<1>3. pc'[e] # "gone" => pc[e] # "gone"
  BY <1>1 DEF Connection, Connect, Receive, EndPause, GiveUpWait, Handle, Reply, SeeKick, Close, Leave,
              SkipLeave, TypeOK
<1>4. SUFFICES ASSUME NEW c \in Connections, NEW d \in Connections, c # d, promoted[c], ~Gone(c),
                      kicked[c], ~busy[c], slot = d, ~Gone(c)'
               PROVE  /\ owner' # d
                      /\ pc'[c] = "leave" \/ (pc'[c] = "open" /\ pc'[d] = "pause")
                      /\ Before(queue', c, d)
  BY <1>1, <1>2, <1>3 DEF Behind, Gone
<1>5. /\ owner # d /\ Before(queue, c, d)
      /\ pc[c] = "leave" \/ (pc[c] = "open" /\ pc[d] = "pause")
  BY <1>1, <1>4 DEF Behind
<1>6. CASE e = c
  <2>1. pc[c] = "open" /\ pc[d] = "pause" /\ SeeKick(c)
    <3>1. CASE pc[c] = "leave"
      BY <1>1, <1>4, <1>6, <3>1 DEF Connection, Connect, Receive, EndPause, GiveUpWait, Handle, Reply,
         SeeKick, Close, Leave, SkipLeave, TypeOK, Handling, Gone
    <3>2. CASE pc[c] = "open"
      BY <1>1, <1>4, <1>5, <1>6, <3>2 DEF Connection, Connect, Receive, EndPause, GiveUpWait, Handle, Reply,
         SeeKick, Close, Leave, SkipLeave, TypeOK, Handling
    <3>3. QED
      BY <1>5, <3>1, <3>2
  <2>2. pc'[c] = "leave" /\ queue' = Append(queue, c) /\ owner' = owner
    BY <1>1, <1>4, <2>1 DEF SeeKick, BeginCleanup, TypeOK, histVars
  <2>3. ~Member(queue, d) /\ Joins(c)
    BY <1>1, <2>1, <2>2 DEF Waiting, Joins, Waiters
  <2>4. ~Member(queue', d)
    BY <1>1, <1>4, <2>3, AfterJoin
  <2>5. Before(queue', c, d)
    BY <2>4 DEF Before, Member
  <2>6. QED
    BY <1>5, <2>2, <2>5
<1>7. CASE e # c
  <2>1. pc'[c] = pc[c]
    BY <1>2, <1>7
  <2>2. Before(queue', c, d)
    <3>1. CASE Joins(e)
      BY <1>1, <1>5, <1>7, <3>1, AfterJoin
    <3>2. CASE Goes(e)
      BY <1>1, <1>5, <3>2, AfterGo
    <3>3. QED
      BY <1>5, <3>1, <3>2, QueueOf
  <2>3. owner' # d
    <3>1. CASE Handle(e)
      <4>1. owner' \in {e, owner, None} /\ pc[e] = "wait" /\ IsHolder(e) /\ queue' = Tail(queue)
        BY <3>1 DEF Handle
      <4>2. e # d
        <5>1. SUFFICES ASSUME e = d PROVE FALSE
          OBVIOUS
        <5>2. Member(queue, c)
          BY <1>1, <1>5, <4>1, <5>1 DEF Waiting
        <5>3. QED
          BY <1>1, <1>4, <1>5, <4>1, <5>1, <5>2, HolderGoes
      <4>3. QED
        BY <1>5, <4>1, <4>2, ClientConstants
    <3>2. CASE ~Handle(e)
      <4>1. owner' \in {owner, None}
        BY <3>2 DEF Connection, Connect, Receive, EndPause, GiveUpWait, Reply, SeeKick, Close, Leave,
           SkipLeave, histVars
      <4>2. QED
        BY <1>5, <4>1, ClientConstants
    <3>3. QED
      BY <3>1, <3>2
  <2>4. pc[c] = "leave" \/ (pc[c] = "open" /\ pc'[d] = "pause")
    <3>1. CASE e # d
      BY <1>2, <1>5, <3>1
    <3>2. CASE e = d /\ pc[c] = "open"
      <4>1. pc[e] = "pause" /\ kicked[c]
        BY <1>4, <1>5, <3>2
      <4>2. EndPause(e)
        BY <4>1 DEF Connection, Connect, Receive, GiveUpWait, Handle, Reply, SeeKick, Close, Leave, SkipLeave
      <4>3. QED
        BY <3>2, <4>1, <4>2 DEF EndPause
    <3>3. QED
      BY <1>5, <3>1, <3>2
  <2>5. QED
    BY <2>1, <2>2, <2>3, <2>4
<1>8. QED
  BY <1>6, <1>7

\* Every step keeps the displaced ahead of those who displaced them.
LEMMA BehindStep == ASSUME IInv, [Next]_vars PROVE Behind'
<1>1. Behind /\ Once(queue) /\ queue \in Seq(Waiters)
  BY DEF IInv, TypeOK, Waiters, Waiting
<1>2. ASSUME NEW e \in Connections, Connection(e) PROVE Behind'
  <2>1. ASSUME NEW m \in Messages, Receive(e, m) PROVE Behind'
    <3>1. CASE ~promoted[e] /\ Promote(e)
      BY <2>1, <3>1, BehindPromotion
    <3>2. CASE UNCHANGED <<promoted, kicked, slot, busy>>
      BY <1>2, <3>2, BehindOther
    <3>3. QED
      BY <2>1, <3>1, <3>2 DEF Receive
  <2>2. ASSUME ~\E m \in Messages : Receive(e, m) PROVE Behind'
    <3>1. UNCHANGED <<promoted, kicked, slot, busy>>
      BY <1>2, <2>2 DEF Connection, Connect, EndPause, GiveUpWait, Handle, Reply, SeeKick, Close,
                        Leave, SkipLeave, histVars
    <3>2. QED
      BY <1>2, <3>1, BehindOther
  <2>3. QED
    BY <2>1, <2>2
<1>3. ASSUME NEW e \in Connections, Supervision(e) PROVE Behind'
  <2>1. UNCHANGED <<netVars, busy>> /\ (queue' = queue \/ Joins(Task(e)) \/ Goes(Task(e)))
    BY <1>3, SupervisionIs
  <2>2. owner' \in {owner, None} /\ Task(e) \notin Connections
    BY <1>3, ActIs, Tasks DEF Supervision, Look, GoOn, Cancelled, Dropped, Grace, histVars
  <2>3. \A c, d \in Connections : Before(queue, c, d) => Before(queue', c, d)
    <3>1. CASE queue' = queue
      BY <3>1
    <3>2. CASE Joins(Task(e))
      BY <1>1, <2>2, <3>2, AfterJoin
    <3>3. CASE Goes(Task(e))
      BY <1>1, <3>3, AfterGo
    <3>4. QED
      BY <2>1, <3>1, <3>2, <3>3
  <2>4. QED
    BY <1>1, <2>1, <2>2, <2>3, ClientConstants DEF Behind, netVars, Gone
<1>4. CASE UNCHANGED vars
  BY <1>1, <1>4 DEF Behind, vars, netVars, histVars, Gone
<1>5. QED
  BY <1>2, <1>3, <1>4 DEF Next

\* The invariant holds in every state of every behaviour.
LEMMA Invariant == Spec => []IInv
<1>1. Init => IInv
  BY Starts
<1>2. IInv /\ [Next]_vars => IInv'
  <2> SUFFICES ASSUME IInv, [Next]_vars PROVE IInv'
    OBVIOUS
  <2>1. TypeOK' /\ Sane(pl)' /\ Promotions' /\ Looked' /\ Late' /\ Waiting' /\ Behind'
    BY TypeStep, SessionStep, PromotionsStep, LookedStep, LateStep, WaitingStep, BehindStep
  <2>2. QED
    BY <2>1 DEF IInv
<1>3. QED
  BY <1>1, <1>2, PTL DEF Spec

-----------------------------------------------------------------------------
(* The theorems. *)

\* The connections, the queue and the session keep their types, whatever message, failure
\* or departure comes (PipelineState and handle_connection).
THEOREM ClientsTyped == Spec => []TypeOK
<1>1. IInv => TypeOK
  BY DEF IInv
<1>2. QED
  BY <1>1, Invariant, PTL

\* One browser at most holds the place, and it is the one whose killer is stored in
\* active_client_killer, however connections open, speak, freeze and close.
THEOREM OneClientAtATime == Spec => []OneClient
<1>1. IInv => OneClient
  BY DEF IInv, Promotions, OneClient, Clients, Gone, Handling
<1>2. QED
  BY <1>1, Invariant, PTL

\* When every connection that spoke is gone, and no cleanup gave the mutex up, nothing of a
\* session runs, and outside ASIO nothing is open (leave_session in the cleanup of
\* handle_connection); a supervisor that still acts on the session it saw may only have raised
\* capture_feeding or reopened an output since.
THEOREM EmptyHouseAfterAll == Spec => []EmptyHouse
<1>1. IInv => EmptyHouse
  <2> SUFFICES ASSUME IInv, EveryoneLeft, ~skipped
               PROVE  /\ pl.state = "Idle" /\ ~pl.encoder /\ ~pl.awake
                      /\ ~overtaken => ~pl.feeding
                      /\ ~pl.asio => LET q == IF overtaken
                                              THEN [pl EXCEPT !.feeding = FALSE, !.output = "closed"] ELSE pl
                                     IN  Forgotten(q) = Boot(FALSE)
    BY DEF EmptyHouse
  <2>1. Empty(pl, overtaken) /\ pl \in PipelineState /\ Sane(pl)
    BY DEF IInv, TypeOK, Looked, EveryoneLeft
  <2>2. pl.state = "Idle" /\ ~pl.encoder /\ ~pl.awake /\ (~overtaken => ~pl.feeding)
    BY <2>1 DEF Empty, Quiet
  <2>3. ASSUME ~pl.asio, ~overtaken PROVE Forgotten(pl) = Boot(FALSE)
    BY <2>1, <2>3, ForgottenIsBoot DEF Empty, Sane
  <2>4. ASSUME ~pl.asio PROVE Forgotten([pl EXCEPT !.feeding = FALSE, !.output = "closed"]) = Boot(FALSE)
    <3> DEFINE q == [pl EXCEPT !.feeding = FALSE, !.output = "closed"]
    <3>1. q \in PipelineState /\ ~q.feeding /\ q.output = "closed"
      BY <2>1 DEF PipelineState
    <3>2. q.state = pl.state /\ q.encoder = pl.encoder /\ q.awake = pl.awake /\ q.drift = pl.drift /\ q.asio = pl.asio
      BY <2>1 DEF PipelineState
    <3>3. q.channel = pl.channel /\ q.input = pl.input /\ q.warm = pl.warm /\ q.peers = pl.peers
          /\ q.voice = pl.voice /\ q.recorder = pl.recorder
      BY <2>1 DEF PipelineState
    <3> HIDE DEF q
    <3>4. Forgotten(q) = Boot(FALSE)
      BY <2>1, <2>4, <3>1, <3>2, <3>3, ForgottenIsBoot DEF Empty, Sane, Quiet, Bare
    <3>5. QED
      BY <3>4 DEF q
  <2>5. QED
    BY <2>2, <2>3, <2>4
<1>2. QED
  BY <1>1, Invariant, PTL

\* A step ends another's session only in the hands of one that was displaced while it handled
\* a message, or of a supervisor that stops a capture for its rate.
LEMMA CutShortStep ==
  ASSUME IInv, [Next]_vars, NEW d \in Connections, EndsSessionOf(d)
  PROVE  Stalled(d) \/ StopsForRate
<1>1. TypeOK /\ Promotions /\ Waiting /\ Behind /\ pl \in PipelineState /\ Sane(pl)
  BY DEF IInv, TypeOK
<1>2. pl' # pl /\ pl'.state # pl.state
  BY DEF EndsSessionOf, IsCapturing
<1>3. ASSUME NEW c \in Connections, Supervision(c) PROVE StopsForRate
  <2>1. ~Grace(c)
    BY <1>1, <1>2, ReleasedKept DEF Grace
  <2>2. Act(c)
    BY <1>2, <1>3, <2>1 DEF Supervision, Look, GoOn, Cancelled, Dropped
  <2>3. sup[c] = "halt"
    BY <1>2, <2>2, ActKept DEF Kin
  <2>4. QED
    BY <2>2, <2>3 DEF Act, StopsForRate
<1>4. ASSUME NEW c \in Connections, Connection(c) PROVE Stalled(d)
  <2>1. Handle(c) \/ Leave(c)
    BY <1>2, <1>4 DEF Connection, Connect, Receive, EndPause, GiveUpWait, Reply, SeeKick, Close, SkipLeave
  <2>2. c # d /\ pc[c] \in {"wait", "leave"}
    BY <1>1, <2>1 DEF Handle, Leave, EndsSessionOf, TypeOK
  <2>3. promoted[c] /\ Waits(c) /\ ~Gone(c)
    BY <1>1, <2>2 DEF Promotions, Waiting, Member, Waits, Gone
  <2>4. slot = d /\ owner = d
    BY <1>1 DEF EndsSessionOf, Clients, Promotions, Gone, Handling
  <2>5. kicked[c]
    BY <1>1, <2>2, <2>3, <2>4 DEF Promotions
  <2>6. busy[c]
    BY <1>1, <2>2, <2>3, <2>4, <2>5 DEF Behind
  <2>7. QED
    BY <2>2, <2>3, <2>6 DEF Stalled
<1>5. QED
  BY <1>2, <1>3, <1>4 DEF Next, vars

\* A connection that never spoke leaves without a trace.
LEMMA VisitorStep ==
  ASSUME IInv, [Next]_vars, NEW c \in Connections, ~promoted[c], ~Gone(c), Gone(c)'
  PROVE  UNCHANGED <<pl, queue, slot, kicked>>
<1>1. TypeOK /\ Promotions
  BY DEF IInv
<1>2. PICK e \in Connections : Connection(e)
  BY SupervisionIs DEF Next, vars, netVars, Gone
<1>3. e = c
  BY <1>1, <1>2, OthersStay DEF TypeOK, Gone
<1>4. SeeKick(c) \/ Close(c)
  BY <1>1, <1>2, <1>3 DEF Connection, Connect, Receive, EndPause, GiveUpWait, Handle, Reply, Leave,
     SkipLeave, Dispatch, Promotions, TypeOK, Gone
<1>5. QED
  BY <1>1, <1>4 DEF SeeKick, Close, BeginCleanup

\* The session of a browser that is still there ends only by its own hand, by one that was
\* in the middle of a message when it was displaced, or by the supervisor that saw its rate drift
\* (rate_drift_stop); one that never spoke (a probe, the program's
\* window) leaves the session, the queue and the place as they are.
THEOREM SessionsLeftAlone == Spec => SessionLeftAlone
<1>1. IInv /\ [Next]_vars => [\A d \in Connections : EndsSessionOf(d) => Stalled(d) \/ StopsForRate]_vars
  BY CutShortStep
<1>2. IInv /\ [Next]_vars => [\A c \in Connections : ~promoted[c] /\ ~Gone(c) /\ Gone(c)'
                                => UNCHANGED <<pl, queue, slot, kicked>>]_vars
  BY VisitorStep
<1>3. QED
  BY <1>1, <1>2, Invariant, PTL DEF Spec, SessionLeftAlone, CutShortOnlyByStalled, VisitorsLeaveNoTrace
===============================================================================
