--------------------------- MODULE RtpStreamProofs ---------------------------
(***************************************************************************)
(* Proofs about RtpStream, for every value of its constants: types, the    *)
(* order of what is played, the truth of the verdicts, the loss that is    *)
(* published and the end of a quarantine.                                  *)
(***************************************************************************)
EXTENDS RtpStream, FiniteSetTheorems, TLAPS

-----------------------------------------------------------------------------
(* Sequence numbers.                                                       *)

LEMMA WireType == \A p \in Nat : Wire(p) \in SeqNum
  BY SeqConstants DEF Wire, SeqNum

LEMMA QuotientDifference ==
  ASSUME NEW k \in Int, NEW m \in Nat, m > 0, m * k < 2 * m, m * k > -m
  PROVE  k = 0 \/ k = 1
<1>1. CASE k >= 2
  <2>1. m * k >= m * 2  BY <1>1
  <2> QED  BY <2>1
<1>2. CASE k =< -1
  <2>1. m * k =< m * (-1)  BY <1>2
  <2> QED  BY <2>1
<1> QED  BY <1>1, <1>2

\* The circular distance between two wire numbers is the distance between the
\* slots, as long as the slots are less than one numbering apart.
LEMMA AheadIsDistance ==
  ASSUME NEW a \in Nat, NEW b \in Nat, 0 =< a - b, a - b < SeqMod
  PROVE  Ahead(Wire(a), Wire(b)) = a - b
<1> DEFINE k == (a \div SeqMod) - (b \div SeqMod)
<1>1. SeqMod \in Nat /\ SeqMod > 0  BY SeqConstants
<1>2. /\ a = SeqMod * (a \div SeqMod) + (a % SeqMod)
      /\ b = SeqMod * (b \div SeqMod) + (b % SeqMod)
      /\ a \div SeqMod \in Int /\ b \div SeqMod \in Int
      /\ a % SeqMod \in 0 .. SeqMod - 1 /\ b % SeqMod \in 0 .. SeqMod - 1
  BY <1>1
<1>3. a - b = SeqMod * k + ((a % SeqMod) - (b % SeqMod))
  <2>1. SeqMod * k = SeqMod * (a \div SeqMod) - SeqMod * (b \div SeqMod)  BY <1>1, <1>2
  <2>2. SeqMod * (a \div SeqMod) \in Int /\ SeqMod * (b \div SeqMod) \in Int  BY <1>1, <1>2
  <2> QED  BY <2>1, <2>2, <1>1, <1>2
<1>4. SeqMod * k < 2 * SeqMod /\ SeqMod * k > -SeqMod  BY <1>1, <1>2, <1>3
<1>5. k = 0 \/ k = 1  BY <1>1, <1>2, <1>4, QuotientDifference
<1> QED  BY <1>1, <1>2, <1>3, <1>5 DEF Ahead, Wire

LEMMA AheadReversed ==
  ASSUME NEW x \in SeqNum, NEW y \in SeqNum, x # y
  PROVE  Ahead(x, y) = SeqMod - Ahead(y, x)
BY SeqConstants DEF Ahead, SeqNum

LEMMA AheadType ==
  ASSUME NEW x \in SeqNum, NEW y \in SeqNum
  PROVE  Ahead(x, y) \in SeqNum /\ (Ahead(x, y) = 0 <=> x = y)
BY SeqConstants DEF Ahead, SeqNum

LEMMA SuccIsNext ==
  ASSUME NEW p \in Nat
  PROVE  Succ(Wire(p)) = Wire(p + 1)
<1>1. Wire(p) \in SeqNum /\ Wire(p + 1) \in SeqNum  BY WireType
<1>2. 1 < SeqMod /\ SeqMod \in Nat  BY SeqConstants
<1>3. Ahead(Wire(p + 1), Wire(p)) = 1  BY <1>2, AheadIsDistance
<1> QED  BY <1>1, <1>2, <1>3 DEF Ahead, Succ, SeqNum

\* What a delivered packet's wire number says of its slot: one that is not ahead
\* of the stream is recognised as such, whatever the numbering restarted to.
LEMMA BehindIsSeen ==
  ASSUME NEW p \in Nat, NEW h \in Nat, p =< h, h - p < MAX_MISORDER
  PROVE  /\ Ahead(Wire(h), Wire(p)) = h - p
         /\ p = h => Ahead(Wire(p), Wire(h)) = 0
         /\ p # h => Ahead(Wire(p), Wire(h)) >= MAX_DROPOUT
<1>1. /\ {SeqMod, MAX_DROPOUT, MAX_MISORDER} \subseteq Nat
      /\ MAX_DROPOUT + MAX_MISORDER =< SeqMod /\ MAX_MISORDER > 1
  BY SeqConstants
<1>2. Ahead(Wire(h), Wire(p)) = h - p  BY <1>1, AheadIsDistance
<1>3. Wire(p) \in SeqNum /\ Wire(h) \in SeqNum  BY WireType
<1>4. p # h => Wire(p) # Wire(h)  BY <1>2, <1>3, AheadType
<1> QED  BY <1>1, <1>2, <1>3, <1>4, AheadType, AheadReversed

-----------------------------------------------------------------------------
(* The tracker's operators.                                                *)

\* The outcomes of on_packet, each with the condition under which it is chosen.
IsStart(t, s) ==
  /\ \/ t.highest = None
     \/ /\ Ahead(s, t.highest) >= MAX_DROPOUT
        /\ Ahead(t.highest, s) >= MAX_MISORDER
        /\ t.resync_seq = s
  /\ Classify(t, s) = Start
  /\ OnPacket(t, s) = Started(t, s)

IsNext(t, s) ==
  /\ t.highest # None
  /\ Ahead(s, t.highest) \in 1 .. MAX_DROPOUT - 1
  /\ Classify(t, s) = Forward(Ahead(s, t.highest) - 1)
  /\ OnPacket(t, s) = Advanced(t, s)

IsLate(t, s) ==
  LET behind == Ahead(t.highest, s)
  IN /\ t.highest # None
     /\ behind \in 0 .. MAX_MISORDER - 1
     /\ \/ behind = 0 /\ behind \in t.concealed
        \/ behind > 0 /\ behind \notin t.history
     /\ Classify(t, s) = Late(behind \in t.concealed)
     /\ OnPacket(t, s) = ArrivedLate(t, behind)

IsDuplicate(t, s) ==
  LET behind == Ahead(t.highest, s)
  IN /\ t.highest # None
     /\ behind \in 0 .. MAX_MISORDER - 1
     /\ \/ behind = 0 /\ behind \notin t.concealed
        \/ behind > 0 /\ behind \in t.history
     /\ Classify(t, s) = Duplicate
     /\ OnPacket(t, s) = SeenAgain(t)

IsJump(t, s) ==
  /\ t.highest # None
  /\ Ahead(s, t.highest) >= MAX_DROPOUT
  /\ Ahead(t.highest, s) >= MAX_MISORDER
  /\ Classify(t, s) = Jump
  /\ OnPacket(t, s) = Quarantined(t, s)

LEMMA OnPacketCases ==
  ASSUME NEW t \in Tracker, NEW s \in SeqNum
  PROVE  IsStart(t, s) \/ IsNext(t, s) \/ IsLate(t, s) \/ IsDuplicate(t, s) \/ IsJump(t, s)
<1> DEFINE ahead  == Ahead(s, t.highest)
           behind == Ahead(t.highest, s)
<1>0. MAX_DROPOUT \in Nat /\ MAX_MISORDER \in Nat /\ SeqMod \in Nat /\ 1 < MAX_MISORDER
  BY SeqConstants
<1>1. t.highest # None => ahead \in Nat /\ behind \in Nat /\ (ahead = 0 => behind = 0)
                          /\ (behind = 0 => ahead = 0)
  <2> SUFFICES ASSUME t.highest # None
               PROVE  ahead \in Nat /\ behind \in Nat /\ (ahead = 0 <=> behind = 0)
    OBVIOUS
  <2>1. t.highest \in SeqNum  BY DEF Tracker
  <2>2. ahead \in SeqNum /\ (ahead = 0 <=> s = t.highest)  BY <2>1, AheadType
  <2>3. behind \in SeqNum /\ (behind = 0 <=> t.highest = s)  BY <2>1, AheadType
  <2> QED  BY <1>0, <2>2, <2>3 DEF SeqNum
<1>2. /\ Record(t, s, Start) = Started(t, s)
      /\ Record(t, s, Duplicate) = SeenAgain(t)
      /\ Record(t, s, Jump) = Quarantined(t, s)
      /\ \A n : Record(t, s, Forward(n)) = Advanced(t, s)
      /\ \A b : Record(t, s, Late(b)) = ArrivedLate(t, behind)
  BY DEF Record, Start, Duplicate, Jump, Forward, Late
<1>3. CASE t.highest = None
  BY <1>2, <1>3 DEF Classify, OnPacket, IsStart
<1>4. CASE t.highest # None /\ ahead = 0
  <2>1. CASE 0 \in t.concealed
    <3>1. Classify(t, s) = Late(TRUE)  BY <1>4, <2>1 DEF Classify
    <3>2. OnPacket(t, s) = ArrivedLate(t, behind)  BY <3>1, <1>2 DEF OnPacket
    <3>3. behind = 0  BY <1>1, <1>4
    <3>4. Late(TRUE) = Late(behind \in t.concealed)  BY <2>1, <3>3 DEF Late
    <3>5. Classify(t, s) = Late(behind \in t.concealed)  BY <3>1, <3>4
    <3> QED  BY <1>0, <1>4, <2>1, <3>2, <3>3, <3>5 DEF IsLate
  <2>2. CASE 0 \notin t.concealed
    BY <1>0, <1>1, <1>2, <1>4, <2>2 DEF Classify, OnPacket, IsDuplicate
  <2> QED  BY <2>1, <2>2
<1>5. CASE t.highest # None /\ ahead # 0 /\ ahead < MAX_DROPOUT
  BY <1>0, <1>1, <1>2, <1>5 DEF Classify, OnPacket, IsNext
<1>6. CASE t.highest # None /\ ahead # 0 /\ ~(ahead < MAX_DROPOUT) /\ behind < MAX_MISORDER
  <2>1. CASE behind \in t.history
    BY <1>0, <1>1, <1>2, <1>6, <2>1 DEF Classify, OnPacket, IsDuplicate
  <2>2. CASE behind \notin t.history
    BY <1>0, <1>1, <1>2, <1>6, <2>2 DEF Classify, OnPacket, IsLate
  <2> QED  BY <2>1, <2>2
<1>7. CASE t.highest # None /\ ahead # 0 /\ ~(ahead < MAX_DROPOUT) /\ ~(behind < MAX_MISORDER)
  <2>1. CASE t.resync_seq = s
    BY <1>0, <1>1, <1>2, <1>7, <2>1 DEF Classify, OnPacket, IsStart
  <2>2. CASE t.resync_seq # s
    BY <1>0, <1>1, <1>2, <1>7, <2>2 DEF Classify, OnPacket, IsJump
  <2> QED  BY <2>1, <2>2
<1> QED  BY <1>3, <1>4, <1>5, <1>6, <1>7

LEMMA CountedType ==
  ASSUME NEW c \in Counters, NEW e \in Nat, NEW r \in Nat, NEW l \in Nat, NEW d \in Nat, NEW j \in Nat
  PROVE  Counted(c, e, r, l, d, j) \in Counters
BY DEF Counted, Counters

\* The tracker's type and its own invariant: a slot is never marked both received
\* and invented, and the highest slot is one or the other.
TrackerOK(t) ==
  /\ t \in Tracker
  /\ t.history \cap t.concealed = {}
  /\ t.highest # None => 0 \in t.history \cup t.concealed

LEMMA OnPacketType ==
  ASSUME NEW t, TrackerOK(t), NEW s \in SeqNum
  PROVE  TrackerOK(OnPacket(t, s))
<1>0. /\ 0 \in Bits /\ HISTORY_BITS \in Nat /\ SeqMod \in Nat /\ 1 < SeqMod
      /\ MAX_DROPOUT \in Nat /\ MAX_MISORDER \in Nat /\ MAX_MISORDER =< HISTORY_BITS
      /\ t \in Tracker /\ t.counters \in Counters
      /\ t.history \subseteq Bits /\ t.concealed \subseteq Bits /\ t.resync_seq \in SeqNum \cup {None}
      /\ t.highest \in SeqNum \cup {None}
  BY SeqConstants DEF Bits, TrackerOK, Tracker
<1>1. CASE IsStart(t, s)
  <2>1. Started(t, s).counters \in Counters  BY <1>0, CountedType DEF Started
  <2> QED  BY <1>0, <1>1, <2>1 DEF IsStart, Started, Tracker, TrackerOK
<1>2. CASE IsNext(t, s)
  <2>1. Ahead(s, t.highest) \in Nat \ {0}  BY <1>0, <1>2 DEF IsNext
  <2>2. Advanced(t, s).counters \in Counters  BY <1>0, <2>1, CountedType DEF Advanced
  <2>3. Shift(t.history, Ahead(s, t.highest)) \subseteq Bits \ {0}
        /\ Shift(t.concealed, Ahead(s, t.highest)) \subseteq Bits \ {0}
        /\ Shift(t.history, Ahead(s, t.highest)) \cap Shift(t.concealed, Ahead(s, t.highest)) = {}
    BY <1>0, <2>1 DEF Shift, Bits, TrackerOK
  <2> QED  BY <1>0, <1>2, <2>2, <2>3 DEF IsNext, Advanced, Tracker, TrackerOK
<1>3. CASE IsLate(t, s)
  <2>1. Ahead(t.highest, s) \in Bits  BY <1>0, <1>3 DEF IsLate, Bits
  <2>2. ArrivedLate(t, Ahead(t.highest, s)).counters \in Counters  BY <1>0, CountedType DEF ArrivedLate
  <2> QED  BY <1>0, <1>3, <2>1, <2>2 DEF IsLate, ArrivedLate, Tracker, TrackerOK
<1>4. CASE IsDuplicate(t, s)
  <2>1. Counted(t.counters, 0, 0, 0, 1, 0) \in Counters  BY <1>0, CountedType
  <2> QED  BY <1>0, <1>4, <2>1 DEF IsDuplicate, SeenAgain, Tracker, TrackerOK
<1>5. CASE IsJump(t, s)
  <2>1. Quarantined(t, s).counters \in Counters  BY <1>0, CountedType DEF Quarantined
  <2>2. Succ(s) \in SeqNum  BY <1>0 DEF Succ, SeqNum
  <2> QED  BY <1>0, <1>5, <2>1, <2>2 DEF IsJump, Quarantined, Tracker, TrackerOK
<1> QED  BY <1>0, <1>1, <1>2, <1>3, <1>4, <1>5, OnPacketCases

LEMMA OnConcealedType ==
  ASSUME NEW t, TrackerOK(t)
  PROVE  TrackerOK(OnConcealed(t))
<1>0. /\ 0 \in Bits /\ SeqMod \in Nat /\ 1 < SeqMod /\ t \in Tracker /\ t.counters \in Counters
      /\ t.history \subseteq Bits /\ t.concealed \subseteq Bits /\ t.resync_seq \in SeqNum \cup {None}
      /\ t.highest \in SeqNum \cup {None}
  BY SeqConstants DEF Bits, TrackerOK, Tracker
<1>1. CASE t.highest # None
  <2>1. Invented(t).counters \in Counters  BY <1>0, CountedType DEF Invented
  <2>2. Succ(t.highest) \in SeqNum  BY <1>0, <1>1 DEF Succ, SeqNum
  <2>3. Shift(t.history, 1) \subseteq Bits \ {0} /\ Shift(t.concealed, 1) \subseteq Bits
        /\ Shift(t.history, 1) \cap Shift(t.concealed, 1) = {}
    BY <1>0 DEF Shift, Bits, TrackerOK
  <2> QED  BY <1>0, <1>1, <2>1, <2>2, <2>3 DEF OnConcealed, Invented, Tracker, TrackerOK
<1> QED  BY <1>1 DEF OnConcealed

-----------------------------------------------------------------------------
(* Types.                                                                  *)

\* A delivered packet is a recent one.
LEMMA InFlight ==
  ASSUME TypeOK, NEW p \in net
  PROVE  p \in Nat /\ Wire(p) \in SeqNum /\ p =< sent
BY WireType DEF TypeOK

TypeInv == TypeOK /\ TrackerOK(tracker)

LEMMA TypeInvStep == TypeInv /\ [Next]_vars => TypeInv'
<1> SUFFICES ASSUME TypeInv, [Next]_vars  PROVE  TypeInv'
  OBVIOUS
<1> USE DEF TypeInv
<1>0. /\ Gaps \subseteq Nat \ {0} /\ MAX_CONSECUTIVE \in Nat /\ SeqMod \in Nat /\ 1 < SeqMod
  BY StreamConstants, SeqConstants
<1>1. ASSUME NEW gap \in Gaps, Send(gap)  PROVE  TypeInv'
  <2>1. gap \in Nat /\ sent + gap \in Nat  BY <1>0 DEF TypeOK
  <2>2. ASSUME NEW q \in net'  PROVE  q \in 0 .. sent'
    <3>1. q = sent + gap \/ q \in 0 .. sent  BY <1>1, <2>2 DEF Send, TypeOK
    <3> QED  BY <1>1, <2>1, <3>1 DEF Send, TypeOK
  <2>3. net' \subseteq 0 .. sent'  BY <2>2
  <2> QED  BY <1>1, <2>1, <2>3 DEF Send, TypeOK, TrackerOK
<1>2. ASSUME NEW p \in net, Lose(p)  PROVE  TypeInv'
  BY <1>2 DEF Lose, TypeOK, TrackerOK
<1>3. ASSUME NEW p \in net, Deliver(p)  PROVE  TypeInv'
  <2>1. p \in Nat /\ Wire(p) \in SeqNum  BY InFlight
  <2>2. TrackerOK(tracker')  BY <1>3, <2>1, OnPacketType DEF Deliver
  <2>3. consecutive' \in 0 .. MAX_CONSECUTIVE /\ top' \in Int /\ run' \in Nat /\ lastIn' \in Int
        /\ sent' \in Nat /\ sends' \in Nat /\ copies' \in Nat /\ net' \subseteq 0 .. sent'
    BY <1>0, <1>3, <2>1 DEF Deliver, TypeOK
  <2>4. played' \subseteq Nat /\ received' \subseteq Nat /\ invented' \subseteq Int
    BY <1>3, <2>1 DEF Deliver, TypeOK
  <2>5. covered' \subseteq Int
    BY <1>3, <2>1 DEF Deliver, TypeOK, Classify, Start, Forward, Late, Duplicate, Jump
  <2>6. spanned' \in BOOLEAN  BY <1>3 DEF Deliver, TypeOK
  <2> QED  BY <2>2, <2>3, <2>4, <2>5, <2>6 DEF TypeOK, TrackerOK
<1>4. ASSUME Conceal  PROVE  TypeInv'
  <2>1. TrackerOK(tracker')  BY <1>4, OnConcealedType DEF Conceal
  <2>2. top' \in Int /\ invented' \subseteq Int /\ covered' \subseteq Int /\ consecutive' \in 0 .. MAX_CONSECUTIVE
    BY <1>0, <1>4 DEF Conceal, TypeOK
  <2>3. spanned' \in BOOLEAN  BY <1>4 DEF Conceal, TypeOK
  <2>4. /\ sent' \in Nat /\ sends' \in Nat /\ copies' \in Nat /\ net' \subseteq 0 .. sent'
        /\ run' \in Nat /\ lastIn' \in Int /\ played' \subseteq Nat /\ received' \subseteq Nat
    BY <1>4 DEF Conceal, TypeOK
  <2> QED  BY <2>1, <2>2, <2>3, <2>4 DEF TypeOK, TrackerOK
<1>5. ASSUME UNCHANGED vars  PROVE  TypeInv'
  BY <1>5 DEF vars, TypeOK, TrackerOK
<1> QED  BY <1>1, <1>2, <1>3, <1>4, <1>5 DEF Next

-----------------------------------------------------------------------------
(* Order.  The tracker's highest number is the wire form of top, top is    *)
(* never more than the invented frames beyond what was sent, and nothing   *)
(* in flight is older than the network's reordering: a packet that can     *)
(* still arrive is either ahead of top or recognisably behind it.          *)

OrderInv ==
  /\ tracker.highest = None => played = {} /\ invented = {} /\ received = {}
  /\ tracker.highest # None =>
       /\ top \in Nat
       /\ tracker.highest = Wire(top)
       /\ top =< sent + consecutive
  /\ \A p \in net : sent - p =< Displacement
  /\ \A q \in played \cup invented : q =< top

\* A packet in flight that is not ahead of top is at most MAX_MISORDER behind it.
LEMMA NearTop ==
  ASSUME TypeOK, OrderInv, tracker.highest # None, NEW p \in net, p =< top
  PROVE  /\ top - p < MAX_MISORDER
         /\ Ahead(tracker.highest, Wire(p)) = top - p
         /\ p = top => Ahead(Wire(p), tracker.highest) = 0
         /\ p # top => Ahead(Wire(p), tracker.highest) >= MAX_DROPOUT
<1>1. p \in Nat /\ top \in Nat /\ sent \in Nat /\ consecutive \in 0 .. MAX_CONSECUTIVE
  BY InFlight DEF OrderInv, TypeOK
<1>2. sent - p =< Displacement /\ top =< sent + consecutive  BY DEF OrderInv
<1>3. Displacement \in Nat /\ MAX_CONSECUTIVE \in Nat /\ MAX_MISORDER \in Nat
      /\ Displacement + MAX_CONSECUTIVE < MAX_MISORDER
  BY StreamConstants, SeqConstants
<1>4. top - p < MAX_MISORDER  BY <1>1, <1>2, <1>3
<1> QED  BY <1>1, <1>4, BehindIsSeen DEF OrderInv

\* Only a packet ahead of everything played or invented is played.
LEMMA PlayedIsAhead ==
  ASSUME TypeInv, OrderInv, NEW p \in net, IsPlayed(Classify(tracker, Wire(p)))
  PROVE  tracker.highest = None \/ p > top
<1> SUFFICES ASSUME tracker.highest # None, p =< top  PROVE  FALSE
  BY InFlight DEF TypeInv, TypeOK
<1>1. /\ Ahead(tracker.highest, Wire(p)) < MAX_MISORDER
      /\ \/ Ahead(Wire(p), tracker.highest) = 0
         \/ Ahead(Wire(p), tracker.highest) >= MAX_DROPOUT
  BY NearTop DEF TypeInv
<1>2. tracker \in Tracker /\ Wire(p) \in SeqNum  BY InFlight DEF TypeInv, TypeOK
<1>3. Ahead(tracker.highest, Wire(p)) \in SeqNum /\ Ahead(Wire(p), tracker.highest) \in SeqNum
  BY <1>2, AheadType DEF Tracker
<1>4. MAX_DROPOUT \in Nat /\ MAX_MISORDER \in Nat /\ SeqMod \in Nat  BY SeqConstants
<1>5. ~IsStart(tracker, Wire(p)) /\ ~IsNext(tracker, Wire(p))
  BY <1>1, <1>3, <1>4 DEF IsStart, IsNext, SeqNum
<1>6. IsLate(tracker, Wire(p)) \/ IsDuplicate(tracker, Wire(p)) \/ IsJump(tracker, Wire(p))
  BY <1>2, <1>5, OnPacketCases
<1> QED  BY <1>6 DEF IsLate, IsDuplicate, IsJump, IsPlayed, Late, Duplicate, Jump

\* Where the tracker stands after a delivery.
LEMMA HighestAfter ==
  ASSUME TypeInv, NEW p \in net
  PROVE  LET a == Classify(tracker, Wire(p))
             u == OnPacket(tracker, Wire(p))
         IN /\ IsPlayed(a) => u.highest = Wire(p)
            /\ ~IsPlayed(a) => tracker.highest # None /\ u.highest = tracker.highest
<1>1. tracker \in Tracker /\ Wire(p) \in SeqNum  BY InFlight DEF TypeInv, TypeOK
<1>2. CASE IsStart(tracker, Wire(p))
  BY <1>2 DEF IsStart, Started, Start, IsPlayed
<1>3. CASE IsNext(tracker, Wire(p))
  BY <1>3 DEF IsNext, Advanced, Forward, IsPlayed
<1>4. CASE IsLate(tracker, Wire(p))
  BY <1>4 DEF IsLate, ArrivedLate, Late, IsPlayed
<1>5. CASE IsDuplicate(tracker, Wire(p))
  BY <1>1, <1>5 DEF IsDuplicate, SeenAgain, Duplicate, IsPlayed, Tracker
<1>6. CASE IsJump(tracker, Wire(p))
  BY <1>6 DEF IsJump, Quarantined, Jump, IsPlayed
<1> QED  BY <1>1, <1>2, <1>3, <1>4, <1>5, <1>6, OnPacketCases

LEMMA OrderStep == TypeInv /\ OrderInv /\ [Next]_vars => OrderInv'
<1> SUFFICES ASSUME TypeInv, OrderInv, [Next]_vars  PROVE  OrderInv'
  OBVIOUS
<1>0. /\ Gaps \subseteq Nat \ {0} /\ Displacement \in Nat /\ None \notin SeqNum
      /\ sent \in Nat /\ consecutive \in Nat
  BY StreamConstants, SeqConstants DEF SeqNum, TypeInv, TypeOK
<1>1. ASSUME NEW gap \in Gaps, Send(gap)  PROVE  OrderInv'
  <2>1. gap \in Nat /\ sent' = sent + gap  BY <1>0, <1>1 DEF Send
  <2>2. ASSUME NEW q \in net'  PROVE  sent' - q =< Displacement
    <3>1. q = sent + gap \/ sent + gap - q =< Displacement  BY <1>1, <2>2 DEF Send
    <3>2. CASE q = sent + gap  BY <1>0, <2>1, <3>2
    <3>3. CASE q # sent + gap
      <4>1. q \in net  BY <1>1, <2>2, <3>3 DEF Send
      <4>2. q \in Int  BY <4>1 DEF TypeInv, TypeOK
      <4> QED  BY <1>0, <2>1, <3>1, <3>3, <4>2
    <3> QED  BY <3>2, <3>3
  <2>3. tracker.highest # None => top =< sent' + consecutive  BY <1>0, <2>1 DEF OrderInv
  <2> QED  BY <1>1, <2>2, <2>3 DEF Send, OrderInv
<1>2. ASSUME NEW p \in net, Lose(p)  PROVE  OrderInv'
  BY <1>2 DEF Lose, OrderInv
<1>3. ASSUME NEW p \in net, Deliver(p)  PROVE  OrderInv'
  <2> DEFINE a == Classify(tracker, Wire(p))
  <2>1. p \in Nat /\ p =< sent /\ Wire(p) \in SeqNum  BY InFlight DEF TypeInv
  <2>2. net' \subseteq net /\ sent' = sent /\ invented' = invented  BY <1>3 DEF Deliver
  <2>3. CASE IsPlayed(a)
    <3>1. tracker'.highest = Wire(p) /\ top' = p /\ played' = played \cup {p} /\ consecutive' = 0
      BY <1>3, <2>3, HighestAfter DEF Deliver
    <3>2. ASSUME NEW q \in played \cup invented  PROVE  q =< p
      <4>1. tracker.highest = None \/ p > top  BY <2>3, PlayedIsAhead
      <4>2. tracker.highest # None  BY <3>2 DEF OrderInv
      <4>3. q =< top  BY <3>2 DEF OrderInv
      <4>4. q \in Int /\ top \in Int  BY <3>2 DEF TypeInv, TypeOK
      <4> QED  BY <2>1, <4>1, <4>2, <4>3, <4>4
    <3> QED  BY <1>0, <2>1, <2>2, <3>1, <3>2 DEF OrderInv
  <2>4. CASE ~IsPlayed(a)
    <3>1. /\ tracker'.highest = tracker.highest /\ tracker.highest # None
          /\ top' = top /\ played' = played /\ consecutive' = consecutive
      BY <1>3, <2>4, HighestAfter DEF Deliver
    <3> QED  BY <2>2, <3>1 DEF OrderInv
  <2> QED  BY <2>3, <2>4
<1>4. ASSUME Conceal  PROVE  OrderInv'
  <2>1. top \in Nat /\ tracker.highest = Wire(top)  BY <1>4 DEF Conceal, OrderInv
  <2>2. tracker'.highest = Wire(top + 1)
    BY <1>4, <2>1, SuccIsNext DEF Conceal, OnConcealed, Invented
  <2>3. Wire(top + 1) \in SeqNum  BY <2>1, WireType
  <2>4. ASSUME NEW q \in played' \cup invented'  PROVE  q =< top'
    <3>1. q = top + 1 \/ q \in played \cup invented  BY <1>4, <2>4 DEF Conceal
    <3>2. q \in Int /\ top' = top + 1  BY <1>4, <2>1, <3>1 DEF Conceal, TypeInv, TypeOK
    <3> QED  BY <2>1, <3>1, <3>2 DEF OrderInv
  <2> QED  BY <1>0, <1>4, <2>1, <2>2, <2>3, <2>4 DEF Conceal, OrderInv
<1>5. ASSUME UNCHANGED vars  PROVE  OrderInv'
  BY <1>5 DEF vars, OrderInv
<1> QED  BY <1>1, <1>2, <1>3, <1>4, <1>5 DEF Next

LEMMA OrderInit == Init => TypeInv /\ OrderInv
<1> SUFFICES ASSUME Init  PROVE  TypeInv /\ OrderInv
  OBVIOUS
<1>1. sent \in Nat /\ MAX_CONSECUTIVE \in Nat /\ Displacement \in Nat  BY StreamConstants DEF Init
<1>2. NewTracker \in Tracker  BY DEF NewTracker, Tracker, Counters
<1>3. TrackerOK(tracker)  BY <1>2 DEF Init, TrackerOK, NewTracker
<1>4. spanned \in BOOLEAN  BY DEF Init
<1>5. tracker \in Tracker /\ tracker.history \cap tracker.concealed = {}
  BY <1>3 DEF TrackerOK
<1>6. /\ consecutive \in 0 .. MAX_CONSECUTIVE /\ sent \in Nat /\ sends \in Nat /\ copies \in Nat
      /\ net \subseteq 0 .. sent /\ top \in Int /\ run \in Nat /\ lastIn \in Int
  BY <1>1 DEF Init
<1>7. TypeInv  BY <1>3, <1>4, <1>5, <1>6 DEF Init, TypeInv, TypeOK
<1>8. OrderInv  BY <1>1 DEF Init, OrderInv, NewTracker
<1> QED  BY <1>7, <1>8

\* Types and the tracker's representation invariant, in every reachable state.
THEOREM TypeCorrect == Spec => []TypeOK
<1>1. TypeInv => TypeOK  BY DEF TypeInv
<1> QED  BY <1>1, OrderInit, TypeInvStep, PTL DEF Spec

\* What is handed to the decoder is in the sender's order, never twice and never
\* behind a frame invented in its place.
THEOREM InOrder == Spec => PlayedInOrder
<1>1. TypeInv /\ OrderInv /\ [Next]_vars =>
        [\A p \in played' \ played : \A q \in played \cup invented : q < p]_vars
  <2> SUFFICES ASSUME TypeInv, OrderInv, Next, NEW r \in played' \ played, NEW q \in played \cup invented
               PROVE  q < r
    BY DEF vars
  <2>1. PICK p \in net : Deliver(p)
    BY DEF Next, Send, Lose, Conceal
  <2>2. IsPlayed(Classify(tracker, Wire(p))) /\ r = p  BY <2>1 DEF Deliver
  <2>3. tracker.highest # None  BY DEF OrderInv
  <2>4. p > top  BY <2>2, <2>3, PlayedIsAhead
  <2> QED  BY <2>2, <2>4, InFlight DEF OrderInv, TypeInv, TypeOK
<1> QED  BY <1>1, OrderInit, OrderStep, TypeInvStep, PTL DEF Spec, PlayedInOrder

\* A slot is filled once, by its packet or by an invented frame.
THEOREM FilledOnce == Spec => []NoSlotFilledTwice
<1>1. TypeInv /\ OrderInv /\ NoSlotFilledTwice /\ [Next]_vars => NoSlotFilledTwice'
  <2> SUFFICES ASSUME TypeInv, OrderInv, NoSlotFilledTwice, [Next]_vars  PROVE  NoSlotFilledTwice'
    OBVIOUS
  <2>1. CASE \E p \in net : Deliver(p)
    <3>1. PICK p \in net : Deliver(p)  BY <2>1
    <3>2. CASE IsPlayed(Classify(tracker, Wire(p)))
      <4>1. p \notin invented
        BY <3>2, PlayedIsAhead, InFlight DEF OrderInv, TypeInv, TypeOK
      <4> QED  BY <3>1, <3>2, <4>1 DEF Deliver, NoSlotFilledTwice
    <3> QED  BY <3>1, <3>2 DEF Deliver, NoSlotFilledTwice
  <2>2. CASE Conceal
    <3>1. top + 1 \notin played  BY DEF OrderInv, TypeInv, TypeOK
    <3> QED  BY <2>2, <3>1 DEF Conceal, NoSlotFilledTwice
  <2>3. CASE (\E gap \in Gaps : Send(gap)) \/ (\E p \in net : Lose(p)) \/ UNCHANGED vars
    BY <2>3 DEF Send, Lose, vars, NoSlotFilledTwice
  <2> QED  BY <2>1, <2>2, <2>3 DEF Next
<1>2. Init => NoSlotFilledTwice  BY DEF Init, NoSlotFilledTwice
<1> QED  BY <1>1, <1>2, OrderInit, TypeInvStep, OrderStep, PTL DEF Spec

-----------------------------------------------------------------------------
(* Verdicts.  Within the window in which a packet is not a jump, the two   *)
(* masks say exactly what happened to each slot.                           *)

MaskInv ==
  /\ \A q \in received : q =< top
  /\ tracker.highest # None =>
       /\ sent - top < SeqMod - MAX_MISORDER
       /\ \A i \in 0 .. MAX_MISORDER - 1 :
            /\ i \in tracker.history <=> top - i \in received
            /\ i \in tracker.concealed <=> top - i \in invented \ received

LEMMA Bounds ==
  /\ SeqMod \in Nat /\ MAX_DROPOUT \in Nat /\ MAX_MISORDER \in Nat /\ HISTORY_BITS \in Nat
  /\ Displacement \in Nat /\ MAX_CONSECUTIVE \in Nat
  /\ 1 < MAX_MISORDER /\ MAX_MISORDER =< HISTORY_BITS /\ MAX_MISORDER =< MAX_DROPOUT
  /\ MAX_DROPOUT + MAX_MISORDER =< SeqMod
  /\ Displacement + MAX_CONSECUTIVE < MAX_MISORDER
  /\ None \notin SeqNum
BY SeqConstants, StreamConstants DEF SeqNum

\* A packet beyond top is seen at its true distance, and never as a late one.
LEMMA BeyondTop ==
  ASSUME TypeInv, OrderInv, MaskInv, tracker.highest # None, NEW p \in net, p > top
  PROVE  /\ Ahead(Wire(p), tracker.highest) = p - top
         /\ Ahead(tracker.highest, Wire(p)) >= MAX_MISORDER
<1>1. p \in Nat /\ p =< sent /\ Wire(p) \in SeqNum /\ top \in Nat /\ tracker.highest = Wire(top)
      /\ Wire(top) \in SeqNum /\ sent \in Nat
  BY InFlight, WireType DEF OrderInv, TypeInv, TypeOK
<1>2. p - top < SeqMod - MAX_MISORDER  BY <1>1, Bounds DEF MaskInv
<1>3. Ahead(Wire(p), Wire(top)) = p - top  BY <1>1, <1>2, Bounds, AheadIsDistance
<1>4. Wire(p) # Wire(top)  BY <1>1, <1>3, AheadType
<1>5. Ahead(Wire(top), Wire(p)) = SeqMod - (p - top)  BY <1>1, <1>3, <1>4, AheadReversed
<1> QED  BY <1>1, <1>2, <1>3, <1>5, Bounds

\* A packet taken for a late one or a duplicate is a packet behind top.
LEMMA LateIsBehind ==
  ASSUME TypeInv, OrderInv, MaskInv, NEW p \in net,
         IsLate(tracker, Wire(p)) \/ IsDuplicate(tracker, Wire(p))
  PROVE  /\ p =< top /\ top - p \in 0 .. MAX_MISORDER - 1
         /\ Ahead(tracker.highest, Wire(p)) = top - p
<1>1. tracker.highest # None /\ Ahead(tracker.highest, Wire(p)) \in 0 .. MAX_MISORDER - 1
  BY DEF IsLate, IsDuplicate
<1>2. p \in Nat /\ top \in Nat  BY <1>1, InFlight DEF OrderInv, TypeInv
<1>3. p =< top  BY <1>1, <1>2, BeyondTop, Bounds
<1>4. Ahead(tracker.highest, Wire(p)) = top - p  BY <1>1, <1>3, NearTop DEF TypeInv
<1> QED  BY <1>1, <1>2, <1>3, <1>4

LEMMA MaskStep ==
  TypeInv /\ OrderInv /\ MaskInv /\ ~spanned' /\ [Next]_vars => MaskInv'
<1> SUFFICES ASSUME TypeInv, OrderInv, MaskInv, ~spanned', [Next]_vars  PROVE  MaskInv'
  OBVIOUS
<1>0. /\ tracker \in Tracker /\ sent \in Nat /\ top \in Int /\ received \subseteq Nat
      /\ invented \subseteq Int
  BY DEF TypeInv, TypeOK
<1>1. ASSUME NEW gap \in Gaps, Send(gap)  PROVE  MaskInv'
  <2>1. tracker.highest # None => sent' - top < SeqMod - MAX_MISORDER
    <3>1. gap \in Nat /\ sent' = sent + gap  BY <1>1, StreamConstants DEF Send
    <3>2. tracker.highest # None => ~(sent + gap - top >= SeqMod - MAX_MISORDER)  BY <1>1 DEF Send
    <3> QED  BY <1>0, <3>1, <3>2, Bounds
  <2> QED  BY <1>1, <2>1 DEF Send, MaskInv
<1>2. ASSUME NEW p \in net, Lose(p)  PROVE  MaskInv'
  BY <1>2 DEF Lose, MaskInv
<1>3. ASSUME NEW p \in net, Deliver(p)  PROVE  MaskInv'
  <2> DEFINE a == Classify(tracker, Wire(p))
             u == OnPacket(tracker, Wire(p))
  <2>1. p \in Nat /\ p =< sent /\ Wire(p) \in SeqNum  BY InFlight DEF TypeInv
  <2>2. tracker' = u /\ sent' = sent /\ invented' = invented  BY <1>3 DEF Deliver
  <2>3. CASE IsStart(tracker, Wire(p))
    <3>1. u.history = {0} /\ u.concealed = {} /\ top' = p /\ received' = received \cup {p}
          /\ IsPlayed(a)
      BY <1>3, <2>3 DEF IsStart, Started, Start, IsPlayed, Deliver
    <3>2. \A q \in received \cup invented : q =< p - MAX_MISORDER
      <4>1. CASE tracker.highest = None  BY <4>1 DEF OrderInv
      <4>2. CASE tracker.highest # None
        <5>1. p > top  BY <3>1, <4>2, PlayedIsAhead
        <5>2. p - top >= MAX_DROPOUT  BY <2>3, <4>2, <5>1, BeyondTop DEF IsStart
        <5>3. \A q \in received \cup invented : q =< top  BY DEF MaskInv, OrderInv
        <5> QED  BY <1>0, <2>1, <5>2, <5>3, Bounds
      <4> QED  BY <4>1, <4>2
    <3>3. sent - p < SeqMod - MAX_MISORDER  BY <1>0, <2>1, Bounds DEF OrderInv
    <3>4. ASSUME NEW i \in 0 .. MAX_MISORDER - 1
          PROVE  /\ i \in u.history <=> p - i \in received \cup {p}
                 /\ i \in u.concealed <=> p - i \in invented \ (received \cup {p})
      <4>1. p - i \notin received \cup invented
        <5> SUFFICES ASSUME p - i \in received \cup invented  PROVE  FALSE
          OBVIOUS
        <5>1. p - i =< p - MAX_MISORDER  BY <3>2
        <5> QED  BY <2>1, <5>1, Bounds
      <4>2. p - i = p <=> i = 0  BY <2>1, Bounds
      <4> QED  BY <3>1, <4>1, <4>2
    <3>5. \A q \in received \cup {p} : q =< p  BY <1>0, <2>1, <3>2, Bounds
    <3> QED  BY <2>2, <3>1, <3>3, <3>4, <3>5 DEF MaskInv
  <2>4. CASE IsNext(tracker, Wire(p))
    <3> DEFINE n == Ahead(Wire(p), tracker.highest)
    <3>1. u.history = Shift(tracker.history, n) \cup {0} /\ u.concealed = Shift(tracker.concealed, n)
          /\ top' = p /\ received' = received \cup {p} /\ IsPlayed(a) /\ tracker.highest # None
      BY <1>3, <2>4 DEF IsNext, Advanced, Forward, IsPlayed, Deliver
    <3>2. p > top /\ n = p - top  BY <3>1, PlayedIsAhead, BeyondTop
    <3>3. sent - p < SeqMod - MAX_MISORDER  BY <1>0, <2>1, Bounds DEF OrderInv
    <3>4. \A q \in received \cup invented : q =< top  BY DEF MaskInv, OrderInv
    <3>5. ASSUME NEW i \in 0 .. MAX_MISORDER - 1
          PROVE  /\ i \in u.history <=> p - i \in received \cup {p}
                 /\ i \in u.concealed <=> p - i \in invented \ (received \cup {p})
      <4>1. i \in Bits /\ i \in Nat /\ i < MAX_MISORDER  BY Bounds DEF Bits
      <4>2. CASE i = 0
        <5>1. i - n \notin Bits /\ p - i = p  BY <1>0, <2>1, <3>2, <4>2 DEF Bits
        <5>2. 0 \notin Shift(tracker.concealed, n)  BY <1>0, <4>2, <5>1 DEF Shift, Tracker
        <5> QED  BY <3>1, <4>2, <5>1, <5>2
      <4>3. CASE i > 0 /\ i < n
        <5>1. i - n \notin Bits  BY <1>0, <2>1, <3>2, <4>1, <4>3 DEF Bits
        <5>2. i \notin u.history /\ i \notin u.concealed
          BY <1>0, <3>1, <4>1, <4>3, <5>1 DEF Shift, Tracker
        <5>3. p - i > top /\ p - i # p  BY <1>0, <2>1, <3>2, <4>1, <4>3
        <5>4. p - i \notin received \cup invented  BY <1>0, <2>1, <3>4, <4>1, <5>3
        <5> QED  BY <5>2, <5>3, <5>4
      <4>4. CASE i >= n
        <5> HIDE DEF n
        <5>0. n \in Nat /\ n > 0 /\ n = p - top /\ MAX_MISORDER \in Nat  BY <1>0, <2>1, <3>2, Bounds
        <5>1. i - n \in 0 .. MAX_MISORDER - 1 /\ top - (i - n) = p - i /\ p - i # p /\ i # 0
          BY <1>0, <2>1, <4>1, <4>4, <5>0
        <5>2. /\ i - n \in tracker.history <=> p - i \in received
              /\ i - n \in tracker.concealed <=> p - i \in invented \ received
          BY <3>1, <5>1 DEF MaskInv
        <5>3. /\ i \in u.history <=> i - n \in tracker.history
              /\ i \in u.concealed <=> i - n \in tracker.concealed
          BY <3>1, <4>1, <5>1 DEF Shift
        <5> QED  BY <5>1, <5>2, <5>3
      <4> QED  BY <1>0, <2>1, <3>2, <4>1, <4>2, <4>3, <4>4
    <3>6. \A q \in received \cup {p} : q =< p  BY <1>0, <2>1, <3>2, <3>4
    <3> QED  BY <2>2, <3>1, <3>3, <3>5, <3>6 DEF MaskInv
  <2>5. CASE IsLate(tracker, Wire(p))
    <3>1. p =< top /\ top - p \in 0 .. MAX_MISORDER - 1 /\ Ahead(tracker.highest, Wire(p)) = top - p
      BY <2>5, LateIsBehind
    <3>2. u.history = tracker.history \cup {top - p} /\ u.concealed = tracker.concealed \ {top - p}
          /\ u.highest = tracker.highest /\ tracker.highest # None
          /\ top' = top /\ received' = received \cup {p}
      BY <1>3, <2>5, <3>1 DEF IsLate, ArrivedLate, Late, IsPlayed, Deliver
    <3>3. ASSUME NEW i \in 0 .. MAX_MISORDER - 1
          PROVE  /\ i \in u.history <=> top - i \in received \cup {p}
                 /\ i \in u.concealed <=> top - i \in invented \ (received \cup {p})
      <4>1. i = top - p <=> top - i = p  BY <1>0, <2>1, <3>1, Bounds
      <4>2. /\ i \in tracker.history <=> top - i \in received
            /\ i \in tracker.concealed <=> top - i \in invented \ received
        BY <3>2 DEF MaskInv
      <4> QED  BY <3>2, <4>1, <4>2
    <3>4. \A q \in received \cup {p} : q =< top  BY <3>1 DEF MaskInv
    <3> QED  BY <2>2, <3>2, <3>3, <3>4 DEF MaskInv
  <2>6. CASE IsDuplicate(tracker, Wire(p))
    <3>1. u.history = tracker.history /\ u.concealed = tracker.concealed /\ u.highest = tracker.highest
          /\ top' = top /\ received' = received
      BY <1>0, <1>3, <2>6 DEF IsDuplicate, SeenAgain, Tracker, Duplicate, IsPlayed, Deliver
    <3> QED  BY <2>2, <3>1 DEF MaskInv
  <2>7. CASE IsJump(tracker, Wire(p))
    <3>1. u.history = tracker.history /\ u.concealed = tracker.concealed /\ u.highest = tracker.highest
          /\ top' = top /\ received' = received
      BY <1>3, <2>7 DEF IsJump, Quarantined, Jump, IsPlayed, Deliver
    <3> QED  BY <2>2, <3>1 DEF MaskInv
  <2> QED  BY <1>0, <2>1, <2>3, <2>4, <2>5, <2>6, <2>7, OnPacketCases
<1>4. ASSUME Conceal  PROVE  MaskInv'
  <2>1. tracker.highest # None /\ top' = top + 1 /\ invented' = invented \cup {top + 1}
        /\ received' = received /\ sent' = sent
        /\ tracker'.history = Shift(tracker.history, 1)
        /\ tracker'.concealed = Shift(tracker.concealed, 1) \cup {0}
    BY <1>4 DEF Conceal, OnConcealed, Invented
  <2>2. \A q \in received \cup invented : q =< top  BY DEF MaskInv, OrderInv
  <2>3. sent - (top + 1) < SeqMod - MAX_MISORDER  BY <1>0, <2>1, Bounds DEF MaskInv
  <2>4. ASSUME NEW i \in 0 .. MAX_MISORDER - 1
        PROVE  /\ i \in tracker'.history <=> (top + 1) - i \in received
               /\ i \in tracker'.concealed <=> (top + 1) - i \in (invented \cup {top + 1}) \ received
    <3>1. i \in Bits /\ i \in Nat  BY Bounds DEF Bits
    <3>2. top + 1 \notin received  BY <1>0, <2>2
    <3>3. CASE i = 0
      <4>1. i - 1 \notin Bits /\ (top + 1) - i = top + 1  BY <1>0, <3>3 DEF Bits
      <4>2. 0 \notin Shift(tracker.history, 1)  BY <1>0, <3>3, <4>1 DEF Shift, Tracker
      <4> QED  BY <2>1, <3>2, <3>3, <4>1, <4>2
    <3>4. CASE i # 0
      <4>1. i - 1 \in 0 .. MAX_MISORDER - 1 /\ top - (i - 1) = (top + 1) - i /\ (top + 1) - i # top + 1
        BY <1>0, <3>1, <3>4, Bounds
      <4>2. /\ i - 1 \in tracker.history <=> (top + 1) - i \in received
            /\ i - 1 \in tracker.concealed <=> (top + 1) - i \in invented \ received
        BY <2>1, <4>1 DEF MaskInv
      <4>3. /\ i \in tracker'.history <=> i - 1 \in tracker.history
            /\ i \in tracker'.concealed <=> i - 1 \in tracker.concealed
        BY <2>1, <3>1, <3>4 DEF Shift
      <4> QED  BY <4>1, <4>2, <4>3
    <3> QED  BY <3>3, <3>4
  <2>5. \A q \in received : q =< top + 1  BY <1>0, <2>2
  <2> QED  BY <2>1, <2>3, <2>4, <2>5 DEF MaskInv
<1>5. ASSUME UNCHANGED vars  PROVE  MaskInv'
  BY <1>5 DEF vars, MaskInv
<1> QED  BY <1>1, <1>2, <1>3, <1>4, <1>5 DEF Next

\* The verdicts tell the truth about what the network did to each packet, if no
\* outage spans the whole numbering.
THEOREM TrueVerdicts == Spec => VerdictExact
<1> DEFINE Told(p) == LET a == Classify(tracker, Wire(p))
                      IN /\ a.kind = "Duplicate" => p \in received
                         /\ a.kind = "Late" => /\ p \notin received
                                               /\ a.replaced <=> p \in invented
<1>1. TypeInv /\ OrderInv /\ MaskInv => \A p \in net : Told(p)
  <2> SUFFICES ASSUME TypeInv, OrderInv, MaskInv, NEW p \in net  PROVE  Told(p)
    OBVIOUS
  <2>1. tracker \in Tracker /\ Wire(p) \in SeqNum /\ p \in Nat /\ top \in Int
    BY InFlight DEF TypeInv, TypeOK
  <2>2. CASE IsStart(tracker, Wire(p))  BY <2>2 DEF IsStart, Start
  <2>3. CASE IsNext(tracker, Wire(p))  BY <2>3 DEF IsNext, Forward
  <2>4. CASE IsJump(tracker, Wire(p))  BY <2>4 DEF IsJump, Jump
  <2>5. CASE IsLate(tracker, Wire(p)) \/ IsDuplicate(tracker, Wire(p))
    <3> DEFINE d == top - p
    <3>1. d \in 0 .. MAX_MISORDER - 1 /\ Ahead(tracker.highest, Wire(p)) = d /\ top - d = p
      BY <2>1, <2>5, LateIsBehind
    <3>2. tracker.highest # None  BY <2>5 DEF IsLate, IsDuplicate
    <3>3. /\ d \in tracker.history <=> p \in received
          /\ d \in tracker.concealed <=> p \in invented \ received
      BY <3>1, <3>2 DEF MaskInv
    <3>4. CASE IsLate(tracker, Wire(p))
      <4>1. Classify(tracker, Wire(p)) = Late(d \in tracker.concealed)
            /\ (d \in tracker.concealed \/ d \notin tracker.history)
        BY <3>1, <3>4 DEF IsLate
      <4>2. Classify(tracker, Wire(p)).replaced = (d \in tracker.concealed)  BY <4>1 DEF Late
      <4>3. Classify(tracker, Wire(p)).kind = "Late"  BY <4>1 DEF Late
      <4>4. p \notin received  BY <3>3, <4>1
      <4>5. d \in tracker.concealed <=> p \in invented  BY <3>3, <4>4
      <4> HIDE DEF d
      <4>6. Classify(tracker, Wire(p)).replaced <=> p \in invented  BY <4>2, <4>5
      <4> QED  BY <4>3, <4>4, <4>6
    <3>5. CASE IsDuplicate(tracker, Wire(p))
      <4>1. d \in tracker.history \/ (d = 0 /\ 0 \notin tracker.concealed)
        BY <3>1, <3>5 DEF IsDuplicate
      <4>2. 0 \in tracker.history \cup tracker.concealed  BY <3>2 DEF TypeInv, TrackerOK
      <4>3. Classify(tracker, Wire(p)) = Duplicate  BY <3>5 DEF IsDuplicate
      <4> QED  BY <3>3, <4>1, <4>2, <4>3 DEF Duplicate
    <3> QED  BY <2>5, <3>4, <3>5
  <2> QED  BY <2>1, <2>2, <2>3, <2>4, <2>5, OnPacketCases
<1>2. Init => MaskInv
  BY DEF Init, MaskInv, NewTracker
<1>3. TypeInv /\ OrderInv /\ (spanned \/ MaskInv) /\ [Next]_vars
      => [\A p \in net : Deliver(p) /\ ~spanned => Told(p)]_vars
  BY <1>1
<1>4. [Next]_vars /\ spanned => spanned'  BY DEF Next, Send, Lose, Deliver, Conceal, vars
<1> QED
  BY <1>2, <1>3, <1>4, OrderInit, TypeInvStep, OrderStep, MaskStep, PTL DEF Spec, VerdictExact

-----------------------------------------------------------------------------
(* Loss.  The receiver expects each slot once, and counts at least one     *)
(* arrival for each slot it received.                                      *)

LossInv ==
  /\ IsFiniteSet(covered) /\ IsFiniteSet(received)
  /\ tracker.counters.expected = Cardinality(covered)
  /\ tracker.counters.received >= Cardinality(received)
  /\ tracker.highest = None => covered = {}
  /\ \A q \in covered : q =< top

\* The distance seen between two slots is never more than the distance between them.
LEMMA AheadIsShorter ==
  ASSUME NEW a \in Nat, NEW b \in Nat, b =< a
  PROVE  Ahead(Wire(a), Wire(b)) =< a - b
<1> DEFINE k == (a \div SeqMod) - (b \div SeqMod)
<1>1. SeqMod \in Nat /\ SeqMod > 0  BY SeqConstants
<1>2. /\ a = SeqMod * (a \div SeqMod) + (a % SeqMod)
      /\ b = SeqMod * (b \div SeqMod) + (b % SeqMod)
      /\ a \div SeqMod \in Int /\ b \div SeqMod \in Int
      /\ a % SeqMod \in 0 .. SeqMod - 1 /\ b % SeqMod \in 0 .. SeqMod - 1
  BY <1>1
<1>3. a - b = SeqMod * k + ((a % SeqMod) - (b % SeqMod))
  <2>1. SeqMod * k = SeqMod * (a \div SeqMod) - SeqMod * (b \div SeqMod)  BY <1>1, <1>2
  <2>2. SeqMod * (a \div SeqMod) \in Int /\ SeqMod * (b \div SeqMod) \in Int  BY <1>1, <1>2
  <2> QED  BY <2>1, <2>2, <1>1, <1>2
<1>4. k \in Int /\ k >= 0
  <2>1. k \in Int  BY <1>2
  <2>2. CASE k =< -1
    <3>1. SeqMod * k =< SeqMod * (-1)  BY <1>1, <2>1, <2>2
    <3>2. SeqMod * k \in Int  BY <1>1, <2>1
    <3> QED  BY <1>1, <1>2, <1>3, <3>1, <3>2
  <2> QED  BY <2>1, <2>2
<1>5. CASE k = 0  BY <1>1, <1>2, <1>3, <1>5 DEF Ahead, Wire
<1>6. CASE k >= 1
  <2>1. SeqMod * k >= SeqMod * 1 /\ SeqMod * k \in Int  BY <1>1, <1>4, <1>6
  <2>2. a - b >= SeqMod + ((a % SeqMod) - (b % SeqMod))  BY <1>1, <1>2, <1>3, <2>1
  <2> QED  BY <1>1, <1>2, <2>2 DEF Ahead, Wire
<1> QED  BY <1>4, <1>5, <1>6

\* A set with one more element has at most one element more.
LEMMA OneMore ==
  ASSUME NEW S, IsFiniteSet(S), NEW x
  PROVE  /\ IsFiniteSet(S \cup {x})
         /\ Cardinality(S) \in Nat /\ Cardinality(S \cup {x}) \in Nat
         /\ Cardinality(S \cup {x}) =< Cardinality(S) + 1
<1>1. /\ IsFiniteSet(S \cup {x})
      /\ x \in S => Cardinality(S \cup {x}) = Cardinality(S)
      /\ x \notin S => Cardinality(S \cup {x}) = Cardinality(S) + 1
  BY FS_AddElement
<1>2. Cardinality(S) \in Nat /\ Cardinality(S \cup {x}) \in Nat  BY <1>1, FS_CardinalityType
<1> QED  BY <1>1, <1>2

LEMMA LossStep == TypeInv /\ OrderInv /\ LossInv /\ [Next]_vars => LossInv'
<1> SUFFICES ASSUME TypeInv, OrderInv, LossInv, [Next]_vars  PROVE  LossInv'
  OBVIOUS
<1>0. /\ tracker \in Tracker /\ tracker.counters \in Counters
      /\ Cardinality(covered) \in Nat /\ Cardinality(received) \in Nat
      /\ tracker.counters.expected \in Nat /\ tracker.counters.received \in Nat
      /\ top \in Int /\ covered \subseteq Int /\ None \notin SeqNum
  BY FS_CardinalityType, Bounds DEF TypeInv, TypeOK, LossInv, Tracker, Counters
<1>1. CASE UNCHANGED <<tracker, top, covered, received>>
  BY <1>1 DEF LossInv
<1>2. ASSUME NEW p \in net, Deliver(p)  PROVE  LossInv'
  <2> DEFINE s == Wire(p)
             a == Classify(tracker, s)
             u == OnPacket(tracker, s)
  <2>1. p \in Nat /\ s \in SeqNum  BY InFlight DEF TypeInv
  <2>2. tracker' = u  BY <1>2 DEF Deliver
  <2>3. ASSUME tracker'.counters.received = tracker.counters.received + 1,
               received' = received \cup {p}
        PROVE  IsFiniteSet(received') /\ tracker'.counters.received >= Cardinality(received')
    <3>1. /\ IsFiniteSet(received \cup {p}) /\ Cardinality(received \cup {p}) \in Nat
          /\ Cardinality(received \cup {p}) =< Cardinality(received) + 1
      BY OneMore DEF LossInv
    <3>2. tracker.counters.received >= Cardinality(received)  BY DEF LossInv
    <3> HIDE DEF a, u, s
    <3> QED  BY <1>0, <2>3, <3>1, <3>2
  <2>4. IsPlayed(a) => \A q \in covered : q < p
    <3> SUFFICES ASSUME IsPlayed(a), NEW q \in covered  PROVE  q < p
      OBVIOUS
    <3>1. tracker.highest = None \/ p > top  BY PlayedIsAhead
    <3>2. tracker.highest # None /\ q =< top /\ q \in Int  BY <1>0 DEF LossInv
    <3> QED  BY <1>0, <2>1, <3>1, <3>2
  <2>5. CASE IsStart(tracker, s)
    <3>1. a = Start /\ u = Started(tracker, s)  BY <2>5 DEF IsStart
    <3>2. /\ IsPlayed(a) /\ u.highest = s /\ u.counters.expected = tracker.counters.expected + 1
          /\ u.counters.received = tracker.counters.received + 1
      BY <3>1 DEF Start, IsPlayed, Started, Counted
    <3>3. covered' = covered \cup {p} /\ received' = received \cup {p} /\ top' = p
      BY <1>2, <3>1, <3>2 DEF Deliver, Start
    <3>4. p \notin covered  BY <2>1, <2>4, <3>2
    <3>5. IsFiniteSet(covered') /\ Cardinality(covered') = Cardinality(covered) + 1
      BY <3>3, <3>4, FS_AddElement DEF LossInv
    <3>6. \A q \in covered' : q =< top'
      BY <1>0, <2>1, <2>4, <3>2, <3>3
    <3>7. IsFiniteSet(received') /\ tracker'.counters.received >= Cardinality(received')
      BY <2>2, <2>3, <3>2, <3>3
    <3> QED  BY <1>0, <2>1, <2>2, <3>2, <3>5, <3>6, <3>7 DEF LossInv
  <2>6. CASE IsNext(tracker, s)
    <3> DEFINE n == Ahead(s, tracker.highest)
    <3>1. a = Forward(n - 1) /\ u = Advanced(tracker, s) /\ n \in Nat \ {0} /\ tracker.highest # None
      BY <2>6, Bounds DEF IsNext
    <3>2. /\ IsPlayed(a) /\ u.highest = s /\ u.counters.expected = tracker.counters.expected + n
          /\ u.counters.received = tracker.counters.received + 1
      BY <3>1 DEF Forward, IsPlayed, Advanced, Counted
    <3>3. covered' = covered \cup (p - (n - 1)) .. p /\ received' = received \cup {p} /\ top' = p
      BY <1>2, <3>1, <3>2 DEF Deliver, Forward
    <3>4. p > top /\ top \in Nat /\ tracker.highest = Wire(top)
      BY <3>1, <3>2, PlayedIsAhead DEF OrderInv
    <3>5. n =< p - top  BY <2>1, <3>4, AheadIsShorter
    <3> HIDE DEF n
    <3> DEFINE new == (p - (n - 1)) .. p
    <3>6. IsFiniteSet(new) /\ Cardinality(new) = n  BY <2>1, <3>1, FS_Interval
    <3>7. covered \cap new = {}  BY <1>0, <2>1, <3>1, <3>4, <3>5 DEF LossInv
    <3> HIDE DEF new
    <3>8. IsFiniteSet(covered \cup new) /\ Cardinality(covered \cup new) = Cardinality(covered) + n
      <4>1. Cardinality(covered \cap new) = 0  BY <3>7, FS_EmptySet
      <4> QED  BY <1>0, <3>1, <3>6, <4>1, FS_Union DEF LossInv
    <3>9. \A q \in covered' : q =< top'
      BY <1>0, <2>1, <2>4, <3>1, <3>2, <3>3
    <3>10. IsFiniteSet(received') /\ tracker'.counters.received >= Cardinality(received')
      BY <2>2, <2>3, <3>2, <3>3
    <3> QED  BY <1>0, <2>1, <2>2, <3>2, <3>3, <3>8, <3>9, <3>10 DEF LossInv, new
  <2>7. CASE IsLate(tracker, s)
    <3>1. /\ a = Late(Ahead(tracker.highest, s) \in tracker.concealed)
          /\ u = ArrivedLate(tracker, Ahead(tracker.highest, s))
      BY <2>7 DEF IsLate
    <3>2. /\ a.kind = "Late" /\ ~IsPlayed(a) /\ u.highest = tracker.highest
          /\ u.counters.expected = tracker.counters.expected
          /\ u.counters.received = tracker.counters.received + 1
      BY <1>0, <3>1 DEF Late, IsPlayed, ArrivedLate, Counted
    <3>3. covered' = covered /\ received' = received \cup {p} /\ top' = top
      BY <1>2, <3>2 DEF Deliver
    <3>4. IsFiniteSet(received') /\ tracker'.counters.received >= Cardinality(received')
      BY <2>2, <2>3, <3>2, <3>3
    <3> QED  BY <2>2, <3>2, <3>3, <3>4 DEF LossInv
  <2>8. CASE IsDuplicate(tracker, s) \/ IsJump(tracker, s)
    <3>1. (a = Duplicate /\ u = SeenAgain(tracker)) \/ (a = Jump /\ u = Quarantined(tracker, s))
      BY <2>8 DEF IsDuplicate, IsJump
    <3>2. /\ a.kind \in {"Duplicate", "Jump"} /\ u.highest = tracker.highest
          /\ u.counters.expected = tracker.counters.expected
          /\ u.counters.received = tracker.counters.received
      <4>1. CASE a = Duplicate /\ u = SeenAgain(tracker)
        BY <1>0, <4>1 DEF Duplicate, SeenAgain, Counted, Tracker, Counters
      <4>2. CASE a = Jump /\ u = Quarantined(tracker, s)
        BY <1>0, <4>2 DEF Jump, Quarantined, Counted
      <4> QED  BY <3>1, <4>1, <4>2
    <3>3. covered' = covered /\ received' = received /\ top' = top
      BY <1>2, <3>2 DEF Deliver, IsPlayed
    <3> QED  BY <2>2, <3>2, <3>3 DEF LossInv
  <2> QED  BY <1>0, <2>1, <2>5, <2>6, <2>7, <2>8, OnPacketCases
<1>3. CASE Conceal
  <2>1. top \in Nat /\ top' = top + 1 /\ covered' = covered \cup {top + 1} /\ received' = received
    BY <1>3 DEF Conceal, OrderInv
  <2>2. tracker' = Invented(tracker) /\ tracker.highest \in SeqNum
    BY <1>0, <1>3 DEF Conceal, OnConcealed, Tracker
  <2>3. /\ tracker'.highest = Succ(tracker.highest)
        /\ tracker'.counters.expected = tracker.counters.expected + 1
        /\ tracker'.counters.received = tracker.counters.received
    BY <1>0, <2>2 DEF Invented, Counted
  <2>4. Succ(tracker.highest) \in SeqNum  BY <2>2, Bounds DEF Succ, SeqNum
  <2>5. \A q \in covered : q =< top /\ q # top + 1  BY <1>0, <2>1 DEF LossInv
  <2>6. IsFiniteSet(covered') /\ Cardinality(covered') = Cardinality(covered) + 1
    BY <2>1, <2>5, FS_AddElement DEF LossInv
  <2>7. \A q \in covered' : q =< top'  BY <1>0, <2>1, <2>5
  <2> QED  BY <1>0, <2>1, <2>3, <2>4, <2>6, <2>7 DEF LossInv
<1> QED  BY <1>1, <1>2, <1>3 DEF Next, Send, Lose, vars

\* The loss that is published never exceeds the slots that really stayed empty: whatever
\* restarts, outages and copies, a slot is expected once and an arrival is never forgotten.
THEOREM LossIsReal == Spec => []LossNeverOverstated
<1>1. Init => LossInv  BY FS_EmptySet DEF Init, LossInv, NewTracker
<1>2. TypeInv /\ LossInv => LossNeverOverstated
  <2> SUFFICES ASSUME TypeInv, LossInv  PROVE  LossNeverOverstated
    OBVIOUS
  <2> DEFINE c == tracker.counters
             both == covered \cap received
  <2>1. IsFiniteSet(covered) /\ IsFiniteSet(received)  BY DEF LossInv
  <2>2. IsFiniteSet(both) /\ Cardinality(both) =< Cardinality(received)  BY <2>1, FS_Subset
  <2>3. Cardinality(covered \ received) = Cardinality(covered) - Cardinality(both)
        /\ IsFiniteSet(covered \ received)
    BY <2>1, FS_Difference
  <2>4. /\ Cardinality(both) \in Nat /\ Cardinality(received) \in Nat
        /\ Cardinality(covered) \in Nat /\ Cardinality(covered \ received) \in Nat
    BY <2>1, <2>2, <2>3, FS_CardinalityType
  <2>5. c.expected = Cardinality(covered) /\ c.received >= Cardinality(received) /\ c.received \in Nat
    BY DEF LossInv, TypeInv, TypeOK, Tracker, Counters
  <2> HIDE DEF both, c
  <2>6. Lost(c) =< Cardinality(covered \ received)  BY <2>2, <2>3, <2>4, <2>5 DEF Lost
  <2> QED  BY <2>6 DEF LossNeverOverstated, c
<1> QED  BY <1>1, <1>2, OrderInit, TypeInvStep, OrderStep, LossStep, PTL DEF Spec

-----------------------------------------------------------------------------
(* Restarts.  Of two packets in a row that are not played, the first is    *)
(* just behind the numbers reached, or has made its successor the one that *)
(* is believed.                                                            *)

NearBehind == Ahead(tracker.highest, Wire(lastIn)) < MAX_MISORDER + consecutive

FlowInv ==
  /\ run >= 1 => /\ lastIn \in Nat /\ tracker.highest # None
                 /\ NearBehind \/ tracker.resync_seq = Wire(lastIn + 1)
  /\ run >= 2 => NearBehind

LEMMA FlowStep == TypeInv /\ OrderInv /\ FlowInv /\ [Next]_vars => FlowInv'
<1> SUFFICES ASSUME TypeInv, OrderInv, FlowInv, [Next]_vars  PROVE  FlowInv'
  OBVIOUS
<1>0. tracker \in Tracker /\ run \in Nat /\ consecutive \in Nat /\ None \notin SeqNum
  BY Bounds DEF TypeInv, TypeOK
<1>1. CASE UNCHANGED <<tracker, consecutive, run, lastIn>>
  BY <1>1 DEF FlowInv, NearBehind
<1>2. ASSUME NEW p \in net, Deliver(p)  PROVE  FlowInv'
  <2> DEFINE s == Wire(p)
             a == Classify(tracker, s)
             u == OnPacket(tracker, s)
  <2>1. p \in Nat /\ s \in SeqNum /\ tracker' = u /\ lastIn' = p
    BY <1>2, InFlight DEF TypeInv, Deliver
  <2>2. CASE IsPlayed(a)
    <3>1. run' = 0  BY <1>2, <2>2 DEF Deliver
    <3> QED  BY <3>1 DEF FlowInv
  <2>3. CASE ~IsPlayed(a)
    <3>1. /\ u.highest = tracker.highest /\ tracker.highest # None /\ consecutive' = consecutive
          /\ run' = IF p = lastIn + 1 THEN run + 1 ELSE 1
      BY <1>2, <2>3, HighestAfter DEF Deliver
    <3>2. tracker.highest \in SeqNum /\ Ahead(tracker.highest, s) \in Nat
      BY <1>0, <2>1, <3>1, AheadType DEF Tracker, SeqNum
    <3>3. CASE Ahead(tracker.highest, s) < MAX_MISORDER
      <4>1. NearBehind'  BY <1>0, <2>1, <3>1, <3>2, <3>3, Bounds DEF NearBehind
      <4> QED  BY <2>1, <3>1, <4>1 DEF FlowInv
    <3>4. CASE IsJump(tracker, s)
      <4>1. u.resync_seq = Wire(p + 1)
        BY <2>1, <3>4, SuccIsNext DEF IsJump, Quarantined
      <4>2. ASSUME run >= 1, p = lastIn + 1  PROVE  NearBehind'
        <5>1. ASSUME tracker.resync_seq = s  PROVE  FALSE
          <6>1. Classify(tracker, s) = Jump /\ tracker.highest # None
                /\ Ahead(s, tracker.highest) >= MAX_DROPOUT /\ Ahead(tracker.highest, s) >= MAX_MISORDER
            BY <3>4 DEF IsJump
          <6>2. Ahead(s, tracker.highest) \in Nat  BY <2>1, <3>2, AheadType DEF SeqNum
          <6>3. Classify(tracker, s) = Start
            <7>1. /\ Ahead(s, tracker.highest) # 0 /\ ~(Ahead(s, tracker.highest) < MAX_DROPOUT)
                  /\ ~(Ahead(tracker.highest, s) < MAX_MISORDER)
              <8> DEFINE x == Ahead(s, tracker.highest)
                         y == Ahead(tracker.highest, s)
              <8>1. x \in Nat /\ y \in Nat /\ x >= MAX_DROPOUT /\ y >= MAX_MISORDER
                BY <3>2, <6>1, <6>2
              <8> HIDE DEF x, y
              <8>2. x # 0 /\ ~(x < MAX_DROPOUT) /\ ~(y < MAX_MISORDER)  BY <8>1, Bounds
              <8> QED  BY <8>2 DEF x, y
            <7> QED  BY <5>1, <6>1, <7>1 DEF Classify
          <6>4. Start.kind # Jump.kind  BY DEF Start, Jump
          <6> QED  BY <6>1, <6>3, <6>4
        <5>2. NearBehind /\ lastIn \in Nat  BY <4>2, <5>1 DEF FlowInv
        <5>3. s = Succ(Wire(lastIn)) /\ Wire(lastIn) \in SeqNum
          BY <4>2, <5>2, SuccIsNext, WireType
        <5>4. Ahead(tracker.highest, s) =< Ahead(tracker.highest, Wire(lastIn)) \/ tracker.highest = Wire(lastIn)
          BY <3>2, <5>3, Bounds DEF Ahead, Succ, SeqNum
        <5>5. tracker.highest # Wire(lastIn)
          <6>1. Ahead(s, tracker.highest) >= MAX_DROPOUT  BY <3>4 DEF IsJump
          <6>2. ASSUME tracker.highest = Wire(lastIn)  PROVE  Ahead(s, tracker.highest) = 1
            BY <3>2, <5>3, <6>2, Bounds DEF Ahead, Succ, SeqNum
          <6> QED  BY <6>1, <6>2, Bounds
        <5>6. Ahead(tracker.highest, Wire(lastIn)) \in Nat  BY <3>2, <5>3, AheadType DEF SeqNum
        <5> QED  BY <1>0, <2>1, <3>1, <3>2, <5>2, <5>4, <5>5, <5>6, Bounds DEF NearBehind
      <4>3. run' >= 2 => run >= 1 /\ p = lastIn + 1  BY <1>0, <3>1
      <4> QED  BY <2>1, <3>1, <4>1, <4>2, <4>3 DEF FlowInv
    <3>5. IsJump(tracker, s) \/ Ahead(tracker.highest, s) < MAX_MISORDER
      <4>1. ~IsStart(tracker, s) /\ ~IsNext(tracker, s)
        BY <2>3 DEF IsStart, IsNext, IsPlayed, Start, Forward
      <4> QED  BY <1>0, <2>1, <3>2, <4>1, OnPacketCases, Bounds DEF IsLate, IsDuplicate
    <3> QED  BY <3>3, <3>4, <3>5
  <2> QED  BY <2>2, <2>3
<1>3. CASE Conceal
  <2>1. tracker' = Invented(tracker) /\ tracker.highest \in SeqNum /\ run' = run /\ lastIn' = lastIn
        /\ consecutive' = consecutive + 1
    BY <1>0, <1>3 DEF Conceal, OnConcealed, Tracker
  <2>2. tracker'.highest = Succ(tracker.highest) /\ tracker'.resync_seq = tracker.resync_seq
    BY <1>0, <2>1 DEF Invented
  <2>3. Succ(tracker.highest) \in SeqNum  BY <2>1, Bounds DEF Succ, SeqNum
  <2>4. ASSUME lastIn \in Nat, NearBehind  PROVE  NearBehind'
    <3>1. Wire(lastIn) \in SeqNum  BY <2>4, WireType
    <3>2. Ahead(Succ(tracker.highest), Wire(lastIn)) =< Ahead(tracker.highest, Wire(lastIn)) + 1
      BY <2>1, <3>1, Bounds DEF Ahead, Succ, SeqNum
    <3>3. /\ Ahead(Succ(tracker.highest), Wire(lastIn)) \in Nat
          /\ Ahead(tracker.highest, Wire(lastIn)) \in Nat
      <4>1. /\ Ahead(Succ(tracker.highest), Wire(lastIn)) \in SeqNum
            /\ Ahead(tracker.highest, Wire(lastIn)) \in SeqNum
        BY <2>1, <2>3, <3>1, AheadType
      <4> QED  BY <4>1, Bounds DEF SeqNum
    <3> QED  BY <1>0, <2>1, <2>2, <2>4, <3>2, <3>3, Bounds DEF NearBehind
  <2> QED  BY <1>0, <2>1, <2>2, <2>3, <2>4 DEF FlowInv
<1> QED  BY <1>1, <1>2, <1>3 DEF Next, Send, Lose, vars

\* No flow stays in quarantine: of two packets in a row, either one is played or both lie
\* just behind the numbers reached.
THEOREM FlowHeard == Spec => []FlowIsHeard
<1>1. Init => FlowInv  BY DEF Init, FlowInv
<1>2. TypeInv /\ FlowInv => FlowIsHeard
  <2> SUFFICES ASSUME TypeInv, FlowInv, run >= 2  PROVE  Ahead(tracker.highest, Wire(lastIn)) < MAX_MISORDER + MAX_CONSECUTIVE
    BY DEF FlowIsHeard
  <2>1. NearBehind /\ lastIn \in Nat /\ tracker.highest # None /\ run \in Nat
    BY DEF FlowInv, TypeInv, TypeOK
  <2>2. Wire(lastIn) \in SeqNum /\ tracker.highest \in SeqNum
    BY <2>1, WireType DEF TypeInv, TypeOK, Tracker
  <2>3. Ahead(tracker.highest, Wire(lastIn)) \in Nat  BY <2>2, AheadType DEF SeqNum
  <2>4. consecutive \in 0 .. MAX_CONSECUTIVE  BY DEF TypeInv, TypeOK
  <2> QED  BY <2>1, <2>3, <2>4, Bounds DEF NearBehind
<1> QED  BY <1>1, <1>2, OrderInit, TypeInvStep, OrderStep, FlowStep, PTL DEF Spec
=============================================================================
