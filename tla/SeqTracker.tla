------------------------------ MODULE SeqTracker ------------------------------
(***************************************************************************)
(* The classification of received RTP packets by sequence number           *)
(* (jamodio-audio-core/src/net/seq.rs).  A tracker is a record; the        *)
(* operators give the verdict on a packet and the tracker that follows.    *)
(*                                                                         *)
(* The two 128-bit masks are sets of bit positions: i \in t.history means  *)
(* "packet highest - i was received", i \in t.concealed means "the slot    *)
(* highest - i was filled by an invented frame".                           *)
(***************************************************************************)
EXTENDS Integers

CONSTANTS
  SeqMod,        \* size of the wire numbering (2^16 in the program)
  MAX_DROPOUT,   \* forward distance from which a packet is a jump (3000)
  MAX_MISORDER,  \* backward distance from which a packet is a jump (100)
  HISTORY_BITS,  \* number of slots remembered (128)
  None           \* Rust's Option::None

\* The relations between the program's four constants the classification
\* relies on: the memory covers every distance at which "late" and "duplicate"
\* are told apart, and no number is both "just behind" and "just ahead".
ASSUME SeqConstants ==
  /\ {SeqMod, MAX_DROPOUT, MAX_MISORDER, HISTORY_BITS} \subseteq Nat
  /\ 1 < MAX_MISORDER
  /\ MAX_MISORDER =< HISTORY_BITS
  /\ MAX_MISORDER =< MAX_DROPOUT
  /\ MAX_DROPOUT + MAX_MISORDER =< SeqMod
  /\ None \notin Nat

SeqNum == 0 .. SeqMod - 1
Bits   == 0 .. HISTORY_BITS - 1

\* u16 wrapping_sub and wrapping_add(1).
Ahead(a, b) == IF a >= b THEN a - b ELSE a - b + SeqMod
Succ(a)     == IF a = SeqMod - 1 THEN 0 ELSE a + 1

\* A wrong form of the shift: one slot short.
ShiftShort(bits, k) == {i \in Bits : i - (k - 1) \in bits}

\* u128 << k: a bit pushed past the width is lost.
Shift(bits, k) == {i \in Bits : i - k \in bits}

-----------------------------------------------------------------------------
Counters == [expected: Nat, received: Nat, late: Nat, duplicate: Nat, jump: Nat]

Tracker == [highest: SeqNum \cup {None}, history: SUBSET Bits, concealed: SUBSET Bits,
            resync_seq: SeqNum \cup {None}, counters: Counters]

\* SeqTracker::default
NewTracker ==
  [highest |-> None, history |-> {}, concealed |-> {}, resync_seq |-> None,
   counters |-> [expected |-> 0, received |-> 0, late |-> 0, duplicate |-> 0, jump |-> 0]]

\* The counters, each incremented by the amount given.
Counted(c, expected, received, late, duplicate, jump) ==
  [expected |-> c.expected + expected, received |-> c.received + received,
   late |-> c.late + late, duplicate |-> c.duplicate + duplicate, jump |-> c.jump + jump]

\* SeqCounters::lost, the saturating difference.
Lost(c) == IF c.expected > c.received THEN c.expected - c.received ELSE 0

Start        == [kind |-> "Start"]
Forward(n)   == [kind |-> "Next", missing |-> n]
Late(b)      == [kind |-> "Late", replaced |-> b]
Duplicate    == [kind |-> "Duplicate"]
Jump         == [kind |-> "Jump"]

\* The verdict on packet seq: on_packet's tests, in their order.
Classify(t, seq) ==
  LET ahead  == Ahead(seq, t.highest)
      behind == Ahead(t.highest, seq)
  IN IF t.highest = None THEN Start
     ELSE IF ahead = 0
       THEN IF 0 \in t.concealed THEN Late(TRUE) ELSE Duplicate
     ELSE IF ahead < MAX_DROPOUT THEN Forward(ahead - 1)
     ELSE IF behind < MAX_MISORDER
       THEN IF behind \in t.history THEN Duplicate ELSE Late(behind \in t.concealed)
     ELSE IF t.resync_seq = seq THEN Start
     ELSE Jump

\* SeqTracker::start
Started(t, seq) ==
  [highest |-> seq, history |-> {0}, concealed |-> {}, resync_seq |-> None,
   counters |-> Counted(t.counters, 1, 1, 0, 0, 0)]

\* The stream moves on to seq; the slots skipped on the way were not received.
Advanced(t, seq) ==
  LET ahead == Ahead(seq, t.highest)
  IN [highest |-> seq, history |-> Shift(t.history, ahead) \cup {0},
      concealed |-> Shift(t.concealed, ahead), resync_seq |-> None,
      counters |-> Counted(t.counters, ahead, 1, 0, 0, 0)]

\* Wrong forms of the transitions below: the arrival is not counted, the candidate is
\* forgotten, the invented frame does not take the slot.
ArrivedUncounted(t, behind) ==
  [t EXCEPT !.history = @ \cup {behind}, !.concealed = @ \ {behind},
            !.counters = Counted(@, 0, 0, 1, 0, 0)]
Forgotten(t, seq) == [t EXCEPT !.counters = Counted(@, 0, 0, 0, 0, 1)]
InventedInPlace(t) == [t EXCEPT !.counters = Counted(@, 1, 0, 0, 0, 0)]

\* The slot behind the highest one turns out to have been received after all.
ArrivedLate(t, behind) ==
  [highest |-> t.highest, history |-> t.history \cup {behind},
   concealed |-> t.concealed \ {behind}, resync_seq |-> t.resync_seq,
   counters |-> Counted(t.counters, 0, 1, 1, 0, 0)]

SeenAgain(t) == [t EXCEPT !.counters = Counted(t.counters, 0, 0, 0, 1, 0)]

\* A number too far away waits for its successor to confirm it.
Quarantined(t, seq) ==
  [highest |-> t.highest, history |-> t.history, concealed |-> t.concealed,
   resync_seq |-> Succ(seq), counters |-> Counted(t.counters, 0, 0, 0, 0, 1)]

\* The tracker once packet seq has received verdict a.
Record(t, seq, a) ==
  CASE a.kind = "Start"     -> Started(t, seq)
    [] a.kind = "Next"      -> Advanced(t, seq)
    [] a.kind = "Late"      -> ArrivedLate(t, Ahead(t.highest, seq))
    [] a.kind = "Duplicate" -> SeenAgain(t)
    [] a.kind = "Jump"      -> Quarantined(t, seq)

\* SeqTracker::on_packet
OnPacket(t, seq) == Record(t, seq, Classify(t, seq))

\* The next slot was filled by an invented frame: expected, never received.
Invented(t) ==
  [highest |-> Succ(t.highest), history |-> Shift(t.history, 1),
   concealed |-> Shift(t.concealed, 1) \cup {0}, resync_seq |-> t.resync_seq,
   counters |-> Counted(t.counters, 1, 0, 0, 0, 0)]

\* SeqTracker::on_concealed: nothing to fill before the first packet; the pending
\* confirmation of a jump is left alone.
OnConcealed(t) == IF t.highest = None THEN t ELSE Invented(t)
=============================================================================
