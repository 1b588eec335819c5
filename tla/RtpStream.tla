------------------------------ MODULE RtpStream ------------------------------
(***************************************************************************)
(* One RTP stream from its sender to the receiver's tracker: the network   *)
(* loses, duplicates and reorders packets, the sender skips numbers        *)
(* (outage, restart), and the receiver invents frames at the playback      *)
(* deadline.  The tracker is the one of SeqTracker; the sender, the        *)
(* network and the deadline are its environment.                           *)
(*                                                                         *)
(* Packets are identified by an absolute slot number that never wraps; the *)
(* tracker only ever sees that number modulo SeqMod.                       *)
(***************************************************************************)
EXTENDS SeqTracker, FiniteSets

CONSTANTS
  FirstSlots,    \* slots the sender may start from
  Gaps,          \* steps between two packets sent: 1, or an outage / a restart
  Displacement,  \* a packet is delivered at most this many slots late
  MAX_CONSECUTIVE, \* invented frames in a row (3 in conceal.rs)
  MaxSends,      \* bound: packets sent
  MaxCopies      \* bound: packets the network duplicates

\* The receiver remembers further back than the network reorders: a packet that
\* is delivered is never so old that it could be taken for a restart.
ASSUME StreamConstants ==
  /\ FirstSlots \subseteq Nat
  /\ Gaps \subseteq Nat \ {0}
  /\ {Displacement, MAX_CONSECUTIVE, MaxSends, MaxCopies} \subseteq Nat
  /\ Displacement + MAX_CONSECUTIVE < MAX_MISORDER

VARIABLES
  tracker,      \* the SeqTracker of the stream
  consecutive,  \* DecodeState.consecutive_concealed
  sent,         \* last slot sent
  sends,        \* packets sent so far
  net,          \* slots in flight
  copies,       \* packets duplicated so far
  top,          \* history variable: absolute slot of tracker.highest
  played,       \* history variable: slots whose packet was handed to the decoder
  received,     \* history variable: slots counted as received
  invented,     \* history variable: slots filled at the deadline
  covered,      \* history variable: slots the receiver ever expected
  run,          \* history variable: packets in a row that arrived in sequence, none played
  lastIn,       \* history variable: last slot delivered
  spanned       \* history variable: an outage has spanned the whole numbering

vars == <<tracker, consecutive, sent, sends, net, copies, top, played, received, invented,
          covered, run, lastIn, spanned>>

Wire(p) == p % SeqMod

Init ==
  /\ sent \in FirstSlots
  /\ sends = 1
  /\ net = {sent}
  /\ copies = 0
  /\ tracker = NewTracker
  /\ consecutive = 0
  /\ top = -1
  /\ played = {} /\ received = {} /\ invented = {} /\ covered = {}
  /\ run = 0
  /\ lastIn = -1
  /\ spanned = FALSE

-----------------------------------------------------------------------------
\* The sender (outside src/jamodio-audio-core/src/net/seq.rs): the next packet.
\* A packet that would arrive too late is gone: it was lost.
Send(gap) ==
  /\ sends < MaxSends
  /\ sends' = sends + 1
  /\ sent' = sent + gap
  /\ net' = {p \in net : sent + gap - p =< Displacement} \cup {sent + gap}
  /\ spanned' = (spanned \/ (tracker.highest # None /\ sent + gap - top >= SeqMod - MAX_MISORDER))
  /\ UNCHANGED <<tracker, consecutive, copies, top, played, received, invented, covered, run,
                 lastIn>>

Lose(p) ==
  /\ p \in net
  /\ net' = net \ {p}
  /\ UNCHANGED <<tracker, consecutive, sent, sends, copies, top, played, received, invented,
                 covered, run, lastIn, spanned>>

\* A wrong form of the test below: a late packet is handed to the decoder.
IsPlayedEvenLate(a) == a.kind \in {"Start", "Next", "Late"}

IsPlayed(a) == a.kind \in {"Start", "Next"}

\* RxCore::decode_one_packet up to the decoder: the packet is classified, played
\* or discarded, and a packet that is played ends a series of invented frames.
\* The network may deliver it again (it stays in flight).
Deliver(p) ==
  LET a == Classify(tracker, Wire(p))
  IN /\ p \in net
     /\ tracker' = OnPacket(tracker, Wire(p))
     /\ \/ net' = net \ {p} /\ UNCHANGED copies
        \/ net' = net /\ copies < MaxCopies /\ copies' = copies + 1
     /\ consecutive' = IF IsPlayed(a) THEN 0 ELSE consecutive
     /\ top' = IF IsPlayed(a) THEN p ELSE top
     /\ played' = IF IsPlayed(a) THEN played \cup {p} ELSE played
     /\ received' = IF IsPlayed(a) \/ a.kind = "Late" THEN received \cup {p} ELSE received
     /\ covered' = CASE a.kind = "Start" -> covered \cup {p}
                     [] a.kind = "Next"  -> covered \cup (p - a.missing) .. p
                     [] OTHER -> covered
     /\ run' = CASE IsPlayed(a) -> 0
                 [] ~IsPlayed(a) /\ p = lastIn + 1 -> run + 1
                 [] OTHER -> 1
     /\ lastIn' = p
     /\ UNCHANGED <<sent, sends, invented, spanned>>

\* RxCore::conceal_due_streams, the Frame decision: the deadline of the next
\* packet has passed and the buffer runs dry.
Conceal ==
  /\ tracker.highest # None
  /\ consecutive < MAX_CONSECUTIVE
  /\ consecutive' = consecutive + 1
  /\ tracker' = OnConcealed(tracker)
  /\ top' = top + 1
  /\ invented' = invented \cup {top + 1}
  /\ covered' = covered \cup {top + 1}
  /\ UNCHANGED <<sent, sends, net, copies, played, received, run, lastIn, spanned>>

Next ==
  \/ \E gap \in Gaps : Send(gap)
  \/ \E p \in net : Lose(p) \/ Deliver(p)
  \/ Conceal

Spec == Init /\ [][Next]_vars

-----------------------------------------------------------------------------
\* Every variable has its type, and the tracker's own representation invariant
\* holds: no slot is both received and filled by an invented frame.
TypeOK ==
  /\ tracker \in Tracker
  /\ tracker.history \cap tracker.concealed = {}
  /\ consecutive \in 0 .. MAX_CONSECUTIVE
  /\ sent \in Nat /\ sends \in Nat /\ copies \in Nat /\ net \subseteq 0 .. sent
  /\ top \in Int /\ run \in Nat /\ lastIn \in Int
  /\ played \subseteq Nat /\ received \subseteq Nat
  /\ invented \subseteq Int /\ covered \subseteq Int
  /\ spanned \in BOOLEAN

\* What reaches the speakers is in the sender's order, never twice and never
\* behind an invented frame that took its place: a packet handed to the decoder
\* is beyond every slot already played or invented (seq.rs: a packet "arrivé
\* APRÈS que sa place a été dépassée" must not be played).
PlayedInOrder ==
  [][\A p \in played' \ played : \A q \in played \cup invented : q < p]_vars

\* A slot is filled once: by its packet or by an invented frame, never by both.
NoSlotFilledTwice == played \cap invented = {}

\* The verdicts tell the truth about the network, which is what the late-arrival
\* margin and the published counters are computed from: "duplicate" only for a
\* packet already received, "late" only for the first arrival of a packet,
\* "replaced" exactly when its own slot was invented at the deadline.  Sixteen
\* bits can only say so until an outage spans the whole numbering (163 s of sound).
VerdictExact ==
  [][\A p \in net : Deliver(p) /\ ~spanned =>
       LET a == Classify(tracker, Wire(p))
       IN /\ a.kind = "Duplicate" => p \in received
          /\ a.kind = "Late" => /\ p \notin received
                                /\ a.replaced <=> p \in invented]_vars

\* The published loss never exceeds the slots that really stayed empty.  (It may fall
\* short of them: a packet that was sent before the first one received, or before a
\* restart, is counted as received without ever having been expected.)
LossNeverOverstated == Lost(tracker.counters) =< Cardinality(covered \ received)

\* A stream that flows again is heard again: two packets arriving one after the other
\* are both left unplayed only just behind the numbers reached, which such packets
\* catch up with.  Wherever the sender's numbering restarted and whatever is invented
\* meanwhile, no flow stays in quarantine.
FlowIsHeard ==
  run >= 2 => Ahead(tracker.highest, Wire(lastIn)) < MAX_MISORDER + MAX_CONSECUTIVE
=============================================================================
