--------------------------- MODULE EncodeChainProofs ---------------------------
(***************************************************************************)
(* Proof that the encode chains send what was captured once, in order and  *)
(* in its own session but for one block that the callback holds when the   *)
(* session ends, and stop at once, for any number of sessions, blocks, and *)
(* sizes of the queues, also when two chains read one channel.             *)
(*                                                                         *)
(* A chain is seen as seven places in a row, from what it sent (0) to the  *)
(* channel it reads (6).  A block only moves one place down, or is lost.   *)
(***************************************************************************)
EXTENDS MCSending, FiniteSetTheorems, FunctionTheorems, TLAPS

Elements(q) == {q[i] : i \in DOMAIN q}
Increasing(q) == \A i, j \in DOMAIN q : i < j => q[i] < q[j]

-----------------------------------------------------------------------------
(* The inductive invariant. *)

Typed ==
  /\ captures \in 0..MaxCaptures /\ blocks \in 0..MaxBlocks
  /\ open \in SUBSET Captures
  /\ source \in [Captures -> 0..MaxCaptures]
  /\ stopFlag \in [Captures -> BOOLEAN]
  /\ encoder \in [Captures -> {"unborn", "launch", "waits", "joins", "ended"}]
  /\ pc \in [Captures -> [Stages -> {"unborn", "wait", "push", "ended"}]]
  /\ held \in [Captures -> [Stages -> 0..MaxBlocks]]
  /\ channel \in [Captures -> Seq(Blocks)]
  /\ inbox \in [Captures -> [Stages -> Seq(Blocks)]]
  /\ sent \in [Captures -> Seq(Blocks)]
  /\ birth \in [Blocks -> 0..MaxCaptures]
  /\ passing \in 0..MaxBlocks /\ stray \in [Captures -> 0..MaxBlocks]
  /\ extra \in [Captures -> [Stages -> 0..1]]

\* The places of a chain.
Places == 0..6
Channel(g) == IF source[g] = 0 THEN {} ELSE Elements(channel[source[g]])
Place(g) ==
  [k \in Places |->
    IF k = 0 THEN Elements(sent[g])
    ELSE IF k = 1 THEN {held[g]["encode"]} \ {0}
    ELSE IF k = 2 THEN Elements(inbox[g]["encode"])
    ELSE IF k = 3 THEN {held[g]["process"]} \ {0}
    ELSE IF k = 4 THEN Elements(inbox[g]["process"])
    ELSE IF k = 5 THEN {held[g]["capture"]} \ {0}
    ELSE Channel(g)]
\* What left the channel for the chain.
Owned(g) == UNION {Place(g)[k] : k \in 0..5}

\* Blocks are in order along a row of places.
InRow(P) == \A k, l \in Places : k < l => \A x \in P[k], y \in P[l] : x < y

Rows == \A g \in Captures : InRow(Place(g))
Queues ==
  \A g \in Captures : /\ Increasing(sent[g]) /\ Increasing(channel[g])
                      /\ \A s \in Stages : Increasing(inbox[g][s])

\* A block is in one place.
Apart ==
  /\ \A g, h \in Captures : g # h => Owned(g) \cap Owned(h) = {}
  /\ \A g, c \in Captures : Owned(g) \cap Elements(channel[c]) = {}
  /\ \A c, d \in Captures : c # d => Elements(channel[c]) \cap Elements(channel[d]) = {}

\* Nothing is anywhere that the callback did not push.
Pushed   == 1..blocks \ {passing}
Captured == \A g \in Captures : Owned(g) \cup Elements(channel[g]) \subseteq Pushed

\* A block is of the session of the chain or of a later one, or it was passing when
\* the chain began.
Belongs(x, g) == birth[x] >= g \/ x = stray[g]
\* That is so of what a chain has or is about to read...
Fresh == \A g \in Captures : \A x \in Owned(g) \cup Channel(g) : Belongs(x, g)
\* ...and of what the callback may still push into its channel, the last block captured.
InHand ==
  passing # 0 => /\ passing = blocks
                 /\ \A g \in Captures : source[g] # 0 => Belongs(passing, g)

\* A session that is still to come has nothing.
Unstarted ==
  /\ open \subseteq 1..captures
  /\ \A g \in Captures : g > captures =>
       source[g] = 0 /\ Owned(g) = {} /\ channel[g] = <<>> /\ encoder[g] = "unborn"

\* The threads: a stage holds a block while it pushes it, and after its chain's
\* flag went up it takes no second one.
Threads ==
  \A g \in Captures :
    /\ encoder[g] # "unborn" => source[g] \in Captures
    /\ encoder[g] \in {"unborn", "launch"} =>
         ~stopFlag[g] /\ \A s \in Stages : pc[g][s] = "unborn"
    /\ \A s \in Stages :
         /\ pc[g][s] = "push" <=> held[g][s] # 0
         /\ ~stopFlag[g] => extra[g][s] = 0
         /\ pc[g][s] \in {"unborn", "wait"} => extra[g][s] = 0

\* Where the blocks are.
Whereabouts == Rows /\ Apart /\ Captured /\ Fresh

IInv == Typed /\ Whereabouts /\ InHand /\ Queues /\ Unstarted /\ Threads

-----------------------------------------------------------------------------
(* Queues of blocks. *)

\* Blocks and captures are numbered from 1: 0 stands for none.
LEMMA BlocksAreNumbers == Blocks \subseteq Nat /\ 0 \notin Blocks /\ Captures \subseteq Nat /\ 0 \notin Captures
BY ChainConstants DEF Blocks, Captures

\* A block at the end of a queue.
LEMMA Appended ==
  ASSUME NEW q \in Seq(Blocks), NEW x \in Blocks
  PROVE  /\ Append(q, x) \in Seq(Blocks)
         /\ Elements(Append(q, x)) = Elements(q) \cup {x}
         /\ Increasing(q) /\ (\A y \in Elements(q) : y < x) => Increasing(Append(q, x))
<1>1. /\ Append(q, x) \in Seq(Blocks) /\ Len(Append(q, x)) = Len(q) + 1 /\ Len(q) \in Nat
      /\ \A i \in 1..Len(q) : Append(q, x)[i] = q[i]
      /\ Append(q, x)[Len(q) + 1] = x
  OBVIOUS
<1>2. DOMAIN q = 1..Len(q) /\ DOMAIN Append(q, x) = 1..(Len(q) + 1)
  BY <1>1
<1>3. Elements(Append(q, x)) = Elements(q) \cup {x}
  <2>1. \A i \in DOMAIN Append(q, x) : i \in DOMAIN q \/ i = Len(q) + 1
    BY <1>1, <1>2
  <2>2. DOMAIN q \subseteq DOMAIN Append(q, x) /\ Len(q) + 1 \in DOMAIN Append(q, x)
    BY <1>1, <1>2
  <2>3. QED
    BY <1>1, <1>2, <2>1, <2>2 DEF Elements
<1>4. ASSUME Increasing(q), \A y \in Elements(q) : y < x
      PROVE  Increasing(Append(q, x))
  <2> SUFFICES ASSUME NEW i \in 1..(Len(q) + 1), NEW j \in 1..(Len(q) + 1), i < j
               PROVE  Append(q, x)[i] < Append(q, x)[j]
    BY <1>2 DEF Increasing
  <2>1. i \in 1..Len(q)
    BY <1>1
  <2>2. q[i] \in Elements(q)
    BY <1>2, <2>1 DEF Elements
  <2>3. QED
    BY <1>1, <1>2, <1>4, <2>1, <2>2 DEF Increasing
<1>5. QED
  BY <1>1, <1>3, <1>4

\* A block out of a queue.
LEMMA Taken ==
  ASSUME NEW q \in Seq(Blocks), q # <<>>
  PROVE  /\ Head(q) \in Elements(q) /\ Head(q) \in Blocks
         /\ Tail(q) \in Seq(Blocks) /\ Elements(Tail(q)) \subseteq Elements(q)
         /\ Increasing(q) => Increasing(Tail(q)) /\ \A y \in Elements(Tail(q)) : Head(q) < y
<1>1. /\ Len(q) \in Nat \ {0} /\ Head(q) = q[1] /\ Head(q) \in Blocks
      /\ Tail(q) \in Seq(Blocks) /\ Len(Tail(q)) = Len(q) - 1
      /\ \A i \in 1..(Len(q) - 1) : Tail(q)[i] = q[i + 1]
  OBVIOUS
<1>2. /\ DOMAIN q = 1..Len(q) /\ DOMAIN Tail(q) = 1..(Len(q) - 1)
      /\ \A i \in 1..(Len(q) - 1) : i + 1 \in 1..Len(q) /\ i \in 1..Len(q) /\ 1 < i + 1
      /\ 1 \in 1..Len(q)
  BY <1>1
<1>3. Head(q) \in Elements(q) /\ Elements(Tail(q)) \subseteq Elements(q)
  BY <1>1, <1>2 DEF Elements
<1>4. ASSUME Increasing(q) PROVE \A y \in Elements(Tail(q)) : Head(q) < y
  BY <1>1, <1>2, <1>4 DEF Elements, Increasing
<1>5. ASSUME Increasing(q) PROVE Increasing(Tail(q))
  <2> SUFFICES ASSUME NEW i \in 1..(Len(q) - 1), NEW j \in 1..(Len(q) - 1), i < j
               PROVE  Tail(q)[i] < Tail(q)[j]
    BY <1>2 DEF Increasing
  <2>1. i + 1 \in 1..Len(q) /\ j + 1 \in 1..Len(q) /\ i + 1 < j + 1
    BY <1>1
  <2>2. QED
    BY <1>1, <1>2, <1>5, <2>1 DEF Increasing
<1>6. QED
  BY <1>1, <1>3, <1>4, <1>5

\* An element is a block.
LEMMA ElementsTyped == ASSUME NEW q \in Seq(Blocks) PROVE Elements(q) \subseteq Blocks
BY DEF Elements

-----------------------------------------------------------------------------
(* The places of a chain. *)

\* What each place of a chain holds, from the callback to the channel.
LEMMA PlaceIs ==
  ASSUME NEW g
  PROVE  /\ Place(g)[0] = Elements(sent[g])
         /\ Place(g)[1] = {held[g]["encode"]} \ {0} /\ Place(g)[2] = Elements(inbox[g]["encode"])
         /\ Place(g)[3] = {held[g]["process"]} \ {0} /\ Place(g)[4] = Elements(inbox[g]["process"])
         /\ Place(g)[5] = {held[g]["capture"]} \ {0} /\ Place(g)[6] = Channel(g)
BY DEF Place, Places

\* ...and what it holds after a step.
LEMMA PlaceIsNext ==
  ASSUME NEW g
  PROVE  /\ Place(g)'[0] = Elements(sent'[g])
         /\ Place(g)'[1] = {held'[g]["encode"]} \ {0} /\ Place(g)'[2] = Elements(inbox'[g]["encode"])
         /\ Place(g)'[3] = {held'[g]["process"]} \ {0} /\ Place(g)'[4] = Elements(inbox'[g]["process"])
         /\ Place(g)'[5] = {held'[g]["capture"]} \ {0} /\ Place(g)'[6] = Channel(g)'
BY DEF Place, Places

\* A chain that exists reads the channel of some session.
LEMMA SourceTyped == ASSUME Typed, NEW g \in Captures, source[g] # 0 PROVE source[g] \in Captures
BY ChainConstants DEF Typed, Captures

\* The places of a chain hold blocks.
LEMMA PlacesTyped ==
  ASSUME Typed, NEW g \in Captures
  PROVE  \A k \in Places : Place(g)[k] \subseteq Blocks
<1>1. source[g] # 0 => source[g] \in Captures
  BY SourceTyped
<1>2. Channel(g) \subseteq Blocks
  BY <1>1, ElementsTyped DEF Channel, Typed
<1>3. /\ sent[g] \in Seq(Blocks) /\ \A s \in Stages : inbox[g][s] \in Seq(Blocks)
      /\ \A s \in Stages : {held[g][s]} \ {0} \subseteq Blocks
  BY ChainConstants DEF Typed, Blocks
<1>4. QED
  BY <1>2, <1>3, PlaceIs, ElementsTyped DEF Places, Stages

\* Rows that only lose blocks stay in order...
LEMMA RowLoses ==
  ASSUME NEW P, NEW Q, InRow(P), \A l \in Places : Q[l] \subseteq P[l]
  PROVE  InRow(Q)
BY DEF InRow

\* ...and so do rows where the first block of a place moves to the next one.
LEMMA RowMoves ==
  ASSUME NEW P, NEW Q, InRow(P), NEW k \in 1..6, NEW x \in P[k],
         \A l \in Places : P[l] \subseteq Nat,
         \A y \in Q[k] : x < y,
         Q[k] \subseteq P[k], Q[k - 1] \subseteq P[k - 1] \cup {x},
         \A l \in Places \ {k, k - 1} : Q[l] \subseteq P[l]
  PROVE  InRow(Q)
<1> SUFFICES ASSUME NEW i \in Places, NEW j \in Places, i < j, NEW y \in Q[i], NEW z \in Q[j]
             PROVE  y < z
  BY DEF InRow
<1>1. \A m \in Places : m < k => \A v \in P[m] : v < x
  BY DEF InRow, Places
<1>2. \A m \in Places : k < m => \A v \in P[m] : x < v
  BY DEF InRow, Places
<1>3. CASE y \in P[i] /\ z \in P[j]
  BY <1>3 DEF InRow
<1>4. CASE z \notin P[j]
  <2>1. j = k - 1 /\ z = x
    BY <1>4
  <2>2. i < k /\ i # k /\ i # k - 1
    BY <2>1 DEF Places
  <2>3. QED
    BY <1>1, <2>1, <2>2
<1>5. CASE y \notin P[i]
  <2>1. i = k - 1 /\ y = x
    BY <1>5
  <2>2. j = k \/ (k < j /\ j # k - 1)
    BY <2>1 DEF Places
  <2>3. QED
    BY <1>2, <2>1, <2>2
<1>6. QED
  BY <1>3, <1>4, <1>5

-----------------------------------------------------------------------------
(* What moves. *)

\* The first block of place k of chain g moves to the next one, or is lost; the
\* others only lose blocks (of a channel they share).
MovesDown(g, k, x) ==
  /\ x \in Place(g)[k] /\ \A y \in Place(g)'[k] : x < y
  /\ Place(g)'[k] \subseteq Place(g)[k] /\ Place(g)'[k - 1] \subseteq Place(g)[k - 1] \cup {x}
  /\ \A l \in Places \ {k, k - 1} : Place(g)'[l] \subseteq Place(g)[l]
  /\ \A h \in Captures \ {g}, l \in Places : Place(h)'[l] \subseteq Place(h)[l]
  /\ \A c \in Captures : Elements(channel'[c]) \subseteq Elements(channel[c])
  /\ UNCHANGED <<source, blocks, passing, birth, stray>>

\* Nothing moves.
Rests ==
  /\ \A h \in Captures, l \in Places : Place(h)'[l] \subseteq Place(h)[l]
  /\ \A c \in Captures : Elements(channel'[c]) \subseteq Elements(channel[c])
  /\ \A h \in Captures : stray'[h] = stray[h] \/ \A l \in Places : Place(h)[l] = {}
  /\ UNCHANGED <<blocks, passing, birth>>

\* A chain owns what is in its places.
LEMMA OwnedIs == \A g : \A x : x \in Owned(g) <=> \E k \in 0..5 : x \in Place(g)[k]
BY DEF Owned

\* ...and after a step too.
LEMMA OwnedIsNext == \A g : \A x : x \in Owned(g)' <=> \E k \in 0..5 : x \in Place(g)'[k]
BY DEF Owned

\* A step that only loses blocks, of a chain or of several, keeps them where they should be.
LEMMA RestsKeeps ==
  ASSUME Whereabouts, Rests
  PROVE  Whereabouts'
<1> USE DEF Whereabouts, Rests
<1>1. \A g \in Captures : Owned(g)' \subseteq Owned(g) /\ Channel(g)' \subseteq Channel(g)
  BY OwnedIs, OwnedIsNext, PlaceIs, PlaceIsNext DEF Places
<1>2. Rows'
  BY RowLoses DEF Rows
<1>3. Apart'
  BY <1>1 DEF Apart
<1>4. Captured'
  BY <1>1 DEF Captured, Pushed
<1>5. Fresh'
  <2> SUFFICES ASSUME NEW h \in Captures, NEW x \in Owned(h)' \cup Channel(h)' PROVE Belongs(x, h)'
    BY DEF Fresh
  <2>1. x \in Owned(h) \cup Channel(h)
    BY <1>1
  <2>2. \E l \in Places : x \in Place(h)[l]
    BY <2>1, OwnedIs, PlaceIs DEF Places
  <2>3. stray'[h] = stray[h]
    BY <2>2
  <2>4. QED
    BY <2>1, <2>3 DEF Fresh, Belongs
<1>6. QED
  BY <1>2, <1>3, <1>4, <1>5

\* So does one that moves the first block of a place of one chain to its next place.
LEMMA MovesKeep ==
  ASSUME Typed, Whereabouts, NEW g \in Captures, NEW k \in 1..6, NEW x, MovesDown(g, k, x)
  PROVE  Whereabouts'
<1> USE DEF Whereabouts, MovesDown
<1>1. \A h \in Captures \ {g} : Owned(h)' \subseteq Owned(h) /\ Channel(h)' \subseteq Channel(h)
  BY OwnedIs, OwnedIsNext, PlaceIs, PlaceIsNext DEF Places
<1>2. Owned(g)' \subseteq Owned(g) \cup {x} /\ Channel(g)' \subseteq Channel(g)
  <2>1. \A l \in 0..5 : Place(g)'[l] \subseteq Place(g)[l] \cup {x}
    BY DEF Places
  <2>2. Place(g)'[6] \subseteq Place(g)[6]
    BY DEF Places
  <2>3. QED
    BY <2>1, <2>2, OwnedIs, OwnedIsNext, PlaceIs, PlaceIsNext
<1>3. k # 6 => x \in Owned(g)
  BY OwnedIs
<1>4. k = 6 => /\ source[g] \in Captures /\ x \in Elements(channel[source[g]])
               /\ x \notin Elements(channel'[source[g]])
  <2> SUFFICES ASSUME k = 6
               PROVE  /\ source[g] \in Captures /\ x \in Elements(channel[source[g]])
                      /\ x \notin Elements(channel'[source[g]])
    OBVIOUS
  <2>1. x \in Channel(g)
    BY PlaceIs
  <2>2. source[g] \in Captures /\ x \in Elements(channel[source[g]])
    BY <2>1, ChainConstants DEF Channel, Typed, Captures
  <2>3. Place(g)'[6] = Elements(channel'[source[g]])
    BY <2>2, PlaceIsNext, BlocksAreNumbers DEF Channel
  <2>4. x \in Nat
    BY <2>2, ElementsTyped, BlocksAreNumbers DEF Typed
  <2>5. QED
    BY <2>2, <2>3, <2>4
<1>5. \A c \in Captures : x \notin Elements(channel'[c])
  BY <1>3, <1>4 DEF Apart
<1>6. \A h \in Captures \ {g} : x \notin Owned(h)
  BY <1>3, <1>4 DEF Apart
<1>7. Rows'
  <2>1. InRow(Place(g)')
    <3>1. \A l \in Places : Place(g)[l] \subseteq Nat
      BY PlacesTyped, BlocksAreNumbers
    <3>2. InRow(Place(g))
      BY DEF Rows
    <3>3. QED
      BY <3>1, <3>2, RowMoves
  <2>2. \A h \in Captures \ {g} : InRow(Place(h)')
    BY RowLoses DEF Rows
  <2>3. QED
    BY <2>1, <2>2 DEF Rows
<1>8. Apart'
  BY <1>1, <1>2, <1>5, <1>6 DEF Apart
<1>9. Captured'
  BY <1>1, <1>2, <1>3, <1>4 DEF Captured, Pushed
<1>10. Fresh'
  <2>1. x \in Owned(g) \cup Channel(g)
    BY <1>3, PlaceIs
  <2>2. QED
    BY <1>1, <1>2, <2>1 DEF Fresh, Belongs
<1>11. QED
  BY <1>7, <1>8, <1>9, <1>10

-----------------------------------------------------------------------------
(* Types. *)

\* At the start every variable has its type.
LEMMA TypedInit == Init => Typed
BY ChainConstants DEF Init, Typed, Everywhere, Captures, Blocks, Stages

\* A block x comes out of what a stage reads, rest stays there.
Out(g, s, x, rest) ==
  /\ pc[g][s] = "wait" /\ held[g][s] = 0 /\ encoder[g] \notin {"unborn", "launch"}
  /\ held' = [held EXCEPT ![g][s] = x]
  /\ s = "capture" => /\ source[g] \in Captures /\ UNCHANGED inbox
                      /\ channel' = [channel EXCEPT ![source[g]] = rest]
  /\ s # "capture" => inbox' = [inbox EXCEPT ![g][s] = rest] /\ UNCHANGED channel
\* It was the first.
First(q, x, rest) ==
  /\ x \in Elements(q) /\ Elements(rest) \subseteq Elements(q)
  /\ Increasing(q) => Increasing(rest) /\ \A y \in Elements(rest) : x < y

\* A stage that takes a block finds the first of its queue, and leaves the rest.
LEMMA TakeEffect ==
  ASSUME Typed, Threads, NEW g \in Captures, NEW s \in Stages, Take(g, s)
  PROVE  \E x \in Blocks, rest \in Seq(Blocks) : Out(g, s, x, rest) /\ First(Pending(g, s), x, rest)
<1> DEFINE q == Pending(g, s)
<1>1. /\ pc[g][s] = "wait" /\ q # <<>> /\ held' = [held EXCEPT ![g][s] = Head(q)]
      /\ IF s = "capture"
         THEN channel' = [channel EXCEPT ![source[g]] = Tail(q)] /\ UNCHANGED inbox
         ELSE inbox' = [inbox EXCEPT ![g][s] = Tail(q)] /\ UNCHANGED channel
  BY DEF Take, TakeOldest
<1>2. encoder[g] \notin {"unborn", "launch"} /\ held[g][s] = 0 /\ source[g] \in Captures
  BY <1>1 DEF Threads
<1>3. q \in Seq(Blocks)
  BY <1>2 DEF Pending, Typed
<1>4. Head(q) \in Blocks /\ Tail(q) \in Seq(Blocks) /\ First(q, Head(q), Tail(q))
  BY <1>1, <1>3, Taken DEF First
<1>5. Out(g, s, Head(q), Tail(q))
  BY <1>1, <1>2 DEF Out
<1>6. QED
  BY <1>4, <1>5

\* Taking a block keeps the types.
LEMMA TypedTake ==
  ASSUME Typed, Threads, NEW g \in Captures, NEW s \in Stages, Take(g, s)
  PROVE  Typed'
<1>0. PICK x \in Blocks, rest \in Seq(Blocks) : Out(g, s, x, rest)
  BY TakeEffect
<1>1. x \in 0..MaxBlocks
  BY ChainConstants DEF Blocks
<1>2. held' \in [Captures -> [Stages -> 0..MaxBlocks]]
  BY <1>0, <1>1 DEF Out, Typed
<1>3. channel' \in [Captures -> Seq(Blocks)]
  BY <1>0 DEF Out, Typed
<1>4. inbox' \in [Captures -> [Stages -> Seq(Blocks)]]
  <2> DEFINE V == Seq(Blocks)
  <2>1. inbox \in [Captures -> [Stages -> V]] /\ rest \in V
    BY DEF Typed
  <2>2. inbox' = inbox \/ inbox' = [inbox EXCEPT ![g][s] = rest]
    BY <1>0 DEF Out
  <2> HIDE DEF V
  <2>3. inbox' \in [Captures -> [Stages -> V]]
    <3>1. CASE inbox' = inbox
      BY <2>1, <3>1
    <3>2. CASE inbox' = [inbox EXCEPT ![g][s] = rest]
      BY <2>1, <3>2
    <3>3. QED
      BY <2>2, <3>1, <3>2
  <2>4. QED
    BY <2>3 DEF V
<1>5. pc' \in [Captures -> [Stages -> {"unborn", "wait", "push", "ended"}]]
  BY DEF Take, Goes, Typed
<1>6. extra' \in [Captures -> [Stages -> 0..1]]
  <2>1. extra[g][s] = 0
    BY <1>0 DEF Out, Threads
  <2>2. extra' = [extra EXCEPT ![g][s] = IF stopFlag[g] THEN @ + 1 ELSE @]
    BY DEF Take
  <2>3. (IF stopFlag[g] THEN extra[g][s] + 1 ELSE extra[g][s]) \in 0..1
    BY <2>1
  <2>4. QED
    BY <2>2, <2>3 DEF Typed
<1>7. QED
  BY <1>2, <1>3, <1>4, <1>5, <1>6 DEF Take, Typed, sessionVars, cardVars

\* Handing a block on keeps them.
LEMMA TypedPush ==
  ASSUME Typed, Threads, NEW g \in Captures, NEW s \in {"capture", "process"}, Push(g, s)
  PROVE  Typed'
<1>1. After(s) \in Stages /\ s \in Stages
  BY DEF After, Stages
<1>2. held[g][s] \in Blocks
  BY <1>1, ChainConstants DEF Push, Threads, Typed, Blocks
<1>3. Append(inbox[g][After(s)], held[g][s]) \in Seq(Blocks)
  BY <1>1, <1>2, Appended, ZenonT(60) DEF Typed
<1>4. inbox' = inbox \/ inbox' = [inbox EXCEPT ![g][After(s)] = Append(inbox[g][After(s)], held[g][s])]
  BY DEF Push
<1>5. inbox' \in [Captures -> [Stages -> Seq(Blocks)]]
  <2>1. PICK q \in Seq(Blocks) : inbox' = inbox \/ inbox' = [inbox EXCEPT ![g][After(s)] = q]
    BY <1>3, <1>4
  <2> DEFINE V == Seq(Blocks)
  <2>2. inbox \in [Captures -> [Stages -> V]] /\ q \in V
    BY DEF Typed
  <2> HIDE DEF V
  <2>3. inbox' \in [Captures -> [Stages -> V]]
    BY <1>1, <2>1, <2>2
  <2>4. QED
    BY <2>3 DEF V
<1>6. pc' \in [Captures -> [Stages -> {"unborn", "wait", "push", "ended"}]]
  <2>1. PICK w \in {"wait", "ended"} : pc' = [pc EXCEPT ![g][s] = w]
    BY DEF Push, Goes, HeadOfLoop
  <2>2. QED
    BY <1>1, <2>1 DEF Typed
<1>7. held' \in [Captures -> [Stages -> 0..MaxBlocks]]
  BY <1>1, ChainConstants DEF Push, Typed
<1>8. QED
  BY <1>5, <1>6, <1>7 DEF Push, Typed, sessionVars, cardVars, histVars, cardVars

\* Sending a block keeps them.
LEMMA TypedSend ==
  ASSUME Typed, Threads, NEW g \in Captures, Send(g)
  PROVE  Typed'
<1>1. "encode" \in Stages
  BY DEF Stages
<1>2. held[g]["encode"] \in Blocks
  BY <1>1, ChainConstants DEF Send, Threads, Typed, Blocks
<1>3. Append(sent[g], held[g]["encode"]) \in Seq(Blocks)
  BY <1>2, Appended DEF Typed
<1>4. sent' \in [Captures -> Seq(Blocks)]
  BY <1>3 DEF Send, Typed
<1>5. pc' \in [Captures -> [Stages -> {"unborn", "wait", "push", "ended"}]]
  BY <1>1 DEF Send, Goes, HeadOfLoop, Typed
<1>6. held' \in [Captures -> [Stages -> 0..MaxBlocks]]
  BY <1>1, ChainConstants DEF Send, Typed
<1>7. QED
  BY <1>4, <1>5, <1>6 DEF Send, Typed, sessionVars, cardVars

\* Every step keeps them.
LEMMA TypedStep ==
  ASSUME Typed, Threads, Unstarted, [Next]_vars
  PROVE  Typed'
<1>1. CASE UNCHANGED vars
  BY <1>1 DEF vars, sessionVars, chainVars, histVars, cardVars, Typed
<1>2. CASE Start
  <2>1. captures + 1 \in Captures /\ captures + 1 \in 0..MaxCaptures
    BY <1>2, ChainConstants DEF Start, Typed, Captures
  <2>2. <<>> \in Seq(Blocks)
    OBVIOUS
  <2>a. Captures \subseteq 0..MaxCaptures
    BY ChainConstants DEF Captures
  <2>b. ASSUME NEW c \in open, channel' = Drained(c), source' = [source EXCEPT ![captures + 1] = c],
               open' = open
        PROVE  channel' \in [Captures -> Seq(Blocks)] /\ source' \in [Captures -> 0..MaxCaptures]
               /\ open' \in SUBSET Captures
    BY <2>1, <2>2, <2>a, <2>b DEF Typed, Drained
  <2>c. ASSUME open' = {captures + 1}, channel' = channel,
               source' = [source EXCEPT ![captures + 1] = captures + 1]
        PROVE  channel' \in [Captures -> Seq(Blocks)] /\ source' \in [Captures -> 0..MaxCaptures]
               /\ open' \in SUBSET Captures
    BY <2>1, <2>a, <2>c DEF Typed
  <2>d. \/ \E c \in open : channel' = Drained(c) /\ source' = [source EXCEPT ![captures + 1] = c]
                           /\ open' = open
        \/ /\ open' = {captures + 1} /\ channel' = channel
           /\ source' = [source EXCEPT ![captures + 1] = captures + 1]
    BY <1>2 DEF Start
  <2>3. channel' \in [Captures -> Seq(Blocks)] /\ source' \in [Captures -> 0..MaxCaptures]
        /\ open' \in SUBSET Captures
    BY <2>b, <2>c, <2>d
  <2>4. encoder' \in [Captures -> {"unborn", "launch", "waits", "joins", "ended"}]
    BY <1>2 DEF Start, Typed
  <2>5. stray' \in [Captures -> 0..MaxBlocks]
    BY <1>2 DEF Start, Typed
  <2>6. QED
    BY <1>2, <2>1, <2>3, <2>4, <2>5 DEF Start, Typed, cardVars
<1>3. CASE Feed \/ Stop
  BY <1>3 DEF Feed, Stop, Typed, chainVars, histVars, cardVars
<1>4. CASE TestGate
  <2>1. blocks + 1 \in Blocks /\ blocks + 1 \in 0..MaxBlocks
    BY <1>4, ChainConstants DEF TestGate, Typed, Blocks
  <2>2. birth' \in [Blocks -> 0..MaxCaptures]
    BY <1>4 DEF TestGate, Typed
  <2>3. QED
    BY <1>4, <2>1, <2>2 DEF TestGate, Typed, sessionVars, chainVars
<1>8. CASE TrySend
  <2>1. passing \in Blocks /\ 0 \in 0..MaxBlocks
    BY <1>8, ChainConstants DEF TrySend, Typed, Blocks
  <2>2. PICK c \in open : channel' = [channel EXCEPT ![c] =
                            IF Len(@) < CHANNEL_CAPACITY THEN Append(@, passing) ELSE @]
    BY <1>8 DEF TrySend
  <2>3. channel' \in [Captures -> Seq(Blocks)]
    BY <2>1, <2>2, Appended DEF Typed
  <2>4. QED
    BY <1>8, <2>1, <2>3 DEF TrySend, Typed, sessionVars, chainVars, histVars
<1>5. ASSUME NEW g \in Captures, EncoderThread(g) PROVE Typed'
  <2>1. CASE Launch(g)
    <3>1. pc' \in [Captures -> [Stages -> {"unborn", "wait", "push", "ended"}]]
      BY <2>1 DEF Launch, Typed
    <3>2. stopFlag' \in [Captures -> BOOLEAN]
      <4>1. PICK started : stopFlag' = [stopFlag EXCEPT ![g] = started # Stages]
        BY <2>1 DEF Launch
      <4>2. (started # Stages) \in BOOLEAN
        OBVIOUS
      <4>3. QED
        BY <4>1, <4>2 DEF Typed
    <3>3. encoder' \in [Captures -> {"unborn", "launch", "waits", "joins", "ended"}]
      BY <2>1 DEF Launch, Typed
    <3>4. QED
      BY <2>1, <3>1, <3>2, <3>3 DEF Launch, Typed, sessionVars, histVars, cardVars
  <2>2. CASE ObeyStop(g) \/ Join(g)
    BY <2>2 DEF ObeyStop, Join, Typed, sessionVars, histVars, cardVars
  <2>3. QED
    BY <1>5, <2>1, <2>2 DEF EncoderThread
<1>6. ASSUME NEW g \in Captures, NEW s \in Stages, GiveUp(g, s) PROVE Typed'
  BY <1>6 DEF GiveUp, Goes, HeadOfLoop, Typed, sessionVars, histVars, cardVars
<1>9. QED
  BY <1>1, <1>2, <1>3, <1>4, <1>5, <1>6, <1>8, TypedTake, TypedPush, TypedSend
     DEF Next, CaptureStage, ProcessStage, EncodeStage, Stages

-----------------------------------------------------------------------------
(* Each step of a stage moves one block down, or none. *)

\* A block taken goes from the queue of the stage to the place of what it holds.
LEMMA TakeMoves ==
  ASSUME Typed, Threads, Queues, NEW g \in Captures, NEW s \in Stages, Take(g, s)
  PROVE  \E k \in 1..6 : \E x : MovesDown(g, k, x)
<1>1. PICK x \in Blocks, rest \in Seq(Blocks) : Out(g, s, x, rest) /\ First(Pending(g, s), x, rest)
  BY TakeEffect
<1>2. UNCHANGED <<source, blocks, passing, birth, stray, sent, open>>
  BY DEF Take, sessionVars, cardVars
<1>3. \A h \in Captures, t \in Stages :
        held'[h][t] = IF h = g /\ t = s THEN x ELSE held[h][t]
  BY <1>1 DEF Out, Typed
<1>4. held[g][s] = 0 /\ x # 0
  BY <1>1, BlocksAreNumbers DEF Out
<1>5. Increasing(Pending(g, s))
  BY <1>1 DEF Queues, Pending, Out
<1>6. x \in Elements(Pending(g, s)) /\ Elements(rest) \subseteq Elements(Pending(g, s))
      /\ \A y \in Elements(rest) : x < y
  BY <1>1, <1>5 DEF First
<1>7. CASE s = "capture"
  <2>1. inbox' = inbox /\ source[g] \in Captures /\ source[g] # 0
        /\ Channel(g) = Elements(Pending(g, s))
    BY <1>1, <1>7, BlocksAreNumbers DEF Out, Pending, Channel
  <2>2. \A c \in Captures : channel'[c] = IF c = source[g] THEN rest ELSE channel[c]
    BY <1>1, <1>7 DEF Out, Typed
  <2>3. \A c \in Captures : Elements(channel'[c]) \subseteq Elements(channel[c])
    BY <1>6, <1>7, <2>2 DEF Pending
  <2>4. \A h \in Captures : Channel(h)' \subseteq Channel(h)
    <3>1. \A h \in Captures : source[h] # 0 => source[h] \in Captures
      BY SourceTyped
    <3>2. QED
      BY <1>2, <2>3, <3>1 DEF Channel
  <2>5. Channel(g)' = Elements(rest)
    BY <1>2, <2>1, <2>2 DEF Channel
  <2>6. /\ \A h \in Captures \ {g}, l \in Places : Place(h)'[l] \subseteq Place(h)[l]
        /\ \A l \in Places \ {6, 5} : Place(g)'[l] \subseteq Place(g)[l]
    BY <1>2, <1>3, <1>7, <2>1, <2>4, PlaceIs, PlaceIsNext, SMTT(40) DEF Places, Stages
  <2>7. Place(g)'[5] = {x} /\ Place(g)'[6] = Elements(rest) /\ Place(g)[6] = Elements(Pending(g, s))
    BY <1>3, <1>4, <1>7, <2>1, <2>5, PlaceIs, PlaceIsNext DEF Stages
  <2>8. MovesDown(g, 6, x)
    BY <1>2, <1>6, <2>3, <2>6, <2>7 DEF MovesDown
  <2>9. QED
    BY <2>8
<1>8. ASSUME s # "capture" PROVE \E k \in 1..6 : MovesDown(g, k, x)
  <2>1. channel' = channel /\ Pending(g, s) = inbox[g][s]
    BY <1>1, <1>8 DEF Out, Pending
  <2>2. \A h \in Captures, t \in Stages :
          inbox'[h][t] = IF h = g /\ t = s THEN rest ELSE inbox[h][t]
    BY <1>1, <1>8, SMTT(40) DEF Out, Typed
  <2>3. \A h \in Captures : Channel(h)' = Channel(h)
    BY <1>2, <2>1 DEF Channel
  <2>4. \A h \in Captures \ {g}, l \in Places : Place(h)'[l] \subseteq Place(h)[l]
    BY <1>2, <1>3, <2>2, <2>3, PlaceIs, PlaceIsNext DEF Places, Stages
  <2>5. CASE s = "process"
    <3>1. \A l \in Places \ {4, 3} : Place(g)'[l] \subseteq Place(g)[l]
      BY <1>2, <1>3, <2>2, <2>3, <2>5, PlaceIs, PlaceIsNext DEF Places, Stages
    <3>2. Place(g)'[3] = {x} /\ Place(g)'[4] = Elements(rest) /\ Place(g)[4] = Elements(Pending(g, s))
      BY <1>3, <1>4, <2>1, <2>2, <2>5, PlaceIs, PlaceIsNext DEF Stages
    <3>3. MovesDown(g, 4, x)
      BY <1>2, <1>6, <2>1, <2>4, <3>1, <3>2 DEF MovesDown
    <3>4. QED
      BY <3>3
  <2>6. CASE s = "encode"
    <3>1. \A l \in Places \ {2, 1} : Place(g)'[l] \subseteq Place(g)[l]
      BY <1>2, <1>3, <2>2, <2>3, <2>6, PlaceIs, PlaceIsNext DEF Places, Stages
    <3>2. Place(g)'[1] = {x} /\ Place(g)'[2] = Elements(rest) /\ Place(g)[2] = Elements(Pending(g, s))
      BY <1>3, <1>4, <2>1, <2>2, <2>6, PlaceIs, PlaceIsNext DEF Stages
    <3>3. MovesDown(g, 2, x)
      BY <1>2, <1>6, <2>1, <2>4, <3>1, <3>2 DEF MovesDown
    <3>4. QED
      BY <3>3
  <2>7. QED
    BY <1>8, <2>5, <2>6 DEF Stages
<1>9. QED
  BY <1>7, <1>8

\* What a stage hands on goes to the end of the next queue, unless nobody reads it.
LEMMA PushEffect ==
  ASSUME Typed, Threads, NEW g \in Captures, NEW s \in {"capture", "process"}, Push(g, s)
  PROVE  /\ After(s) \in Stages /\ After(s) = (IF s = "capture" THEN "process" ELSE "encode")
         /\ held[g][s] \in Blocks /\ pc[g][s] = "push"
         /\ \A h \in Captures, t \in Stages :
              held'[h][t] = IF h = g /\ t = s THEN 0 ELSE held[h][t]
         /\ \/ inbox' = inbox
            \/ \A h \in Captures, t \in Stages :
                 inbox'[h][t] = IF h = g /\ t = After(s) THEN Append(inbox[h][t], held[g][s])
                                ELSE inbox[h][t]
         /\ UNCHANGED <<channel, source, blocks, passing, birth, stray, sent, open, captures>>
<1>1. After(s) \in Stages /\ After(s) = (IF s = "capture" THEN "process" ELSE "encode") /\ s \in Stages
  BY DEF After, Stages
<1>2. held[g][s] \in Blocks /\ pc[g][s] = "push"
  BY <1>1, ChainConstants DEF Push, Threads, Typed, Blocks
<1>3. \A h \in Captures, t \in Stages : held'[h][t] = IF h = g /\ t = s THEN 0 ELSE held[h][t]
  BY <1>1 DEF Push, Typed
<1>4. inbox' = inbox \/ inbox' = [inbox EXCEPT ![g][After(s)] = Append(inbox[g][After(s)], held[g][s])]
  BY DEF Push
<1>5. UNCHANGED <<channel, source, blocks, passing, birth, stray, sent, open, captures>>
  BY DEF Push, sessionVars, histVars, cardVars
<1>6. ASSUME inbox' = [inbox EXCEPT ![g][After(s)] = Append(inbox[g][After(s)], held[g][s])]
      PROVE  \A h \in Captures, t \in Stages :
               inbox'[h][t] = IF h = g /\ t = After(s) THEN Append(inbox[h][t], held[g][s])
                              ELSE inbox[h][t]
  BY <1>1, <1>6 DEF Typed
<1>7. QED
  BY <1>1, <1>2, <1>3, <1>4, <1>5, <1>6

\* A block handed on goes from what the stage holds to the queue of the next one.
LEMMA PushMoves ==
  ASSUME Typed, Threads, NEW g \in Captures, NEW s \in {"capture", "process"}, Push(g, s)
  PROVE  \E k \in 1..6 : \E x : MovesDown(g, k, x)
<1> DEFINE x == held[g][s]
<1>1. /\ x \in Blocks /\ x # 0
      /\ \A h \in Captures, t \in Stages : held'[h][t] = IF h = g /\ t = s THEN 0 ELSE held[h][t]
      /\ UNCHANGED <<channel, source, blocks, passing, birth, stray, sent>>
  BY PushEffect, BlocksAreNumbers
<1>2. \A h \in Captures, t \in Stages :
        /\ ~(h = g /\ t = After(s)) => inbox'[h][t] = inbox[h][t]
        /\ Elements(inbox'[h][t]) \subseteq Elements(inbox[h][t]) \cup {x}
  <2>1. CASE inbox' = inbox
    BY <2>1
  <2>2. ASSUME \A h \in Captures, t \in Stages :
                 inbox'[h][t] = IF h = g /\ t = After(s) THEN Append(inbox[h][t], held[g][s])
                                ELSE inbox[h][t]
        PROVE  \A h \in Captures, t \in Stages :
                 /\ ~(h = g /\ t = After(s)) => inbox'[h][t] = inbox[h][t]
                 /\ Elements(inbox'[h][t]) \subseteq Elements(inbox[h][t]) \cup {x}
    <3>1. \A h \in Captures, t \in Stages : inbox[h][t] \in Seq(Blocks)
      BY DEF Typed
    <3>2. \A h \in Captures, t \in Stages :
            Elements(Append(inbox[h][t], x)) = Elements(inbox[h][t]) \cup {x}
      BY <1>1, <3>1, Appended
    <3>3. QED
      BY <2>2, <3>2
  <2>3. QED
    BY <2>1, <2>2, PushEffect
<1>3. \A h \in Captures : Channel(h)' = Channel(h)
  BY <1>1 DEF Channel
<1> HIDE DEF x
<1>4. CASE s = "capture"
  <2>1. After(s) = "process"
    BY <1>4 DEF After
  <2>2. \A h \in Captures \ {g}, l \in Places : Place(h)'[l] \subseteq Place(h)[l]
    BY <1>1, <1>2, <1>3, PlaceIs, PlaceIsNext DEF Places, Stages
  <2>3. \A l \in Places \ {5, 4} : Place(g)'[l] \subseteq Place(g)[l]
    BY <1>1, <1>2, <1>3, <1>4, <2>1, PlaceIs, PlaceIsNext DEF Places, Stages
  <2>4. Place(g)'[5] = {} /\ Place(g)[5] = {x} /\ Place(g)'[4] \subseteq Place(g)[4] \cup {x}
    <3>1. held[g]["capture"] = x /\ held'[g]["capture"] = 0
      BY <1>1, <1>4 DEF x, Stages
    <3>2. Elements(inbox'[g]["process"]) \subseteq Elements(inbox[g]["process"]) \cup {x}
      BY <1>2 DEF Stages
    <3>3. QED
      BY <1>1, <3>1, <3>2, PlaceIs, PlaceIsNext
  <2>5. MovesDown(g, 5, x)
    BY <1>1, <2>2, <2>3, <2>4 DEF MovesDown
  <2>6. QED
    BY <2>5
<1>5. CASE s = "process"
  <2>1. After(s) = "encode"
    BY <1>5 DEF After
  <2>2. \A h \in Captures \ {g}, l \in Places : Place(h)'[l] \subseteq Place(h)[l]
    BY <1>1, <1>2, <1>3, PlaceIs, PlaceIsNext DEF Places, Stages
  <2>3. \A l \in Places \ {3, 2} : Place(g)'[l] \subseteq Place(g)[l]
    BY <1>1, <1>2, <1>3, <1>5, <2>1, PlaceIs, PlaceIsNext DEF Places, Stages
  <2>4. Place(g)'[3] = {} /\ Place(g)[3] = {x} /\ Place(g)'[2] \subseteq Place(g)[2] \cup {x}
    <3>1. held[g]["process"] = x /\ held'[g]["process"] = 0
      BY <1>1, <1>5 DEF x, Stages
    <3>2. Elements(inbox'[g]["encode"]) \subseteq Elements(inbox[g]["encode"]) \cup {x}
      BY <1>2 DEF Stages
    <3>3. QED
      BY <1>1, <3>1, <3>2, PlaceIs, PlaceIsNext
  <2>5. MovesDown(g, 3, x)
    BY <1>1, <2>2, <2>3, <2>4 DEF MovesDown
  <2>6. QED
    BY <2>5
<1>6. QED
  BY <1>4, <1>5

\* A block sent goes from what the last stage holds to the network.
LEMMA SendMoves ==
  ASSUME Typed, Threads, NEW g \in Captures, Send(g)
  PROVE  \E k \in 1..6 : \E x : MovesDown(g, k, x)
<1> DEFINE x == held[g]["encode"]
<1>1. /\ x \in Blocks /\ x # 0
      /\ \A h \in Captures, t \in Stages : held'[h][t] = IF h = g /\ t = "encode" THEN 0 ELSE held[h][t]
      /\ \A h \in Captures : sent'[h] = IF h = g THEN Append(sent[g], x) ELSE sent[h]
      /\ UNCHANGED <<channel, source, blocks, passing, birth, stray, inbox>>
  <2>1. "encode" \in Stages
    BY DEF Stages
  <2>2. x \in Blocks /\ x # 0
    BY <2>1, ChainConstants DEF Send, Threads, Typed, Blocks
  <2>3. \A h \in Captures, t \in Stages : held'[h][t] = IF h = g /\ t = "encode" THEN 0 ELSE held[h][t]
    BY <2>1 DEF Send, Typed
  <2>4. \A h \in Captures : sent'[h] = IF h = g THEN Append(sent[g], x) ELSE sent[h]
    BY DEF Send, Typed
  <2>5. QED
    BY <2>2, <2>3, <2>4 DEF Send, sessionVars, cardVars
<1>2. Elements(Append(sent[g], x)) = Elements(sent[g]) \cup {x}
  BY <1>1, Appended DEF Typed
<1>3. \A h \in Captures : Channel(h)' = Channel(h)
  BY <1>1 DEF Channel
<1> HIDE DEF x
<1>4. \A h \in Captures \ {g}, l \in Places : Place(h)'[l] \subseteq Place(h)[l]
  BY <1>1, <1>3, PlaceIs, PlaceIsNext DEF Places, Stages
<1>5. \A l \in Places \ {1, 0} : Place(g)'[l] \subseteq Place(g)[l]
  BY <1>1, <1>3, PlaceIs, PlaceIsNext DEF Places, Stages
<1>6. Place(g)'[1] = {} /\ Place(g)[1] = {x} /\ Place(g)'[0] \subseteq Place(g)[0] \cup {x}
  BY <1>1, <1>2, PlaceIs, PlaceIsNext DEF Stages, x
<1>7. MovesDown(g, 1, x)
  BY <1>1, <1>4, <1>5, <1>6 DEF MovesDown
<1>8. QED
  BY <1>7

-----------------------------------------------------------------------------
(* Each part of the invariant is kept. *)

\* A channel is emptied before a new chain reads it; a new chain has nothing.
LEMMA StartKeeps ==
  ASSUME Typed, Whereabouts, Unstarted, Start
  PROVE  Whereabouts'
<1> USE DEF Whereabouts
<1>0. captures + 1 \in Captures
  BY ChainConstants DEF Start, Typed, Captures
<1>. PICK g \in Captures : g = captures + 1
  BY <1>0
<1>1. /\ g > captures /\ UNCHANGED <<blocks, passing, birth, held, inbox, sent>>
      /\ \A h \in Captures \ {g} : stray'[h] = stray[h]
  BY DEF Start, Typed, cardVars
<1>2. PICK c \in Captures :
        /\ source' = [source EXCEPT ![g] = c] /\ channel'[c] = <<>>
        /\ \A d \in Captures : channel'[d] = channel[d] \/ channel'[d] = <<>>
  <2>1. CASE \E c \in open : channel' = Drained(c) /\ source' = [source EXCEPT ![g] = c]
    <3>1. PICK c \in open : channel' = Drained(c) /\ source' = [source EXCEPT ![g] = c]
      BY <2>1
    <3>2. c \in Captures /\ channel'[c] = <<>>
          /\ \A d \in Captures : channel'[d] = channel[d] \/ channel'[d] = <<>>
      BY <3>1 DEF Typed, Drained
    <3>3. QED
      BY <3>1, <3>2
  <2>2. CASE source' = [source EXCEPT ![g] = g] /\ channel' = channel
    BY <1>1, <2>2 DEF Unstarted
  <2>3. QED
    BY <2>1, <2>2 DEF Start
<1>3. Elements(<<>>) = {}
  BY DEF Elements
<1>4. \A d \in Captures : Elements(channel'[d]) \subseteq Elements(channel[d])
  BY <1>2, <1>3
<1>5. source'[g] = c /\ \A h \in Captures \ {g} : source'[h] = source[h]
  BY <1>1, <1>2 DEF Typed
<1>6. Channel(g)' = {} /\ \A h \in Captures \ {g} : Channel(h)' \subseteq Channel(h)
  <2>1. Channel(g)' = {}
    BY <1>2, <1>3, <1>5 DEF Channel
  <2>2. \A h \in Captures : source[h] # 0 => source[h] \in Captures
    BY SourceTyped
  <2>3. QED
    BY <1>4, <1>5, <2>1, <2>2 DEF Channel
<1>7. \A h \in Captures, l \in Places : Place(h)'[l] \subseteq Place(h)[l]
  BY <1>1, <1>6, PlaceIs, PlaceIsNext DEF Places
<1>8. \A l \in Places : Place(g)[l] = {}
  <2>1. Owned(g) = {} /\ source[g] = 0
    BY <1>1 DEF Unstarted
  <2>2. QED
    BY <2>1, OwnedIs, PlaceIs DEF Places, Channel
<1>10. Rests
  BY <1>1, <1>4, <1>7, <1>8 DEF Rests
<1>11. QED
  BY <1>10, RestsKeeps

\* A block that passes the gate is of the present session, and is nowhere yet.
LEMMA GateKeeps ==
  ASSUME Typed, Whereabouts, TestGate
  PROVE  Whereabouts'
<1> DEFINE n == blocks + 1
<1> USE DEF Whereabouts
<1>1. /\ n \in Blocks /\ blocks \in Nat /\ passing = 0 /\ blocks' = n /\ passing' = n
      /\ birth' = [birth EXCEPT ![n] = captures]
      /\ UNCHANGED <<source, channel, held, inbox, sent, stray>>
  BY ChainConstants DEF TestGate, Typed, Blocks, sessionVars, chainVars
<1>2. \A h : Place(h)' = Place(h) /\ Owned(h)' = Owned(h) /\ Channel(h)' = Channel(h)
  BY <1>1 DEF Place, Owned, Channel
<1>3. Rows' /\ Apart'
  BY <1>1, <1>2 DEF Rows, Apart
<1>4. Pushed \subseteq Pushed' /\ n \notin Pushed /\ Pushed \subseteq Blocks
  BY <1>1, ChainConstants DEF Pushed, Typed, Blocks
<1>5. Captured'
  BY <1>1, <1>2, <1>4 DEF Captured
<1>6. Fresh'
  <2> SUFFICES ASSUME NEW h \in Captures, NEW x \in Owned(h) \cup Channel(h) PROVE Belongs(x, h)'
    BY <1>2 DEF Fresh
  <2>1. x \in Pushed
    BY SourceTyped DEF Captured, Channel
  <2>2. birth'[x] = birth[x]
    BY <1>1, <1>4, <2>1 DEF Typed
  <2>3. QED
    BY <1>1, <2>2 DEF Fresh, Belongs
<1>7. QED
  BY <1>3, <1>5, <1>6

\* A block pushed is the last everywhere, and where it may be.
LEMMA CallbackKeeps ==
  ASSUME Typed, Whereabouts, InHand, TrySend
  PROVE  Whereabouts'
<1> DEFINE n == passing
<1> USE DEF Whereabouts
<1>1. /\ n \in Blocks /\ n = blocks /\ passing' = 0
      /\ UNCHANGED <<blocks, birth, stray, source, captures, held, inbox, sent>>
  BY ChainConstants DEF TrySend, Typed, Blocks, InHand, sessionVars, chainVars, histVars
<1>2. PICK c \in open : channel' = [channel EXCEPT ![c] =
                          IF Len(@) < CHANNEL_CAPACITY THEN Append(@, n) ELSE @]
  BY DEF TrySend
<1>3. c \in Captures /\ Elements(Append(channel[c], n)) = Elements(channel[c]) \cup {n}
  BY <1>1, Appended DEF Typed
<1>4. \A d \in Captures : /\ Elements(channel'[d]) \subseteq Elements(channel[d]) \cup {n}
                          /\ d # c => channel'[d] = channel[d]
  BY <1>2, <1>3 DEF Typed
<1>5. \A h \in Captures : source[h] # 0 => source[h] \in Captures
  BY SourceTyped
<1>6. \A h \in Captures : Channel(h)' \subseteq Channel(h) \cup {n}
  BY <1>1, <1>4, <1>5 DEF Channel
<1>7. \A h \in Captures : /\ \A l \in 0..5 : Place(h)'[l] = Place(h)[l]
                          /\ Owned(h)' = Owned(h)
  <2>1. \A h \in Captures, l \in Places \ {6} : Place(h)'[l] = Place(h)[l]
    <3>1. ASSUME NEW h \in Captures
          PROVE  /\ Place(h)'[0] = Place(h)[0] /\ Place(h)'[1] = Place(h)[1]
                 /\ Place(h)'[2] = Place(h)[2] /\ Place(h)'[3] = Place(h)[3]
                 /\ Place(h)'[4] = Place(h)[4] /\ Place(h)'[5] = Place(h)[5]
      <4>1. held' = held /\ inbox' = inbox /\ sent' = sent
        BY <1>1
      <4>2. QED
        BY <4>1 DEF Place, Places
    <3>2. QED
      BY <3>1 DEF Places
  <2>2. 0..5 = Places \ {6}
    BY DEF Places
  <2>3. \A h \in Captures : \A x : x \in Owned(h)' <=> x \in Owned(h)
    BY <2>1, <2>2, OwnedIs, OwnedIsNext
  <2>4. QED
    BY <2>1, <2>2, <2>3
<1>8. \A h \in Captures : Owned(h) \cup Channel(h) \subseteq Pushed
  BY <1>5 DEF Captured, Channel
<1>9. n \notin Pushed /\ n \in Pushed' /\ \A y \in Pushed : y < n /\ y \in Pushed'
  BY <1>1, BlocksAreNumbers DEF Typed, Pushed
<1>10. Rows'
  <2> SUFFICES ASSUME NEW h \in Captures, NEW k \in Places, NEW l \in Places, k < l,
                      NEW x \in Place(h)'[k], NEW y \in Place(h)'[l]
               PROVE  x < y
    BY DEF Rows, InRow
  <2>1. k \in 0..5 /\ x \in Place(h)[k] /\ x \in Owned(h)
    BY <1>7, OwnedIs DEF Places
  <2>2. CASE y \in Place(h)[l]
    BY <2>1, <2>2 DEF Rows, InRow
  <2>3. CASE y \notin Place(h)[l]
    <3>1. l = 6
      BY <1>7, <2>3 DEF Places
    <3>2. y = n
      BY <1>6, <2>3, <3>1, PlaceIs, PlaceIsNext
    <3>3. QED
      BY <1>8, <1>9, <2>1, <3>2
  <2>4. QED
    BY <2>2, <2>3
<1>11. Apart'
  <2>1. \A d \in Captures : Elements(channel[d]) \subseteq Pushed
    BY DEF Captured
  <2>2. \A h, d \in Captures : Owned(h)' \cap Elements(channel'[d]) = {}
    BY <1>4, <1>7, <1>8, <1>9 DEF Apart
  <2>3. \A d, e \in Captures : d # e => Elements(channel'[d]) \cap Elements(channel'[e]) = {}
    <3> SUFFICES ASSUME NEW d \in Captures, NEW e \in Captures, d # e,
                        NEW x \in Elements(channel'[d]), x \in Elements(channel'[e])
                 PROVE  FALSE
      OBVIOUS
    <3>1. CASE x = n
      <4>1. d = c /\ e = c
        BY <1>4, <1>9, <2>1, <3>1
      <4>2. QED
        BY <4>1
    <3>2. CASE x # n
      BY <1>4, <3>2 DEF Apart
    <3>3. QED
      BY <3>1, <3>2
  <2>4. QED
    BY <1>7, <2>2, <2>3 DEF Apart
<1>12. Captured'
  BY <1>4, <1>7, <1>9 DEF Captured
<1>13. Fresh'
  <2> SUFFICES ASSUME NEW h \in Captures, NEW x \in Owned(h)' \cup Channel(h)'
               PROVE  Belongs(x, h)
    BY <1>1 DEF Fresh, Belongs
  <2>1. CASE x \in Owned(h) \cup Channel(h)
    BY <2>1 DEF Fresh
  <2>2. CASE x \notin Owned(h) \cup Channel(h)
    <3>1. x = n /\ Channel(h)' # {}
      BY <1>6, <1>7, <2>2
    <3>2. source[h] # 0
      BY <1>1, <3>1 DEF Channel
    <3>3. QED
      BY <1>1, <3>1, <3>2, BlocksAreNumbers DEF InHand
  <2>3. QED
    BY <2>1, <2>2
<1>14. QED
  BY <1>10, <1>11, <1>12, <1>13

\* Every step keeps the blocks where they should be.
LEMMA WhereaboutsStep ==
  ASSUME Typed, Threads, Queues, Unstarted, Whereabouts, InHand, [Next]_vars
  PROVE  Whereabouts'
<1>1. ASSUME UNCHANGED <<channel, source, held, inbox, sent, blocks, passing, birth, stray>>
      PROVE  Whereabouts'
  BY <1>1, PlaceIs, PlaceIsNext, RestsKeeps DEF Rests, Places, Channel
<1>2. CASE UNCHANGED vars
  BY <1>1, <1>2 DEF vars, sessionVars, chainVars, histVars, cardVars
<1>3. CASE Feed \/ Stop
  BY <1>1, <1>3 DEF Feed, Stop, chainVars, histVars, cardVars
<1>4. ASSUME NEW g \in Captures, EncoderThread(g) PROVE Whereabouts'
  BY <1>1, <1>4 DEF EncoderThread, Launch, ObeyStop, Join, sessionVars, histVars, cardVars
<1>5. ASSUME NEW g \in Captures, NEW s \in Stages, GiveUp(g, s) PROVE Whereabouts'
  BY <1>1, <1>5 DEF GiveUp, sessionVars, histVars, cardVars
<1>6. ASSUME NEW g \in Captures, NEW s \in Stages, Take(g, s) PROVE Whereabouts'
  BY <1>6, TakeMoves, MovesKeep
<1>7. ASSUME NEW g \in Captures, NEW s \in {"capture", "process"}, Push(g, s) PROVE Whereabouts'
  BY <1>7, PushMoves, MovesKeep
<1>8. ASSUME NEW g \in Captures, Send(g) PROVE Whereabouts'
  BY <1>8, SendMoves, MovesKeep
<1>9. QED
  BY <1>2, <1>3, <1>4, <1>5, <1>6, <1>7, <1>8, StartKeeps, GateKeeps, CallbackKeeps
     DEF Next, CaptureStage, ProcessStage, EncodeStage, Stages

\* Every step keeps what the callback holds where it belongs.
LEMMA InHandStep ==
  ASSUME Typed, Threads, Unstarted, InHand, [Next]_vars
  PROVE  InHand'
<1>1. ASSUME UNCHANGED <<source, blocks, passing, birth, stray>> PROVE InHand'
  BY <1>1 DEF InHand, Belongs
<1>2. CASE UNCHANGED vars
  BY <1>1, <1>2 DEF vars, sessionVars, histVars, cardVars
<1>3. CASE Feed \/ Stop
  BY <1>1, <1>3 DEF Feed, Stop, histVars, cardVars
<1>4. CASE Start
  <2>1. captures + 1 \in Captures
    BY <1>4, ChainConstants DEF Start, Typed, Captures
  <2>2. /\ stray' = [stray EXCEPT ![captures + 1] = passing]
        /\ \A h \in Captures : h # captures + 1 => source'[h] = source[h]
        /\ UNCHANGED <<blocks, passing, birth>>
    BY <1>4 DEF Start, Typed, cardVars
  <2>3. stray'[captures + 1] = passing
    BY <2>1, <2>2 DEF Typed
  <2>4. \A h \in Captures : h # captures + 1 => stray'[h] = stray[h]
    BY <2>2 DEF Typed
  <2>5. QED
    BY <2>2, <2>3, <2>4 DEF InHand, Belongs
<1>5. CASE TestGate
  <2>1. /\ passing' = blocks + 1 /\ blocks' = blocks + 1 /\ source' = source
        /\ birth' = [birth EXCEPT ![blocks + 1] = captures] /\ blocks + 1 \in Blocks
    BY <1>5, ChainConstants DEF TestGate, Typed, Blocks, sessionVars
  <2>2. birth'[blocks + 1] = captures
    BY <2>1 DEF Typed
  <2>3. \A h \in Captures : source[h] # 0 => captures >= h
    BY BlocksAreNumbers DEF Unstarted, Typed
  <2>4. QED
    BY <2>1, <2>2, <2>3 DEF InHand, Belongs
<1>6. CASE TrySend
  BY <1>6 DEF TrySend, InHand
<1>7. ASSUME NEW g \in Captures, EncoderThread(g) PROVE InHand'
  BY <1>1, <1>7 DEF EncoderThread, Launch, ObeyStop, Join, sessionVars, histVars, cardVars
<1>8. ASSUME NEW g \in Captures, NEW s \in Stages, Take(g, s) \/ GiveUp(g, s) PROVE InHand'
  BY <1>1, <1>8 DEF Take, GiveUp, sessionVars, histVars, cardVars
<1>9. ASSUME NEW g \in Captures, NEW s \in {"capture", "process"}, Push(g, s) PROVE InHand'
  BY <1>1, <1>9 DEF Push, sessionVars, histVars, cardVars
<1>10. ASSUME NEW g \in Captures, Send(g) PROVE InHand'
  BY <1>1, <1>10 DEF Send, sessionVars, cardVars
<1>11. QED
  BY <1>2, <1>3, <1>4, <1>5, <1>6, <1>7, <1>8, <1>9, <1>10
     DEF Next, CaptureStage, ProcessStage, EncodeStage, Stages

\* Every queue grows at its end, by a block later than those it holds.
LEMMA QueuesStep ==
  ASSUME Typed, Threads, Queues, Unstarted, Whereabouts, InHand, [Next]_vars
  PROVE  Queues'
<1>1. ASSUME UNCHANGED <<sent, channel, inbox>> PROVE Queues'
  BY <1>1 DEF Queues
<1>2. CASE UNCHANGED vars
  BY <1>1, <1>2 DEF vars, chainVars, histVars, cardVars
<1>3. CASE Feed \/ Stop
  BY <1>1, <1>3 DEF Feed, Stop, chainVars, histVars, cardVars
<1>4. CASE Start
  <2>1. UNCHANGED <<inbox, sent>>
    BY <1>4 DEF Start, histVars
  <2>2. \A d \in Captures : channel'[d] = channel[d] \/ channel'[d] = <<>>
    BY <1>4 DEF Start, Drained, Typed
  <2>3. Increasing(<<>>)
    BY DEF Increasing
  <2>4. QED
    BY <2>1, <2>2, <2>3 DEF Queues
<1>5. CASE TrySend
  <2>1. PICK c \in open : channel' = [channel EXCEPT ![c] =
                            IF Len(@) < CHANNEL_CAPACITY THEN Append(@, passing) ELSE @]
    BY <1>5 DEF TrySend
  <2>2. passing \in Blocks /\ passing = blocks /\ c \in Captures
    BY <1>5, ChainConstants DEF TrySend, Typed, Blocks, InHand
  <2>3. \A y \in Elements(channel[c]) : y < passing
    BY <2>2 DEF Whereabouts, Captured, Pushed, Typed
  <2>4. Increasing(Append(channel[c], passing))
    BY <2>2, <2>3, Appended DEF Queues, Typed
  <2>5. \A d \in Captures : Increasing(channel'[d])
    BY <2>1, <2>4 DEF Queues, Typed
  <2>6. QED
    BY <1>5, <2>5 DEF TrySend, Queues, chainVars, histVars
<1>12. CASE TestGate
  BY <1>1, <1>12 DEF TestGate, chainVars
<1>6. ASSUME NEW g \in Captures, EncoderThread(g) PROVE Queues'
  BY <1>1, <1>6 DEF EncoderThread, Launch, ObeyStop, Join, histVars
<1>7. ASSUME NEW g \in Captures, NEW s \in Stages, GiveUp(g, s) PROVE Queues'
  BY <1>1, <1>7 DEF GiveUp, histVars
<1>8. ASSUME NEW g \in Captures, NEW s \in Stages, Take(g, s) PROVE Queues'
  <2>1. PICK x \in Blocks, rest \in Seq(Blocks) : Out(g, s, x, rest) /\ First(Pending(g, s), x, rest)
    BY <1>8, TakeEffect
  <2>2. Increasing(rest)
    BY <2>1 DEF Queues, Pending, Out, First
  <2>3. sent' = sent
    BY <1>8 DEF Take
  <2>4. \A h \in Captures : Increasing(channel'[h])
    BY <2>1, <2>2 DEF Out, Queues, Typed
  <2>5. \A h \in Captures, t \in Stages : inbox'[h][t] = inbox[h][t] \/ inbox'[h][t] = rest
    <3>1. CASE s = "capture"
      BY <2>1, <3>1 DEF Out
    <3>2. ASSUME s # "capture"
          PROVE  \A h \in Captures, t \in Stages :
                   inbox'[h][t] = IF h = g /\ t = s THEN rest ELSE inbox[h][t]
      BY <2>1, <3>2, SMTT(40) DEF Out, Typed
    <3>3. QED
      BY <3>1, <3>2
  <2>6. QED
    BY <2>2, <2>3, <2>4, <2>5 DEF Queues
<1>9. ASSUME NEW g \in Captures, NEW s \in {"capture", "process"}, Push(g, s) PROVE Queues'
  <2>1. /\ After(s) \in Stages /\ After(s) = (IF s = "capture" THEN "process" ELSE "encode")
        /\ held[g][s] \in Blocks /\ UNCHANGED <<channel, sent>>
    BY <1>9, PushEffect
  <2>2. \/ inbox' = inbox
        \/ \A h \in Captures, t \in Stages :
             inbox'[h][t] = IF h = g /\ t = After(s) THEN Append(inbox[h][t], held[g][s])
                            ELSE inbox[h][t]
    BY <1>9, PushEffect
  <2>3. \A y \in Elements(inbox[g][After(s)]) : y < held[g][s]
    <3>1. CASE s = "capture"
      <4>1. Place(g)[4] = Elements(inbox[g][After(s)]) /\ held[g][s] \in Place(g)[5]
        BY <2>1, <3>1, PlaceIs, BlocksAreNumbers
      <4>2. QED
        BY <4>1 DEF Whereabouts, Rows, InRow, Places
    <3>2. CASE s = "process"
      <4>1. Place(g)[2] = Elements(inbox[g][After(s)]) /\ held[g][s] \in Place(g)[3]
        BY <2>1, <3>2, PlaceIs, BlocksAreNumbers
      <4>2. QED
        BY <4>1 DEF Whereabouts, Rows, InRow, Places
    <3>3. QED
      BY <3>1, <3>2
  <2>4. Increasing(Append(inbox[g][After(s)], held[g][s]))
    BY <2>1, <2>3, Appended DEF Queues, Typed
  <2>5. QED
    BY <2>1, <2>2, <2>4 DEF Queues
<1>10. ASSUME NEW g \in Captures, Send(g) PROVE Queues'
  <2>1. held[g]["encode"] \in Blocks
    BY <1>10, ChainConstants DEF Send, Threads, Typed, Blocks, Stages
  <2>2. held[g]["encode"] \in Place(g)[1] /\ Place(g)[0] = Elements(sent[g])
    BY <2>1, PlaceIs, BlocksAreNumbers
  <2>3. \A y \in Elements(sent[g]) : y < held[g]["encode"]
    BY <2>2 DEF Whereabouts, Rows, InRow, Places
  <2>4. Increasing(Append(sent[g], held[g]["encode"]))
    BY <2>1, <2>3, Appended DEF Queues, Typed
  <2>5. QED
    BY <1>10, <2>4 DEF Send, Queues, Typed
<1>13. QED
  BY <1>2, <1>3, <1>4, <1>5, <1>6, <1>7, <1>8, <1>9, <1>10, <1>12
     DEF Next, CaptureStage, ProcessStage, EncodeStage, Stages

\* The threads of a chain exist once it was started only.
LEMMA ChainStarted ==
  ASSUME Unstarted, NEW g \in Captures, encoder[g] # "unborn"
  PROVE  ~(g > captures)
BY DEF Unstarted

\* Every step leaves the chains not yet started as they are.
LEMMA UnstartedStep ==
  ASSUME Typed, Threads, Queues, Unstarted, Whereabouts, [Next]_vars
  PROVE  Unstarted'
<1>0. captures \in Nat /\ Captures \subseteq Nat
  BY BlocksAreNumbers DEF Typed
<1>1. ASSUME UNCHANGED <<captures, source, channel, held, inbox, sent, encoder>>, open' \subseteq open
      PROVE  Unstarted'
  <2>1. \A h : Owned(h)' = Owned(h)
    BY <1>1 DEF Owned, Place, Channel
  <2>2. QED
    BY <1>1, <2>1 DEF Unstarted
<1>2. CASE UNCHANGED vars
  BY <1>1, <1>2 DEF vars, sessionVars, chainVars, histVars, cardVars
<1>3. CASE Feed \/ Stop \/ TestGate
  BY <1>1, <1>3 DEF Feed, Stop, TestGate, sessionVars, chainVars, histVars, cardVars
<1>4. CASE Start
  <2>1. /\ captures' = captures + 1 /\ encoder' = [encoder EXCEPT ![captures + 1] = "launch"]
        /\ UNCHANGED <<held, inbox, sent>>
        /\ \A h \in Captures : h # captures + 1 => source'[h] = source[h]
        /\ \A d \in Captures : channel'[d] = channel[d] \/ channel'[d] = <<>>
        /\ open' = open \/ open' = {captures + 1}
    BY <1>4 DEF Start, Drained, Typed, histVars
  <2>2. \A h \in Captures : h # captures + 1 => Channel(h)' \subseteq Channel(h)
    <3>1. \A h \in Captures : source[h] # 0 => source[h] \in Captures
      BY SourceTyped
    <3>2. Elements(<<>>) = {}
      BY DEF Elements
    <3>3. QED
      BY <2>1, <3>1, <3>2 DEF Channel
  <2>3. \A h \in Captures, l \in 0..5 : Place(h)'[l] = Place(h)[l]
    <3>1. UNCHANGED <<held, inbox, sent>>
      BY <2>1
    <3>2. QED
      BY <3>1 DEF Place, Places
  <2>4. \A h \in Captures : \A x : x \in Owned(h)' => x \in Owned(h)
    BY <2>3, OwnedIs, OwnedIsNext
  <2>5. \A h \in Captures : h > captures' => h > captures /\ h # captures + 1
    BY <1>0, <2>1
  <2>6. open' \subseteq 1..captures'
    <3>1. open \subseteq 1..captures
      BY DEF Unstarted
    <3>2. 1..captures \subseteq 1..(captures + 1) /\ captures + 1 \in 1..(captures + 1)
      BY <1>0
    <3>3. QED
      BY <2>1, <3>1, <3>2
  <2>7. \A h \in Captures : h > captures' =>
          source'[h] = 0 /\ Owned(h)' = {} /\ channel'[h] = <<>> /\ encoder'[h] = "unborn"
    BY <2>1, <2>4, <2>5 DEF Unstarted, Typed
  <2>8. QED
    BY <2>6, <2>7 DEF Unstarted
<1>5. CASE TrySend
  <2>1. PICK c \in open : channel' = [channel EXCEPT ![c] =
                            IF Len(@) < CHANNEL_CAPACITY THEN Append(@, passing) ELSE @]
    BY <1>5 DEF TrySend
  <2>2. UNCHANGED <<captures, source, held, inbox, sent, encoder, open>>
    BY <1>5 DEF TrySend, sessionVars, chainVars, histVars
  <2>3. \A h \in Captures : h > captures => channel'[h] = channel[h]
    BY <1>0, <2>1 DEF Unstarted, Typed
  <2>4. \A h \in Captures : h > captures => Owned(h)' = Owned(h)
    <3>1. \A h \in Captures : h > captures => Channel(h)' = Channel(h)
      BY <2>2 DEF Unstarted, Channel
    <3>2. \A h \in Captures : h > captures => Place(h)' = Place(h)
      BY <2>2, <3>1 DEF Place
    <3>3. QED
      BY <3>2 DEF Owned
  <2>5. QED
    BY <2>2, <2>3, <2>4 DEF Unstarted
<1>6. ASSUME NEW g \in Captures, EncoderThread(g) PROVE Unstarted'
  <2>1. encoder[g] # "unborn"
    BY <1>6 DEF EncoderThread, Launch, ObeyStop, Join
  <2>2. /\ UNCHANGED <<captures, source, channel, held, inbox, sent, open>>
        /\ \A h \in Captures : h # g => encoder'[h] = encoder[h]
    BY <1>6 DEF EncoderThread, Launch, ObeyStop, Join, sessionVars, histVars, cardVars, Typed
  <2>3. \A h : Owned(h)' = Owned(h)
    BY <2>2 DEF Owned, Place, Channel
  <2>4. QED
    BY <2>1, <2>2, <2>3, ChainStarted DEF Unstarted
<1>7. ASSUME NEW g \in Captures, NEW s \in Stages, GiveUp(g, s) PROVE Unstarted'
  BY <1>1, <1>7 DEF GiveUp, sessionVars, histVars, cardVars
<1>8. ASSUME NEW g \in Captures, NEW k \in 1..6, NEW x, MovesDown(g, k, x), ~(g > captures),
             UNCHANGED <<captures, open, source, encoder>>,
             \A c \in Captures : channel[c] = <<>> => channel'[c] = <<>>
      PROVE  Unstarted'
  <2>1. \A h \in Captures \ {g} : \A y : y \in Owned(h)' => y \in Owned(h)
    <3>1. \A h \in Captures \ {g}, l \in 0..5 : Place(h)'[l] \subseteq Place(h)[l]
      BY <1>8 DEF MovesDown, Places
    <3>2. QED
      BY <3>1, OwnedIs, OwnedIsNext
  <2>2. QED
    BY <1>8, <2>1 DEF Unstarted
<1>9. ASSUME NEW g \in Captures, NEW s \in Stages, Take(g, s) PROVE Unstarted'
  <2>1. PICK x \in Blocks, rest \in Seq(Blocks) : Out(g, s, x, rest) /\ First(Pending(g, s), x, rest)
    BY <1>9, TakeEffect
  <2>2. Pending(g, s) # <<>>
    BY <1>9 DEF Take
  <2>3. \A c \in Captures : channel[c] = <<>> => channel'[c] = <<>>
    BY <2>1, <2>2 DEF Out, Pending, Typed
  <2>4. ~(g > captures) /\ UNCHANGED <<captures, open, source, encoder>>
    BY <1>9, <2>1, ChainStarted DEF Out, Take, sessionVars
  <2>5. QED
    BY <1>8, <1>9, <2>3, <2>4, TakeMoves
<1>10. ASSUME NEW g \in Captures, NEW s \in {"capture", "process"}, Push(g, s) PROVE Unstarted'
  <2>1. encoder[g] # "unborn"
    BY <1>10 DEF Push, Threads, Stages
  <2>2. ~(g > captures) /\ UNCHANGED <<captures, open, source, encoder, channel>>
    BY <1>10, <2>1, ChainStarted DEF Push, sessionVars
  <2>3. QED
    BY <1>8, <1>10, <2>2, PushMoves
<1>11. ASSUME NEW g \in Captures, Send(g) PROVE Unstarted'
  <2>1. encoder[g] # "unborn"
    BY <1>11 DEF Send, Threads, Stages
  <2>2. ~(g > captures) /\ UNCHANGED <<captures, open, source, encoder, channel>>
    BY <1>11, <2>1, ChainStarted DEF Send, sessionVars, cardVars
  <2>3. QED
    BY <1>8, <1>11, <2>2, SendMoves
<1>12. QED
  BY <1>2, <1>3, <1>4, <1>5, <1>6, <1>7, <1>9, <1>10, <1>11
     DEF Next, CaptureStage, ProcessStage, EncodeStage, Stages

\* Stage s of chain g goes to q, where it holds b, after n blocks too many.
StageGoes(g, s, q, b, n) ==
  /\ pc[g][s] \in {"wait", "push"} /\ pc' = [pc EXCEPT ![g][s] = q] /\ q \in {"wait", "push", "ended"}
  /\ held' = [held EXCEPT ![g][s] = b] /\ (q = "push" <=> b # 0)
  /\ extra' = [extra EXCEPT ![g][s] = n] /\ (~stopFlag[g] => n = 0) /\ (q = "wait" => n = 0)
  /\ UNCHANGED <<encoder, source, stopFlag>>

\* A stage takes a block only if its flag was down when it last tested it.
LEMMA ThreadsStep ==
  ASSUME Typed, Threads, Unstarted, [Next]_vars
  PROVE  Threads'
<1>1. ASSUME UNCHANGED <<encoder, source, stopFlag, pc, held, extra>> PROVE Threads'
  BY <1>1 DEF Threads
<1>2. CASE UNCHANGED vars
  BY <1>1, <1>2 DEF vars, sessionVars, chainVars, histVars, cardVars
<1>3. CASE Feed \/ Stop \/ TestGate \/ TrySend
  BY <1>1, <1>3 DEF Feed, Stop, TestGate, TrySend, sessionVars, chainVars, histVars
<1>4. CASE Start
  <2>1. captures + 1 \in Captures /\ captures + 1 > captures /\ open \subseteq Captures
    BY <1>4, ChainConstants DEF Start, Typed, Captures
  <2>2. /\ encoder' = [encoder EXCEPT ![captures + 1] = "launch"]
        /\ \E c \in Captures : source' = [source EXCEPT ![captures + 1] = c]
        /\ UNCHANGED <<stopFlag, pc, held, extra>>
    BY <1>4, <2>1 DEF Start, histVars
  <2>3. encoder[captures + 1] = "unborn"
    BY <2>1 DEF Unstarted
  <2>4. \A h \in Captures : encoder'[h] # "unborn" => source'[h] \in Captures
    BY <2>1, <2>2 DEF Threads, Typed
  <2>5. \A h \in Captures : encoder'[h] \in {"unborn", "launch"} => encoder[h] \in {"unborn", "launch"}
    BY <2>1, <2>2, <2>3 DEF Typed
  <2>6. QED
    BY <2>2, <2>4, <2>5 DEF Threads
<1>5. ASSUME NEW g \in Captures, Launch(g) PROVE Threads'
  <2>1. encoder[g] = "launch" /\ encoder' \in [Captures -> {"unborn", "launch", "waits", "joins", "ended"}]
        /\ UNCHANGED <<source, held, extra>>
    BY <1>5 DEF Launch, Typed, sessionVars, histVars, cardVars
  <2>2. /\ \A h \in Captures \ {g} :
             encoder'[h] = encoder[h] /\ pc'[h] = pc[h] /\ stopFlag'[h] = stopFlag[h]
        /\ encoder'[g] \in {"waits", "joins"}
    BY <1>5 DEF Launch, Typed
  <2>3. \A s \in Stages : pc'[g][s] \in {"wait", "ended"}
    BY <1>5 DEF Launch, Typed
  <2>4. /\ ~stopFlag[g] /\ \A s \in Stages : pc[g][s] = "unborn"
    BY <2>1 DEF Threads
  <2>5. \A s \in Stages : held[g][s] = 0 /\ extra[g][s] = 0
    BY <2>4 DEF Threads
  <2>6. QED
    BY <2>1, <2>2, <2>3, <2>5 DEF Threads
<1>6. ASSUME NEW g \in Captures, ObeyStop(g) \/ Join(g) PROVE Threads'
  <2>1. /\ encoder[g] \notin {"unborn", "launch"} /\ encoder'[g] \notin {"unborn", "launch"}
        /\ \A h \in Captures \ {g} : encoder'[h] = encoder[h] /\ stopFlag'[h] = stopFlag[h]
        /\ stopFlag[g] => stopFlag'[g]
        /\ UNCHANGED <<source, pc, held, extra>>
    BY <1>6 DEF ObeyStop, Join, Typed, sessionVars, histVars, cardVars
  <2>2. QED
    BY <2>1 DEF Threads
<1>7. ASSUME NEW g \in Captures, NEW s \in Stages, pc[g][s] \in {"wait", "push"}
      PROVE  encoder[g] \notin {"unborn", "launch"}
  BY <1>7 DEF Threads
<1>8. ASSUME NEW g \in Captures, NEW s \in Stages, NEW q, NEW b, NEW n, StageGoes(g, s, q, b, n)
      PROVE  Threads'
  <2>1. /\ pc'[g][s] = q /\ held'[g][s] = b /\ extra'[g][s] = n
        /\ \A h \in Captures, t \in Stages : h # g \/ t # s =>
             pc'[h][t] = pc[h][t] /\ held'[h][t] = held[h][t] /\ extra'[h][t] = extra[h][t]
    BY <1>8 DEF Typed, StageGoes
  <2>2. encoder[g] \notin {"unborn", "launch"}
    BY <1>7, <1>8 DEF StageGoes
  <2>3. QED
    BY <1>8, <2>1, <2>2 DEF Threads, StageGoes
<1>9. ASSUME NEW g \in Captures, NEW s \in Stages
      PROVE  held = [held EXCEPT ![g][s] = held[g][s]] /\ extra = [extra EXCEPT ![g][s] = extra[g][s]]
  BY DEF Typed
<1>10. ASSUME NEW g \in Captures, NEW s \in Stages, Take(g, s) PROVE Threads'
  <2>1. PICK x \in Blocks, rest \in Seq(Blocks) : Out(g, s, x, rest)
    BY <1>10, TakeEffect
  <2>2. extra[g][s] = 0
    BY <2>1 DEF Out, Threads
  <2>3. PICK n : extra' = [extra EXCEPT ![g][s] = n] /\ (~stopFlag[g] => n = 0)
    <3>1. extra' = [extra EXCEPT ![g][s] = IF stopFlag[g] THEN extra[g][s] + 1 ELSE extra[g][s]]
      BY <1>10 DEF Take
    <3>2. QED
      BY <2>2, <3>1
  <2>4. pc' = [pc EXCEPT ![g][s] = "push"] /\ UNCHANGED <<encoder, source, stopFlag>>
    BY <1>10 DEF Take, Goes, sessionVars
  <2>5. held' = [held EXCEPT ![g][s] = x] /\ x # 0 /\ pc[g][s] = "wait"
    BY <2>1, BlocksAreNumbers DEF Out
  <2>6. StageGoes(g, s, "push", x, n)
    BY <2>3, <2>4, <2>5 DEF StageGoes
  <2>7. QED
    BY <1>8, <2>6
<1>11. ASSUME NEW g \in Captures, NEW s \in Stages, GiveUp(g, s) PROVE Threads'
  <2>1. PICK q \in {"wait", "ended"} : pc' = [pc EXCEPT ![g][s] = q]
    BY <1>11 DEF GiveUp, Goes, HeadOfLoop
  <2>2. /\ pc[g][s] = "wait" /\ held[g][s] = 0 /\ extra[g][s] = 0
        /\ UNCHANGED <<encoder, source, stopFlag, held, extra>>
    BY <1>11 DEF GiveUp, Threads, sessionVars, histVars
  <2>3. StageGoes(g, s, q, held[g][s], extra[g][s])
    BY <1>9, <2>1, <2>2 DEF StageGoes
  <2>4. QED
    BY <1>8, <2>3
<1>12. ASSUME NEW g \in Captures, NEW s \in {"capture", "process"}, Push(g, s) PROVE Threads'
  <2>1. PICK q \in {"wait", "ended"} : pc' = [pc EXCEPT ![g][s] = q] /\ (q = "wait" => ~stopFlag[g])
    BY <1>12 DEF Push, Goes, HeadOfLoop
  <2>2. /\ s \in Stages /\ pc[g][s] = "push" /\ held' = [held EXCEPT ![g][s] = 0]
        /\ UNCHANGED <<encoder, source, stopFlag, extra>>
    BY <1>12 DEF Push, Stages, sessionVars, histVars
  <2>3. ~stopFlag[g] => extra[g][s] = 0
    BY <2>2 DEF Threads
  <2>4. StageGoes(g, s, q, 0, extra[g][s])
    BY <1>9, <2>1, <2>2, <2>3 DEF StageGoes
  <2>5. QED
    BY <1>8, <2>2, <2>4
<1>13. ASSUME NEW g \in Captures, Send(g) PROVE Threads'
  <2>1. PICK q \in {"wait", "ended"} :
          pc' = [pc EXCEPT ![g]["encode"] = q] /\ (q = "wait" => ~stopFlag[g])
    BY <1>13 DEF Send, Goes, HeadOfLoop
  <2>2. /\ "encode" \in Stages /\ pc[g]["encode"] = "push" /\ held' = [held EXCEPT ![g]["encode"] = 0]
        /\ UNCHANGED <<encoder, source, stopFlag, extra>>
    BY <1>13 DEF Send, Stages, sessionVars
  <2>3. ~stopFlag[g] => extra[g]["encode"] = 0
    BY <2>2 DEF Threads
  <2>4. StageGoes(g, "encode", q, 0, extra[g]["encode"])
    BY <1>9, <2>1, <2>2, <2>3 DEF StageGoes
  <2>5. QED
    BY <1>8, <2>2, <2>4
<1>14. QED
  BY <1>2, <1>3, <1>4, <1>5, <1>6, <1>10, <1>11, <1>12, <1>13
     DEF Next, EncoderThread, CaptureStage, ProcessStage, EncodeStage, Stages

-----------------------------------------------------------------------------
(* The theorems. *)

\* The invariant holds in every state of every behaviour.
LEMMA ChainInvariant == Spec => []IInv
<1>1. Init => IInv
  <2> SUFFICES ASSUME Init PROVE IInv
    OBVIOUS
  <2>1. Typed
    BY TypedInit
  <2>2. \A g \in Captures : /\ sent[g] = <<>> /\ channel[g] = <<>> /\ source[g] = 0
                            /\ encoder[g] = "unborn" /\ ~stopFlag[g]
                            /\ \A s \in Stages : /\ held[g][s] = 0 /\ inbox[g][s] = <<>>
                                                 /\ pc[g][s] = "unborn" /\ extra[g][s] = 0
    BY DEF Init, Everywhere
  <2>3. Elements(<<>>) = {} /\ Increasing(<<>>)
    BY DEF Elements, Increasing
  <2>4. \A g \in Captures, k \in Places : Place(g)[k] = {}
    BY <2>2, <2>3, PlaceIs DEF Places, Stages, Channel
  <2>5. \A g \in Captures : Owned(g) = {} /\ Channel(g) = {}
    BY <2>2, <2>4, OwnedIs DEF Places, Channel
  <2>6. Whereabouts /\ InHand
    BY <2>2, <2>3, <2>4, <2>5 DEF Init, InHand, Whereabouts, Rows, InRow, Apart, Captured, Fresh
  <2>7. Queues
    BY <2>2, <2>3 DEF Queues
  <2>8. Unstarted
    BY <2>2, <2>5 DEF Unstarted, Init
  <2>9. Threads
    BY <2>2 DEF Threads
  <2>10. QED
    BY <2>1, <2>6, <2>7, <2>8, <2>9 DEF IInv
<1>2. IInv /\ [Next]_vars => IInv'
  BY TypedStep, WhereaboutsStep, InHandStep, QueuesStep, UnstartedStep, ThreadsStep DEF IInv
<1>3. QED
  BY <1>1, <1>2, PTL DEF Spec

\* Each chain sends what the callback captured once, in the order it was captured,
\* and no two chains send the same block, even when an older one that has not
\* stopped yet reads the same channel (start_capture on a warm ASIO driver).
THEOREM ChainsSendInOrder == Spec => []SentInOrder
<1>1. IInv => SentInOrder
  <2> SUFFICES ASSUME IInv PROVE SentInOrder
    OBVIOUS
  <2>1. \A g \in Captures : \A i \in DOMAIN sent[g] : sent[g][i] \in Owned(g)
    BY PlaceIs, OwnedIs DEF Elements
  <2>2. QED
    BY <2>1 DEF IInv, Queues, Increasing, Whereabouts, Apart, SentInOrder
<1>2. QED
  BY <1>1, ChainInvariant, PTL

\* Nothing captured in a former session is sent in a later one, but for the one block
\* whose callback had tested capture_feeding and not pushed it yet when the channel was
\* drained (forward_samples, prepare_audio_for_session); and once the flag is up a stage
\* takes no block but the one it was waiting for.
THEOREM ChainsSendFreshSound == Spec => []FreshSound
<1>1. IInv => FreshSound
  <2> SUFFICES ASSUME IInv PROVE FreshSound
    OBVIOUS
  <2>1. \A g \in Captures : \A i \in DOMAIN sent[g] : sent[g][i] \in Owned(g)
    BY PlaceIs, OwnedIs DEF Elements
  <2>2. FromThisSession
    BY <2>1 DEF IInv, Whereabouts, Fresh, Belongs, FromThisSession
  <2>3. StopsAtOnce
    <3>1. \A g \in Captures, s \in Stages : extra[g][s] \in 0..1
      BY DEF IInv, Typed
    <3>2. QED
      BY <3>1 DEF StopsAtOnce
  <2>4. QED
    BY <2>2, <2>3 DEF FreshSound
<1>2. QED
  BY <1>1, ChainInvariant, PTL

-----------------------------------------------------------------------------
(* The voice published beside the instrument (VoiceGate): one at a time.   *)

\* Types of the talkback; a voice that was not started has nothing.
VoiceTyped ==
  /\ capturing \in BOOLEAN /\ active \in BOOLEAN /\ voices \in 0 .. MaxVoices
  /\ ctrl \in Seq(0 .. MaxVoices) /\ tap \in 0 .. MaxVoices /\ stage \in 0 .. voices
  /\ call \in [op : {"none", "join", "await"}, on : 0 .. voices, next : {"nothing", "tap", "mic"}]
  /\ voice_pc \in [Voice!Voices -> {"unborn", "loading", "loop", "ended"}]
  /\ ready \in [Voice!Voices -> BOOLEAN] /\ closed \in [Voice!Voices -> BOOLEAN]
  /\ abandoned \in SUBSET Voice!Voices
  /\ \A k \in Voice!Voices : k > voices => voice_pc[k] = "unborn" /\ ~closed[k]

\* What a call has done so far: it is at the stage it let go, or at the one it starts.
Calling ==
  /\ call.op = "none" => call = Voice!Idle
  /\ call.op = "join" => /\ stage \in {Voice!None, call.on} \cup abandoned
                         /\ stage = Voice!None \/ closed[stage]
                         /\ (call.next # "nothing" => voices < MaxVoices)
                         /\ (call.next = "tap" => capturing)
  /\ call.op = "await" => /\ stage = Voice!None /\ call.on \in Voice!Voices /\ ~closed[call.on]
                          /\ call.next \in {"tap", "mic"} /\ (call.next = "tap" => capturing)
  /\ call = Voice!Idle => stage = Voice!None \/ ~closed[stage]
  /\ active => stage # Voice!None

\* A stage that is not over and was not let go unready is the present one or the call's.
Alone ==
  \A k \in Voice!Voices :
    voice_pc[k] \in {"loading", "loop"} /\ k \notin abandoned => k \in {stage, call.on}

\* The voice that will be tapped once the commands are read.
LastTap == IF ctrl = <<>> THEN tap ELSE ctrl[Len(ctrl)]
Tapped ==
  /\ ~capturing => ctrl = <<>> /\ tap = Voice!None
  /\ capturing /\ call = Voice!Idle /\ active /\ stage \notin mics => LastTap = stage
  /\ ~capturing /\ call = Voice!Idle /\ active => stage \in mics
  /\ \A v \in {tap} \cup {ctrl[i] : i \in DOMAIN ctrl} :
       v \in Voice!Voices => closed[v] \/ v = stage

VoiceInv == VoiceTyped /\ Calling /\ Alone /\ Tapped

\* The type of a call, field by field.
LEMMA CallFields ==
  /\ \A c, n : c \in [op : {"none", "join", "await"}, on : n, next : {"nothing", "tap", "mic"}] =>
       /\ c.op \in {"none", "join", "await"} /\ c.on \in n /\ c.next \in {"nothing", "tap", "mic"}
  /\ \A n : \A op \in {"none", "join", "await"}, on \in n, next \in {"nothing", "tap", "mic"} :
       Voice!Waiting(op, on, next) \in [op : {"none", "join", "await"}, on : n, next : {"nothing", "tap", "mic"}]
  /\ \A op, on, next : /\ Voice!Waiting(op, on, next).op = op /\ Voice!Waiting(op, on, next).on = on
                       /\ Voice!Waiting(op, on, next).next = next
  /\ Voice!Idle = Voice!Waiting("none", 0, "nothing") /\ Voice!None = 0
  /\ \A op, on, next : Voice!Waiting(op, on, next) = Voice!Idle => op = "none"
BY DEF Voice!Waiting, Voice!Idle, Voice!None

\* A voice is let go: its queue is closed, and it is waited for if it is ready.
LEMMA LettingGo ==
  ASSUME VoiceInv, NEW k \in 0 .. voices, NEW next \in {"nothing", "tap", "mic"}, Voice!LetGo(k, next)
  PROVE  /\ closed' \in [Voice!Voices -> BOOLEAN] /\ \A j \in Voice!Voices : closed'[j] = (closed[j] \/ j = k)
         /\ abandoned' \in SUBSET Voice!Voices /\ abandoned \subseteq abandoned'
         /\ call' \in [op : {"none", "join", "await"}, on : 0 .. voices, next : {"nothing", "tap", "mic"}]
         /\ call'.op = "join" /\ call'.next = next /\ call' # Voice!Idle
         /\ k = 0 \/ call'.on = k \/ k \in abandoned'
<1> USE CallFields
<1>1. k = 0 \/ k \in Voice!Voices
  BY SendingConstants DEF Voice!TalkbackConstants, Voice!Voices, VoiceInv, VoiceTyped
<1>2. closed' \in [Voice!Voices -> BOOLEAN] /\ \A j \in Voice!Voices : closed'[j] = (closed[j] \/ j = k)
  BY DEF Voice!LetGo, VoiceInv, VoiceTyped
<1>3. abandoned' \in SUBSET Voice!Voices /\ abandoned \subseteq abandoned'
  BY <1>1 DEF Voice!LetGo, VoiceInv, VoiceTyped
<1>4. PICK on \in {0, k} : call' = Voice!Waiting("join", on, next) /\ (on = k \/ ~ready[k])
  BY <1>1 DEF Voice!LetGo, Voice!Joined
<1>5. on \in 0 .. voices
  BY <1>4 DEF VoiceInv, VoiceTyped
<1>6. k = 0 \/ on = k \/ k \in abandoned'
  BY <1>1, <1>4 DEF Voice!LetGo
<1>7. /\ call' \in [op : {"none", "join", "await"}, on : 0 .. voices, next : {"nothing", "tap", "mic"}]
      /\ call'.op = "join" /\ call'.next = next /\ call'.on = on
  <2>1. call' = [op |-> "join", on |-> on, next |-> next]
    BY <1>4 DEF Voice!Waiting
  <2> QED
    BY <2>1, <1>5
<1>8. call' # Voice!Idle
  BY <1>7, CallFields
<1> QED
  BY <1>2, <1>3, <1>6, <1>7, <1>8

\* The commands: one more at the end, or the first one obeyed.
LEMMA CommandSent ==
  ASSUME VoiceInv, NEW v \in 0 .. MaxVoices
  PROVE  /\ Append(ctrl, v) \in Seq(0 .. MaxVoices) /\ Append(ctrl, v) # <<>>
         /\ Append(ctrl, v)[Len(Append(ctrl, v))] = v
         /\ {Append(ctrl, v)[i] : i \in DOMAIN Append(ctrl, v)} = {ctrl[i] : i \in DOMAIN ctrl} \cup {v}
<1>1. ctrl \in Seq(0 .. MaxVoices)
  BY DEF VoiceInv, VoiceTyped
<1> DEFINE q == Append(ctrl, v)
<1>2. /\ q \in Seq(0 .. MaxVoices) /\ q # <<>> /\ q[Len(q)] = v /\ DOMAIN q = DOMAIN ctrl \cup {Len(ctrl) + 1}
      /\ q[Len(ctrl) + 1] = v /\ \A i \in DOMAIN ctrl : q[i] = ctrl[i]
  BY <1>1
<1> QED
  BY <1>2

LEMMA CommandObeyed ==
  ASSUME VoiceInv, ctrl # <<>>
  PROVE  /\ Tail(ctrl) \in Seq(0 .. MaxVoices) /\ Head(ctrl) \in 0 .. MaxVoices
         /\ Head(ctrl) \in {ctrl[i] : i \in DOMAIN ctrl}
         /\ {Tail(ctrl)[i] : i \in DOMAIN Tail(ctrl)} \subseteq {ctrl[i] : i \in DOMAIN ctrl}
         /\ Tail(ctrl) = <<>> => Head(ctrl) = ctrl[Len(ctrl)]
         /\ Tail(ctrl) # <<>> => Tail(ctrl)[Len(Tail(ctrl))] = ctrl[Len(ctrl)]
<1>1. ctrl \in Seq(0 .. MaxVoices)
  BY DEF VoiceInv, VoiceTyped
<1> DEFINE q == Tail(ctrl)
<1>2. Len(ctrl) \in Nat \ {0} /\ DOMAIN ctrl = 1 .. Len(ctrl)
  BY <1>1
<1>3. Head(ctrl) = ctrl[1] /\ 1 \in DOMAIN ctrl /\ ctrl[1] \in 0 .. MaxVoices
  <2>1. 1 \in 1 .. Len(ctrl)
    BY <1>2
  <2>2. Head(ctrl) = ctrl[1]
    BY <1>1
  <2>3. \A S : \A z \in Seq(S) : \A i \in 1 .. Len(z) : z[i] \in S
    OBVIOUS
  <2> QED
    BY <2>1, <2>2, <2>3, <1>1, <1>2
<1>5. q \in Seq(0 .. MaxVoices) /\ Len(q) = Len(ctrl) - 1 /\ DOMAIN q = 1 .. Len(q) /\ Len(q) \in Nat
  BY <1>1, <1>2
<1>6. \A i \in DOMAIN q : i + 1 \in DOMAIN ctrl /\ q[i] = ctrl[i + 1]
  BY <1>1, <1>2, <1>5
<1>7. q = <<>> => Len(ctrl) = 1
  BY <1>2, <1>5
<1>4. q # <<>> => Len(q) \in DOMAIN q /\ Len(q) + 1 = Len(ctrl)
  BY <1>2, <1>5
<1>8. Tail(ctrl) = <<>> => Head(ctrl) = ctrl[Len(ctrl)]
  BY <1>3, <1>7
<1>9. Tail(ctrl) # <<>> => Tail(ctrl)[Len(Tail(ctrl))] = ctrl[Len(ctrl)]
  BY <1>4, <1>6
<1>10. {Tail(ctrl)[i] : i \in DOMAIN Tail(ctrl)} \subseteq {ctrl[i] : i \in DOMAIN ctrl}
  BY <1>6
<1> QED
  BY <1>3, <1>5, <1>8, <1>9, <1>10

\* The calls that let a stage go.
LEMMA StopKeeps ==
  ASSUME VoiceInv, Voice!Stop \/ (\E from \in {"tap", "mic"} : Voice!Start(from))
  PROVE  VoiceInv'
<1> USE SendingConstants DEF VoiceInv, Voice!TalkbackConstants
<1>1. PICK next \in {"nothing", "tap", "mic"} : /\ Voice!StopVoice(next) /\ (next # "nothing" => voices < MaxVoices)
                                                /\ (next = "tap" => capturing)
  BY DEF Voice!Stop, Voice!Start
<1>2. call = Voice!Idle /\ UNCHANGED <<capturing, voices, stage, active, tap, mics, voice_pc, ready, isolates, queued>>
  BY DEF Voice!Stop, Voice!Start, Voice!stageVars
<1>3. stage \in 0 .. voices /\ Voice!LetGo(stage, next)
  BY <1>1 DEF Voice!StopVoice, VoiceTyped
<1>4. /\ closed' \in [Voice!Voices -> BOOLEAN] /\ \A j \in Voice!Voices : closed'[j] = (closed[j] \/ j = stage)
      /\ abandoned' \in SUBSET Voice!Voices /\ abandoned \subseteq abandoned'
      /\ call' \in [op : {"none", "join", "await"}, on : 0 .. voices, next : {"nothing", "tap", "mic"}]
      /\ call'.op = "join" /\ call'.next = next /\ call' # Voice!Idle
      /\ stage = 0 \/ call'.on = stage \/ stage \in abandoned'
  BY <1>3, LettingGo
<1>5. /\ ctrl' \in Seq(0 .. MaxVoices)
      /\ {ctrl'[i] : i \in DOMAIN ctrl'} \subseteq {ctrl[i] : i \in DOMAIN ctrl} \cup {0}
      /\ ~capturing => ctrl' = ctrl
  <2>1. ctrl' = ctrl \/ (capturing /\ ctrl' = Append(ctrl, 0))
    BY <1>1 DEF Voice!StopVoice, Voice!None
  <2>2. 0 \in 0 .. MaxVoices
    OBVIOUS
  <2>3. CASE ctrl' = ctrl
    BY <2>3 DEF VoiceTyped
  <2>4. CASE capturing /\ ctrl' = Append(ctrl, 0)
    BY <2>2, <2>4, CommandSent
  <2> QED
    BY <2>1, <2>3, <2>4
<1>6. VoiceTyped'
  <2>1. \A k \in Voice!Voices : k > voices => k # stage
    BY DEF Voice!Voices, VoiceTyped
  <2> QED
    BY <2>1, <1>2, <1>4, <1>5 DEF VoiceTyped
<1>7. Calling'
  <2>1. stage = 0 \/ stage \in Voice!Voices
    BY DEF VoiceTyped, Voice!Voices
  <2> QED
    BY <2>1, <1>1, <1>2, <1>4 DEF Calling, Voice!None
<1>8. Alone'
  <2> SUFFICES ASSUME NEW k \in Voice!Voices, voice_pc[k] \in {"loading", "loop"}, k \notin abandoned'
               PROVE  k \in {stage, call'.on}
    BY <1>2 DEF Alone
  <2>1. k \in {stage, call.on} /\ call.on = 0
    BY <1>2, <1>4, CallFields DEF Alone
  <2>2. k # 0
    BY DEF Voice!Voices
  <2> QED
    BY <2>1, <2>2
<1>9. Tapped'
  <2>1. \A v \in {tap'} \cup {ctrl'[i] : i \in DOMAIN ctrl'} :
          v \in Voice!Voices => closed'[v] \/ v = stage'
    BY <1>2, <1>4, <1>5 DEF Tapped, Voice!Voices
  <2> QED
    BY <2>1, <1>2, <1>4, <1>5 DEF Tapped
<1> QED
  BY <1>6, <1>7, <1>8, <1>9

\* The end of a capture: the present stage is let go and the tap with it.
LEMMA EndCaptureKeeps == VoiceInv /\ Voice!EndCapture => VoiceInv'
<1> SUFFICES ASSUME VoiceInv, Voice!EndCapture
             PROVE  VoiceInv'
  OBVIOUS
<1> USE SendingConstants DEF VoiceInv, Voice!TalkbackConstants
<1>1. /\ call = Voice!Idle /\ capturing /\ capturing' = FALSE /\ ctrl' = <<>> /\ tap' = 0
      /\ UNCHANGED <<voices, stage, active, mics, voice_pc, ready, isolates>>
  BY DEF Voice!EndCapture, Voice!stageVars, Voice!None
<1>2. stage \in 0 .. voices /\ Voice!LetGo(stage, "nothing")
  BY DEF Voice!EndCapture, VoiceTyped
<1>3. /\ closed' \in [Voice!Voices -> BOOLEAN] /\ \A j \in Voice!Voices : closed'[j] = (closed[j] \/ j = stage)
      /\ abandoned' \in SUBSET Voice!Voices /\ abandoned \subseteq abandoned'
      /\ call' \in [op : {"none", "join", "await"}, on : 0 .. voices, next : {"nothing", "tap", "mic"}]
      /\ call'.op = "join" /\ call'.next = "nothing" /\ call' # Voice!Idle
      /\ stage = 0 \/ call'.on = stage \/ stage \in abandoned'
  BY <1>2, LettingGo
<1>4. VoiceTyped'
  <2>1. <<>> \in Seq(0 .. MaxVoices) /\ 0 \in 0 .. MaxVoices
    OBVIOUS
  <2>2. \A k \in Voice!Voices : k > voices => k # stage
    BY DEF Voice!Voices, VoiceTyped
  <2> QED
    BY <2>1, <2>2, <1>1, <1>3 DEF VoiceTyped
<1>5. Calling'
  <2>1. stage = 0 \/ stage \in Voice!Voices
    BY DEF VoiceTyped, Voice!Voices
  <2> QED
    BY <2>1, <1>1, <1>3 DEF Calling, Voice!None
<1>6. Alone'
  <2> SUFFICES ASSUME NEW k \in Voice!Voices, voice_pc[k] \in {"loading", "loop"}, k \notin abandoned'
               PROVE  k \in {stage, call'.on}
    BY <1>1 DEF Alone
  <2>1. k \in {stage, call.on} /\ call.on = 0
    BY <1>1, <1>3, CallFields DEF Alone
  <2>2. k # 0
    BY DEF Voice!Voices
  <2> QED
    BY <2>1, <2>2
<1>7. Tapped'
  <2>1. DOMAIN ctrl' = {}
    BY <1>1
  <2>2. 0 \notin Voice!Voices
    BY DEF Voice!Voices
  <2> QED
    BY <2>1, <2>2, <1>1, <1>3 DEF Tapped, Voice!None
<1> QED
  BY <1>4, <1>5, <1>6, <1>7

\* The stage being started is given up: it was not ready, or it is waited for.
LEMMA FailKeeps == VoiceInv /\ Voice!Fail => VoiceInv'
<1> SUFFICES ASSUME VoiceInv, Voice!Fail
             PROVE  VoiceInv'
  OBVIOUS
<1> USE SendingConstants DEF VoiceInv, Voice!TalkbackConstants
<1>1. /\ call.op = "await" /\ Voice!LetGo(call.on, "nothing")
      /\ UNCHANGED <<capturing, voices, stage, active, ctrl, tap, mics, voice_pc, ready, isolates>>
  BY DEF Voice!Fail, Voice!stageVars, Voice!tapVars
<1>2. /\ call.on \in 0 .. voices /\ call.on \in Voice!Voices /\ stage = 0 /\ call # Voice!Idle /\ ~active
  BY <1>1, CallFields DEF VoiceTyped, Calling
<1>3. /\ closed' \in [Voice!Voices -> BOOLEAN] /\ \A j \in Voice!Voices : closed'[j] = (closed[j] \/ j = call.on)
      /\ abandoned' \in SUBSET Voice!Voices /\ abandoned \subseteq abandoned'
      /\ call' \in [op : {"none", "join", "await"}, on : 0 .. voices, next : {"nothing", "tap", "mic"}]
      /\ call'.op = "join" /\ call'.next = "nothing" /\ call' # Voice!Idle
      /\ call'.on = call.on \/ call.on \in abandoned'
  BY <1>1, <1>2, LettingGo DEF Voice!Voices
<1>4. VoiceTyped'
  <2>1. \A k \in Voice!Voices : k > voices => k # call.on
    BY <1>2 DEF Voice!Voices, VoiceTyped
  <2> QED
    BY <2>1, <1>1, <1>3 DEF VoiceTyped
<1>5. Calling'
  BY <1>1, <1>2, <1>3 DEF Calling, Voice!None
<1>6. Alone'
  BY <1>1, <1>2, <1>3 DEF Alone, Voice!Voices
<1>7. Tapped'
  <2>1. \A v \in {tap} \cup {ctrl[i] : i \in DOMAIN ctrl} : v \in Voice!Voices => closed'[v] \/ v = stage
    BY <1>3 DEF Tapped
  <2> QED
    BY <2>1, <1>1, <1>2, <1>3 DEF Tapped
<1> QED
  BY <1>4, <1>5, <1>6, <1>7

\* The former stage is over or abandoned: none is left, or the one that is started.
LEMMA StopDoneKeeps == VoiceInv /\ Voice!StopDone => VoiceInv'
<1> SUFFICES ASSUME VoiceInv, Voice!StopDone
             PROVE  VoiceInv'
  OBVIOUS
<1> USE SendingConstants DEF VoiceInv, Voice!TalkbackConstants
<1>1. /\ call.op = "join" /\ (call.on # 0 => voice_pc[call.on] = "ended") /\ stage' = 0 /\ active' = FALSE
      /\ UNCHANGED <<capturing, ctrl, tap, ready, closed, abandoned>>
  BY DEF Voice!StopDone, Voice!None
<1>2. \A k \in Voice!Voices : voice_pc[k] \in {"loading", "loop"} => k \in abandoned
  <2>1. stage \in {0, call.on} \cup abandoned /\ call.on \in 0 .. voices
    BY <1>1, CallFields DEF Calling, Voice!None, VoiceTyped
  <2> QED
    BY <2>1, <1>1 DEF Alone, Voice!Voices
<1>3. \A v \in {tap} \cup {ctrl[i] : i \in DOMAIN ctrl} : v \in Voice!Voices => closed[v]
  BY <1>1 DEF Tapped, Calling, Voice!None, Voice!Voices
<1>4. (tap' = tap /\ ctrl' = ctrl /\ capturing' = capturing /\ closed' = closed /\ ~active') => Tapped'
  BY <1>3 DEF Tapped
<1>5. CASE call' = Voice!Idle /\ UNCHANGED <<voices, voice_pc>>
  <2>1. VoiceTyped'
    <3>1. call' = [op |-> "none", on |-> 0, next |-> "nothing"]
      BY <1>5 DEF Voice!Idle, Voice!None
    <3>2. 0 \in 0 .. voices' /\ stage' \in 0 .. voices' /\ voices' \in 0 .. MaxVoices
      BY <1>1, <1>5 DEF VoiceTyped
    <3>3. call' \in [op : {"none", "join", "await"}, on : 0 .. voices', next : {"nothing", "tap", "mic"}]
      BY <3>1, <3>2
    <3> QED
      BY <3>2, <3>3, <1>1, <1>5 DEF VoiceTyped
  <2>2. Calling'
    BY <1>1, <1>5, CallFields DEF Calling
  <2>3. Alone'
    BY <1>1, <1>2, <1>5 DEF Alone
  <2> QED
    BY <2>1, <2>2, <2>3, <1>4, <1>1
<1>6. CASE /\ call.next # "nothing" /\ voices' = voices + 1
           /\ voice_pc' = [voice_pc EXCEPT ![voices + 1] = "loading"]
           /\ call' = Voice!Waiting("await", voices + 1, call.next)
  <2>1. /\ voices < MaxVoices /\ voices \in Nat /\ voices + 1 \in Voice!Voices /\ voices + 1 \in 0 .. MaxVoices
        /\ call.next \in {"tap", "mic"}
    BY <1>1, <1>6, CallFields DEF Calling, VoiceTyped, Voice!Voices
  <2>2. ~closed[voices + 1] /\ voice_pc[voices + 1] = "unborn"
    BY <2>1 DEF VoiceTyped
  <2>3. /\ call' \in [op : {"none", "join", "await"}, on : 0 .. voices + 1, next : {"nothing", "tap", "mic"}]
        /\ call'.op = "await" /\ call'.on = voices + 1 /\ call'.next = call.next /\ call' # Voice!Idle
    <3>1. "await" \in {"none", "join", "await"} /\ voices + 1 \in 0 .. voices + 1
          /\ call.next \in {"nothing", "tap", "mic"}
      BY <2>1
    <3>2. call' = [op |-> "await", on |-> voices + 1, next |-> call.next]
      BY <1>6 DEF Voice!Waiting
    <3>3. /\ call' \in [op : {"none", "join", "await"}, on : 0 .. voices + 1, next : {"nothing", "tap", "mic"}]
          /\ call'.op = "await" /\ call'.on = voices + 1 /\ call'.next = call.next
      BY <3>1, <3>2
    <3> QED
      BY <3>3, CallFields
  <2>4. VoiceTyped'
    <3>1. voice_pc' \in [Voice!Voices -> {"unborn", "loading", "loop", "ended"}]
      BY <1>6, <2>1 DEF VoiceTyped
    <3>2. \A k \in Voice!Voices : k > voices' => voice_pc'[k] = "unborn" /\ ~closed'[k]
      BY <1>1, <1>6, <2>1 DEF VoiceTyped, Voice!Voices
    <3>3. call' \in [op : {"none", "join", "await"}, on : 0 .. voices', next : {"nothing", "tap", "mic"}]
      BY <2>3, <1>6
    <3>4. stage' \in 0 .. voices' /\ voices' \in 0 .. MaxVoices
      BY <1>1, <1>6, <2>1
    <3> QED
      BY <3>1, <3>2, <3>3, <3>4, <1>1 DEF VoiceTyped
  <2>5. Calling'
    <3>1. call.next = "tap" => capturing
      BY <1>1 DEF Calling
    <3> QED
      BY <3>1, <1>1, <2>1, <2>2, <2>3 DEF Calling, Voice!None
  <2>6. Alone'
    BY <1>1, <1>2, <1>6, <2>1, <2>3 DEF Alone, VoiceTyped
  <2> QED
    BY <2>4, <2>5, <2>6, <1>4, <1>1
<1> QED
  BY <1>5, <1>6 DEF Voice!StopDone, Voice!None

\* The stage is connected: its tap is the last command, or its microphone pushes to it.
LEMMA ConnectKeeps == VoiceInv /\ Voice!Connect => VoiceInv'
<1> SUFFICES ASSUME VoiceInv, Voice!Connect
             PROVE  VoiceInv'
  OBVIOUS
<1> USE SendingConstants DEF VoiceInv, Voice!TalkbackConstants
<1>1. /\ call.op = "await" /\ stage' = call.on /\ active' = TRUE /\ call' = Voice!Idle
      /\ UNCHANGED <<capturing, voices, tap, voice_pc, ready, isolates, closed, abandoned>>
  BY DEF Voice!Connect, Voice!stageVars
<1>2. /\ call.on \in 0 .. voices /\ call.on \in Voice!Voices /\ ~closed[call.on] /\ stage = 0 /\ ~active
      /\ call.on \in 0 .. MaxVoices /\ call.on # 0
  <2>1. call.on \in 0 .. voices /\ call.on \in Voice!Voices /\ ~closed[call.on] /\ stage = 0
    BY <1>1, CallFields DEF VoiceTyped, Calling
  <2> QED
    BY <2>1, CallFields DEF Calling, Voice!Voices
<1>3. \/ call.next = "tap" /\ ctrl' = Append(ctrl, call.on) /\ mics' = mics /\ capturing
      \/ call.next = "mic" /\ mics' = mics \cup {call.on} /\ ctrl' = ctrl
  BY <1>1 DEF Voice!Connect, Calling
<1>4. /\ ctrl' \in Seq(0 .. MaxVoices)
      /\ {ctrl'[i] : i \in DOMAIN ctrl'} \subseteq {ctrl[i] : i \in DOMAIN ctrl} \cup {call.on}
  <2>1. CASE ctrl' = ctrl
    BY <2>1 DEF VoiceTyped
  <2>2. CASE ctrl' = Append(ctrl, call.on)
    BY <2>2, <1>2, CommandSent
  <2> QED
    BY <1>3, <2>1, <2>2
<1>5. VoiceTyped'
  <2>1. call' = [op |-> "none", on |-> 0, next |-> "nothing"]
    BY <1>1 DEF Voice!Idle, Voice!None
  <2>2. 0 \in 0 .. voices' /\ stage' \in 0 .. voices' /\ voices' \in 0 .. MaxVoices
    BY <1>1, <1>2 DEF VoiceTyped
  <2>3. call' \in [op : {"none", "join", "await"}, on : 0 .. voices', next : {"nothing", "tap", "mic"}]
    BY <2>1, <2>2
  <2> QED
    BY <2>2, <2>3, <1>1, <1>4 DEF VoiceTyped
<1>6. Calling'
  BY <1>1, <1>2, CallFields DEF Calling
<1>7. Alone'
  BY <1>1, <1>2 DEF Alone, Voice!Voices
<1>8. Tapped'
  <2>1. \A v \in {tap'} \cup {ctrl'[i] : i \in DOMAIN ctrl'} : v \in Voice!Voices => closed'[v] \/ v = stage'
    BY <1>1, <1>2, <1>4, SMTT(40) DEF Tapped, Voice!Voices
  <2>2. ~capturing' => ctrl' = <<>> /\ tap' = Voice!None
    BY <1>1, <1>3 DEF Tapped
  <2>3. capturing' /\ stage' \notin mics' => LastTap' = stage'
    <3>1. SUFFICES ASSUME stage' \notin mics'
                   PROVE  LastTap' = stage'
      OBVIOUS
    <3>2. ctrl' = Append(ctrl, call.on)
      BY <1>1, <1>3, <3>1
    <3>3. ctrl' # <<>> /\ ctrl'[Len(ctrl')] = call.on
      BY <3>2, <1>2, CommandSent
    <3> QED
      BY <3>3, <1>1 DEF LastTap
  <2>4. ~capturing' => stage' \in mics'
    BY <1>1, <1>3
  <2> QED
    BY <2>1, <2>2, <2>3, <2>4 DEF Tapped
<1> QED
  BY <1>5, <1>6, <1>7, <1>8

\* The steps that leave the calls alone keep them.
LEMMA CallsKept ==
  ASSUME VoiceInv, UNCHANGED <<capturing, voices, stage, active, call, closed, abandoned>>,
         \A k \in Voice!Voices : k > voices => voice_pc'[k] = voice_pc[k],
         \A k \in Voice!Voices : voice_pc'[k] \in {"loading", "loop"} => voice_pc[k] \in {"loading", "loop"},
         voice_pc' \in [Voice!Voices -> {"unborn", "loading", "loop", "ended"}],
         ready' \in [Voice!Voices -> BOOLEAN], ctrl' \in Seq(0 .. MaxVoices), tap' \in 0 .. MaxVoices
  PROVE  VoiceTyped' /\ Calling' /\ Alone'
<1>1. VoiceTyped'
  BY DEF VoiceInv, VoiceTyped
<1>2. Calling'
  BY DEF VoiceInv, Calling
<1>3. Alone'
  BY DEF VoiceInv, Alone
<1> QED
  BY <1>1, <1>2, <1>3

\* A command is read: the last one read is the one that stays.
LEMMA ObeyKeeps == VoiceInv /\ Voice!Obey => VoiceInv'
<1> SUFFICES ASSUME VoiceInv, Voice!Obey
             PROVE  VoiceInv'
  OBVIOUS
<1>1. /\ capturing /\ ctrl # <<>> /\ tap' = Head(ctrl) /\ ctrl' = Tail(ctrl)
      /\ UNCHANGED <<capturing, voices, stage, active, call, mics, voice_pc, ready, isolates, closed, abandoned>>
  BY DEF Voice!Obey, Voice!ReadFirst, Voice!pipelineVars, Voice!stageVars
<1>2. /\ ctrl' \in Seq(0 .. MaxVoices) /\ tap' \in 0 .. MaxVoices
      /\ tap' \in {ctrl[i] : i \in DOMAIN ctrl}
      /\ {ctrl'[i] : i \in DOMAIN ctrl'} \subseteq {ctrl[i] : i \in DOMAIN ctrl}
      /\ LastTap' = LastTap
  BY <1>1, CommandObeyed DEF LastTap
<1>3. VoiceTyped' /\ Calling' /\ Alone'
  <2>1. voice_pc \in [Voice!Voices -> {"unborn", "loading", "loop", "ended"}] /\ ready \in [Voice!Voices -> BOOLEAN]
    BY DEF VoiceInv, VoiceTyped
  <2> QED
    BY <2>1, <1>1, <1>2, CallsKept
<1>4. Tapped'
  <2>1. \A v \in {tap'} \cup {ctrl'[i] : i \in DOMAIN ctrl'} : v \in Voice!Voices => closed'[v] \/ v = stage'
    BY <1>1, <1>2 DEF VoiceInv, Tapped
  <2> QED
    BY <2>1, <1>1, <1>2 DEF VoiceInv, Tapped
<1> QED
  BY <1>3, <1>4 DEF VoiceInv

\* A block for the tap: a stage that is gone is tapped no more.
LEMMA TapBlockKeeps == VoiceInv /\ Voice!TapBlock => VoiceInv'
<1> SUFFICES ASSUME VoiceInv, Voice!TapBlock
             PROVE  VoiceInv'
  OBVIOUS
<1>1. /\ capturing /\ ctrl = <<>> /\ tap # 0 /\ tap' = IF closed[tap] THEN 0 ELSE tap
      /\ UNCHANGED <<capturing, voices, stage, active, call, ctrl, mics, voice_pc, ready, isolates, closed, abandoned>>
  BY DEF Voice!TapBlock, Voice!pipelineVars, Voice!stageVars, Voice!None
<1>2. tap \in Voice!Voices /\ tap' \in 0 .. MaxVoices
  BY <1>1, SendingConstants DEF VoiceInv, VoiceTyped, Voice!Voices, Voice!TalkbackConstants
<1>3. VoiceTyped' /\ Calling' /\ Alone'
  <2>1. /\ voice_pc \in [Voice!Voices -> {"unborn", "loading", "loop", "ended"}] /\ ready \in [Voice!Voices -> BOOLEAN]
        /\ ctrl \in Seq(0 .. MaxVoices)
    BY DEF VoiceInv, VoiceTyped
  <2> QED
    BY <2>1, <1>1, <1>2, CallsKept
<1>4. Tapped'
  <2>1. 0 \notin Voice!Voices
    BY DEF Voice!Voices
  <2>2. capturing /\ call = Voice!Idle /\ active /\ stage \notin mics => tap = stage /\ ~closed[tap]
    BY <1>1, <1>2, <2>1 DEF VoiceInv, Tapped, LastTap, Calling, Voice!None
  <2>3. \A v \in {tap'} \cup {ctrl'[i] : i \in DOMAIN ctrl'} : v \in Voice!Voices => closed'[v] \/ v = stage'
    BY <1>1, <2>1 DEF VoiceInv, Tapped
  <2> QED
    BY <2>2, <2>3, <1>1 DEF VoiceInv, Tapped, LastTap
<1> QED
  BY <1>3, <1>4 DEF VoiceInv

\* The steps of the stages and of the microphones.
LEMMA StageKeeps ==
  ASSUME VoiceInv, NEW k \in Voice!Voices,
         Voice!MicBlock(k) \/ Voice!Load(k) \/ Voice!Encode(k) \/ Voice!Finish(k)
  PROVE  VoiceInv'
<1>1. UNCHANGED <<capturing, voices, stage, active, call, ctrl, tap, mics, closed, abandoned>>
  BY DEF Voice!MicBlock, Voice!Load, Voice!Encode, Voice!Finish, Voice!pipelineVars, Voice!tapVars
<1>2. /\ voice_pc' \in [Voice!Voices -> {"unborn", "loading", "loop", "ended"}] /\ ready' \in [Voice!Voices -> BOOLEAN]
      /\ \A j \in Voice!Voices : j > voices => voice_pc'[j] = voice_pc[j]
      /\ \A j \in Voice!Voices : voice_pc'[j] \in {"loading", "loop"} => voice_pc[j] \in {"loading", "loop"}
  <2>0. /\ voice_pc \in [Voice!Voices -> {"unborn", "loading", "loop", "ended"}] /\ ready \in [Voice!Voices -> BOOLEAN]
        /\ \A j \in Voice!Voices : j > voices => voice_pc[j] = "unborn"
    BY DEF VoiceInv, VoiceTyped
  <2>1. CASE Voice!MicBlock(k) \/ Voice!Encode(k)
    BY <2>0, <2>1 DEF Voice!MicBlock, Voice!Encode, Voice!stageVars
  <2>2. CASE Voice!Load(k)
    <3>1. /\ voice_pc[k] = "loading" /\ (ready' = ready \/ ready' = [ready EXCEPT ![k] = TRUE])
          /\ \E at \in {"loop", "ended"} : voice_pc' = [voice_pc EXCEPT ![k] = at]
      BY <2>2 DEF Voice!Load
    <3> QED
      BY <2>0, <3>1
  <2>3. CASE Voice!Finish(k)
    BY <2>0, <2>3 DEF Voice!Finish
  <2> QED
    BY <2>1, <2>2, <2>3
<1>3. VoiceTyped' /\ Calling' /\ Alone'
  <2>1. ctrl \in Seq(0 .. MaxVoices) /\ tap \in 0 .. MaxVoices
    BY DEF VoiceInv, VoiceTyped
  <2> QED
    BY <2>1, <1>1, <1>2, CallsKept
<1>4. Tapped'
  BY <1>1 DEF VoiceInv, Tapped, LastTap
<1> QED
  BY <1>3, <1>4 DEF VoiceInv

\* A capture begins: its talkback, if there is one, has a microphone of its own.
LEMMA StartCaptureKeeps == VoiceInv /\ Voice!StartCapture => VoiceInv'
<1> SUFFICES ASSUME VoiceInv, Voice!StartCapture
             PROVE  VoiceInv'
  OBVIOUS
<1>1. /\ call = Voice!Idle /\ ~capturing /\ capturing' = TRUE
      /\ UNCHANGED <<voices, stage, active, call, ctrl, tap, mics, voice_pc, ready, closed, abandoned>>
  BY DEF Voice!StartCapture, Voice!stageVars, Voice!tapVars
<1>2. VoiceTyped'
  BY <1>1 DEF VoiceInv, VoiceTyped
<1>3. Calling'
  BY <1>1, CallFields DEF VoiceInv, Calling
<1>4. Alone'
  BY <1>1 DEF VoiceInv, Alone
<1>5. Tapped'
  BY <1>1 DEF VoiceInv, Tapped, LastTap
<1> QED
  BY <1>2, <1>3, <1>4, <1>5 DEF VoiceInv

LEMMA VoiceInit == Voice!Init => VoiceInv
<1> SUFFICES ASSUME Voice!Init
             PROVE  VoiceInv
  OBVIOUS
<1> USE SendingConstants DEF Voice!TalkbackConstants, Voice!Init
<1>1. VoiceTyped
  <2>1. ctrl \in Seq(0 .. MaxVoices)
    OBVIOUS
  <2>2. call \in [op : {"none", "join", "await"}, on : 0 .. voices, next : {"nothing", "tap", "mic"}]
    BY DEF Voice!Idle, Voice!None
  <2>3. voice_pc \in [Voice!Voices -> {"unborn", "loading", "loop", "ended"}]
    OBVIOUS
  <2>4. ready \in [Voice!Voices -> BOOLEAN] /\ closed \in [Voice!Voices -> BOOLEAN]
    OBVIOUS
  <2>5. \A k \in Voice!Voices : k > voices => voice_pc[k] = "unborn" /\ ~closed[k]
    OBVIOUS
  <2>6. capturing \in BOOLEAN /\ active \in BOOLEAN /\ abandoned \in SUBSET Voice!Voices
    OBVIOUS
  <2>7. voices \in 0 .. MaxVoices /\ tap \in 0 .. MaxVoices /\ stage \in 0 .. voices
    BY DEF Voice!None
  <2> QED
    BY <2>1, <2>2, <2>3, <2>4, <2>5, <2>6, <2>7, Zenon DEF VoiceTyped
<1>2. Calling
  BY CallFields DEF Calling
<1>3. Alone
  BY DEF Alone
<1>4. Tapped
  <2>1. DOMAIN ctrl = {}
    OBVIOUS
  <2> QED
    BY <2>1 DEF Tapped, Voice!None, Voice!Voices
<1> QED
  BY <1>1, <1>2, <1>3, <1>4 DEF VoiceInv

\* One voice is heard at most, the talkback's present one, and the tap follows it,
\* whatever the order of the calls, of the commands and of the stages' own steps:
\* start_voice_capture, stop_voice, VoiceEncodeStage::drop, capture_stage_loop.
THEOREM OneVoiceIsHeard == Voice!Spec => []OneVoice
<1>1. Voice!Init => VoiceInv
  BY VoiceInit
<1>2. VoiceInv /\ [Voice!Next]_(Voice!vars) => VoiceInv'
  <2> SUFFICES ASSUME VoiceInv, [Voice!Next]_(Voice!vars)
               PROVE  VoiceInv'
    OBVIOUS
  <2>1. CASE Voice!Stop \/ (\E from \in {"tap", "mic"} : Voice!Start(from))
    BY <2>1, StopKeeps
  <2>2. CASE Voice!StartCapture
    BY <2>2, StartCaptureKeeps
  <2>3. CASE Voice!EndCapture
    BY <2>3, EndCaptureKeeps
  <2>4. CASE Voice!StopDone
    BY <2>4, StopDoneKeeps
  <2>5. CASE Voice!Connect
    BY <2>5, ConnectKeeps
  <2>6. CASE Voice!Fail
    BY <2>6, FailKeeps
  <2>7. CASE Voice!Obey
    BY <2>7, ObeyKeeps
  <2>8. CASE Voice!TapBlock
    BY <2>8, TapBlockKeeps
  <2>9. CASE \E k \in Voice!Voices : Voice!MicBlock(k) \/ Voice!Load(k) \/ Voice!Encode(k) \/ Voice!Finish(k)
    BY <2>9, StageKeeps
  <2>10. CASE UNCHANGED Voice!vars
    BY <2>10 DEF Voice!vars, Voice!pipelineVars, Voice!tapVars, Voice!stageVars, VoiceInv, VoiceTyped,
                 Calling, Alone, Tapped, LastTap
  <2> QED
    BY <2>1, <2>2, <2>3, <2>4, <2>5, <2>6, <2>7, <2>8, <2>9, <2>10 DEF Voice!Next
<1>3. VoiceInv => OneVoice
  <2> SUFFICES ASSUME VoiceInv
               PROVE  OneVoice
    OBVIOUS
  <2>1. Voice!OneStage
    BY DEF VoiceInv, Alone, Voice!OneStage
  <2>2. Voice!TapFollows
    <3> SUFFICES ASSUME capturing, ctrl = <<>>, call = Voice!Idle
                 PROVE  /\ active /\ stage \notin mics => tap = stage
                        /\ tap # Voice!None /\ tap # stage => closed[tap]
      BY DEF Voice!TapFollows
    <3>1. active /\ stage \notin mics => tap = stage
      BY DEF VoiceInv, Tapped, LastTap
    <3>2. tap # Voice!None => tap \in Voice!Voices
      BY SendingConstants DEF VoiceInv, VoiceTyped, Voice!Voices, Voice!None, Voice!TalkbackConstants
    <3> QED
      BY <3>1, <3>2 DEF VoiceInv, Tapped
  <2> QED
    BY <2>1, <2>2 DEF OneVoice, Voice!OneVoice
<1> QED
  BY <1>1, <1>2, <1>3, PTL DEF Voice!Spec

-----------------------------------------------------------------------------
(* The files of a recording (Recorder): each whole.                        *)

\* Blocks of a stem that wait in a queue.
Queued(q, s) == Cardinality({i \in DOMAIN q : q[i] = s})

FilePage == [segments : Nat, end : Nat, last : BOOLEAN]
FileState == [buf : 0 .. FrameBlocks - 1, pending : Nat, segments : Nat, packets : Nat, failed : Nat,
              padded : Nat, pages : Seq(FilePage)]

\* The pages of a file being written: full at most, and in order.
Paged(f) ==
  /\ f.segments <= MaxSegments /\ (f.pending = 0 => f.segments = 0)
  /\ \A i \in DOMAIN f.pages :
       ~f.pages[i].last /\ f.pages[i].segments <= MaxSegments /\ f.pages[i].end <= f.packets
  /\ \A i, j \in DOMAIN f.pages : i < j => f.pages[i].end <= f.pages[j].end

\* A file being written, of n blocks: they are in its frames or in the one begun.
Written(f, n) == FrameBlocks * (f.packets + f.failed) + f.buf = n /\ Paged(f)

\* A page that says how many segments it has, or the last, past the table by the padded frame.
Fits(page, padded) == Files!Readable(page) \/ Files!Overfull(page, padded)

\* A file that is finished, of n blocks.
Complete(f, n) ==
  /\ f.packets + f.failed = (n + FrameBlocks - 1) \div FrameBlocks /\ f.buf = 0 /\ f.pending = 0
  /\ f.pages # <<>> /\ f.pages[Len(f.pages)].end = f.packets
  /\ \A i \in DOMAIN f.pages : /\ f.pages[i].last <=> i = Len(f.pages)
                               /\ Fits(f.pages[i], f.padded)
  /\ \A i, j \in DOMAIN f.pages : i < j => f.pages[i].end <= f.pages[j].end

\* One recording: Finalize is the last of its commands, sent once the mixer has let go.
OneRecording(r) ==
  /\ thread[r] = "none" =>
       /\ queue[r] = <<>> /\ stop[r] = "none" /\ recorder # r
       /\ \A s \in Stems : accepted[r][s] = 0 /\ files[r][s] = Files!NewFile
  /\ thread[r] = "gone" => queue[r] = <<>> /\ stop[r] \notin {"none", "send"}
  /\ \A i \in DOMAIN queue[r] :
       queue[r][i] = "Finalize" => i = Len(queue[r]) /\ stop[r] \notin {"none", "send"}
  /\ recorder = r => stop[r] = "none"
  /\ \A s \in Stems : IF thread[r] = "gone" THEN Complete(files[r][s], accepted[r][s])
                      ELSE Written(files[r][s], accepted[r][s] - Queued(queue[r], s))

FilesTyped ==
  /\ recorder \in Files!Recordings \cup {0} /\ tx \in {0, recorder}
  /\ queue \in [Files!Recordings -> Seq(Stems \cup {"Finalize"})]
  /\ thread \in [Files!Recordings -> {"none", "runs", "stuck", "gone"}]
  /\ stop \in [Files!Recordings -> {"none", "send", "wait", "files", "nothing"}]
  /\ accepted \in [Files!Recordings -> [Stems -> Nat]]
  /\ files \in [Files!Recordings -> [Stems -> FileState]]
FilesInv == FilesTyped /\ \A r \in Files!Recordings : OneRecording(r)

\* Blocks to frames: every frame but the last is full.
LEMMA FramesOf ==
  ASSUME NEW F \in Nat \ {0}, NEW q \in Nat, NEW b \in 0 .. F - 1
  PROVE  (F * q + b + F - 1) \div F = IF b = 0 THEN q ELSE q + 1
<1> DEFINE n == F * q + b + F - 1
<1> DEFINE d == n \div F
<1> DEFINE e == IF b = 0 THEN q ELSE q + 1
<1>1. F * q \in Nat /\ n \in Nat /\ d \in Int /\ e \in Nat /\ F \in Nat /\ F > 0
  OBVIOUS
<1>2. \A m \in Nat : F * (m \div F) + (m % F) = m /\ m % F \in 0 .. F - 1 /\ m \div F \in Int
  OBVIOUS
<1>3. PICK r \in 0 .. F - 1 : F * d + r = n
  BY <1>1, <1>2
<1>4. PICK t \in 0 .. F - 1 : F * e + t = n
  <2>1. CASE b = 0
    BY <2>1
  <2>2. CASE b # 0
    <3>1. F * (q + 1) = F * q + F
      OBVIOUS
    <3> QED
      BY <2>2, <3>1
  <2> QED
    BY <2>1, <2>2
<1>5. \A x, y \in Int : x > y => F * x >= F * y + F
  <2> SUFFICES ASSUME NEW x \in Int, NEW y \in Int, x > y
               PROVE  F * x >= F * y + F
    OBVIOUS
  <2>1. x - y - 1 \in Nat /\ F * (x - y - 1) >= 0
    OBVIOUS
  <2>2. F * (x - y - 1) = F * x - F * y - F
    OBVIOUS
  <2> QED
    BY <2>1, <2>2
<1>6. F * d \in Int /\ F * e \in Int
  BY <1>1
<1>7. ~(d > e) /\ ~(e > d)
  <2> HIDE DEF d, e, n
  <2> QED
    BY <1>1, <1>3, <1>4, <1>5, <1>6
<1>8. d = e
  <2> HIDE DEF d, e, n
  <2> QED
    BY <1>1, <1>7
<1> QED
  BY <1>8

\* One more at the end of a sequence.
LEMMA Lengthened ==
  ASSUME NEW S, NEW q \in Seq(S), NEW x \in S
  PROVE  /\ Append(q, x) \in Seq(S) /\ Append(q, x) # <<>> /\ Len(q) \in Nat
         /\ Len(Append(q, x)) = Len(q) + 1 /\ DOMAIN Append(q, x) = 1 .. Len(q) + 1 /\ DOMAIN q = 1 .. Len(q)
         /\ \A i \in DOMAIN q : Append(q, x)[i] = q[i] /\ i < Len(q) + 1 /\ i \in DOMAIN Append(q, x)
         /\ Append(q, x)[Len(q) + 1] = x
         /\ \A i \in DOMAIN Append(q, x) : i \in DOMAIN q \/ i = Len(q) + 1
OBVIOUS

\* The fields of a file.
LEMMA FileFields ==
  ASSUME NEW f \in FileState
  PROVE  /\ f.buf \in 0 .. FrameBlocks - 1 /\ f.pending \in Nat /\ f.segments \in Nat /\ f.packets \in Nat
         /\ f.failed \in Nat /\ f.pages \in Seq(FilePage)
BY DEF FileState

LEMMA BlockBegun ==
  ASSUME NEW f \in FileState, NEW b \in 0 .. FrameBlocks - 1
  PROVE  LET g == [f EXCEPT !.buf = b]
         IN  /\ g \in FileState /\ g.buf = b /\ g.pending = f.pending /\ g.segments = f.segments
             /\ g.packets = f.packets /\ g.failed = f.failed /\ g.pages = f.pages
BY DEF FileState

LEMMA FrameFailed ==
  ASSUME NEW f \in FileState, NEW b \in Nat
  PROVE  LET g == [f EXCEPT !.failed = b]
         IN  /\ g \in FileState /\ g.buf = f.buf /\ g.pending = f.pending /\ g.segments = f.segments
             /\ g.packets = f.packets /\ g.failed = b /\ g.pages = f.pages
BY DEF FileState

LEMMA PacketKept ==
  ASSUME NEW f \in FileState, NEW size \in Nat
  PROVE  LET g == Files!AddPacket(f, size)
         IN  /\ g \in FileState /\ g.buf = f.buf /\ g.pending = f.pending + 1 /\ g.segments = f.segments + size
             /\ g.packets = f.packets + 1 /\ g.failed = f.failed /\ g.pages = f.pages
<1>1. f.pending + 1 \in Nat /\ f.segments + size \in Nat /\ f.packets + 1 \in Nat
  BY FileFields
<1> QED
  BY <1>1 DEF Files!AddPacket, FileState

LEMMA PageEnds ==
  ASSUME NEW f \in FileState, NEW i \in DOMAIN f.pages
  PROVE  f.pages[i].end \in Nat
<1>1. f.pages \in Seq(FilePage)
  BY DEF FileState
<1>2. f.pages[i] \in FilePage
  BY <1>1
<1> QED
  BY <1>2 DEF FilePage

\* A page is written: the file goes on with an empty one.
LEMMA PageWritten ==
  ASSUME NEW f \in FileState, Paged(f)
  PROVE  LET g == Files!FlushPage(f, FALSE)
         IN  /\ g \in FileState /\ Paged(g) /\ g.pending = 0
             /\ g.buf = f.buf /\ g.packets = f.packets /\ g.failed = f.failed
<1> DEFINE page == [segments |-> f.segments, end |-> f.packets, last |-> FALSE]
<1> DEFINE h == [f EXCEPT !.pending = 0, !.segments = 0, !.pages = Append(@, page)]
<1>1. CASE f.pending = 0
  <2>1. Files!FlushPage(f, FALSE) = f
    BY <1>1 DEF Files!FlushPage
  <2> QED
    BY <2>1, <1>1
<1>2. CASE f.pending # 0
  <2>1. Files!FlushPage(f, FALSE) = h
    BY <1>2 DEF Files!FlushPage
  <2>2. page \in FilePage /\ page.segments = f.segments /\ page.end = f.packets /\ page.last = FALSE
    BY FileFields DEF FilePage
  <2>3. /\ h.buf = f.buf /\ h.packets = f.packets /\ h.failed = f.failed /\ h.pending = 0 /\ h.segments = 0
        /\ h.pages = Append(f.pages, page)
    BY DEF FileState
  <2>4. f.pages \in Seq(FilePage)
    BY FileFields
  <2> HIDE DEF page
  <2>5. h.pages \in Seq(FilePage)
    BY <2>2, <2>3, <2>4, Lengthened
  <2>6. h \in FileState
    <3>1. Append(f.pages, page) \in Seq(FilePage)
      BY <2>2, <2>4, Lengthened
    <3> QED
      BY <3>1 DEF FileState
  <2> HIDE DEF h
  <2>7. Paged(h)
    <3>1. h.segments <= MaxSegments
      BY <2>3, SendingConstants DEF Files!RecorderConstants
    <3>2. ASSUME NEW i \in DOMAIN h.pages
          PROVE  ~h.pages[i].last /\ h.pages[i].segments <= MaxSegments /\ h.pages[i].end <= h.packets
      <4>1. CASE i \in DOMAIN f.pages
        BY <4>1, <2>2, <2>3, <2>4, Lengthened DEF Paged
      <4>2. CASE i = Len(f.pages) + 1
        <5>1. h.pages[i] = page
          BY <4>2, <2>2, <2>3, <2>4, Lengthened
        <5> QED
          BY <5>1, <2>2, <2>3, FileFields DEF Paged
      <4> QED
        BY <4>1, <4>2, <2>2, <2>3, <2>4, Lengthened
    <3>3. ASSUME NEW i \in DOMAIN h.pages, NEW j \in DOMAIN h.pages, i < j
          PROVE  h.pages[i].end <= h.pages[j].end
      <4>1. i \in DOMAIN f.pages
        BY <3>3, <2>2, <2>3, <2>4, Lengthened
      <4>2. h.pages[i] = f.pages[i]
        BY <4>1, <2>2, <2>3, <2>4, Lengthened
      <4>3. CASE j \in DOMAIN f.pages
        <5>1. h.pages[j] = f.pages[j]
          BY <4>3, <2>2, <2>3, <2>4, Lengthened
        <5> QED
          BY <5>1, <4>1, <4>2, <4>3, <3>3 DEF Paged
      <4>4. CASE j = Len(f.pages) + 1
        <5>1. h.pages[j] = page
          BY <4>4, <2>2, <2>3, <2>4, Lengthened
        <5> QED
          BY <5>1, <4>1, <4>2, <2>2 DEF Paged
      <4> QED
        BY <4>3, <4>4, <2>2, <2>3, <2>4, Lengthened
    <3> QED
      BY <3>1, <3>2, <3>3, <2>3 DEF Paged
  <2> QED
    BY <2>1, <2>3, <2>6, <2>7
<1> QED
  BY <1>1, <1>2

\* A packet joins the page, or begins the next one if it would overflow.
LEMMA PacketAdded ==
  ASSUME NEW f \in FileState, Paged(f), NEW size \in Sizes
  PROVE  LET g == Files!AddPacket(Files!MakeRoom(f, size), size)
         IN  /\ g \in FileState /\ Paged(g) /\ g.pending # 0
             /\ g.buf = f.buf /\ g.packets = f.packets + 1 /\ g.failed = f.failed
<1> USE SendingConstants DEF Files!RecorderConstants
<1> DEFINE m == Files!MakeRoom(f, size)
<1>1. size \in Nat /\ size <= MaxSegments
  OBVIOUS
<1>2. /\ m \in FileState /\ Paged(m) /\ m.buf = f.buf /\ m.packets = f.packets /\ m.failed = f.failed
      /\ m.segments + size <= MaxSegments
  <2>1. CASE f.pending # 0 /\ f.segments + size > MaxSegments
    <3>1. m = Files!FlushPage(f, FALSE)
      BY <2>1 DEF Files!MakeRoom
    <3>2. m.pending = 0 /\ Paged(m) /\ m \in FileState
      BY <3>1, PageWritten
    <3>3. m.buf = f.buf /\ m.packets = f.packets /\ m.failed = f.failed
      BY <3>1, PageWritten
    <3>4. m.segments = 0
      BY <3>2 DEF Paged
    <3> QED
      BY <3>2, <3>3, <3>4, <1>1
  <2>2. CASE ~(f.pending # 0 /\ f.segments + size > MaxSegments)
    <3>1. m = f
      BY <2>2 DEF Files!MakeRoom
    <3>2. f.pending \in Nat /\ f.segments \in Nat
      BY FileFields
    <3> QED
      BY <3>1, <3>2, <2>2, <1>1 DEF Paged
  <2> QED
    BY <2>1, <2>2
<1> HIDE DEF m
<1> DEFINE g == Files!AddPacket(m, size)
<1>4. m.pending \in Nat /\ m.segments \in Nat /\ m.packets \in Nat
  BY <1>2, FileFields
<1>5. /\ g \in FileState /\ g.buf = m.buf /\ g.packets = m.packets + 1 /\ g.failed = m.failed
      /\ g.pending = m.pending + 1 /\ g.segments = m.segments + size /\ g.pages = m.pages
  BY <1>1, <1>2, PacketKept
<1> HIDE DEF g
<1>7. Paged(g)
  <2>1. \A i \in DOMAIN m.pages : m.pages[i].end \in Nat
    BY <1>2, PageEnds
  <2> QED
    BY <2>1, <1>1, <1>2, <1>4, <1>5 DEF Paged
<1> QED
  BY <1>2, <1>4, <1>5, <1>7 DEF m, g

\* push_samples: a block more.
LEMMA BlockPushed ==
  ASSUME NEW f \in FileState, NEW n \in Nat, Written(f, n), NEW size \in Files!Encoded
  PROVE  Files!PushBlock(f, size) \in FileState /\ Written(Files!PushBlock(f, size), n + 1)
<1> USE SendingConstants DEF Files!RecorderConstants
<1> DEFINE full == [f EXCEPT !.buf = 0]
<1>1. /\ full \in FileState /\ full.buf = 0 /\ full.packets = f.packets /\ full.failed = f.failed
      /\ full.segments = f.segments /\ full.pending = f.pending /\ full.pages = f.pages
  <2>1. 0 \in 0 .. FrameBlocks - 1
    OBVIOUS
  <2> QED
    BY <2>1, BlockBegun
<1>2. Paged(full)
  <2> HIDE DEF full
  <2> QED
    BY <1>1 DEF Written, Paged
<1>3. f.buf \in 0 .. FrameBlocks - 1 /\ f.packets \in Nat /\ f.failed \in Nat
      /\ FrameBlocks * (f.packets + f.failed) + f.buf = n
  BY FileFields DEF Written
<1>4. \A k \in Nat : FrameBlocks * (k + 1) = FrameBlocks * k + FrameBlocks
  OBVIOUS
<1>5. f.buf + 1 >= FrameBlocks => FrameBlocks * (f.packets + f.failed + 1) + 0 = n + 1
  BY <1>3, <1>4
<1>6. CASE f.buf + 1 < FrameBlocks
  <2> DEFINE g == [f EXCEPT !.buf = @ + 1]
  <2>1. Files!PushBlock(f, size) = g
    BY <1>6 DEF Files!PushBlock
  <2>2. /\ g \in FileState /\ g.buf = f.buf + 1 /\ g.packets = f.packets /\ g.failed = f.failed
        /\ g.segments = f.segments /\ g.pending = f.pending /\ g.pages = f.pages
    <3>1. f.buf + 1 \in 0 .. FrameBlocks - 1 /\ g = [f EXCEPT !.buf = f.buf + 1]
      BY <1>3, <1>6
    <3> HIDE DEF g
    <3> QED
      BY <3>1, BlockBegun
  <2> HIDE DEF g
  <2> QED
    BY <2>1, <2>2, <1>3 DEF Written, Paged
<1>7. CASE ~(f.buf + 1 < FrameBlocks) /\ size = 0
  <2> DEFINE g == [full EXCEPT !.failed = @ + 1]
  <2>1. Files!PushBlock(f, size) = g
    BY <1>7 DEF Files!PushBlock
  <2>2. /\ g \in FileState /\ g.buf = 0 /\ g.packets = f.packets /\ g.failed = f.failed + 1
        /\ g.segments = f.segments /\ g.pending = f.pending /\ g.pages = f.pages
    <3>1. g = [full EXCEPT !.failed = full.failed + 1] /\ f.failed + 1 \in Nat
      BY <1>3
    <3> HIDE DEF full, g
    <3> QED
      BY <3>1, <1>1, FrameFailed
  <2> HIDE DEF g, full
  <2>3. f.packets + (f.failed + 1) = f.packets + f.failed + 1
    BY <1>3
  <2> QED
    BY <2>1, <2>2, <2>3, <1>3, <1>5, <1>7 DEF Written, Paged
<1>8. CASE ~(f.buf + 1 < FrameBlocks) /\ size # 0
  <2> DEFINE g == Files!AddPacket(Files!MakeRoom(full, size), size)
             h == IF g.pending >= PACKETS_PER_PAGE THEN Files!FlushPage(g, FALSE) ELSE g
  <2>1. Files!PushBlock(f, size) = h
    BY <1>8 DEF Files!PushBlock
  <2>2. size \in Sizes
    BY <1>8 DEF Files!Encoded
  <2> HIDE DEF full
  <2>3. g \in FileState /\ Paged(g) /\ g.buf = 0 /\ g.packets = f.packets + 1 /\ g.failed = f.failed
    BY <2>2, <1>1, <1>2, PacketAdded
  <2> HIDE DEF g
  <2>4. h \in FileState /\ Paged(h) /\ h.buf = 0 /\ h.packets = f.packets + 1 /\ h.failed = f.failed
    BY <2>3, PageWritten
  <2> HIDE DEF h
  <2>5. f.packets + 1 + f.failed = f.packets + f.failed + 1
    BY <1>3
  <2> QED
    BY <2>1, <2>4, <2>5, <1>3, <1>5, <1>8 DEF Written
<1> QED
  BY <1>6, <1>7, <1>8

\* The last page of a file.
LEMMA LastPage ==
  ASSUME NEW f \in FileState, \A i \in DOMAIN f.pages :
           ~f.pages[i].last /\ f.pages[i].segments <= MaxSegments /\ f.pages[i].end <= f.packets,
         f.segments <= MaxSegments \/ (f.padded # 0 /\ f.segments <= MaxSegments + f.padded),
         \A i, j \in DOMAIN f.pages : i < j => f.pages[i].end <= f.pages[j].end
  PROVE  LET g == Files!FlushPage(f, TRUE)
         IN  /\ g \in FileState /\ g.buf = f.buf /\ g.packets = f.packets /\ g.failed = f.failed /\ g.pending = 0
             /\ g.pages # <<>> /\ g.pages[Len(g.pages)].end = g.packets
             /\ \A i \in DOMAIN g.pages : /\ g.pages[i].last <=> i = Len(g.pages)
                                          /\ Fits(g.pages[i], g.padded)
             /\ \A i, j \in DOMAIN g.pages : i < j => g.pages[i].end <= g.pages[j].end
<1> DEFINE page == [segments |-> f.segments, end |-> f.packets, last |-> TRUE]
<1> DEFINE g == [f EXCEPT !.pending = 0, !.segments = 0, !.pages = Append(@, page)]
<1>1. Files!FlushPage(f, TRUE) = g
  BY DEF Files!FlushPage
<1>2. page \in FilePage /\ page.segments = f.segments /\ page.end = f.packets /\ page.last = TRUE
  BY FileFields DEF FilePage
<1>3. /\ g.buf = f.buf /\ g.packets = f.packets /\ g.failed = f.failed /\ g.pending = 0
      /\ g.pages = Append(f.pages, page) /\ g.padded = f.padded
  BY DEF FileState
<1>4. f.pages \in Seq(FilePage) /\ f.packets \in Nat
  BY FileFields
<1> HIDE DEF page
<1>5. g \in FileState
  <2>1. Append(f.pages, page) \in Seq(FilePage)
    BY <1>2, <1>4, Lengthened
  <2> QED
    BY <2>1 DEF FileState
<1> HIDE DEF g
<1>6. /\ g.pages # <<>> /\ Len(g.pages) = Len(f.pages) + 1 /\ g.pages[Len(g.pages)] = page /\ Len(f.pages) \in Nat
      /\ DOMAIN f.pages = 1 .. Len(f.pages)
      /\ \A i \in DOMAIN f.pages : g.pages[i] = f.pages[i] /\ i < Len(g.pages)
      /\ \A i \in DOMAIN g.pages : i \in DOMAIN f.pages \/ i = Len(g.pages)
  BY <1>2, <1>3, <1>4, Lengthened
<1>7. ASSUME NEW i \in DOMAIN g.pages
      PROVE  /\ g.pages[i].last <=> i = Len(g.pages)
             /\ Fits(g.pages[i], g.padded)
  BY <1>2, <1>3, <1>6 DEF Fits, Files!Readable, Files!Overfull
<1>8. ASSUME NEW i \in DOMAIN g.pages, NEW j \in DOMAIN g.pages, i < j
      PROVE  g.pages[i].end <= g.pages[j].end
  <2>1. i \in DOMAIN f.pages
    <3>1. DOMAIN g.pages = 1 .. Len(g.pages)
      BY <1>2, <1>3, <1>4, <1>6, Lengthened
    <3> QED
      BY <1>6, <1>8, <3>1
  <2> QED
    BY <2>1, <1>2, <1>6, <1>8
<1> QED
  BY <1>1, <1>2, <1>3, <1>5, <1>6, <1>7, <1>8

\* finalize: what is left is padded to a frame; it is the last page.
LEMMA FileCompleted ==
  ASSUME NEW f \in FileState, NEW n \in Nat, Written(f, n), NEW size \in Files!Encoded
  PROVE  Files!Finished(f, size) \in FileState /\ Complete(Files!Finished(f, size), n)
<1> USE SendingConstants DEF Files!RecorderConstants
<1>1. f.buf \in 0 .. FrameBlocks - 1 /\ f.packets \in Nat /\ f.failed \in Nat
      /\ FrameBlocks * (f.packets + f.failed) + f.buf = n
  BY FileFields DEF Written
<1>2. (n + FrameBlocks - 1) \div FrameBlocks
        = IF f.buf = 0 THEN f.packets + f.failed ELSE f.packets + f.failed + 1
  <2>1. f.packets + f.failed \in Nat
    BY <1>1
  <2> QED
    BY <2>1, <1>1, FramesOf
<1>3. PICK g \in FileState :
        /\ Files!Finished(f, size) = Files!FlushPage(g, TRUE)
        /\ g.buf = 0 /\ g.pages = f.pages /\ g.packets \in Nat /\ g.failed \in Nat /\ g.packets >= f.packets
        /\ g.segments <= MaxSegments \/ (g.padded # 0 /\ g.segments <= MaxSegments + g.padded)
        /\ g.packets + g.failed = (n + FrameBlocks - 1) \div FrameBlocks
  <2> DEFINE padded == [f EXCEPT !.buf = 0]
  <2>0. f.segments <= MaxSegments
    BY DEF Written, Paged
  <2>1. /\ padded \in FileState /\ padded.buf = 0 /\ padded.packets = f.packets /\ padded.failed = f.failed
        /\ padded.segments = f.segments /\ padded.pending = f.pending /\ padded.pages = f.pages
    <3>1. 0 \in 0 .. FrameBlocks - 1
      OBVIOUS
    <3> QED
      BY <3>1, BlockBegun
  <2>2. CASE f.buf = 0
    <3>1. Files!Finished(f, size) = Files!FlushPage(f, TRUE)
      BY <2>2 DEF Files!Finished
    <3>2. f.packets + f.failed = (n + FrameBlocks - 1) \div FrameBlocks /\ f.packets >= f.packets
      BY <2>2, <1>1, <1>2
    <3> QED
      BY <3>1, <3>2, <2>2, <2>0, <1>1
  <2>3. CASE f.buf # 0 /\ size = 0
    <3> DEFINE g == [padded EXCEPT !.failed = @ + 1]
    <3>1. Files!Finished(f, size) = Files!FlushPage(g, TRUE)
      BY <2>3 DEF Files!Finished
    <3> HIDE DEF padded
    <3>2. /\ g \in FileState /\ g.buf = 0 /\ g.pages = f.pages /\ g.packets = f.packets /\ g.failed = f.failed + 1
          /\ g.segments = f.segments
      <4>1. g = [padded EXCEPT !.failed = padded.failed + 1] /\ f.failed + 1 \in Nat
        BY <1>1
      <4> HIDE DEF g
      <4> QED
        BY <4>1, <2>1, FrameFailed
    <3> HIDE DEF g
    <3>3. g.packets + g.failed = (n + FrameBlocks - 1) \div FrameBlocks /\ g.packets >= f.packets
          /\ g.packets \in Nat /\ g.failed \in Nat
      BY <3>2, <2>3, <1>1, <1>2
    <3> QED
      BY <3>1, <3>2, <3>3, <2>0
  <2>4. CASE f.buf # 0 /\ size # 0
    <3> DEFINE k == Files!AddPacket(padded, size)
               g == [k EXCEPT !.padded = size]
    <3>1. Files!Finished(f, size) = Files!FlushPage(g, TRUE)
      BY <2>4 DEF Files!Finished
    <3>2. size \in Nat /\ size # 0 /\ MaxSegments \in Nat /\ f.segments \in Nat
      BY <2>4, FileFields DEF Files!Encoded
    <3> HIDE DEF padded
    <3>3. /\ k \in FileState /\ k.buf = 0 /\ k.pages = f.pages /\ k.packets = f.packets + 1 /\ k.failed = f.failed
          /\ k.segments = f.segments + size
      <4>1. /\ k \in FileState /\ k.buf = padded.buf /\ k.pages = padded.pages
            /\ k.packets = padded.packets + 1 /\ k.failed = padded.failed /\ k.segments = padded.segments + size
        BY <2>1, <3>2, PacketKept
      <4> HIDE DEF k
      <4> QED
        BY <4>1, <2>1
    <3> HIDE DEF k
    <3>4. /\ g \in FileState /\ g.buf = k.buf /\ g.pages = k.pages /\ g.packets = k.packets /\ g.failed = k.failed
          /\ g.segments = k.segments /\ g.padded = size
      BY <3>2, <3>3 DEF FileState
    <3> HIDE DEF g
    <3>5. g.packets + g.failed = (n + FrameBlocks - 1) \div FrameBlocks /\ g.packets >= f.packets
          /\ g.packets \in Nat /\ g.failed \in Nat
      BY <3>3, <3>4, <2>4, <1>1, <1>2
    <3>6. g.padded # 0 /\ g.segments <= MaxSegments + g.padded
      BY <2>0, <3>2, <3>3, <3>4
    <3> QED
      BY <3>1, <3>3, <3>4, <3>5, <3>6
  <2> QED
    BY <2>2, <2>3, <2>4
<1>4. \A i \in DOMAIN f.pages : ~f.pages[i].last /\ f.pages[i].segments <= MaxSegments /\ f.pages[i].end <= g.packets
  <2>1. \A i \in DOMAIN f.pages : f.pages[i].end \in Nat
    BY PageEnds
  <2> QED
    BY <2>1, <1>1, <1>3 DEF Written, Paged
<1>5. \A i, j \in DOMAIN f.pages : i < j => f.pages[i].end <= f.pages[j].end
  BY DEF Written, Paged
<1> DEFINE h == Files!FlushPage(g, TRUE)
<1>6. /\ h \in FileState /\ h.buf = g.buf /\ h.packets = g.packets /\ h.failed = g.failed /\ h.pending = 0
      /\ h.pages # <<>> /\ h.pages[Len(h.pages)].end = h.packets
      /\ \A i \in DOMAIN h.pages : /\ h.pages[i].last <=> i = Len(h.pages)
                                   /\ Fits(h.pages[i], h.padded)
      /\ \A i, j \in DOMAIN h.pages : i < j => h.pages[i].end <= h.pages[j].end
  BY <1>3, <1>4, <1>5, LastPage
<1> HIDE DEF h
<1>7. Files!Finished(f, size) = h
  BY <1>3 DEF h
<1> QED
  BY <1>3, <1>6, <1>7 DEF Complete

\* Blocks that wait: one more at the end, one less at the head, or none of that stem.
LEMMA NoneQueued == \A s : Queued(<<>>, s) = 0
<1>1. \A s : {i \in DOMAIN <<>> : <<>>[i] = s} = {}
  OBVIOUS
<1> QED
  BY <1>1, FS_EmptySet DEF Queued

LEMMA QueuedFinite ==
  ASSUME NEW S, NEW q \in Seq(S), NEW s
  PROVE  IsFiniteSet({i \in DOMAIN q : q[i] = s}) /\ Queued(q, s) \in Nat
<1>1. DOMAIN q = 1 .. Len(q) /\ Len(q) \in Nat
  OBVIOUS
<1>2. IsFiniteSet(1 .. Len(q))
  BY <1>1, FS_Interval
<1>3. {i \in DOMAIN q : q[i] = s} \in SUBSET (1 .. Len(q))
  BY <1>1
<1>4. IsFiniteSet({i \in DOMAIN q : q[i] = s})
  BY <1>2, <1>3, FS_Subset
<1> QED
  BY <1>4, FS_CardinalityType DEF Queued

LEMMA QueuedAppended ==
  ASSUME NEW S, NEW q \in Seq(S), NEW x \in S, NEW s
  PROVE  Queued(Append(q, x), s) = IF x = s THEN Queued(q, s) + 1 ELSE Queued(q, s)
<1> DEFINE old == {i \in DOMAIN q : q[i] = s}
           new == {i \in DOMAIN Append(q, x) : Append(q, x)[i] = s}
<1>1. new = IF x = s THEN old \cup {Len(q) + 1} ELSE old
  BY Lengthened
<1>2. Len(q) + 1 \notin old
  BY Lengthened
<1>3. IsFiniteSet(old)
  BY QueuedFinite
<1>4. Cardinality(old \cup {Len(q) + 1}) = Cardinality(old) + 1
  BY <1>2, <1>3, FS_AddElement
<1>5. Queued(q, s) = Cardinality(old) /\ Queued(Append(q, x), s) = Cardinality(new)
  BY DEF Queued
<1> QED
  BY <1>1, <1>4, <1>5

LEMMA QueuedTaken ==
  ASSUME NEW S, NEW q \in Seq(S), q # <<>>, NEW s
  PROVE  Queued(Tail(q), s) = IF Head(q) = s THEN Queued(q, s) - 1 ELSE Queued(q, s)
<1> DEFINE old  == {i \in DOMAIN q : q[i] = s}
           new  == {i \in DOMAIN Tail(q) : Tail(q)[i] = s}
           left == old \ {1}
           f    == [i \in new |-> i + 1]
<1>1. /\ Len(q) \in Nat \ {0} /\ DOMAIN q = 1 .. Len(q) /\ DOMAIN Tail(q) = 1 .. Len(q) - 1 /\ Head(q) = q[1]
      /\ \A i \in DOMAIN Tail(q) : Tail(q)[i] = q[i + 1]
  OBVIOUS
<1>2. IsFiniteSet(old) /\ IsFiniteSet(new)
  <2>1. Tail(q) \in Seq(S)
    OBVIOUS
  <2> QED
    BY <2>1, QueuedFinite
<1>3. Cardinality(left) = IF 1 \in old THEN Cardinality(old) - 1 ELSE Cardinality(old)
  BY <1>2, FS_RemoveElement
<1>4. f \in Bijection(new, left)
  <2>1. ASSUME NEW i \in new
        PROVE  i + 1 \in left /\ i \in Nat
    BY <1>1
  <2>2. ASSUME NEW j \in left
        PROVE  \E i \in new : i + 1 = j
    <3>1. j - 1 \in new /\ j - 1 + 1 = j
      BY <1>1
    <3> QED
      BY <3>1
  <2>3. f \in [new -> left] /\ \A i \in new : f[i] = i + 1
    BY <2>1
  <2> HIDE DEF new, left, f
  <2>4. \A i, j \in new : f[i] = f[j] => i = j
    BY <2>1, <2>3
  <2>5. \A j \in left : \E i \in new : f[i] = j
    BY <2>2, <2>3
  <2> QED
    BY <2>3, <2>4, <2>5, Fun_IsBij
<1>5. Cardinality(left) = Cardinality(new)
  <2>1. ExistsBijection(new, left)
    BY <1>4 DEF ExistsBijection
  <2> QED
    BY <2>1, <1>2, FS_Bijection
<1>6. Queued(q, s) = Cardinality(old) /\ Queued(Tail(q), s) = Cardinality(new)
  BY DEF Queued
<1>7. 1 \in old <=> Head(q) = s
  BY <1>1
<1> QED
  BY <1>3, <1>5, <1>6, <1>7

\* The taps: what enters the queue of the mixer's sender is of a recording that goes on.
LEMMA TapKeeps ==
  ASSUME FilesInv, NEW s \in Stems, Files!LookAtGate(s) \/ Files!RecordSend(s)
  PROVE  FilesInv'
<1> USE SendingConstants DEF Files!RecorderConstants
<1>1. UNCHANGED <<recorder, tx, thread, files, stop>>
  BY DEF Files!LookAtGate, Files!RecordSend, Files!fileVars
<1>2. CASE UNCHANGED <<queue, accepted>>
  <2>1. FilesTyped'
    BY <1>1, <1>2 DEF FilesInv, FilesTyped
  <2>2. \A r \in Files!Recordings : OneRecording(r)'
    BY <1>1, <1>2 DEF FilesInv, OneRecording
  <2> QED
    BY <2>1, <2>2 DEF FilesInv
<1>3. CASE /\ tx # 0 /\ Files!HasRoom(tx)
           /\ queue' = [queue EXCEPT ![tx] = Append(@, s)]
           /\ accepted' = [accepted EXCEPT ![tx][s] = @ + 1]
  <2>1. /\ tx \in Files!Recordings /\ tx = recorder /\ thread[tx] # "gone" /\ thread[tx] # "none" /\ stop[tx] = "none"
        /\ queue[tx] \in Seq(Stems \cup {"Finalize"}) /\ accepted[tx] \in [Stems -> Nat]
    BY <1>3 DEF FilesInv, FilesTyped, OneRecording, Files!HasRoom
  <2> DEFINE q == queue[tx]
             n == accepted[tx]
  <2>2. /\ queue'[tx] = Append(q, s) /\ accepted'[tx] = [n EXCEPT ![s] = @ + 1]
        /\ \A r \in Files!Recordings : r # tx => queue'[r] = queue[r] /\ accepted'[r] = accepted[r]
    BY <1>3, <2>1 DEF FilesInv, FilesTyped
  <2>3. FilesTyped'
    <3>1. Append(q, s) \in Seq(Stems \cup {"Finalize"})
      BY <2>1
    <3>2. queue' \in [Files!Recordings -> Seq(Stems \cup {"Finalize"})]
      BY <3>1, <1>3, <2>1 DEF FilesInv, FilesTyped
    <3>3. accepted' \in [Files!Recordings -> [Stems -> Nat]]
      BY <1>3, <2>1 DEF FilesInv, FilesTyped
    <3> QED
      BY <3>2, <3>3, <1>1 DEF FilesInv, FilesTyped
  <2>4. ASSUME NEW r \in Files!Recordings
        PROVE  OneRecording(r)'
    <3>1. CASE r # tx
      BY <3>1, <1>1, <2>2 DEF FilesInv, OneRecording
    <3>2. CASE r = tx
      <4>1. \A i \in DOMAIN queue'[r] : queue'[r][i] # "Finalize"
        <5>1. \A i \in DOMAIN q : q[i] # "Finalize"
          BY <2>1 DEF FilesInv, OneRecording
        <5>2. s # "Finalize"
          OBVIOUS
        <5>3. \A i \in DOMAIN Append(q, s) : Append(q, s)[i] # "Finalize"
          BY <5>1, <5>2, <2>1, Lengthened
        <5>4. queue'[r] = Append(q, s)
          BY <2>2, <3>2
        <5> QED
          BY <5>3, <5>4
      <4>2. \A t \in Stems : Written(files[r][t], accepted[r][t] - Queued(queue[r], t))
        BY <2>1, <3>2 DEF FilesInv, OneRecording
      <4>3. ASSUME NEW t \in Stems
            PROVE  accepted'[r][t] - Queued(queue'[r], t) = accepted[r][t] - Queued(queue[r], t)
        <5>1. Queued(q, t) \in Nat /\ n[t] \in Nat
          BY <2>1, QueuedFinite
        <5>2. Queued(Append(q, s), t) = IF s = t THEN Queued(q, t) + 1 ELSE Queued(q, t)
          BY <2>1, QueuedAppended
        <5>3. accepted'[r][t] = IF s = t THEN n[t] + 1 ELSE n[t]
          BY <2>1, <2>2, <3>2
        <5>4. queue'[r] = Append(q, s) /\ queue[r] = q /\ accepted[r][t] = n[t]
          BY <2>2, <3>2
        <5>5. Queued(queue'[r], t) = Queued(Append(q, s), t) /\ Queued(queue[r], t) = Queued(q, t)
          BY <5>4
        <5>6. CASE s = t
          <6>1. accepted'[r][t] = n[t] + 1 /\ Queued(queue'[r], t) = Queued(q, t) + 1
            BY <5>2, <5>3, <5>5, <5>6
          <6>2. \A x, y \in Nat : (x + 1) - (y + 1) = x - y
            OBVIOUS
          <6>3. (n[t] + 1) - (Queued(q, t) + 1) = n[t] - Queued(q, t)
            BY <5>1, <6>2, Zenon
          <6> QED
            BY <6>1, <6>3, <5>4, <5>5, Zenon
        <5>7. CASE s # t
          BY <5>2, <5>3, <5>4, <5>5, <5>7, Zenon
        <5> QED
          BY <5>6, <5>7
      <4>4. \A t \in Stems : Written(files'[r][t], accepted'[r][t] - Queued(queue'[r], t))
        BY <4>2, <4>3, <1>1
      <4> QED
        BY <4>1, <4>4, <1>1, <2>1, <3>2 DEF FilesInv, OneRecording
    <3> QED
      BY <3>1, <3>2
  <2> QED
    BY <2>3, <2>4 DEF FilesInv
<1> QED
  BY <1>2, <1>3 DEF Files!LookAtGate, Files!RecordSend

\* The pipeline's steps: a start takes a recording that never was, a stop lets go of the sender.
LEMMA PipelineKeeps ==
  ASSUME FilesInv, NEW r \in Files!Recordings,
         \/ Files!StartRecording(r) \/ (\E leaves \in BOOLEAN : Files!TakeRecorder(r, leaves))
         \/ Files!OpenGate \/ Files!Receive(r) \/ Files!TimeOut(r) \/ Files!GetStuck(r)
  PROVE  FilesInv'
<1> USE SendingConstants DEF Files!RecorderConstants
<1>1. UNCHANGED <<queue, files, accepted>>
  BY DEF Files!StartRecording, Files!TakeRecorder, Files!OpenGate, Files!Receive, Files!TimeOut,
         Files!GetStuck, Files!Return, Files!fileVars
<1>2. CASE Files!StartRecording(r)
  <2>1. /\ recorder = 0 /\ thread[r] = "none" /\ thread' = [thread EXCEPT ![r] = "runs"] /\ tx' = r /\ recorder' = r
        /\ stop' = stop
    BY <1>2 DEF Files!StartRecording
  <2>2. FilesTyped'
    BY <1>1, <2>1 DEF FilesInv, FilesTyped
  <2>3. \A q \in Files!Recordings : q # r => OneRecording(q)'
    BY <1>1, <2>1 DEF FilesInv, FilesTyped, OneRecording
  <2>4. OneRecording(r)'
    <3>1. thread'[r] = "runs"
      BY <2>1 DEF FilesInv, FilesTyped
    <3> QED
      BY <3>1, <1>1, <2>1 DEF FilesInv, OneRecording
  <2> QED
    BY <2>2, <2>3, <2>4 DEF FilesInv
<1>3. CASE \E leaves \in BOOLEAN : Files!TakeRecorder(r, leaves)
  <2>1. /\ recorder = r /\ recorder' = 0 /\ tx' = 0 /\ stop' = [stop EXCEPT ![r] = "send"] /\ thread' = thread
    BY <1>3 DEF Files!TakeRecorder, Files!Take, Files!fileVars
  <2>2. FilesTyped'
    BY <1>1, <2>1 DEF FilesInv, FilesTyped
  <2>3. \A q \in Files!Recordings : q # r => OneRecording(q)'
    BY <1>1, <2>1 DEF FilesInv, FilesTyped, OneRecording, Files!Recordings
  <2>4. OneRecording(r)'
    <3>1. stop'[r] = "send" /\ stop[r] = "none" /\ thread[r] # "none" /\ thread[r] # "gone"
      BY <2>1 DEF FilesInv, FilesTyped, OneRecording
    <3> QED
      BY <3>1, <1>1, <2>1 DEF FilesInv, OneRecording, Files!Recordings
  <2> QED
    BY <2>2, <2>3, <2>4 DEF FilesInv
<1>4. CASE Files!OpenGate
  <2>1. UNCHANGED <<recorder, tx, thread, stop>>
    BY <1>4 DEF Files!OpenGate, Files!fileVars
  <2> QED
    BY <2>1, <1>1 DEF FilesInv, FilesTyped, OneRecording
<1>5. CASE Files!Receive(r) \/ Files!TimeOut(r)
  <2>1. PICK how \in {"files", "nothing"} :
          stop[r] = "wait" /\ stop' = [stop EXCEPT ![r] = how] /\ UNCHANGED <<recorder, tx, thread>>
    BY <1>5 DEF Files!Receive, Files!TimeOut, Files!Return, Files!fileVars, Files!mixVars
  <2>2. FilesTyped'
    BY <1>1, <2>1 DEF FilesInv, FilesTyped
  <2>3. \A q \in Files!Recordings : q # r => OneRecording(q)'
    BY <1>1, <2>1 DEF FilesInv, FilesTyped, OneRecording
  <2>4. OneRecording(r)'
    <3>1. stop'[r] \notin {"none", "send"} /\ thread[r] # "none" /\ recorder # r
      BY <2>1 DEF FilesInv, FilesTyped, OneRecording
    <3> QED
      BY <3>1, <1>1, <2>1 DEF FilesInv, OneRecording
  <2> QED
    BY <2>2, <2>3, <2>4 DEF FilesInv
<1>6. CASE Files!GetStuck(r)
  <2>1. /\ thread[r] = "runs" /\ thread' = [thread EXCEPT ![r] = "stuck"] /\ UNCHANGED <<recorder, tx, stop>>
    BY <1>6 DEF Files!GetStuck, Files!mixVars
  <2>2. FilesTyped'
    BY <1>1, <2>1 DEF FilesInv, FilesTyped
  <2>3. \A q \in Files!Recordings : q # r => OneRecording(q)'
    BY <1>1, <2>1 DEF FilesInv, FilesTyped, OneRecording
  <2>4. OneRecording(r)'
    <3>1. thread'[r] = "stuck"
      BY <2>1 DEF FilesInv, FilesTyped
    <3> QED
      BY <3>1, <1>1, <2>1 DEF FilesInv, OneRecording
  <2> QED
    BY <2>2, <2>3, <2>4 DEF FilesInv
<1> QED
  BY <1>2, <1>3, <1>4, <1>5, <1>6

\* Finalize joins the queue of a recording that the mixer has let go.
LEMMA FinalizeKeeps ==
  ASSUME FilesInv, NEW r \in Files!Recordings, Files!SendFinalize(r)
  PROVE  FilesInv'
<1> USE SendingConstants DEF Files!RecorderConstants
<1>1. /\ stop[r] = "send" /\ stop' = [stop EXCEPT ![r] = "wait"] /\ UNCHANGED <<recorder, tx, thread, files, accepted>>
      /\ queue' = IF thread[r] = "gone" THEN queue ELSE [queue EXCEPT ![r] = Append(@, "Finalize")]
  BY DEF Files!SendFinalize, Files!mixVars, Files!fileVars, Files!Finalize
<1>2. thread[r] \notin {"gone", "none"} /\ recorder # r /\ queue[r] \in Seq(Stems \cup {"Finalize"})
      /\ \A i \in DOMAIN queue[r] : queue[r][i] # "Finalize"
  BY <1>1 DEF FilesInv, FilesTyped, OneRecording
<1> DEFINE q == queue[r]
<1>3. /\ queue'[r] = Append(q, "Finalize") /\ stop'[r] = "wait"
      /\ \A p \in Files!Recordings : p # r => queue'[p] = queue[p] /\ stop'[p] = stop[p]
  BY <1>1, <1>2 DEF FilesInv, FilesTyped
<1>4. FilesTyped'
  <2>1. Append(q, "Finalize") \in Seq(Stems \cup {"Finalize"})
    BY <1>2
  <2>2. queue' \in [Files!Recordings -> Seq(Stems \cup {"Finalize"})]
    BY <2>1, <1>1, <1>2 DEF FilesInv, FilesTyped
  <2> QED
    BY <2>2, <1>1 DEF FilesInv, FilesTyped
<1>5. ASSUME NEW p \in Files!Recordings
      PROVE  OneRecording(p)'
  <2>1. CASE p # r
    BY <2>1, <1>1, <1>3 DEF FilesInv, OneRecording
  <2>2. CASE p = r
    <3>1. \A i \in DOMAIN queue'[p] : queue'[p][i] = "Finalize" => i = Len(queue'[p])
      BY <1>2, <1>3, <2>2, Lengthened
    <3>2. ASSUME NEW t \in Stems
          PROVE  Written(files'[p][t], accepted'[p][t] - Queued(queue'[p], t))
      <4>1. Queued(queue'[p], t) = Queued(queue[p], t)
        <5>1. "Finalize" # t
          OBVIOUS
        <5>2. Queued(Append(q, "Finalize"), t) = Queued(q, t)
          BY <5>1, <1>2, QueuedAppended
        <5>3. queue'[p] = Append(q, "Finalize") /\ queue[p] = q
          BY <1>3, <2>2
        <5> QED
          BY <5>2, <5>3
      <4> QED
        BY <4>1, <1>1, <1>2, <2>2 DEF FilesInv, OneRecording
    <3> QED
      BY <3>1, <3>2, <1>1, <1>2, <1>3, <2>2 DEF OneRecording
  <2> QED
    BY <2>1, <2>2
<1> QED
  BY <1>4, <1>5 DEF FilesInv

\* The record thread takes a block.
LEMMA ConsumeKeeps ==
  ASSUME FilesInv, NEW r \in Files!Recordings, Files!Consume(r)
  PROVE  FilesInv'
<1> USE SendingConstants DEF Files!RecorderConstants
<1> DEFINE q == queue[r]
           s == Head(q)
<1>1. PICK size \in Files!Encoded :
        /\ thread[r] = "runs" /\ q # <<>> /\ s # "Finalize" /\ UNCHANGED <<recorder, tx, thread, stop, accepted>>
        /\ files' = [files EXCEPT ![r][s] = Files!PushBlock(@, size)]
        /\ queue' = [queue EXCEPT ![r] = Tail(@)]
  BY DEF Files!Consume, Files!mixVars, Files!Finalize
<1>2. q \in Seq(Stems \cup {"Finalize"}) /\ files[r] \in [Stems -> FileState] /\ accepted[r] \in [Stems -> Nat]
  BY DEF FilesInv, FilesTyped
<1>3. /\ Head(q) = q[1] /\ Len(q) \in Nat \ {0} /\ Tail(q) \in Seq(Stems \cup {"Finalize"})
      /\ DOMAIN q = 1 .. Len(q) /\ Len(Tail(q)) = Len(q) - 1 /\ DOMAIN Tail(q) = 1 .. Len(q) - 1
      /\ \A i \in DOMAIN Tail(q) : Tail(q)[i] = q[i + 1] /\ i + 1 \in DOMAIN q
  BY <1>1, <1>2
<1>4. s \in Stems /\ files[r][s] \in FileState
  <2>1. \A S : \A p \in Seq(S) : \A i \in 1 .. Len(p) : p[i] \in S
    OBVIOUS
  <2> QED
    BY <2>1, <1>1, <1>2, <1>3
<1>5. \A t \in Stems : /\ Written(files[r][t], accepted[r][t] - Queued(q, t))
                       /\ Queued(q, t) \in Nat
                       /\ Queued(Tail(q), t) = IF s = t THEN Queued(q, t) - 1 ELSE Queued(q, t)
  BY <1>1, <1>2, QueuedFinite, QueuedTaken DEF FilesInv, OneRecording
<1> DEFINE n == accepted[r][s] - Queued(q, s)
           g == Files!PushBlock(files[r][s], size)
<1>6. g \in FileState /\ Written(g, n + 1)
  <2>1. n \in Nat
    <3>1. n = FrameBlocks * (files[r][s].packets + files[r][s].failed) + files[r][s].buf
      BY <1>4, <1>5 DEF Written
    <3>2. files[r][s].packets + files[r][s].failed \in Nat /\ files[r][s].buf \in Nat
      BY <1>4, FileFields
    <3>3. \A k \in Nat, b \in Nat : FrameBlocks * k + b \in Nat
      OBVIOUS
    <3> HIDE DEF n
    <3> QED
      BY <3>1, <3>2, <3>3
  <2> QED
    BY <2>1, <1>4, <1>5, BlockPushed
<1> HIDE DEF g
<1>7. /\ files'[r][s] = g /\ queue'[r] = Tail(q)
      /\ \A t \in Stems : t # s => files'[r][t] = files[r][t]
      /\ \A p \in Files!Recordings : p # r => queue'[p] = queue[p] /\ files'[p] = files[p]
  BY <1>1, <1>4 DEF FilesInv, FilesTyped, g
<1>8. FilesTyped'
  <2>1. queue' \in [Files!Recordings -> Seq(Stems \cup {"Finalize"})]
    BY <1>1, <1>3 DEF FilesInv, FilesTyped
  <2>2. files' \in [Files!Recordings -> [Stems -> FileState]]
    BY <1>1, <1>4, <1>6 DEF FilesInv, FilesTyped, g
  <2> QED
    BY <2>1, <2>2, <1>1 DEF FilesInv, FilesTyped
<1>9. ASSUME NEW p \in Files!Recordings
      PROVE  OneRecording(p)'
  <2>1. CASE p # r
    BY <2>1, <1>1, <1>7 DEF FilesInv, OneRecording
  <2>2. CASE p = r
    <3>1. \A i \in DOMAIN q : q[i] = "Finalize" => i = Len(q) /\ stop[r] \notin {"none", "send"}
      BY DEF FilesInv, OneRecording
    <3>2. \A i \in DOMAIN Tail(q) : Tail(q)[i] = "Finalize" => i = Len(Tail(q)) /\ stop[r] \notin {"none", "send"}
      BY <3>1, <1>3
    <3>3. ASSUME NEW t \in Stems
          PROVE  Written(files'[r][t], accepted[r][t] - Queued(Tail(q), t))
      <4>1. CASE t = s
        <5>1. accepted[r][t] - Queued(Tail(q), t) = n + 1
          <6>1. Queued(Tail(q), t) = Queued(q, t) - 1 /\ Queued(q, t) \in Nat /\ accepted[r][t] \in Nat
            BY <4>1, <1>2, <1>4, <1>5
          <6>2. n = accepted[r][t] - Queued(q, t)
            BY <4>1
          <6> HIDE DEF n, q
          <6> QED
            BY <6>1, <6>2
        <5> HIDE DEF n
        <5> QED
          BY <5>1, <4>1, <1>6, <1>7
      <4>2. CASE t # s
        BY <4>2, <1>5, <1>7
      <4> QED
        BY <4>1, <4>2
    <3>4. recorder = r => stop[r] = "none"
      BY DEF FilesInv, OneRecording
    <3> QED
      BY <3>2, <3>3, <3>4, <1>1, <1>7, <2>2 DEF OneRecording
  <2> QED
    BY <2>1, <2>2
<1> QED
  BY <1>8, <1>9 DEF FilesInv

\* Finalize is reached: nothing is behind it, and every file is finished.
LEMMA FinishKeeps ==
  ASSUME FilesInv, NEW r \in Files!Recordings, Files!Finish(r)
  PROVE  FilesInv'
<1> USE SendingConstants DEF Files!RecorderConstants
<1> DEFINE q == queue[r]
<1>1. PICK size \in [Stems -> Files!Encoded] :
        /\ thread[r] = "runs" /\ q # <<>> /\ Head(q) = "Finalize" /\ UNCHANGED <<recorder, tx, stop, accepted>>
        /\ files' = [files EXCEPT ![r] = [s \in Stems |-> Files!Finished(@[s], size[s])]]
        /\ thread' = [thread EXCEPT ![r] = "gone"] /\ queue' = [queue EXCEPT ![r] = <<>>]
  BY DEF Files!Finish, Files!mixVars, Files!Finalize
<1>2. q \in Seq(Stems \cup {"Finalize"}) /\ files[r] \in [Stems -> FileState] /\ accepted[r] \in [Stems -> Nat]
  BY DEF FilesInv, FilesTyped
<1>3. /\ Head(q) = q[1] /\ Len(q) \in Nat \ {0} /\ DOMAIN q = 1 .. Len(q) /\ 1 \in DOMAIN q
  BY <1>1, <1>2
<1>4. Len(q) = 1 /\ stop[r] \notin {"none", "send"}
  BY <1>1, <1>3 DEF FilesInv, OneRecording
<1>5. \A t \in Stems : Written(files[r][t], accepted[r][t])
  <2> SUFFICES ASSUME NEW t \in Stems
               PROVE  Written(files[r][t], accepted[r][t])
    OBVIOUS
  <2>1. Written(files[r][t], accepted[r][t] - Queued(q, t))
    BY <1>1 DEF FilesInv, OneRecording
  <2>2. {i \in DOMAIN q : q[i] = t} = {}
    <3>1. "Finalize" # t
      OBVIOUS
    <3> QED
      BY <3>1, <1>1, <1>3, <1>4
  <2>3. Queued(q, t) = 0
    BY <2>2, FS_EmptySet DEF Queued
  <2>4. accepted[r][t] - 0 = accepted[r][t]
    BY <1>2
  <2> QED
    BY <2>1, <2>3, <2>4
<1>6. \A t \in Stems : /\ Files!Finished(files[r][t], size[t]) \in FileState
                       /\ Complete(Files!Finished(files[r][t], size[t]), accepted[r][t])
  BY <1>2, <1>5, FileCompleted
<1>7. /\ \A t \in Stems : files'[r][t] = Files!Finished(files[r][t], size[t])
      /\ queue'[r] = <<>> /\ thread'[r] = "gone"
      /\ \A p \in Files!Recordings : p # r => queue'[p] = queue[p] /\ files'[p] = files[p] /\ thread'[p] = thread[p]
  BY <1>1 DEF FilesInv, FilesTyped
<1>8. FilesTyped'
  <2>1. files' \in [Files!Recordings -> [Stems -> FileState]]
    BY <1>1, <1>6 DEF FilesInv, FilesTyped
  <2>2. queue' \in [Files!Recordings -> Seq(Stems \cup {"Finalize"})]
    <3>1. <<>> \in Seq(Stems \cup {"Finalize"})
      OBVIOUS
    <3> QED
      BY <3>1, <1>1 DEF FilesInv, FilesTyped
  <2> QED
    BY <2>1, <2>2, <1>1 DEF FilesInv, FilesTyped
<1>9. ASSUME NEW p \in Files!Recordings
      PROVE  OneRecording(p)'
  <2>1. CASE p # r
    BY <2>1, <1>1, <1>7 DEF FilesInv, OneRecording
  <2>2. CASE p = r
    <3>1. \A t \in Stems : Complete(files'[r][t], accepted'[r][t])
      BY <1>1, <1>6, <1>7
    <3>2. recorder # r
      BY <1>4 DEF FilesInv, OneRecording
    <3>3. DOMAIN queue'[r] = {}
      BY <1>7
    <3> QED
      BY <3>1, <3>2, <3>3, <1>1, <1>4, <1>7, <2>2 DEF OneRecording
  <2> QED
    BY <2>1, <2>2
<1> QED
  BY <1>8, <1>9 DEF FilesInv

LEMMA FilesInit == Files!Init => FilesInv
<1> SUFFICES ASSUME Files!Init
             PROVE  FilesInv
  OBVIOUS
<1> USE SendingConstants DEF Files!RecorderConstants, Files!Init
<1>1. /\ Files!NewFile \in FileState /\ Files!NewFile.buf = 0 /\ Files!NewFile.pending = 0
      /\ Files!NewFile.segments = 0 /\ Files!NewFile.packets = 0 /\ Files!NewFile.failed = 0
      /\ Files!NewFile.pages = <<>>
  <2>1. <<>> \in Seq(FilePage) /\ 0 \in 0 .. FrameBlocks - 1
    OBVIOUS
  <2> QED
    BY <2>1 DEF Files!NewFile, FileState
<1>2. Written(Files!NewFile, 0)
  <2>1. FrameBlocks * (0 + 0) + 0 = 0 /\ 0 <= MaxSegments
    OBVIOUS
  <2>2. DOMAIN Files!NewFile.pages = {}
    BY <1>1
  <2> QED
    BY <1>1, <2>1, <2>2 DEF Written, Paged
<1>3. FilesTyped
  <2>1. <<>> \in Seq(Stems \cup {"Finalize"})
    OBVIOUS
  <2>2. queue \in [Files!Recordings -> Seq(Stems \cup {"Finalize"})]
    BY <2>1
  <2>3. thread \in [Files!Recordings -> {"none", "runs", "stuck", "gone"}]
    OBVIOUS
  <2>4. stop \in [Files!Recordings -> {"none", "send", "wait", "files", "nothing"}]
    OBVIOUS
  <2>5. accepted \in [Files!Recordings -> [Stems -> Nat]]
    OBVIOUS
  <2>6. files \in [Files!Recordings -> [Stems -> FileState]]
    BY <1>1
  <2> QED
    BY <2>2, <2>3, <2>4, <2>5, <2>6 DEF FilesTyped
<1>4. ASSUME NEW r \in Files!Recordings
      PROVE  OneRecording(r)
  <2>1. /\ thread[r] = "none" /\ queue[r] = <<>> /\ stop[r] = "none" /\ recorder # r
        /\ \A s \in Stems : accepted[r][s] = 0 /\ files[r][s] = Files!NewFile
    BY DEF Files!Recordings
  <2>2. \A s \in Stems : accepted[r][s] - Queued(queue[r], s) = 0
    BY <2>1, NoneQueued
  <2>3. DOMAIN queue[r] = {}
    BY <2>1
  <2> QED
    BY <1>2, <2>1, <2>2, <2>3 DEF OneRecording
<1> QED
  BY <1>3, <1>4 DEF FilesInv

\* The files that a stop hands over hold every block that the queue accepted, padded to
\* a frame, in pages that players read, whatever was being pushed when the recording stopped;
\* the last page alone may overflow, by the padded frame: record_send, take_recorder, RecorderHandle::stop, run_record_thread and
\* OpusOggRecorder.
THEOREM TheFilesAreWhole == Files!Spec => []FilesAreWhole
<1>1. Files!Init => FilesInv
  BY FilesInit
<1>2. FilesInv /\ [Files!Next]_(Files!vars) => FilesInv'
  <2> SUFFICES ASSUME FilesInv, [Files!Next]_(Files!vars)
               PROVE  FilesInv'
    OBVIOUS
  <2>1. CASE \E s \in Stems : Files!LookAtGate(s) \/ Files!RecordSend(s)
    BY <2>1, TapKeeps
  <2>2. ASSUME NEW r \in Files!Recordings, Files!Recording(r)
        PROVE  FilesInv'
    BY <2>2, PipelineKeeps, FinalizeKeeps, ConsumeKeeps, FinishKeeps DEF Files!Recording
  <2>3. CASE Files!OpenGate
    <3>1. 1 \in Files!Recordings
      BY SendingConstants DEF Files!RecorderConstants, Files!Recordings
    <3> QED
      BY <2>3, <3>1, PipelineKeeps
  <2>4. CASE UNCHANGED Files!vars
    BY <2>4 DEF Files!vars, FilesInv, FilesTyped, OneRecording
  <2> QED
    BY <2>1, <2>2, <2>3, <2>4 DEF Files!Next
<1>3. FilesInv => FilesAreWhole
  <2> SUFFICES ASSUME FilesInv
               PROVE  FilesAreWhole
    OBVIOUS
  <2>1. ASSUME NEW r \in Files!Recordings, NEW s \in Stems
        PROVE  /\ files[r][s] \in FileState /\ files[r][s].packets \in Nat
               /\ thread[r] = "gone" => Complete(files[r][s], accepted[r][s]) /\ queue[r] = <<>>
               /\ thread[r] # "gone" => Paged(files[r][s])
    BY FileFields DEF FilesInv, FilesTyped, OneRecording, Written
  <2>2. Files!NothingLeftBehind
    BY <2>1 DEF Files!NothingLeftBehind, Files!Frames, Complete
  <2>3. Files!PagesAreLegal
    <3> SUFFICES ASSUME NEW r \in Files!Recordings, NEW s \in Stems
                 PROVE  LET pages == files[r][s].pages
                        IN  /\ \A i \in DOMAIN pages : Fits(pages[i], files[r][s].padded)
                            /\ \A i \in DOMAIN pages : pages[i].last <=> (thread[r] = "gone" /\ i = Len(pages))
                            /\ \A i, j \in DOMAIN pages : i < j => pages[i].end <= pages[j].end
                            /\ thread[r] = "gone" => pages # <<>> /\ pages[Len(pages)].end = files[r][s].packets
      BY DEF Files!PagesAreLegal, Fits
    <3>1. CASE thread[r] = "gone"
      BY <3>1, <2>1 DEF Complete
    <3>2. CASE thread[r] # "gone"
      BY <3>2, <2>1 DEF Paged, Fits, Files!Readable
    <3> QED
      BY <3>1, <3>2
  <2> QED
    BY <2>2, <2>3 DEF FilesAreWhole, Files!FilesAreWhole
<1> QED
  BY <1>1, <1>2, <1>3, PTL DEF Files!Spec
==============================================================================
