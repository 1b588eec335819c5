------------------------- MODULE MixerSettingsProofs -------------------------
(***************************************************************************)
(* Proof that a listening setting can only be lost by being changed during *)
(* the birth of a cell, for any number of peers and settings: between the  *)
(* two steps of a setter and the four of a birth, what a cell holds or is  *)
(* about to receive is what is remembered, but for what the setter under   *)
(* way is about to apply.  Then, of the sources mixed beside the peers:    *)
(* that nothing secret is written of the strip, that every beat is clicked *)
(* once, and that the track never starts nor stops at once.                *)
(***************************************************************************)
EXTENDS MCMixer, Sequences, WellFoundedInduction, TLAPS

-----------------------------------------------------------------------------
(* The inductive invariant. *)

\* The setters and the births, one shape for each of their steps.
Setters ==
  {Idle} \cup [op : {"volume"}, peer : Peers, value : Volumes]
         \cup [op : {"target"}, value : Targets]
         \cup [op : {"arm"}, value : SUBSET Peers]
         \cup [op : {"clear", "shutdown"}]
Births ==
  {Idle} \cup [op : {"settings"}, peer : Peers, target : Targets \cup {None}]
         \cup [op : {"armed"}, peer : Peers, target : Targets \cup {None}, volume : Volumes]
         \cup [op : {"insert"}, peer : Peers, target : Targets \cup {None}, volume : Volumes,
               armed : BOOLEAN]

Typed ==
  /\ settings \in [Peers -> Volumes]
  /\ default_target \in Targets \cup {None}
  /\ armed_peers \in SUBSET Peers
  /\ cells \in [Peers -> Cell \cup {None}]
  /\ ws \in Setters /\ birth \in Births
  /\ outdated \in SUBSET Peers /\ crossed \in SUBSET Peers

\* The cell of a birth under way is not in the mixer yet.
Unborn == birth # Idle => cells[birth.peer] = None

\* A setter under way holds what it has just written.
SetterTrue ==
  /\ ws.op = "volume" => settings[ws.peer] = ws.value
  /\ ws.op = "target" => default_target = ws.value
  /\ ws.op = "arm" => armed_peers = ws.value

Excused == outdated \cup crossed

\* A birth under way has read what is remembered now, unless it was crossed.
BirthTrue ==
  birth # Idle /\ birth.peer \notin Excused =>
    /\ birth.target = default_target
    /\ birth.op \in {"armed", "insert"} => birth.volume = settings[birth.peer]
    /\ birth.op = "insert" => (birth.armed <=> birth.peer \in armed_peers)

\* A cell in the mixer holds what is remembered, or the setter is about to give it.
CellsTrue ==
  \A p \in Live \ Excused :
    /\ cells[p].volume = settings[p] \/ (ws.op = "volume" /\ ws.peer = p)
    /\ cells[p].target = default_target \/ ws.op = "target"
    /\ (cells[p].armed <=> p \in armed_peers) \/ ws.op = "arm"

IInv == Typed /\ Unborn /\ SetterTrue /\ BirthTrue /\ CellsTrue

-----------------------------------------------------------------------------
(* Types. *)

\* What is read from the record of a setter or of a birth.
LEMMA SetterFields ==
  ASSUME NEW w \in Setters
  PROVE  /\ w.op \in {"none", "volume", "target", "arm", "clear", "shutdown"}
         /\ w.op = "none" <=> w = Idle
         /\ w.op = "volume" => w.peer \in Peers /\ w.value \in Volumes
         /\ w.op = "target" => w.value \in Targets
         /\ w.op = "arm" => w.value \in SUBSET Peers
BY DEF Setters, Idle

LEMMA BirthFields ==
  ASSUME NEW b \in Births
  PROVE  /\ b.op \in {"none", "settings", "armed", "insert"}
         /\ b.op = "none" <=> b = Idle
         /\ b.op # "none" => b.peer \in Peers /\ b.target \in Targets \cup {None}
         /\ b.op \in {"armed", "insert"} => b.volume \in Volumes
         /\ b.op = "insert" => b.armed \in BOOLEAN
BY DEF Births, Idle

\* What the arming of a cell changes.
LEMMA RearmedCell ==
  ASSUME NEW p, NEW S, cells[p] \in Cell
  PROVE  /\ Rearmed(p, S) \in Cell
         /\ Rearmed(p, S).armed <=> p \in S
         /\ Rearmed(p, S).volume = cells[p].volume /\ Rearmed(p, S).target = cells[p].target
<1> DEFINE named == p \in S
<1>1. named \in BOOLEAN
  OBVIOUS
<1>2. ASSUME NEW b \in BOOLEAN
      PROVE  LET c == [cells[p] EXCEPT !.armed = b]
             IN  c \in Cell /\ c.armed = b /\ c.volume = cells[p].volume /\ c.target = cells[p].target
  BY DEF Cell
<1> HIDE DEF named
<1>3. LET c == [cells[p] EXCEPT !.armed = named]
      IN  c \in Cell /\ c.armed = named /\ c.volume = cells[p].volume /\ c.target = cells[p].target
  BY <1>1, <1>2
<1>4. QED
  BY <1>3, Zenon DEF named, Rearmed

\* Every step keeps the types.
LEMMA TypedInit == Init => Typed /\ Unborn /\ SetterTrue /\ BirthTrue /\ CellsTrue
BY SettingsConstants DEF Init, Typed, Unborn, SetterTrue, BirthTrue, CellsTrue, Setters, Births, Idle, Live

LEMMA TypedStep == Typed /\ [Next]_vars => Typed'
<1> SUFFICES ASSUME Typed, [Next]_vars PROVE Typed'
  OBVIOUS
<1> USE DEF Typed
<1>1. CASE UNCHANGED vars
  BY <1>1 DEF vars
<1>2. ASSUME NEW p \in Peers, BeginBirth(p) PROVE Typed'
  BY <1>2 DEF BeginBirth, Births, remembered
<1>3. CASE ReadSettings
  BY <1>3, BirthFields DEF ReadSettings, Births, remembered
<1>4. CASE ReadArmed
  BY <1>4, BirthFields DEF ReadArmed, Births, remembered
<1>5. CASE Insert
  BY <1>5, BirthFields DEF Insert, Births, Cell, remembered
<1>6. ASSUME NEW p \in Peers, RemoveCell(p) PROVE Typed'
  BY <1>6 DEF RemoveCell, remembered
<1>7. ASSUME NEW p \in Peers, NEW v \in Volumes, SetVolume(p, v) PROVE Typed'
  BY <1>7, BirthFields DEF SetVolume, Setters, Noted
<1>8. CASE ApplyVolume
  BY <1>8, SetterFields DEF ApplyVolume, Setters, Cell, Live, remembered
<1>9. ASSUME NEW t \in Targets, SetBuffer(t) PROVE Typed'
  BY <1>9, BirthFields DEF SetBuffer, Setters, Noted
<1>10. CASE ApplyTarget
  BY <1>10, SetterFields DEF ApplyTarget, Setters, Cell, Live, remembered
<1>11. ASSUME NEW named \in SUBSET Peers, SetRecordArm(named) PROVE Typed'
  BY <1>11, BirthFields DEF SetRecordArm, Setters, Noted
<1>12. CASE ApplyArm
  BY <1>12, RearmedCell DEF ApplyArm, Setters, remembered, Live
<1>13. ASSUME NEW p \in Peers, Forget(p) PROVE Typed'
  BY <1>13, SettingsConstants DEF Forget
<1>14. CASE ClearSettings
  BY <1>14, SettingsConstants DEF ClearSettings, Setters
<1>15. CASE ClearArmed
  BY <1>15 DEF ClearArmed, Setters
<1>16. CASE ThreadGone
  BY <1>16 DEF ThreadGone, Setters, remembered
<1>17. QED
  BY <1>1, <1>2, <1>3, <1>4, <1>5, <1>6, <1>7, <1>8, <1>9, <1>10, <1>11, <1>12, <1>13, <1>14,
     <1>15, <1>16 DEF Next, Browser, Receiver

-----------------------------------------------------------------------------
(* Each part of the invariant is kept. *)

LEMMA UnbornStep == Typed /\ Unborn /\ [Next]_vars => Unborn'
<1> SUFFICES ASSUME Typed, Unborn, [Next]_vars PROVE Unborn'
  OBVIOUS
<1> USE DEF Typed, Unborn
<1>1. CASE UNCHANGED vars
  BY <1>1 DEF vars
<1>2. ASSUME NEW p \in Peers, BeginBirth(p) PROVE Unborn'
  BY <1>2 DEF BeginBirth, Idle
<1>3. CASE ReadSettings \/ ReadArmed
  BY <1>3 DEF ReadSettings, ReadArmed, Idle
<1>4. CASE Insert
  BY <1>4 DEF Insert
<1>5. ASSUME NEW p \in Peers, RemoveCell(p) PROVE Unborn'
  BY <1>5 DEF RemoveCell
<1>6. CASE Browser
  <2>1. birth' = birth
    BY <1>6 DEF Browser, Forget, SetVolume, SetBuffer, SetRecordArm, ApplyVolume, ApplyTarget,
                ApplyArm, ClearSettings, ClearArmed, ThreadGone
  <2>2. birth # Idle => birth.peer \in Peers
    BY BirthFields
  <2>3. \A p \in Peers : cells[p] = None => cells'[p] = None
    BY <1>6 DEF Browser, Forget, SetVolume, SetBuffer, SetRecordArm, ApplyVolume, ApplyTarget,
                ApplyArm, ClearSettings, ClearArmed, ThreadGone, Live
  <2>4. QED
    BY <2>1, <2>2, <2>3
<1>7. QED
  BY <1>1, <1>2, <1>3, <1>4, <1>5, <1>6 DEF Next, Receiver

LEMMA SetterTrueStep == Typed /\ SetterTrue /\ [Next]_vars => SetterTrue'
<1> SUFFICES ASSUME Typed, SetterTrue, [Next]_vars PROVE SetterTrue'
  OBVIOUS
<1> USE DEF Typed, SetterTrue
<1>1. CASE UNCHANGED <<remembered, ws>>
  BY <1>1 DEF remembered
<1>2. CASE Receiver \/ UNCHANGED vars
  BY <1>1, <1>2 DEF Receiver, BeginBirth, RemoveCell, ReadSettings, ReadArmed, Insert, vars, remembered
<1>3. CASE ws' = Idle
  BY <1>3 DEF Idle
<1>4. CASE ApplyVolume \/ ApplyTarget \/ ApplyArm \/ ThreadGone
  BY <1>3, <1>4 DEF ApplyVolume, ApplyTarget, ApplyArm, ThreadGone
<1>5. ASSUME NEW p \in Peers, Forget(p) PROVE SetterTrue'
  BY <1>3, <1>5 DEF Forget
<1>6. ASSUME NEW p \in Peers, NEW v \in Volumes, SetVolume(p, v) PROVE SetterTrue'
  BY <1>6 DEF SetVolume
<1>7. ASSUME NEW t \in Targets, SetBuffer(t) PROVE SetterTrue'
  BY <1>7 DEF SetBuffer
<1>8. ASSUME NEW named \in SUBSET Peers, SetRecordArm(named) PROVE SetterTrue'
  BY <1>8 DEF SetRecordArm
<1>9. CASE ClearSettings \/ ClearArmed
  BY <1>9 DEF ClearSettings, ClearArmed
<1>10. QED
  BY <1>2, <1>4, <1>5, <1>6, <1>7, <1>8, <1>9 DEF Next, Browser

\* The walk over the cells changes no remembered value, so no birth.
LEMMA BirthTrueStep == Typed /\ BirthTrue /\ [Next]_vars => BirthTrue'
<1> SUFFICES ASSUME Typed, BirthTrue, [Next]_vars PROVE BirthTrue'
  OBVIOUS
<1> USE DEF Typed, BirthTrue, Excused
<1>0. birth # Idle => birth.peer \in Peers
  BY BirthFields
<1>1. CASE UNCHANGED <<remembered, birth, outdated, crossed>>
  BY <1>1 DEF remembered
<1>2. CASE ApplyVolume \/ ApplyTarget \/ ApplyArm \/ ThreadGone \/ UNCHANGED vars
  BY <1>1, <1>2 DEF ApplyVolume, ApplyTarget, ApplyArm, ThreadGone, vars, remembered
<1>3. ASSUME NEW p \in Peers, BeginBirth(p) PROVE BirthTrue'
  BY <1>3 DEF BeginBirth, remembered
<1>4. CASE ReadSettings
  BY <1>0, <1>4 DEF ReadSettings, remembered, Idle
<1>5. CASE ReadArmed
  <2>1. birth'.armed <=> birth.peer \in armed_peers
    BY <1>5, Zenon DEF ReadArmed
  <2>2. /\ birth'.peer = birth.peer /\ birth'.target = birth.target
        /\ birth'.volume = birth.volume /\ birth # Idle
    BY <1>5 DEF ReadArmed, Idle
  <2>3. UNCHANGED <<settings, default_target, armed_peers, outdated, crossed>> /\ birth.op = "armed"
    BY <1>5 DEF ReadArmed, remembered
  <2>4. QED
    BY <2>1, <2>2, <2>3
<1>6. CASE birth' = Idle
  BY <1>6
<1>7. CASE Insert
  BY <1>6, <1>7 DEF Insert
<1>8. ASSUME NEW p \in Peers, RemoveCell(p) PROVE BirthTrue'
  BY <1>6, <1>8 DEF RemoveCell
<1>9. ASSUME NEW p \in Peers, Forget(p) PROVE BirthTrue'
  BY <1>0, <1>9 DEF Forget
<1>10. ASSUME NEW p \in Peers, NEW v \in Volumes, SetVolume(p, v) PROVE BirthTrue'
  BY <1>0, <1>10 DEF SetVolume, Noted
<1>11. ASSUME NEW t \in Targets, SetBuffer(t) PROVE BirthTrue'
  BY <1>0, <1>11 DEF SetBuffer, Noted
<1>12. ASSUME NEW named \in SUBSET Peers, SetRecordArm(named) PROVE BirthTrue'
  BY <1>0, <1>12 DEF SetRecordArm, Noted
<1>13. CASE ClearSettings \/ ClearArmed
  BY <1>0, <1>13 DEF ClearSettings, ClearArmed
<1>14. QED
  BY <1>2, <1>3, <1>4, <1>5, <1>7, <1>8, <1>9, <1>10, <1>11, <1>12, <1>13
     DEF Next, Browser, Receiver

\* A cell is inserted as its birth read it; a setter that has written a value
\* excuses the cells until it has given it.
LEMMA CellsTrueStep ==
  Typed /\ Unborn /\ SetterTrue /\ BirthTrue /\ CellsTrue /\ [Next]_vars => CellsTrue'
<1> SUFFICES ASSUME Typed, Unborn, SetterTrue, BirthTrue, CellsTrue, [Next]_vars PROVE CellsTrue'
  OBVIOUS
<1> USE DEF Typed, CellsTrue, Excused, Live
<1>0. birth # Idle => birth.peer \in Peers
  BY BirthFields
<1>1. CASE UNCHANGED <<remembered, cells, ws, outdated, crossed>>
  BY <1>1 DEF remembered
<1>2. CASE ReadSettings \/ ReadArmed \/ UNCHANGED vars
  BY <1>1, <1>2 DEF ReadSettings, ReadArmed, vars, remembered
<1>3. ASSUME NEW p \in Peers, BeginBirth(p) PROVE CellsTrue'
  BY <1>3 DEF BeginBirth, remembered
<1>4. CASE Insert
  BY <1>0, <1>4 DEF Insert, remembered, BirthTrue, Idle
<1>5. ASSUME NEW p \in Peers, RemoveCell(p) PROVE CellsTrue'
  BY <1>5 DEF RemoveCell, remembered
<1>6. ASSUME NEW p \in Peers, Forget(p) PROVE CellsTrue'
  BY <1>6 DEF Forget, Idle
<1>7. ASSUME NEW p \in Peers, NEW v \in Volumes, SetVolume(p, v) PROVE CellsTrue'
  BY <1>7 DEF SetVolume, Noted, Idle
<1>8. ASSUME NEW t \in Targets, SetBuffer(t) PROVE CellsTrue'
  BY <1>8 DEF SetBuffer, Noted, Idle
<1>9. ASSUME NEW named \in SUBSET Peers, SetRecordArm(named) PROVE CellsTrue'
  BY <1>9 DEF SetRecordArm, Noted, Idle
<1>10. CASE ApplyVolume
  BY <1>10 DEF ApplyVolume, remembered, SetterTrue, Idle, Cell
<1>11. CASE ApplyTarget
  BY <1>11 DEF ApplyTarget, remembered, SetterTrue, Idle, Cell
<1>12. CASE ApplyArm
  <2>1. ASSUME NEW p \in Live PROVE cells[p] \in Cell
    BY DEF Live
  <2>2. QED
    BY <1>12, <2>1, RearmedCell DEF ApplyArm, remembered, SetterTrue, Idle
<1>13. CASE ClearSettings \/ ClearArmed
  BY <1>13 DEF ClearSettings, ClearArmed
<1>14. CASE ThreadGone
  BY <1>14 DEF ThreadGone
<1>15. QED
  BY <1>2, <1>3, <1>4, <1>5, <1>6, <1>7, <1>8, <1>9, <1>10, <1>11, <1>12, <1>13, <1>14
     DEF Next, Browser, Receiver

-----------------------------------------------------------------------------
(* The theorems. *)

\* The parts of the invariant hold in every state: what a birth or a cell holds is
\* what is remembered, but for what is excused.
LEMMA SettingsInvariant == Spec => []IInv
<1>1. Init => IInv
  BY TypedInit DEF IInv
<1>2. IInv /\ [Next]_vars => IInv'
  BY TypedStep, UnbornStep, SetterTrueStep, BirthTrueStep, CellsTrueStep DEF IInv
<1>3. QED
  BY <1>1, <1>2, PTL DEF Spec

\* Whatever the order of the browser's messages and of the first packets, a
\* listening setting (volume and pan, buffer target, arming) is lost only when it
\* was changed while the cell it is for was being born (AudioMixer::add_stream).
THEOREM LostAtBirthOnly == Spec => []LostOnlyAtBirth
<1>1. IInv => LostOnlyAtBirth
  BY DEF IInv, CellsTrue, LostOnlyAtBirth, Settled, Faithful, Excused, Live, Idle
<1>2. QED
  BY <1>1, SettingsInvariant, PTL

\* The types of the settings, and: a stream that is replaced is silent until its
\* new cell is inserted.
THEOREM SettingsTyped == Spec => []TypeOK
<1>1. IInv => TypeOK
  BY SetterFields, BirthFields DEF IInv, Typed, Unborn, TypeOK, Live
<1>2. QED
  BY <1>1, SettingsInvariant, PTL

-----------------------------------------------------------------------------
(* The strip of the local musician (PrivateMix).                           *)

StripCells == 1 .. MaxCells
StripKinds == {"open", "secret", "former"}

\* The strip, its cells and the two threads that hold a block of it.
StripTyped ==
  /\ self_armed_user \in BOOLEAN /\ self_private \in BOOLEAN /\ secret \in BOOLEAN
  /\ made \in 0 .. MaxCells /\ current \in 0 .. made
  /\ armed \in [StripCells -> BOOLEAN] /\ buffer \in [StripCells -> Seq(StripKinds)]
  /\ self_ws \in {Strip!Idle} \cup [op : {"arm", "private"}, value : BOOLEAN]
  /\ capture \in {Strip!Idle} \cup [op : {"push", "stem"}, kind : StripKinds, cell : StripCells]
  /\ mixing \in {Strip!Idle} \cup [op : {"pull"}, cell : StripCells]
                \cup [op : {"mix"}, kind : StripKinds, cell : StripCells]

\* What was captured in private is nowhere but while private lasts, in cells that are
\* not armed; private is what the musician's last switch says as soon as it is over.
StripInv ==
  /\ StripTyped
  /\ secret => self_private
  /\ self_ws # Strip!Idle /\ self_ws.op = "private" => self_private = self_ws.value
  /\ secret /\ current # 0 => ~armed[current]
  /\ \A c \in StripCells : \A i \in DOMAIN buffer[c] : buffer[c][i] = "secret" => secret /\ ~armed[c]
  /\ \A c \in StripCells : c > made => buffer[c] = <<>>
  /\ capture # Strip!Idle => capture.cell <= made /\ (capture.kind = "secret" => secret /\ ~armed[capture.cell])
  /\ mixing # Strip!Idle => /\ mixing.cell <= made
                            /\ mixing.op = "mix" /\ mixing.kind = "secret" => secret /\ ~armed[mixing.cell]
  /\ "secret" \notin stem /\ "secret" \notin mix

\* What the threads of the strip hold.
LEMMA StripRecords ==
  /\ Strip!Idle.op = "none"
  /\ \A w \in {Strip!Idle} \cup [op : {"arm", "private"}, value : BOOLEAN] :
       w.op \in {"arm", "private"} => w.value \in BOOLEAN /\ w # Strip!Idle
  /\ \A t \in {Strip!Idle} \cup [op : {"push", "stem"}, kind : StripKinds, cell : StripCells] :
       t.op \in {"push", "stem"} =>
         /\ t \in [op : {"push", "stem"}, kind : StripKinds, cell : StripCells] /\ t # Strip!Idle
         /\ t.kind \in StripKinds /\ t.cell \in StripCells
  /\ \A t \in {Strip!Idle} \cup [op : {"pull"}, cell : StripCells] \cup [op : {"mix"}, kind : StripKinds, cell : StripCells] :
       /\ t.op = "pull" => t.cell \in StripCells /\ t # Strip!Idle
       /\ t.op = "mix" => t.cell \in StripCells /\ t # Strip!Idle /\ t.kind \in StripKinds
BY DEF Strip!Idle

LEMMA StripAged == \A k \in StripKinds : Strip!Aged(k) \in StripKinds /\ Strip!Aged(k) # "secret"
BY DEF StripKinds, Strip!Aged

\* A thread whose block is of before the switch back.
LEMMA StripOlder ==
  /\ Strip!Older(Strip!Idle) = Strip!Idle
  /\ \A t \in [op : {"pull"}, cell : StripCells] : Strip!Older(t) = t
  /\ \A t \in [op : {"push", "stem"}, kind : StripKinds, cell : StripCells] :
       /\ Strip!Older(t) \in [op : {"push", "stem"}, kind : StripKinds, cell : StripCells]
       /\ Strip!Older(t).cell = t.cell /\ Strip!Older(t).kind # "secret"
  /\ \A t \in [op : {"mix"}, kind : StripKinds, cell : StripCells] :
       /\ Strip!Older(t) \in [op : {"mix"}, kind : StripKinds, cell : StripCells]
       /\ Strip!Older(t).cell = t.cell /\ Strip!Older(t).kind # "secret"
<1>1. "kind" \notin DOMAIN Strip!Idle
  BY DEF Strip!Idle
<1>2. \A t \in [op : {"pull"}, cell : StripCells] : "kind" \notin DOMAIN t
  OBVIOUS
<1>3. ASSUME NEW o, NEW t \in [op : o, kind : StripKinds, cell : StripCells]
      PROVE  /\ Strip!Older(t) \in [op : o, kind : StripKinds, cell : StripCells]
             /\ Strip!Older(t).cell = t.cell /\ Strip!Older(t).kind # "secret"
  <2>1. Strip!Older(t) = [t EXCEPT !.kind = Strip!Aged(@)]
    BY DEF Strip!Older
  <2>2. Strip!Aged(t.kind) \in StripKinds /\ Strip!Aged(t.kind) # "secret"
    BY StripAged
  <2> QED
    BY <2>1, <2>2
<1> QED
  <2>1. Strip!Older(Strip!Idle) = Strip!Idle /\ \A t \in [op : {"pull"}, cell : StripCells] : Strip!Older(t) = t
    BY <1>1, <1>2 DEF Strip!Older
  <2> QED
    BY <1>3, <2>1

\* A block more in a cell, the oldest lost if it was full; and one less.
LEMMA StripPushed ==
  ASSUME NEW q \in Seq(StripKinds), NEW k \in StripKinds, NEW r,
         r = IF Len(q) < MaxBlocks THEN Append(q, k) ELSE Append(Tail(q), k)
  PROVE  r \in Seq(StripKinds) /\ \A i \in DOMAIN r : r[i] = k \/ \E j \in DOMAIN q : r[i] = q[j]
<1>1. MaxBlocks \in Nat /\ MaxBlocks > 0
  BY MixerConstants DEF Strip!StripConstants
<1>2. CASE Len(q) < MaxBlocks
  BY <1>2
<1>3. CASE ~(Len(q) < MaxBlocks)
  <2>1. q # <<>>
    <3>1. Len(q) # 0
      BY <1>1, <1>3
    <3>2. \A p : p = <<>> => Len(p) = 0
      OBVIOUS
    <3> QED
      BY <3>1, <3>2, Zenon
  <2>2. /\ Tail(q) \in Seq(StripKinds)
        /\ \A i \in DOMAIN Tail(q) : i + 1 \in DOMAIN q /\ Tail(q)[i] = q[i + 1]
    BY <2>1
  <2>3. \A p \in Seq(StripKinds) : /\ Append(p, k) \in Seq(StripKinds)
                                   /\ \A i \in DOMAIN Append(p, k) : Append(p, k)[i] = k \/ (i \in DOMAIN p /\ Append(p, k)[i] = p[i])
    OBVIOUS
  <2>4. r = Append(Tail(q), k)
    BY <1>3
  <2> QED
    BY <2>2, <2>3, <2>4
<1> QED
  BY <1>2, <1>3

LEMMA StripPulled ==
  ASSUME NEW q \in Seq(StripKinds), q # <<>>
  PROVE  /\ Tail(q) \in Seq(StripKinds) /\ Head(q) \in StripKinds /\ 1 \in DOMAIN q /\ Head(q) = q[1]
         /\ \A i \in DOMAIN Tail(q) : i + 1 \in DOMAIN q /\ Tail(q)[i] = q[i + 1]
OBVIOUS

\* The browser arms the strip, which private overrules.
LEMMA ArmKeeps ==
  ASSUME StripInv, Strip!ApplyArm \/ \E b \in BOOLEAN : Strip!SetRecordArm(b)
  PROVE  StripInv'
<1>1. CASE Strip!ApplyArm
  <2>1. /\ self_ws.op = "arm" /\ self_ws' = Strip!Idle
        /\ armed' = IF current = 0 THEN armed ELSE [armed EXCEPT ![current] = self_ws.value /\ ~self_private]
        /\ UNCHANGED <<self_armed_user, self_private, current, buffer, made, capture, mixing, secret, stem, mix>>
    BY <1>1 DEF Strip!ApplyArm, Strip!Armed, Strip!EffectiveArm, Strip!files
  <2>2. self_ws.value \in BOOLEAN
    BY <2>1, StripRecords DEF StripInv, StripTyped
  <2>3. armed' \in [StripCells -> BOOLEAN] /\ \A c \in StripCells : armed'[c] => armed[c] \/ ~self_private
    BY <2>1, <2>2 DEF StripInv, StripTyped
  <2>4. \A c \in StripCells : secret /\ ~armed[c] => ~armed'[c]
    BY <2>3 DEF StripInv
  <2>5. StripTyped'
    BY <2>1, <2>3 DEF StripInv, StripTyped
  <2>6. capture # Strip!Idle => capture.cell \in StripCells
    BY StripRecords DEF StripInv, StripTyped
  <2>7. mixing # Strip!Idle => mixing.cell \in StripCells
    BY StripRecords DEF StripInv, StripTyped
  <2>8. current # 0 => current \in StripCells
    BY MixerConstants DEF StripInv, StripTyped, StripCells, Strip!StripConstants
  <2> QED
    BY <2>1, <2>4, <2>5, <2>6, <2>7, <2>8 DEF StripInv
<1>2. ASSUME NEW b \in BOOLEAN, Strip!SetRecordArm(b)
      PROVE  StripInv'
  <2>1. /\ self_armed_user' = b /\ self_ws' = [op |-> "arm", value |-> b]
        /\ UNCHANGED <<self_private, current, armed, buffer, made, capture, mixing, secret, stem, mix>>
    BY <1>2 DEF Strip!SetRecordArm, Strip!cellVars, Strip!files
  <2>2. self_ws' \in [op : {"arm", "private"}, value : BOOLEAN] /\ self_ws'.op # "private"
    BY <2>1
  <2>3. StripTyped'
    BY <2>1, <2>2 DEF StripInv, StripTyped
  <2> QED
    BY <2>1, <2>2, <2>3 DEF StripInv
<1> QED
  BY <1>1, <1>2

\* The switch to private and back: at its beginning what was captured is of before.
LEMMA SetPrivateKeeps ==
  ASSUME StripInv, NEW b \in BOOLEAN, Strip!SetPrivate(b)
  PROVE  StripInv'
<1>1. /\ self_private' = b /\ self_ws' = [op |-> "private", value |-> b]
      /\ UNCHANGED <<self_armed_user, current, armed, made, stem, mix>>
  BY DEF Strip!SetPrivate, Strip!files
<1>2. self_ws' \in [op : {"arm", "private"}, value : BOOLEAN] /\ self_ws'.value = b
  BY <1>1
<1>3. CASE b
  <2>1. UNCHANGED <<secret, buffer, capture, mixing>>
    BY <1>3 DEF Strip!SetPrivate
  <2>2. StripTyped'
    BY <1>1, <1>2, <2>1 DEF StripInv, StripTyped
  <2> QED
    BY <1>1, <1>2, <1>3, <2>1, <2>2 DEF StripInv
<1>4. CASE ~b
  <2>1. /\ ~secret' /\ secret' \in BOOLEAN
        /\ buffer' = [c \in StripCells |-> [i \in DOMAIN buffer[c] |-> Strip!Aged(buffer[c][i])]]
        /\ capture' = Strip!Older(capture) /\ mixing' = Strip!Older(mixing)
    BY <1>4 DEF Strip!SetPrivate, Strip!Cells, StripCells
  <2>2. ASSUME NEW c \in StripCells
        PROVE  /\ buffer'[c] \in Seq(StripKinds) /\ (buffer[c] = <<>> => buffer'[c] = <<>>)
               /\ \A i \in DOMAIN buffer'[c] : buffer'[c][i] # "secret"
    <3>1. buffer[c] \in Seq(StripKinds)
      BY DEF StripInv, StripTyped
    <3>2. buffer'[c] = [i \in DOMAIN buffer[c] |-> Strip!Aged(buffer[c][i])]
      BY <2>1
    <3>3. \A i \in DOMAIN buffer[c] : buffer[c][i] \in StripKinds
      BY <3>1
    <3>4. buffer'[c] \in [DOMAIN buffer[c] -> StripKinds] /\ \A i \in DOMAIN buffer'[c] : buffer'[c][i] # "secret"
      BY <3>2, <3>3, StripAged
    <3>5. \A S : \A q \in Seq(S) : \A f \in [DOMAIN q -> S] : f \in Seq(S) /\ Len(f) = Len(q)
      OBVIOUS
    <3>6. buffer'[c] \in Seq(StripKinds) /\ Len(buffer'[c]) = Len(buffer[c])
      BY <3>1, <3>4, <3>5
    <3>7. \A q \in Seq(StripKinds) : q = <<>> <=> Len(q) = 0
      OBVIOUS
    <3> QED
      BY <3>1, <3>4, <3>6, <3>7
  <2>3. /\ capture' \in {Strip!Idle} \cup [op : {"push", "stem"}, kind : StripKinds, cell : StripCells]
        /\ capture' # Strip!Idle => capture # Strip!Idle /\ capture'.cell = capture.cell /\ capture'.kind # "secret"
    <3>1. CASE capture = Strip!Idle
      BY <2>1, <3>1, StripOlder
    <3>2. CASE capture \in [op : {"push", "stem"}, kind : StripKinds, cell : StripCells]
      BY <2>1, <3>2, StripOlder, StripRecords
    <3> QED
      BY <3>1, <3>2 DEF StripInv, StripTyped
  <2>4. /\ mixing' \in {Strip!Idle} \cup [op : {"pull"}, cell : StripCells] \cup [op : {"mix"}, kind : StripKinds, cell : StripCells]
        /\ mixing' # Strip!Idle => mixing # Strip!Idle /\ mixing'.cell = mixing.cell /\ (mixing'.op = "mix" => mixing'.kind # "secret")
    <3>1. CASE mixing = Strip!Idle
      BY <2>1, <3>1, StripOlder
    <3>2. CASE mixing \in [op : {"pull"}, cell : StripCells]
      BY <2>1, <3>2, StripOlder, StripRecords
    <3>3. CASE mixing \in [op : {"mix"}, kind : StripKinds, cell : StripCells]
      <4>1. mixing # Strip!Idle
        BY <3>3, StripRecords
      <4> QED
        BY <2>1, <3>3, <4>1, StripOlder
    <3> QED
      BY <3>1, <3>2, <3>3 DEF StripInv, StripTyped
  <2>5. buffer' \in [StripCells -> Seq(StripKinds)]
    <3>1. buffer' = [c \in StripCells |-> buffer'[c]]
      BY <2>1
    <3> QED
      BY <2>2, <3>1
  <2>6. StripTyped'
    BY <1>1, <1>2, <2>1, <2>3, <2>4, <2>5 DEF StripInv, StripTyped
  <2> QED
    <3>1. \A c \in StripCells : c > made' => buffer'[c] = <<>>
      BY <1>1, <2>2 DEF StripInv
    <3>2. \A c \in StripCells : \A i \in DOMAIN buffer'[c] : buffer'[c][i] # "secret"
      BY <2>2
    <3>3. capture' # Strip!Idle => capture'.cell <= made' /\ capture'.kind # "secret"
      BY <1>1, <2>3 DEF StripInv
    <3>4. mixing' # Strip!Idle => mixing'.cell <= made' /\ (mixing'.op = "mix" => mixing'.kind # "secret")
      BY <1>1, <2>4 DEF StripInv
    <3>5. self_ws' # Strip!Idle /\ self_ws'.op = "private" => self_private' = self_ws'.value
      BY <1>1, <1>2
    <3>6. "secret" \notin stem' /\ "secret" \notin mix'
      BY <1>1 DEF StripInv
    <3> QED
      BY <2>1, <2>6, <3>1, <3>2, <3>3, <3>4, <3>5, <3>6 DEF StripInv
<1> QED
  BY <1>3, <1>4

\* The end of the switch: the cell is armed as was wished, or not at all.
LEMMA ApplyPrivateKeeps ==
  ASSUME StripInv, Strip!ApplyPrivate
  PROVE  StripInv'
<1>1. /\ self_ws.op = "private" /\ self_ws' = Strip!Idle /\ secret' = self_ws.value
      /\ armed' = IF current = 0 THEN armed ELSE [armed EXCEPT ![current] = self_armed_user /\ ~self_ws.value]
      /\ UNCHANGED <<self_armed_user, self_private, current, buffer, made, capture, mixing, stem, mix>>
  BY DEF Strip!ApplyPrivate, Strip!Armed, Strip!files
<1>2. self_ws.value \in BOOLEAN /\ self_ws # Strip!Idle
  BY <1>1, StripRecords DEF StripInv, StripTyped
<1>3. self_private = self_ws.value
  BY <1>1, <1>2 DEF StripInv
<1>4. secret => secret'
  BY <1>1, <1>3 DEF StripInv
<1>5. armed' \in [StripCells -> BOOLEAN] /\ \A c \in StripCells : armed'[c] => armed[c] \/ ~secret'
  BY <1>1, <1>2 DEF StripInv, StripTyped
<1>6. current # 0 => current \in StripCells
  BY MixerConstants DEF StripInv, StripTyped, StripCells, Strip!StripConstants
<1>7. secret' /\ current # 0 => ~armed'[current]
  BY <1>1, <1>2, <1>6 DEF StripInv, StripTyped
<1>8. \A c \in StripCells : secret /\ ~armed[c] => ~armed'[c]
  BY <1>4, <1>5
<1>9. StripTyped'
  BY <1>1, <1>2, <1>5 DEF StripInv, StripTyped
<1>10. capture # Strip!Idle => capture.cell \in StripCells
  BY StripRecords DEF StripInv, StripTyped
<1>11. mixing # Strip!Idle => mixing.cell \in StripCells
  BY StripRecords DEF StripInv, StripTyped
<1> QED
  BY <1>1, <1>3, <1>4, <1>7, <1>8, <1>9, <1>10, <1>11 DEF StripInv

\* A new cell, by the start of a capture or by the health task: it is not armed in private.
LEMMA MakeCellKeeps ==
  ASSUME StripInv, Strip!StartCapture \/ Strip!ResetLocalStream
  PROVE  StripInv'
<1>1. PICK b \in BOOLEAN :
        /\ Strip!MakeCell(b) /\ (secret => ~b)
        /\ UNCHANGED <<self_armed_user, self_private, self_ws, capture, mixing, secret, stem, mix>>
  <2>1. CASE Strip!StartCapture
    BY <2>1 DEF Strip!StartCapture, Strip!files
  <2>2. CASE Strip!ResetLocalStream
    <3>1. current \in StripCells
      BY <2>2, MixerConstants DEF StripInv, StripTyped, StripCells, Strip!StripConstants, Strip!ResetLocalStream
    <3>2. armed[current] \in BOOLEAN /\ (secret => ~armed[current])
      BY <2>2, <3>1 DEF StripInv, StripTyped, Strip!ResetLocalStream
    <3> QED
      BY <2>2, <3>2 DEF Strip!ResetLocalStream, Strip!files
  <2> QED
    BY <2>1, <2>2
<1>2. PICK n \in StripCells : n = made + 1
  BY <1>1, MixerConstants DEF Strip!MakeCell, StripInv, StripTyped, StripCells, Strip!StripConstants
<1>3. made' = n /\ current' = n /\ armed' = [armed EXCEPT ![n] = b] /\ buffer' = buffer
  BY <1>1, <1>2 DEF Strip!MakeCell
<1>4. made \in Nat /\ n \in Nat /\ n > made /\ n <= MaxCells /\ MaxCells \in Nat
  BY <1>2, MixerConstants DEF StripInv, StripTyped, StripCells, Strip!StripConstants
<1>5. armed' \in [StripCells -> BOOLEAN] /\ armed'[n] = b /\ \A c \in StripCells : c # n => armed'[c] = armed[c]
  BY <1>3 DEF StripInv, StripTyped
<1>6. StripTyped'
  <2>1. made' \in 0 .. MaxCells /\ current' \in 0 .. made'
    BY <1>3, <1>4
  <2> QED
    BY <1>1, <1>3, <1>5, <2>1 DEF StripInv, StripTyped
<1>7. \A c \in StripCells : c <= made => c # n /\ c <= n
  BY <1>4 DEF StripCells
<1>8. capture # Strip!Idle => capture.cell \in StripCells /\ capture.cell <= made
  BY StripRecords DEF StripInv, StripTyped
<1>9. mixing # Strip!Idle => mixing.cell \in StripCells /\ mixing.cell <= made
  BY StripRecords DEF StripInv, StripTyped
<1>10. \A c \in StripCells : \A i \in DOMAIN buffer[c] : buffer[c][i] = "secret" => secret /\ ~armed'[c]
  BY <1>1, <1>5 DEF StripInv
<1>11. \A c \in StripCells : c > n => buffer[c] = <<>>
  <2>1. \A c \in StripCells : c > n => c > made
    BY <1>4 DEF StripCells
  <2> QED
    BY <2>1 DEF StripInv
<1> QED
  BY <1>1, <1>3, <1>5, <1>6, <1>7, <1>8, <1>9, <1>10, <1>11 DEF StripInv

\* The capture: a block is taken, given to the cell it found, written to the stem.
LEMMA CaptureKeeps ==
  ASSUME StripInv, Strip!Capture \/ Strip!PushSelf \/ Strip!TapStem
  PROVE  StripInv'
<1>1. CASE Strip!Capture
  <2>1. /\ current # 0 /\ capture' = [op |-> "push", kind |-> Strip!Kind, cell |-> current]
        /\ UNCHANGED <<self_armed_user, self_private, current, armed, buffer, made, self_ws, mixing, secret, stem, mix>>
    BY <1>1 DEF Strip!Capture, Strip!cellVars, Strip!files
  <2>2. current \in StripCells /\ current <= made
    BY <2>1, MixerConstants DEF StripInv, StripTyped, StripCells, Strip!StripConstants
  <2>3. Strip!Kind \in StripKinds /\ (Strip!Kind = "secret" => secret)
    BY DEF Strip!Kind, StripKinds
  <2>4. /\ capture' \in [op : {"push", "stem"}, kind : StripKinds, cell : StripCells]
        /\ capture'.cell = current /\ capture'.kind = Strip!Kind
    BY <2>1, <2>2, <2>3
  <2>5. StripTyped'
    BY <2>1, <2>4 DEF StripInv, StripTyped
  <2> QED
    BY <2>1, <2>2, <2>3, <2>4, <2>5 DEF StripInv
<1>2. CASE Strip!PushSelf
  <2>1. /\ capture.op = "push" /\ capture' = [capture EXCEPT !.op = "stem"]
        /\ buffer' = [buffer EXCEPT ![capture.cell] = IF Len(@) < MaxBlocks THEN Append(@, capture.kind) ELSE Append(Tail(@), capture.kind)]
        /\ UNCHANGED <<self_armed_user, self_private, current, armed, made, self_ws, mixing, secret, stem, mix>>
    BY <1>2 DEF Strip!PushSelf, Strip!files
  <2>2. /\ capture \in [op : {"push", "stem"}, kind : StripKinds, cell : StripCells] /\ capture # Strip!Idle
        /\ capture.kind \in StripKinds /\ capture.cell \in StripCells
    BY <2>1, StripRecords DEF StripInv, StripTyped
  <2>3. /\ capture' \in [op : {"push", "stem"}, kind : StripKinds, cell : StripCells]
        /\ capture'.cell = capture.cell /\ capture'.kind = capture.kind
    BY <2>1, <2>2
  <2>4. PICK c \in StripCells : c = capture.cell
    BY <2>2
  <2>5. buffer \in [StripCells -> Seq(StripKinds)]
    BY DEF StripInv, StripTyped
  <2>6. /\ buffer' = [buffer EXCEPT ![c] = buffer'[c]] /\ buffer'[c] \in Seq(StripKinds)
        /\ \A i \in DOMAIN buffer'[c] : buffer'[c][i] = capture.kind \/ \E j \in DOMAIN buffer[c] : buffer'[c][i] = buffer[c][j]
    <3>1. buffer'[c] = IF Len(buffer[c]) < MaxBlocks THEN Append(buffer[c], capture.kind) ELSE Append(Tail(buffer[c]), capture.kind)
      BY <2>1, <2>4, <2>5
    <3>2. /\ buffer'[c] \in Seq(StripKinds)
          /\ \A i \in DOMAIN buffer'[c] : buffer'[c][i] = capture.kind \/ \E j \in DOMAIN buffer[c] : buffer'[c][i] = buffer[c][j]
      <4>1. buffer[c] \in Seq(StripKinds)
        BY <2>5
      <4>2. \A r : r = (IF Len(buffer[c]) < MaxBlocks THEN Append(buffer[c], capture.kind) ELSE Append(Tail(buffer[c]), capture.kind)) =>
              r \in Seq(StripKinds) /\ \A i \in DOMAIN r : r[i] = capture.kind \/ \E j \in DOMAIN buffer[c] : r[i] = buffer[c][j]
        BY <2>2, <4>1, StripPushed
      <4> QED
        BY <3>1, <4>2, Zenon
    <3>3. buffer' = [buffer EXCEPT ![c] = buffer'[c]]
      BY <2>1, <2>4, <2>5, <3>1
    <3> QED
      BY <3>2, <3>3
  <2>7. \A d \in StripCells : d # c => buffer'[d] = buffer[d]
    BY <2>5, <2>6
  <2>8. StripTyped'
    BY <2>1, <2>3, <2>5, <2>6 DEF StripInv, StripTyped
  <2>9. c <= made /\ (capture.kind = "secret" => secret /\ ~armed[c])
    BY <2>2, <2>4 DEF StripInv
  <2>10. \A d \in StripCells : \A i \in DOMAIN buffer'[d] : buffer'[d][i] = "secret" => secret /\ ~armed[d]
    <3>1. ASSUME NEW i \in DOMAIN buffer'[c], buffer'[c][i] = "secret"
          PROVE  secret /\ ~armed[c]
      BY <2>6, <2>9, <3>1 DEF StripInv
    <3> QED
      BY <3>1, <2>7 DEF StripInv
  <2>11. \A d \in StripCells : d > made => buffer'[d] = <<>>
    <3>1. \A d \in StripCells : d > made => d # c
      BY <2>9, MixerConstants DEF StripInv, StripTyped, StripCells, Strip!StripConstants
    <3> QED
      BY <3>1, <2>7 DEF StripInv
  <2> QED
    BY <2>1, <2>2, <2>3, <2>4, <2>8, <2>9, <2>10, <2>11 DEF StripInv
<1>3. CASE Strip!TapStem
  <2>1. /\ capture.op = "stem" /\ capture' = Strip!Idle
        /\ stem' = IF ~self_private THEN stem \cup {capture.kind} ELSE stem
        /\ UNCHANGED <<self_armed_user, self_private, current, armed, buffer, made, self_ws, mixing, secret, mix>>
    BY <1>3 DEF Strip!TapStem, Strip!StemOpen, Strip!cellVars
  <2>2. capture # Strip!Idle
    BY <2>1, StripRecords DEF StripInv, StripTyped
  <2>3. "secret" \notin stem'
    BY <2>1, <2>2 DEF StripInv
  <2>4. StripTyped'
    BY <2>1 DEF StripInv, StripTyped
  <2> QED
    BY <2>1, <2>3, <2>4 DEF StripInv
<1> QED
  BY <1>1, <1>2, <1>3

\* The output callback: the cell it found is pulled, then its arming is read.
LEMMA MixingKeeps ==
  ASSUME StripInv, Strip!ListCells \/ Strip!PullSelf \/ Strip!TapMix
  PROVE  StripInv'
<1>1. CASE Strip!ListCells
  <2>1. /\ current # 0 /\ mixing' = [op |-> "pull", cell |-> current]
        /\ UNCHANGED <<self_armed_user, self_private, current, armed, buffer, made, self_ws, capture, secret, stem, mix>>
    BY <1>1 DEF Strip!ListCells, Strip!cellVars, Strip!files
  <2>2. current \in StripCells /\ current <= made
    BY <2>1, MixerConstants DEF StripInv, StripTyped, StripCells, Strip!StripConstants
  <2>3. mixing' \in [op : {"pull"}, cell : StripCells] /\ mixing'.cell = current /\ mixing'.op # "mix"
    BY <2>1, <2>2
  <2>4. StripTyped'
    BY <2>1, <2>3 DEF StripInv, StripTyped
  <2> QED
    BY <2>1, <2>2, <2>3, <2>4 DEF StripInv
<1>2. CASE Strip!PullSelf
  <2>1. /\ mixing.op = "pull"
        /\ UNCHANGED <<self_armed_user, self_private, current, armed, made, self_ws, capture, secret, stem, mix>>
    BY <1>2 DEF Strip!PullSelf, Strip!files
  <2>2. PICK c \in StripCells : c = mixing.cell /\ mixing # Strip!Idle
    BY <2>1, StripRecords DEF StripInv, StripTyped
  <2>3. buffer \in [StripCells -> Seq(StripKinds)] /\ c <= made
    BY <2>2 DEF StripInv, StripTyped
  <2>4. CASE buffer[c] = <<>>
    <3>1. mixing' = Strip!Idle /\ UNCHANGED buffer
      BY <1>2, <2>2, <2>4 DEF Strip!PullSelf
    <3>2. StripTyped'
      BY <2>1, <3>1 DEF StripInv, StripTyped
    <3> QED
      BY <2>1, <3>1, <3>2 DEF StripInv
  <2>5. CASE buffer[c] # <<>>
    <3>1. mixing' = [op |-> "mix", cell |-> c, kind |-> Head(buffer[c])] /\ buffer' = [buffer EXCEPT ![c] = Tail(@)]
      BY <1>2, <2>2, <2>5 DEF Strip!PullSelf
    <3>2. /\ Tail(buffer[c]) \in Seq(StripKinds) /\ Head(buffer[c]) \in StripKinds
          /\ 1 \in DOMAIN buffer[c] /\ Head(buffer[c]) = buffer[c][1]
          /\ \A i \in DOMAIN Tail(buffer[c]) : i + 1 \in DOMAIN buffer[c] /\ Tail(buffer[c])[i] = buffer[c][i + 1]
      BY <2>3, <2>5, StripPulled
    <3>3. /\ mixing' \in [op : {"mix"}, kind : StripKinds, cell : StripCells]
          /\ mixing'.cell = c /\ mixing'.kind = Head(buffer[c])
      BY <3>1, <3>2
    <3>4. buffer'[c] = Tail(buffer[c]) /\ \A d \in StripCells : d # c => buffer'[d] = buffer[d]
      BY <2>3, <3>1
    <3>5. buffer' \in [StripCells -> Seq(StripKinds)]
      BY <2>3, <3>1, <3>2
    <3>6. StripTyped'
      BY <2>1, <3>3, <3>5 DEF StripInv, StripTyped
    <3>7. Head(buffer[c]) = "secret" => secret /\ ~armed[c]
      BY <3>2 DEF StripInv
    <3>8. \A d \in StripCells : \A i \in DOMAIN buffer'[d] : buffer'[d][i] = "secret" => secret /\ ~armed[d]
      <4>1. \A i \in DOMAIN buffer'[c] : buffer'[c][i] = "secret" => secret /\ ~armed[c]
        BY <3>2, <3>4 DEF StripInv
      <4>2. \A d \in StripCells : d # c => \A i \in DOMAIN buffer'[d] : buffer'[d][i] = "secret" => secret /\ ~armed[d]
        BY <3>4 DEF StripInv
      <4> QED
        BY <4>1, <4>2
    <3>9. \A d \in StripCells : d > made => buffer'[d] = <<>>
      <4>1. \A d \in StripCells : d > made => d # c
        BY <2>3, MixerConstants DEF StripInv, StripTyped, StripCells, Strip!StripConstants
      <4> QED
        BY <4>1, <3>4 DEF StripInv
    <3> QED
      BY <2>1, <2>3, <3>3, <3>6, <3>7, <3>8, <3>9 DEF StripInv
  <2> QED
    BY <2>4, <2>5
<1>3. CASE Strip!TapMix
  <2>1. /\ mixing.op = "mix" /\ mixing' = Strip!Idle
        /\ mix' = IF armed[mixing.cell] THEN mix \cup {mixing.kind} ELSE mix
        /\ UNCHANGED <<self_armed_user, self_private, current, armed, buffer, made, self_ws, capture, secret, stem>>
    BY <1>3 DEF Strip!TapMix, Strip!cellVars
  <2>2. mixing # Strip!Idle
    BY <2>1, StripRecords DEF StripInv, StripTyped
  <2>3. "secret" \notin mix'
    BY <2>1, <2>2 DEF StripInv
  <2>4. StripTyped'
    BY <2>1 DEF StripInv, StripTyped
  <2> QED
    BY <2>1, <2>3, <2>4 DEF StripInv
<1> QED
  BY <1>1, <1>2, <1>3

\* At first there is no cell and nothing is private.
LEMMA StripStarts == Strip!Init => StripInv
<1> SUFFICES ASSUME Strip!Init
             PROVE  StripInv
  OBVIOUS
<1> USE DEF Strip!Init, Strip!Cells, StripCells
<1>1. armed \in [StripCells -> BOOLEAN]
  OBVIOUS
<1>2. buffer \in [StripCells -> Seq(StripKinds)]
  <2>1. <<>> \in Seq(StripKinds)
    OBVIOUS
  <2> QED
    BY <2>1, Zenon
<1>3. made \in 0 .. MaxCells /\ current \in 0 .. made
  BY MixerConstants DEF Strip!StripConstants
<1>4. StripTyped
  BY <1>1, <1>2, <1>3 DEF StripTyped
<1>5. \A c \in StripCells : buffer[c] = <<>> /\ \A i \in DOMAIN buffer[c] : FALSE
  OBVIOUS
<1> QED
  BY <1>4, <1>5 DEF StripInv

\* Every step keeps it.
LEMMA StripStep == StripInv /\ [Strip!Next]_(Strip!vars) => StripInv'
<1> SUFFICES ASSUME StripInv, [Strip!Next]_(Strip!vars)
             PROVE  StripInv'
  OBVIOUS
<1>1. CASE UNCHANGED Strip!vars
  BY <1>1 DEF Strip!vars, Strip!cellVars, Strip!files, StripInv, StripTyped
<1>2. CASE Strip!StopCapture
  <2>1. /\ current' = 0
        /\ UNCHANGED <<self_armed_user, self_private, armed, buffer, made, self_ws, capture, mixing, secret, stem, mix>>
    BY <1>2 DEF Strip!StopCapture, Strip!files
  <2>2. 0 \in 0 .. made
    BY MixerConstants DEF StripInv, StripTyped, Strip!StripConstants
  <2>3. StripTyped'
    BY <2>1, <2>2 DEF StripInv, StripTyped
  <2> QED
    BY <2>1, <2>3 DEF StripInv
<1> QED
  BY <1>1, <1>2, ArmKeeps, SetPrivateKeeps, ApplyPrivateKeeps, MakeCellKeeps, CaptureKeeps, MixingKeeps DEF Strip!Next

\* While the strip is private nothing captured since reaches the stem or the MIX file, and
\* the cell of the strip is not armed (AudioMixer set_self_private, push_self_samples,
\* mix_into, reset_local_stream).
THEOREM NothingSecretIsWritten == Strip!Spec => []NothingSecretWritten
<1>1. Strip!Spec => []StripInv
  BY StripStarts, StripStep, PTL DEF Strip!Spec
<1>2. StripInv => NothingSecretWritten
  BY DEF StripInv, NothingSecretWritten, Strip!NothingSecretWritten, Strip!NeverArmedInPrivate
<1> QED
  BY <1>1, <1>2, PTL

-----------------------------------------------------------------------------
(* The clicks and the track (Metronome, Backing).                          *)

\* Frames of a part of a beat; a grid is even when they are whole, and moves by less.
Grids == [beat : Nat, parts : Nat \ {0}, frame : Int, index : Nat]
Part(g) == g.beat \div g.parts
EvenGrid(g) == g \in Grids /\ g.beat % g.parts = 0 /\ (g.beat > 0 => Drift < Part(g))

BeatTyped ==
  /\ enabled \in BOOLEAN /\ twice \in BOOLEAN /\ EvenGrid(grid)
  /\ last \in Int /\ frames \in Nat /\ since \in Nat /\ since =< frames
  /\ clicked \subseteq Int /\ jumped \subseteq Int
\* The keys of the block that comes.
DueNow == IF enabled THEN Metro!Due(grid, last, frames, frames + BLOCK) ELSE {}
\* The last key is that of the last beat clicked, a block at least after the grid began.
LastKey ==
  /\ \A k \in clicked : k =< last
  /\ last # Metro!NoKey => enabled /\ grid.beat > 0 /\ since + BLOCK =< frames
\* What the frames rendered have passed, and what the last key hides from those to come.
Passed ==
  enabled /\ grid.beat > 0 =>
    \A k \in 0 .. MaxFrames : Metro!Onset(grid, k) \in since .. frames - 1 => k \in clicked \cup jumped
Hidden == \A k \in 0 .. MaxFrames : k =< last /\ since =< Metro!Onset(grid, k) => k \in clicked \cup jumped

BeatInv == BeatTyped /\ ~twice /\ LastKey /\ Passed /\ Hidden

\* What is heard of the track is there to be heard, at the level the fade has reached.
TrackInv ==
  /\ pcm \in Nat /\ env \in Nat /\ level \in Nat
  /\ env > 0 => playing /\ ready /\ pcm > 0
  /\ ~cut => level = env

\* Products and quotients.
LEMMA TimesUp ==
  ASSUME NEW a \in Int, NEW b \in Int, NEW q \in Nat, a < b
  PROVE  a * q + q =< b * q
<1>1. (b - (a + 1)) \in Nat /\ (b - (a + 1)) * q \in Nat  OBVIOUS
<1>2. (b - (a + 1)) * q = b * q - (a * q + q)  OBVIOUS
<1>3. a * q \in Int /\ b * q \in Int  OBVIOUS
<1>4. QED  BY <1>1, <1>2, <1>3

LEMMA Cancel ==
  ASSUME NEW a \in Int, NEW b \in Int, NEW q \in Nat, a * q < b * q
  PROVE  a < b
<1>1. CASE b < a
  <2>1. b * q + q =< a * q  BY <1>1, TimesUp
  <2>2. a * q \in Int /\ b * q \in Int  OBVIOUS
  <2>3. QED  BY <2>1, <2>2
<1>2. CASE a = b
  <2>1. a * q = b * q /\ a * q \in Int  BY <1>2
  <2>2. QED  BY <2>1
<1>3. QED  BY <1>1, <1>2

LEMMA DivMod ==
  ASSUME NEW x \in Int, NEW n \in Nat \ {0}
  PROVE  /\ x \div n \in Int /\ x % n \in 0 .. n - 1 /\ x = (x \div n) * n + (x % n)
         /\ x \in Nat => x \div n \in Nat
OBVIOUS

LEMMA DivTimes ==
  ASSUME NEW x \in Int, NEW n \in Nat \ {0}
  PROVE  (x * n) \div n = x
<1>1. PICK y \in Int : y = x * n  OBVIOUS
<1>2. PICK d \in Int, r \in 0 .. n - 1 : d = y \div n /\ y = d * n + r  BY DivMod
<1>3. x * n \in Int /\ d * n \in Int /\ x * n = d * n + r  BY <1>1, <1>2
<1>4. ~(d < x)
  <2>1. ASSUME d < x  PROVE FALSE
    <3>1. d * n + n =< x * n  BY <2>1, TimesUp
    <3>2. QED  BY <1>3, <3>1
  <2>2. QED  BY <2>1
<1>5. ~(x < d)
  <2>1. ASSUME x < d  PROVE FALSE
    <3>1. x * n + n =< d * n  BY <2>1, TimesUp
    <3>2. QED  BY <1>3, <3>1
  <2>2. QED  BY <2>1
<1>6. QED  BY <1>1, <1>2, <1>4, <1>5

\* The onsets of an even grid follow each other at the same distance.
LEMMA GridParts ==
  ASSUME NEW g, EvenGrid(g)
  PROVE  /\ g.beat \in Nat /\ g.parts \in Nat \ {0} /\ g.frame \in Int /\ g.index \in Nat
         /\ Part(g) \in Nat /\ g.beat = Part(g) * g.parts
<1>1. g.beat \in Nat /\ g.parts \in Nat \ {0} /\ g.frame \in Int /\ g.index \in Nat /\ g.beat % g.parts = 0
  BY DEF EvenGrid, Grids
<1>2. PICK m \in Nat, n \in Nat \ {0} : m = g.beat /\ n = g.parts  BY <1>1
<1>3. m \div n \in Nat /\ m = (m \div n) * n + (m % n)  BY DivMod
<1>4. m % n = 0 /\ (m \div n) * n \in Int  BY <1>1, <1>2, <1>3
<1>5. QED  BY <1>1, <1>2, <1>3, <1>4 DEF Part

LEMMA OnsetIs ==
  ASSUME NEW g, EvenGrid(g), NEW k \in Int
  PROVE  /\ Metro!Onset(g, k) = g.frame + (k - g.index * g.parts) * Part(g)
         /\ Metro!Onset(g, k) \in Int
<1>1. PICK q \in Nat, p \in Nat \ {0}, f \in Int, i \in Nat :
        q = Part(g) /\ p = g.parts /\ f = g.frame /\ i = g.index /\ g.beat = q * p
  BY GridParts
<1>2. PICK x \in Int : x = k - i * p  OBVIOUS
<1>3. x * q \in Int /\ x * (q * p) = (x * q) * p  OBVIOUS
<1>4. (x * (q * p)) \div p = x * q  BY <1>3, DivTimes
<1>5. Metro!Onset(g, k) = f + (x * (q * p)) \div p  BY <1>1, <1>2 DEF Metro!Onset
<1>6. Metro!Onset(g, k) = f + x * q  BY <1>4, <1>5
<1>7. QED  BY <1>1, <1>2, <1>3, <1>6

LEMMA OnsetsInOrder ==
  ASSUME NEW g, EvenGrid(g), NEW k \in Int, NEW l \in Int, k < l
  PROVE  Metro!Onset(g, k) + Part(g) =< Metro!Onset(g, l)
<1>1. PICK q \in Nat, p \in Nat \ {0}, f \in Int, i \in Nat :
        q = Part(g) /\ p = g.parts /\ f = g.frame /\ i = g.index
  BY GridParts
<1>2. PICK x \in Int, y \in Int : x = k - i * p /\ y = l - i * p  OBVIOUS
<1>3. x < y
  <2>1. i * p \in Int  OBVIOUS
  <2>2. QED  BY <1>2, <2>1
<1>4. x * q + q =< y * q /\ x * q \in Int /\ y * q \in Int  BY <1>3, TimesUp
<1>5. Metro!Onset(g, k) = f + x * q /\ Metro!Onset(g, l) = f + y * q  BY <1>1, <1>2, OnsetIs
<1>6. QED  BY <1>1, <1>4, <1>5

\* The grid seen from another beat and moved by d: each onset moves by d.
LEMMA OnsetsMove ==
  ASSUME NEW g, EvenGrid(g), NEW b \in -1 .. 1, NEW d \in Int, g.index + b >= 0,
         NEW h, h = Metro!Moved(g, g.frame + b * g.beat + d, g.index + b)
  PROVE  /\ EvenGrid(h) /\ h.beat = g.beat
         /\ \A k \in Int : Metro!Onset(h, k) = Metro!Onset(g, k) + d
<1>1. PICK q \in Nat, p \in Nat \ {0}, f \in Int, i \in Nat :
        q = Part(g) /\ p = g.parts /\ f = g.frame /\ i = g.index /\ g.beat = q * p
  BY GridParts
<1>2. i + b \in Nat /\ f + b * (q * p) + d \in Int  BY <1>1
<1>3. g \in Grids  BY DEF EvenGrid
<1>4. /\ h \in Grids /\ h.beat = g.beat /\ h.parts = g.parts
      /\ h.frame = f + b * (q * p) + d /\ h.index = i + b
  BY <1>1, <1>2, <1>3 DEF Metro!Moved, Grids
<1>5. Part(h) = q /\ EvenGrid(h)  BY <1>1, <1>4 DEF EvenGrid, Part
<1>6. ASSUME NEW k \in Int  PROVE Metro!Onset(h, k) = Metro!Onset(g, k) + d
  <2>1. Metro!Onset(h, k) = f + b * (q * p) + d + (k - (i + b) * p) * q  BY <1>1, <1>4, <1>5, OnsetIs
  <2>2. Metro!Onset(g, k) = f + (k - i * p) * q  BY <1>1, OnsetIs
  <2>3. b * (q * p) + (k - (i + b) * p) * q = (k - i * p) * q
    <3>1. PICK x \in Int : x = i * p  OBVIOUS
    <3>2. PICK y \in Int : y = q * p  OBVIOUS
    <3>3. (i + b) * p = x + b * p  BY <3>1
    <3>4. (k - (x + b * p)) * q = (k - x) * q - b * (q * p)
      <4>1. CASE b = 0  BY <4>1
      <4>2. CASE b = 1  BY <4>2
      <4>3. CASE b = -1  BY <4>3
      <4>4. QED  BY <4>1, <4>2, <4>3
    <3>5. (k - x) * q \in Int /\ b * y \in Int  OBVIOUS
    <3>6. QED  BY <3>1, <3>2, <3>3, <3>4, <3>5
  <2>4. (k - i * p) * q \in Int /\ b * (q * p) \in Int /\ (k - (i + b) * p) * q \in Int  OBVIOUS
  <2>5. QED  BY <2>1, <2>2, <2>3, <2>4
<1>7. QED  BY <1>4, <1>5, <1>6

\* No onset of a block is left out of the beats looked at for it.
LEMMA AllAreLookedAt ==
  ASSUME NEW g, EvenGrid(g), g.beat > 0, NEW start \in Int, NEW stop \in Int, NEW k \in Nat,
         Metro!Onset(g, k) \in start .. stop - 1
  PROVE  k \in Metro!KeysOf(g, Metro!BeatsNear(g, start, stop))
<1>1. PICK q \in Nat, p \in Nat \ {0}, f \in Int, i \in Nat :
        q = Part(g) /\ p = g.parts /\ f = g.frame /\ i = g.index /\ g.beat = q * p
  BY GridParts
<1>2. PICK w \in Nat \ {0} : w = g.beat /\ w = q * p  BY <1>1
<1>3. PICK j \in Nat, r \in 0 .. p - 1 : k = j * p + r
  <2>0. k \in Int  OBVIOUS
  <2>1. k \div p \in Nat /\ k % p \in 0 .. p - 1 /\ k = (k \div p) * p + (k % p)  BY <2>0, DivMod
  <2>2. QED  BY <2>1
<1>4. Metro!Onset(g, k) = f + (j - i) * w + r * q
  <2>1. Metro!Onset(g, k) = f + (k - i * p) * q  BY <1>1, OnsetIs
  <2>2. (j * p + r - i * p) * q = (j - i) * (q * p) + r * q
    <3>1. (j * p - i * p) * q = (j - i) * (q * p)  OBVIOUS
    <3>2. PICK x \in Int : x = j * p - i * p  OBVIOUS
    <3>3. (x + r) * q = x * q + r * q  OBVIOUS
    <3>4. j * p + r - i * p = x + r
      <4>1. j * p \in Int /\ i * p \in Int  OBVIOUS
      <4>2. QED  BY <3>2, <4>1
    <3>5. QED  BY <3>1, <3>2, <3>3, <3>4
  <2>3. QED  BY <1>2, <1>3, <2>1, <2>2
<1>5. PICK o \in Int, m \in Int : o = Metro!Onset(g, k) - f /\ m = j - i /\ start - f =< o /\ o < stop - f
  <2>1. Metro!Onset(g, k) \in Int  BY OnsetIs
  <2>2. QED  BY <2>1
<1>6. m * w =< o /\ o < (m + 1) * w
  <2>1. o = m * w + r * q /\ m * w \in Int /\ r * q \in Nat
    <3>1. r * q \in Nat /\ m * w \in Int  OBVIOUS
    <3>2. QED  BY <1>4, <1>5, <3>1
  <2>2. r * q + q =< p * q  BY TimesUp
  <2>3. p * q = w /\ q > 0
    <3>1. p * q = q * p  OBVIOUS
    <3>2. q = 0 => q * p = 0  OBVIOUS
    <3>3. QED  BY <1>2, <3>1, <3>2
  <2>4. (m + 1) * w = m * w + w  OBVIOUS
  <2>5. QED  BY <2>1, <2>2, <2>3, <2>4
<1>7. (start - f) \div w =< m
  <2>1. PICK x \in Int : x = (start - f) \div w /\ x * w =< start - f
    <3>1. PICK z \in Int : z = start - f  OBVIOUS
    <3>2. z \div w \in Int /\ z % w \in 0 .. w - 1 /\ z = (z \div w) * w + (z % w)  BY DivMod
    <3>3. (z \div w) * w \in Int  BY <3>2
    <3>4. QED  BY <3>1, <3>2, <3>3
  <2>2. x * w < (m + 1) * w
    <3>1. x * w \in Int /\ (m + 1) * w \in Int  OBVIOUS
    <3>2. QED  BY <1>5, <1>6, <2>1, <3>1
  <2>3. x < m + 1  BY <2>2, Cancel
  <2>4. QED  BY <2>1, <2>3
<1>8. m < -((f - stop) \div w)
  <2>1. PICK x \in Int : x = (f - stop) \div w /\ x * w =< f - stop
    <3>1. PICK z \in Int : z = f - stop  OBVIOUS
    <3>2. z \div w \in Int /\ z % w \in 0 .. w - 1 /\ z = (z \div w) * w + (z % w)  BY DivMod
    <3>3. (z \div w) * w \in Int  BY <3>2
    <3>4. QED  BY <3>1, <3>2, <3>3
  <2>2. m * w < (-x) * w
    <3>1. x * w \in Int /\ m * w \in Int /\ (-x) * w = -(x * w)  OBVIOUS
    <3>2. QED  BY <1>5, <1>6, <2>1, <3>1
  <2>3. m < -x  BY <2>2, Cancel
  <2>4. QED  BY <2>1, <2>3
<1>9. j \in Metro!BeatsNear(g, start, stop)
  <2>1. (start - f) \div w \in Int /\ (f - stop) \div w \in Int  BY DivMod
  <2>2. j \in ((start - f) \div w + i - 1) .. (-((f - stop) \div w) + i + 1)  BY <1>5, <1>7, <1>8, <2>1
  <2>3. QED  BY <1>1, <1>2, <2>2 DEF Metro!BeatsNear
<1>10. QED  BY <1>1, <1>3, <1>9 DEF Metro!KeysOf

LEMMA BeatSizes == BLOCK \in Nat \ {0} /\ Drift \in Nat /\ Drift =< BLOCK /\ MaxFrames \in Nat
BY MixerConstants DEF Metro!MetronomeConstants

LEMMA BeatStarts == Metro!Init => BeatInv
<1> SUFFICES ASSUME Metro!Init  PROVE BeatInv
  OBVIOUS
<1>1. /\ enabled = FALSE /\ last = -1 /\ frames = 0 /\ since = 0 /\ clicked = {} /\ twice = FALSE /\ jumped = {}
      /\ grid = [beat |-> 0, parts |-> 1, frame |-> 0, index |-> 0]
  BY DEF Metro!Init, Metro!NoKey
<1>2. EvenGrid(grid)
  <2>1. grid \in Grids /\ grid.beat = 0 /\ grid.parts = 1  BY <1>1 DEF Grids
  <2>2. QED  BY <2>1 DEF EvenGrid
<1>3. BeatTyped
  <2>1. enabled \in BOOLEAN /\ twice \in BOOLEAN  BY <1>1
  <2>2. last \in Int /\ frames \in Nat /\ since \in Nat /\ since =< frames  BY <1>1
  <2>3. clicked \subseteq Int /\ jumped \subseteq Int  BY <1>1
  <2>4. QED  BY <1>2, <2>1, <2>2, <2>3, Zenon DEF BeatTyped
<1>4. LastKey  BY <1>1 DEF LastKey, Metro!NoKey
<1>5. Passed  BY <1>1 DEF Passed
<1>6. Hidden
  <2>1. \A k \in 0 .. MaxFrames : ~(k =< last)  BY <1>1
  <2>2. QED  BY <2>1 DEF Hidden
<1>7. QED  BY <1>1, <1>3, <1>4, <1>5, <1>6 DEF BeatInv

\* A grid begins: nothing is behind it.
LEMMA GridBegins ==
  ASSUME BeatInv, Metro!NewGrid, last' = Metro!NoKey, frames' = frames, enabled' \in BOOLEAN, EvenGrid(grid')
  PROVE  BeatInv'
<1>1. since' = frames /\ clicked' = {} /\ twice' = FALSE /\ jumped' = {} /\ last' = -1 /\ frames' \in Nat
  BY DEF Metro!NewGrid, Metro!NoKey, BeatInv, BeatTyped
<1>2. BeatTyped'
  <2>1. twice' \in BOOLEAN  BY <1>1
  <2>2. last' \in Int /\ frames' \in Nat /\ since' \in Nat /\ since' =< frames'  BY <1>1
  <2>3. clicked' \subseteq Int /\ jumped' \subseteq Int  BY <1>1
  <2>4. QED  BY <2>1, <2>2, <2>3, Zenon DEF BeatTyped
<1>3. LastKey'  BY <1>1 DEF LastKey, Metro!NoKey
<1>4. Passed' /\ Hidden'  BY <1>1 DEF Passed, Hidden
<1>5. QED  BY <1>1, <1>2, <1>3, <1>4 DEF BeatInv

LEMMA KeepsSetConfig ==
  ASSUME BeatInv, NEW on \in BOOLEAN, NEW beat \in Tempos, NEW parts \in Figures, NEW offset \in 0 .. BLOCK,
         NEW index \in 0 .. 1, Metro!SetConfig(on, beat, parts, offset, index)
  PROVE  BeatInv'
<1>1. /\ enabled' = on /\ last' = Metro!NoKey /\ frames' = frames /\ Metro!NewGrid
      /\ grid' = Metro!Moved([grid EXCEPT !.beat = beat, !.parts = parts], frames + offset, index)
  BY DEF Metro!SetConfig, Metro!Configured
<1>2. /\ beat \in Nat /\ parts \in Nat \ {0} /\ beat % parts = 0 /\ (beat > 0 => Drift < beat \div parts)
      /\ frames + offset \in Int /\ index \in Nat
  BY BeatSizes, MixerConstants DEF Metro!MetronomeConstants, BeatInv, BeatTyped
<1>3. grid \in Grids  BY DEF BeatInv, BeatTyped, EvenGrid
<1>4. grid' \in Grids /\ grid'.beat = beat /\ grid'.parts = parts  BY <1>1, <1>2, <1>3 DEF Metro!Moved, Grids
<1>5. EvenGrid(grid')  BY <1>2, <1>4 DEF EvenGrid, Part
<1>6. QED  BY <1>1, <1>5, GridBegins

LEMMA KeepsStop == ASSUME BeatInv, Metro!Stop  PROVE BeatInv'
<1>1. enabled' = FALSE /\ last' = Metro!NoKey /\ frames' = frames /\ grid' = grid /\ Metro!NewGrid
  BY DEF Metro!Stop
<1>2. EvenGrid(grid')  BY <1>1 DEF BeatInv, BeatTyped
<1>3. QED  BY <1>1, <1>2, GridBegins

\* A move is less than a block: what it takes over the frames rendered is among them.
LEMMA KeepsSetGrid ==
  ASSUME BeatInv, NEW d \in -Drift .. Drift, NEW b \in -1 .. 1, Metro!SetGrid(d, b)
  PROVE  BeatInv'
<1>1. /\ grid.index + b >= 0 /\ grid' = Metro!Moved(grid, grid.frame + b * grid.beat + d, grid.index + b)
      /\ jumped' = jumped \cup {k \in 0 .. MaxFrames : /\ Metro!Onset(grid, k) \notin since .. frames - 1
                                                      /\ Metro!Onset(grid', k) \in since .. frames - 1}
      /\ UNCHANGED <<enabled, last, frames, since, clicked, twice>>
  BY DEF Metro!SetGrid
<1>2. EvenGrid(grid) /\ d \in Int /\ d =< BLOCK  BY BeatSizes DEF BeatInv, BeatTyped
<1>3. EvenGrid(grid') /\ grid'.beat = grid.beat /\ \A k \in Int : Metro!Onset(grid', k) = Metro!Onset(grid, k) + d
  BY <1>1, <1>2, OnsetsMove
<1>4. BeatTyped'
  <2>0. jumped \subseteq Int  BY DEF BeatInv, BeatTyped
  <2>1. ASSUME NEW k \in jumped'  PROVE k \in Int
    <3>1. k \in jumped \/ k \in 0 .. MaxFrames  BY <1>1
    <3>2. CASE k \in jumped  BY <2>0, <3>2
    <3>3. CASE k \in 0 .. MaxFrames  BY <3>3, BeatSizes
    <3>4. QED  BY <3>1, <3>2, <3>3
  <2>2. jumped' \subseteq Int  BY <2>1
  <2>3. QED  BY <1>1, <1>3, <2>2 DEF BeatInv, BeatTyped
<1>5. LastKey'  BY <1>1, <1>3 DEF BeatInv, LastKey
<1>6. Passed'
  <2> SUFFICES ASSUME enabled, grid.beat > 0, NEW k \in 0 .. MaxFrames, Metro!Onset(grid', k) \in since .. frames - 1
               PROVE  k \in clicked \cup jumped'
    BY <1>1, <1>3 DEF Passed
  <2>1. CASE Metro!Onset(grid, k) \in since .. frames - 1
    <3>1. k \in clicked \cup jumped  BY <2>1 DEF BeatInv, Passed
    <3>2. QED  BY <1>1, <3>1
  <2>2. CASE Metro!Onset(grid, k) \notin since .. frames - 1  BY <1>1, <2>2
  <2>3. QED  BY <2>1, <2>2
<1>7. Hidden'
  <2> SUFFICES ASSUME NEW k \in 0 .. MaxFrames, k =< last, since =< Metro!Onset(grid', k)
               PROVE  k \in clicked \cup jumped'
    BY <1>1 DEF Hidden
  <2>1. CASE since =< Metro!Onset(grid, k)
    <3>1. k \in clicked \cup jumped  BY <2>1 DEF BeatInv, Hidden
    <3>2. QED  BY <1>1, <3>1
  <2>2. CASE ~(since =< Metro!Onset(grid, k))
    <3>1. k \in Int /\ Metro!Onset(grid, k) \in Int  BY <1>2, OnsetIs, BeatSizes
    <3>2. last # -1 /\ since + BLOCK =< frames /\ since \in Nat /\ frames \in Nat
      BY BeatSizes DEF BeatInv, BeatTyped, LastKey, Metro!NoKey
    <3>3. Metro!Onset(grid', k) = Metro!Onset(grid, k) + d  BY <1>3, <3>1
    <3>4. Metro!Onset(grid', k) \in since .. frames - 1  BY <1>2, <2>2, <3>1, <3>2, <3>3, BeatSizes
    <3>5. Metro!Onset(grid, k) \notin since .. frames - 1  BY <2>2
    <3>6. QED  BY <1>1, <3>4, <3>5
  <2>3. QED  BY <2>1, <2>2
<1>8. QED  BY <1>1, <1>4, <1>5, <1>6, <1>7 DEF BeatInv

LEMMA PartIsPositive == ASSUME NEW g, EvenGrid(g), g.beat > 0  PROVE Part(g) > 0
<1>1. PICK q \in Nat, p \in Nat \ {0} : q = Part(g) /\ g.beat = q * p  BY GridParts
<1>2. q = 0 => q * p = 0  OBVIOUS
<1>3. QED  BY <1>1, <1>2

\* The keys due are numbers, beyond the last, with their onset in the block.
LEMMA DueIs ==
  ASSUME NEW g, EvenGrid(g), NEW w \in Int, NEW start \in Int, NEW stop \in Int,
         NEW k \in Metro!Due(g, w, start, stop)
  PROVE  k \in Nat /\ k > w /\ Metro!Onset(g, k) \in start .. stop - 1
<1>1. k \in Metro!KeysOf(g, Metro!BeatsNear(g, start, stop)) /\ k > w /\ Metro!Onset(g, k) \in start .. stop - 1
  BY DEF Metro!Due
<1>2. PICK j \in Metro!BeatsNear(g, start, stop), r \in 0 .. g.parts - 1 : k = j * g.parts + r
  BY <1>1 DEF Metro!KeysOf
<1>3. j \in Nat /\ g.parts \in Nat
  <2>1. PICK b \in Nat \ {0}, f \in Int, i \in Nat : b = g.beat /\ f = g.frame /\ i = g.index
    <3>1. g.beat \in Nat /\ g.frame \in Int /\ g.index \in Nat  BY GridParts
    <3>2. g.beat # 0  BY DEF Metro!Due
    <3>3. QED  BY <3>1, <3>2
  <2>2. (start - f) \div b \in Int /\ (f - stop) \div b \in Int  BY DivMod
  <2>3. j \in ((start - f) \div b + i - 1) .. (-((f - stop) \div b) + i + 1) /\ j >= 0
    BY <1>2, <2>1 DEF Metro!BeatsNear
  <2>4. QED  BY <2>2, <2>3, GridParts
<1>4. k \in Nat
  <2>1. PICK p \in Nat : p = g.parts  BY <1>3
  <2>2. j * p \in Nat  BY <1>3
  <2>3. QED  BY <1>2, <2>1, <2>2
<1>5. QED  BY <1>1, <1>4

\* The greatest of the keys of a block, which are numbers and finite in number.
LEMMA LastOfDue ==
  ASSUME NEW g, EvenGrid(g), g.beat > 0, NEW w \in Int, NEW start \in Int, NEW stop \in Int,
         Metro!Due(g, w, start, stop) # {}
  PROVE  \E k \in Metro!Due(g, w, start, stop) : \A o \in Metro!Due(g, w, start, stop) : o =< k
<1> DEFINE D == Metro!Due(g, w, start, stop)
           T == {stop - Metro!Onset(g, k) : k \in D}
<1>1. D \subseteq Nat /\ \A k \in D : Metro!Onset(g, k) \in Int /\ Metro!Onset(g, k) =< stop - 1
  <2> SUFFICES ASSUME NEW k \in D  PROVE k \in Nat /\ Metro!Onset(g, k) \in Int /\ Metro!Onset(g, k) =< stop - 1
    OBVIOUS
  <2>1. k \in Nat /\ Metro!Onset(g, k) \in start .. stop - 1  BY DueIs
  <2>2. Metro!Onset(g, k) \in Int  BY <2>1, OnsetIs
  <2>3. QED  BY <2>1, <2>2
<1> HIDE DEF D
<1>2. T \subseteq Nat /\ T # {}
  <2>1. \A k \in D : stop - Metro!Onset(g, k) \in Nat  BY <1>1
  <2>2. D # {}  BY DEF D
  <2>3. QED  BY <2>1, <2>2
<1>3. PICK x \in T : \A y \in T : ~(<<y, x>> \in OpToRel(<, Nat))
  <2> HIDE DEF T
  <2>1. QED  BY <1>2, NatLessThanWellFounded, WFMin
<1>4. \A y \in T : x =< y
  <2> SUFFICES ASSUME NEW y \in T, y < x  PROVE FALSE
    BY <1>2
  <2>1. x \in Nat /\ y \in Nat  BY <1>2
  <2>2. <<y, x>> \in OpToRel(<, Nat)  BY <2>1 DEF OpToRel
  <2>3. QED  BY <1>3, <2>2
<1>5. PICK k \in D : x = stop - Metro!Onset(g, k)  OBVIOUS
<1>6. ASSUME NEW o \in D, k < o  PROVE FALSE
  <2>1. Part(g) > 0  BY PartIsPositive
  <2>2. Metro!Onset(g, k) + Part(g) =< Metro!Onset(g, o)  BY <1>1, <1>6, OnsetsInOrder
  <2>3. stop - Metro!Onset(g, o) \in T  OBVIOUS
  <2>4. x =< stop - Metro!Onset(g, o)  BY <1>4, <2>3
  <2>5. Part(g) \in Nat  BY GridParts
  <2>6. QED  BY <1>1, <1>5, <2>1, <2>2, <2>4, <2>5
<1>7. \A o \in D : o =< k  BY <1>1, <1>6
<1>8. QED  BY <1>7 DEF D

LEMMA KeepsAdvance == ASSUME BeatInv, Metro!Advance  PROVE BeatInv'
<1>1. /\ frames \in Nat /\ since \in Nat /\ since =< frames /\ last \in Int /\ EvenGrid(grid)
      /\ enabled \in BOOLEAN /\ clicked \subseteq Int /\ ~twice /\ BLOCK \in Nat \ {0} /\ MaxFrames \in Nat
  BY BeatSizes DEF BeatInv, BeatTyped
<1>0. /\ frames' = frames + BLOCK
      /\ last' = IF DueNow = {} THEN last ELSE CHOOSE k \in DueNow : \A o \in DueNow : o =< k
      /\ clicked' = clicked \cup DueNow /\ twice' = (twice \/ DueNow \cap clicked # {})
      /\ UNCHANGED <<enabled, grid, since, jumped>>
  BY DEF Metro!Advance, DueNow
<1>2. PICK e \in Nat : e = frames + BLOCK  BY <1>1
<1>3. PICK d : d = DueNow /\ d = IF enabled THEN Metro!Due(grid, last, frames, e) ELSE {}
  BY <1>2 DEF DueNow
<1>4. /\ frames' = e /\ last' = IF d = {} THEN last ELSE CHOOSE k \in d : \A o \in d : o =< k
      /\ clicked' = clicked \cup d /\ twice' = (twice \/ d \cap clicked # {})
      /\ UNCHANGED <<enabled, grid, since, jumped>>
  BY <1>0, <1>2, <1>3
<1>5. d # {} => enabled /\ grid.beat > 0
  <2>1. grid.beat \in Nat  BY <1>1, GridParts
  <2>2. QED  BY <1>3, <2>1 DEF Metro!Due
<1>6. \A k \in d : k \in Nat /\ k > last /\ Metro!Onset(grid, k) \in frames .. e - 1
  <2> SUFFICES ASSUME NEW k \in d  PROVE k \in Nat /\ k > last /\ Metro!Onset(grid, k) \in frames .. e - 1
    OBVIOUS
  <2>1. k \in Metro!Due(grid, last, frames, e)  BY <1>3
  <2>2. QED  BY <1>1, <1>5, <2>1, DueIs
<1>7. /\ last' \in Int /\ last =< last' /\ \A k \in d : k =< last'
      /\ last' = last \/ last' \in d
  <2>1. CASE d = {}  BY <1>1, <1>4, <2>1
  <2>2. CASE d # {}
    <3>1. \E k \in d : \A o \in d : o =< k  BY <1>1, <1>2, <1>3, <1>5, <2>2, LastOfDue
    <3>2. last' \in d /\ \A o \in d : o =< last'  BY <1>4, <2>2, <3>1
    <3>3. QED  BY <1>1, <1>6, <3>2
  <2>3. QED  BY <2>1, <2>2
<1>8. twice' = FALSE
  <2>1. \A k \in clicked : k =< last  BY DEF BeatInv, LastKey
  <2>2. d \cap clicked = {}  BY <1>1, <1>6, <2>1
  <2>3. QED  BY <1>1, <1>4, <2>2
<1>9. BeatTyped'
  <2>0. d \subseteq Int  BY <1>6
  <2>1. clicked' \subseteq Int  BY <1>1, <1>4, <2>0
  <2>2. since =< e  BY <1>1, <1>2
  <2>3. QED  BY <1>1, <1>4, <1>7, <1>8, <2>1, <2>2 DEF BeatInv, BeatTyped
<1>10. LastKey'
  <2>1. \A k \in clicked' : k =< last'  BY <1>1, <1>4, <1>7 DEF BeatInv, LastKey
  <2>2. last' # -1 => enabled /\ grid.beat > 0 /\ since + BLOCK =< e
    BY <1>1, <1>2, <1>5, <1>7 DEF BeatInv, LastKey, Metro!NoKey
  <2>3. QED  BY <1>4, <2>1, <2>2 DEF LastKey, Metro!NoKey
<1>11. ASSUME enabled, grid.beat > 0, NEW k \in 0 .. MaxFrames, Metro!Onset(grid, k) \in since .. e - 1
       PROVE  k \in clicked' \cup jumped
  <2>1. k \in Nat /\ Metro!Onset(grid, k) \in Int  BY <1>1, OnsetIs
  <2>2. CASE Metro!Onset(grid, k) < frames
    <3>1. Metro!Onset(grid, k) \in since .. frames - 1  BY <1>1, <1>11, <2>1, <2>2
    <3>2. k \in clicked \cup jumped  BY <1>11, <3>1 DEF BeatInv, Passed
    <3>3. QED  BY <1>4, <3>2
  <2>3. CASE frames =< Metro!Onset(grid, k) /\ k > last
    <3>1. Metro!Onset(grid, k) \in frames .. e - 1  BY <1>1, <1>11, <2>1, <2>3
    <3>2. k \in Metro!KeysOf(grid, Metro!BeatsNear(grid, frames, e))  BY <1>1, <1>11, <2>1, <3>1, AllAreLookedAt
    <3>3. k \in d  BY <1>3, <1>11, <2>3, <3>1, <3>2 DEF Metro!Due
    <3>4. QED  BY <1>4, <3>3
  <2>4. CASE frames =< Metro!Onset(grid, k) /\ k =< last
    <3>1. since =< Metro!Onset(grid, k)  BY <1>1, <2>1, <2>4
    <3>2. k \in clicked \cup jumped  BY <2>4, <3>1 DEF BeatInv, Hidden
    <3>3. QED  BY <1>4, <3>2
  <2>5. QED  BY <1>1, <2>1, <2>2, <2>3, <2>4
<1>12. Passed'  BY <1>4, <1>11 DEF Passed
<1>13. Hidden'
  <2> SUFFICES ASSUME NEW k \in 0 .. MaxFrames, k =< last', since =< Metro!Onset(grid, k)
               PROVE  k \in clicked' \cup jumped
    BY <1>4 DEF Hidden
  <2>1. CASE k =< last
    <3>1. k \in clicked \cup jumped  BY <2>1 DEF BeatInv, Hidden
    <3>2. QED  BY <1>4, <3>1
  <2>2. CASE ~(k =< last)
    <3>1. last' \in d  BY <1>7, <2>2
    <3>2. enabled /\ grid.beat > 0 /\ last' \in Nat /\ Metro!Onset(grid, last') =< e - 1 /\ k \in Nat
      BY <1>1, <1>5, <1>6, <3>1
    <3>3. /\ Metro!Onset(grid, k) \in Int /\ Metro!Onset(grid, last') \in Int /\ Part(grid) \in Nat
      BY <1>1, <3>2, OnsetIs, GridParts
    <3>4. Metro!Onset(grid, k) =< Metro!Onset(grid, last')
      <4>1. CASE k = last'  BY <3>3, <4>1
      <4>2. CASE k < last'
        <5>1. Metro!Onset(grid, k) + Part(grid) =< Metro!Onset(grid, last')
          <6>1. PICK l \in Nat : l = last'  BY <3>2
          <6>2. QED  BY <1>1, <3>2, <4>2, <6>1, OnsetsInOrder
        <5>2. QED  BY <3>3, <5>1
      <4>3. QED  BY <3>2, <4>1, <4>2
    <3>5. Metro!Onset(grid, k) \in since .. e - 1  BY <1>1, <3>2, <3>3, <3>4
    <3>6. QED  BY <1>11, <3>2, <3>5
  <2>3. QED  BY <2>1, <2>2
<1>14. QED  BY <1>8, <1>9, <1>10, <1>12, <1>13 DEF BeatInv

LEMMA KeepsBeats == BeatInv /\ [Metro!Next]_Metro!vars => BeatInv'
<1> SUFFICES ASSUME BeatInv, [Metro!Next]_Metro!vars  PROVE BeatInv'
  OBVIOUS
<1>1. CASE \E on \in BOOLEAN, beat \in Tempos, parts \in Figures, offset \in 0 .. BLOCK, index \in 0 .. 1 :
             Metro!SetConfig(on, beat, parts, offset, index)
  BY <1>1, KeepsSetConfig
<1>2. CASE \E d \in -Drift .. Drift, b \in -1 .. 1 : Metro!SetGrid(d, b)  BY <1>2, KeepsSetGrid
<1>3. CASE Metro!Stop  BY <1>3, KeepsStop
<1>4. CASE Metro!Advance  BY <1>4, KeepsAdvance
<1>5. CASE UNCHANGED Metro!vars
  BY <1>5 DEF Metro!vars, Metro!historyVars, BeatInv, BeatTyped, LastKey, Passed, Hidden, EvenGrid, Part,
              Metro!Onset
<1>6. QED  BY <1>1, <1>2, <1>3, <1>4, <1>5 DEF Metro!Next, Metro!Browser

\* The track: every step keeps the fade and what is heard together.
LEMMA KeepsTrack == TrackInv /\ [Backing!Next]_Backing!vars => TrackInv'
<1> SUFFICES ASSUME TrackInv, [Backing!Next]_Backing!vars  PROVE TrackInv'
  OBVIOUS
<1>0. BLOCK \in Nat \ {0} /\ FADE \in Nat \ {0} /\ CHUNK \in Nat \ {0}
  BY MixerConstants DEF Backing!BackingConstants
<1>1. CASE Backing!Begin \/ Backing!Unload
  <2>1. env' = 0 /\ pcm' = 0 /\ level' = level /\ cut' = (cut \/ level > 0)
    BY <1>1 DEF Backing!Begin, Backing!Unload, Backing!Emptied
  <2>2. level \in Nat  BY DEF TrackInv
  <2>3. ~cut' => level = 0
    <3>1. ~cut' => ~(level > 0)  BY <2>1, Zenon
    <3>2. ~(level > 0) => level = 0  BY <2>2
    <3>3. QED  BY <3>1, <3>2, Zenon
  <2>4. QED  BY <2>1, <2>2, <2>3 DEF TrackInv
<1>2. CASE Backing!PushChunk
  <2>1. pcm' = pcm + CHUNK /\ UNCHANGED <<ready, playing, env, level, cut>>
    BY <1>2 DEF Backing!PushChunk, Backing!fadeVars, Backing!heardVars
  <2>2. pcm \in Nat /\ pcm + CHUNK \in Nat /\ pcm + CHUNK > 0  BY <1>0 DEF TrackInv
  <2>3. QED  BY <2>1, <2>2 DEF TrackInv
<1>3. CASE Backing!End
  BY <1>3 DEF Backing!End, Backing!fadeVars, Backing!heardVars, TrackInv
<1>4. CASE Backing!Pause
  BY <1>4 DEF Backing!Pause, Backing!fileVars, Backing!heardVars, TrackInv
<1>5. CASE \E frame \in -Lead .. Backing!Size : Backing!Play(frame) \/ Backing!Seek(frame) \/ Backing!Sync(frame)
  <2>1. UNCHANGED <<pcm, ready, env, level, cut>> /\ playing' \in {playing, TRUE}
    BY <1>5 DEF Backing!Play, Backing!Seek, Backing!Sync, Backing!fileVars, Backing!fadeVars, Backing!heardVars
  <2>2. QED  BY <2>1 DEF TrackInv
<1>6. CASE Backing!Block
  <2>1. CASE Backing!Silent /\ level' = 0 /\ cut' = FALSE /\ UNCHANGED <<playing, Backing!fadeVars>>
    <3>1. UNCHANGED <<pcm, ready, playing, env>>  BY <1>6, <2>1 DEF Backing!Block, Backing!fileVars, Backing!fadeVars
    <3>2. env = 0  BY <2>1 DEF TrackInv, Backing!Silent
    <3>3. QED  BY <2>1, <3>1, <3>2 DEF TrackInv
  <2>2. CASE /\ ~Backing!Silent /\ level' = env' /\ cut' = FALSE
             /\ playing' = (playing /\ ~Backing!FadesOut /\ ~Backing!RunsOut)
             /\ env' = (IF Backing!FadesOut \/ Backing!RunsOut THEN 0 ELSE Backing!Ramp)
    <3>1. UNCHANGED <<pcm, ready>>  BY <1>6 DEF Backing!Block, Backing!fileVars
    <3>2. ready /\ playing /\ pcm > 0 /\ pcm \in Nat  BY <2>2 DEF TrackInv, Backing!Silent
    <3>3. Backing!Ramp \in Nat
      BY <1>0 DEF TrackInv, Backing!Ramp, Backing!Larger, Backing!Smaller
    <3>4. env' \in Nat  BY <2>2, <3>3
    <3>5. env' > 0 => playing'
      <4>1. CASE Backing!FadesOut \/ Backing!RunsOut
        <5>1. env' = 0  BY <2>2, <4>1
        <5>2. QED  BY <5>1
      <4>2. CASE ~Backing!FadesOut /\ ~Backing!RunsOut
        <5>1. playing'  BY <2>2, <3>2, <4>2, Zenon
        <5>2. QED  BY <5>1, Zenon
      <4>3. QED  BY <4>1, <4>2, Zenon
    <3>6. QED  BY <2>2, <3>1, <3>2, <3>4, <3>5 DEF TrackInv
  <2>3. QED  BY <1>6, <2>1, <2>2 DEF Backing!Block
<1>7. CASE UNCHANGED Backing!vars
  BY <1>7 DEF Backing!vars, Backing!fileVars, Backing!fadeVars, Backing!heardVars, TrackInv
<1>8. QED  BY <1>1, <1>2, <1>3, <1>4, <1>5, <1>6, <1>7 DEF Backing!Next, Backing!Browser

\* Whatever the browser sends and when, within the metronome's clicks and the track's fades: no
\* part of a beat is clicked twice, none of a grid is lost but one a move took over the frames
\* rendered (spawn_onsets, set_grid), and the sound of the track goes on from the level it had
\* (Backing::generate).
THEOREM BeatsAndTrackKept == Metro!Spec /\ Backing!Spec => []BeatsAndTrack
<1>1. BeatInv /\ TrackInv => BeatsAndTrack
  <2> SUFFICES ASSUME BeatInv, TrackInv  PROVE BeatsAndTrack
    OBVIOUS
  <2>1. Metro!EveryBeatOnce  BY DEF BeatInv, Passed, Metro!EveryBeatOnce
  <2>2. Backing!NoClick  BY DEF TrackInv, Backing!NoClick
  <2>3. QED  BY <2>1, <2>2 DEF BeatsAndTrack
<1>2. Backing!Init => TrackInv  BY DEF Backing!Init, TrackInv
<1>3. QED  BY <1>1, <1>2, BeatStarts, KeepsBeats, KeepsTrack, PTL DEF Metro!Spec, Backing!Spec
==============================================================================
