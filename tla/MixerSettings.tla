----------------------------- MODULE MixerSettings -----------------------------
(***************************************************************************)
(* The listening settings of the received streams in AudioMixer            *)
(* (jamodio-audio-core/src/mixer/mixer.rs).  A stream's cell is born in    *)
(* the receive thread, at the first packet, while the browser's messages   *)
(* set volumes, targets and arming: each setter writes the remembered      *)
(* value, then walks the cells; add_stream reads the remembered values,    *)
(* then inserts the cell.  No lock covers the two steps of either.         *)
(*                                                                         *)
(* Volume and pan are kept and applied alike: a setting is one value.  The *)
(* target is the one the browser imposes, None when it never did (how it   *)
(* adapts afterwards is JitterBuffer).                                     *)
(***************************************************************************)
EXTENDS Integers, FiniteSets

CONSTANTS
  Peers,
  Volumes, Unity,  \* the settings, and the default one
  Targets, None    \* buffer targets, and NO_DEFAULT_TARGET

ASSUME SettingsConstants ==
  /\ Unity \in Volumes
  /\ None \notin Targets

VARIABLES
  settings,        \* stream_settings: Unity where nothing is remembered
  default_target,  \* default_target_ms
  armed_peers,
  cells,           \* streams: the cells by peer
  ws,              \* the setter under way
  birth,           \* the call of add_stream under way
  outdated,        \* history variable: peers whose cell is of a stream the browser dropped
  crossed          \* history variable: peers whose birth was under way when a setting changed

vars == <<settings, default_target, armed_peers, cells, ws, birth, outdated, crossed>>
remembered == <<settings, default_target, armed_peers>>

Cell == [volume: Volumes, target: Targets \cup {None}, armed: BOOLEAN]
Idle == [op |-> "none"]
Live == {p \in Peers : cells[p] # None}

Init ==
  /\ settings = [p \in Peers |-> Unity] /\ default_target = None /\ armed_peers = {}
  /\ cells = [p \in Peers |-> None]
  /\ ws = Idle /\ birth = Idle
  /\ outdated = {} /\ crossed = {}

-----------------------------------------------------------------------------

\* The receive thread: RxCore::on_packet calls add_stream, after remove_stream when
\* the stream takes the place of an older one.
BeginBirth(p) ==
  /\ birth = Idle
  /\ cells' = [cells EXCEPT ![p] = None]
  /\ birth' = [op |-> "settings", peer |-> p, target |-> default_target]
  /\ outdated' = outdated \ {p} /\ crossed' = crossed \ {p}
  /\ UNCHANGED <<remembered, ws>>
ReadSettings ==
  /\ birth.op = "settings"
  /\ birth' = [op |-> "armed", peer |-> birth.peer, target |-> birth.target,
               volume |-> settings[birth.peer]]
  /\ UNCHANGED <<remembered, cells, ws, outdated, crossed>>
ReadArmed ==
  /\ birth.op = "armed"
  /\ birth' = [op |-> "insert", peer |-> birth.peer, target |-> birth.target,
               volume |-> birth.volume, armed |-> birth.peer \in armed_peers]
  /\ UNCHANGED <<remembered, cells, ws, outdated, crossed>>
Insert ==
  /\ birth.op = "insert"
  /\ cells' = [cells EXCEPT ![birth.peer] =
                 [volume |-> birth.volume, target |-> birth.target, armed |-> birth.armed]]
  /\ birth' = Idle
  /\ UNCHANGED <<remembered, ws, outdated, crossed>>

\* RxCore::remove
RemoveCell(p) ==
  /\ birth = Idle /\ p \in Live
  /\ cells' = [cells EXCEPT ![p] = None]
  /\ UNCHANGED <<remembered, ws, birth, outdated, crossed>>

-----------------------------------------------------------------------------
\* The browser's messages, handled one at a time.  The write of a remembered value
\* is noted against the birth it falls in.
Noted(ps) == crossed' = crossed \cup (IF birth = Idle THEN {} ELSE {birth.peer} \cap ps)

\* set_volume, set_pan: the setting is remembered...
SetVolume(p, v) ==
  /\ ws = Idle
  /\ settings' = [settings EXCEPT ![p] = v]
  /\ ws' = [op |-> "volume", peer |-> p, value |-> v]
  /\ Noted({p})
  /\ UNCHANGED <<default_target, armed_peers, cells, birth, outdated>>
\* ...then given to the cell, if there is one.
ApplyVolume ==
  /\ ws.op = "volume"
  /\ cells' = IF ws.peer \in Live THEN [cells EXCEPT ![ws.peer].volume = ws.value] ELSE cells
  /\ ws' = Idle
  /\ UNCHANGED <<remembered, birth, outdated, crossed>>

\* set_target_ms_all
SetBuffer(t) ==
  /\ ws = Idle
  /\ default_target' = t
  /\ ws' = [op |-> "target", value |-> t]
  /\ Noted(Peers)
  /\ UNCHANGED <<settings, armed_peers, cells, birth, outdated>>
ApplyTarget ==
  /\ ws.op = "target"
  /\ cells' = [p \in Peers |-> IF p \in Live THEN [cells[p] EXCEPT !.target = ws.value] ELSE None]
  /\ ws' = Idle
  /\ UNCHANGED <<remembered, birth, outdated, crossed>>

\* set_record_arm: a snapshot of the peers armed.
SetRecordArm(armed) ==
  /\ ws = Idle
  /\ armed_peers' = armed
  /\ ws' = [op |-> "arm", value |-> armed]
  /\ Noted(Peers)
  /\ UNCHANGED <<settings, default_target, cells, birth, outdated>>

\* A cell is armed if the snapshot names its peer.
Rearmed(p, snapshot) == [cells[p] EXCEPT !.armed = p \in snapshot]

\* A wrong form of the step below: only what the snapshot names is touched.
ArmOnly ==
  /\ ws.op = "arm"
  /\ cells' = [p \in Peers |-> IF p \in Live \cap ws.value THEN [cells[p] EXCEPT !.armed = TRUE]
                               ELSE cells[p]]
  /\ ws' = Idle
  /\ UNCHANGED <<remembered, birth, outdated, crossed>>

ApplyArm ==
  /\ ws.op = "arm"
  /\ cells' = [p \in Peers |-> IF p \in Live THEN Rearmed(p, ws.value) ELSE None]
  /\ ws' = Idle
  /\ UNCHANGED <<remembered, birth, outdated, crossed>>

\* forget_stream_settings, once the removal of the stream has been sent to the
\* receive thread: what that stream still has in the mixer no longer counts.
Forget(p) ==
  /\ ws = Idle
  /\ settings' = [settings EXCEPT ![p] = Unity]
  /\ outdated' = outdated \cup {p}
  /\ UNCHANGED <<default_target, armed_peers, cells, ws, birth, crossed>>

\* The end of a session: clear_stream_settings, under two locks, then the receive
\* thread ends and its cells go.
ClearSettings ==
  /\ ws = Idle
  /\ settings' = [p \in Peers |-> Unity]
  /\ ws' = [op |-> "clear"]
  /\ outdated' = Peers
  /\ UNCHANGED <<default_target, armed_peers, cells, birth, crossed>>
ClearArmed ==
  /\ ws.op = "clear"
  /\ armed_peers' = {}
  /\ ws' = [op |-> "shutdown"]
  /\ outdated' = Peers
  /\ UNCHANGED <<settings, default_target, cells, birth, crossed>>
ThreadGone ==
  /\ ws.op = "shutdown" /\ birth = Idle
  /\ cells' = [p \in Peers |-> None]
  /\ ws' = Idle
  /\ UNCHANGED <<remembered, birth, outdated, crossed>>

Browser ==
  \/ \E p \in Peers : Forget(p) \/ \E v \in Volumes : SetVolume(p, v)
  \/ \E t \in Targets : SetBuffer(t)
  \/ \E armed \in SUBSET Peers : SetRecordArm(armed)
  \/ ApplyVolume \/ ApplyTarget \/ ApplyArm \/ ClearSettings \/ ClearArmed \/ ThreadGone

Receiver ==
  \/ \E p \in Peers : BeginBirth(p) \/ RemoveCell(p)
  \/ ReadSettings \/ ReadArmed \/ Insert

Next == Browser \/ Receiver

Spec == Init /\ [][Next]_vars

-----------------------------------------------------------------------------
\* Every variable has its type; a stream that is replaced is silent until its new
\* cell is inserted.
TypeOK ==
  /\ settings \in [Peers -> Volumes]
  /\ default_target \in Targets \cup {None}
  /\ armed_peers \subseteq Peers
  /\ cells \in [Peers -> Cell \cup {None}]
  /\ ws.op \in {"none", "volume", "target", "arm", "clear", "shutdown"}
  /\ birth.op \in {"none", "settings", "armed", "insert"}
  /\ birth # Idle => birth.peer \notin Live
  /\ outdated \subseteq Peers /\ crossed \subseteq Peers

\* A cell that is what the browser last asked for.
Faithful(p) ==
  /\ cells[p].volume = settings[p]
  /\ cells[p].armed <=> p \in armed_peers
  /\ cells[p].target = default_target

Settled == {p \in Live \ outdated : ws = Idle}

\* The only way to lose a setting is to change it during the birth of the cell: a
\* setting made before the birth, after it, or on a cell that is replaced, is kept.
LostOnlyAtBirth == \A p \in Settled \ crossed : Faithful(p)
=============================================================================
