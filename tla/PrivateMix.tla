------------------------------ MODULE PrivateMix ------------------------------
(***************************************************************************)
(* The musician's own strip in AudioMixer (jamodio-audio-core/src/mixer/   *)
(* mixer.rs): its samples go to the self-monitor cell and to the stem      *)
(* file, the output callback plays the cell and adds it to the MIX file    *)
(* when the cell is armed.  In private, the strip is still heard but must  *)
(* not reach the files.                                                    *)
(*                                                                         *)
(* Four threads: the browser's messages, the capture, the output callback  *)
(* and the health task, which rebuilds the cell when the machine wakes up. *)
(* A recording is under way throughout.  A block of samples is known by    *)
(* one thing, when it was captured: "open", "secret" (in private, which    *)
(* still lasts) or "former" (in private, which is over).  Private lasts    *)
(* from the end of the switch to it until the beginning of the switch      *)
(* back.                                                                   *)
(***************************************************************************)
EXTENDS Integers, Sequences

CONSTANTS
  MaxCells,   \* bound: self-monitor cells ever made
  MaxBlocks   \* of the cell's jitter buffer
StripConstants == MaxCells \in Nat /\ MaxBlocks \in Nat \ {0}

VARIABLES
  self_armed_user,
  self_private,
  current,   \* the cell under SELF_MONITOR_ID, 0 for none
  armed,     \* mix_armed of each cell
  buffer,    \* blocks in the jitter buffer of each cell
  made,      \* cells made so far
  ws,        \* the setter under way
  capture,   \* push_self_samples: the block it holds
  mixing,    \* mix_into: the cell and the block it holds
  secret,    \* history variable: the strip is private for the musician
  stem,      \* history variable: kinds of blocks written to the stem file
  mix        \* history variable: kinds of blocks written to the MIX file

files == <<stem, mix>>
cellVars == <<current, armed, buffer, made>>
vars == <<self_armed_user, self_private, cellVars, ws, capture, mixing, secret, files>>

Cells == 1 .. MaxCells
Idle  == [op |-> "none"]
Kinds == {"open", "secret", "former"}
Kind  == IF secret THEN "secret" ELSE "open"
Aged(kind) == IF kind = "secret" THEN "former" ELSE kind
Older(thread) == IF "kind" \in DOMAIN thread THEN [thread EXCEPT !.kind = Aged(@)] ELSE thread

Init ==
  /\ self_armed_user = FALSE /\ self_private = FALSE
  /\ current = 0 /\ made = 0
  /\ armed = [c \in Cells |-> FALSE] /\ buffer = [c \in Cells |-> <<>>]
  /\ ws = Idle /\ capture = Idle /\ mixing = Idle
  /\ secret = FALSE /\ stem = {} /\ mix = {}

-----------------------------------------------------------------------------
\* The browser's messages, handled one at a time.

\* set_record_arm: the wish is kept, then the effective arming is given to the cell.
SetRecordArm(b) ==
  /\ ws = Idle
  /\ self_armed_user' = b
  /\ ws' = [op |-> "arm", value |-> b]
  /\ UNCHANGED <<self_private, cellVars, capture, mixing, secret, files>>
EffectiveArm(b) == b /\ ~self_private
Armed(c, b) == IF c = 0 THEN armed ELSE [armed EXCEPT ![c] = b]
ApplyArm ==
  /\ ws.op = "arm"
  /\ armed' = Armed(current, EffectiveArm(ws.value))
  /\ ws' = Idle
  /\ UNCHANGED <<self_armed_user, self_private, current, buffer, made, capture, mixing, secret,
                 files>>

\* set_self_private: the mode, then the arming of the cell.
SetPrivate(b) ==
  /\ ws = Idle
  /\ self_private' = b
  /\ ws' = [op |-> "private", value |-> b]
  /\ IF b THEN UNCHANGED <<secret, buffer, capture, mixing>>
     ELSE /\ secret' = FALSE
          /\ buffer' = [c \in Cells |-> [i \in DOMAIN buffer[c] |-> Aged(buffer[c][i])]]
          /\ capture' = Older(capture) /\ mixing' = Older(mixing)
  /\ UNCHANGED <<self_armed_user, current, armed, made, files>>

ApplyPrivate ==
  /\ ws.op = "private"
  /\ armed' = Armed(current, self_armed_user /\ ~ws.value)
  /\ secret' = ws.value
  /\ ws' = Idle
  /\ UNCHANGED <<self_armed_user, self_private, current, buffer, made, capture, mixing, files>>

\* A new cell, armed or not; its buffer is empty.
MakeCell(b) ==
  /\ made < MaxCells
  /\ made' = made + 1 /\ current' = made + 1
  /\ armed' = [armed EXCEPT ![made + 1] = b]
  /\ UNCHANGED buffer

\* start_capture: add_local_stream.
StartCapture ==
  /\ ws = Idle /\ MakeCell(FALSE)
  /\ UNCHANGED <<self_armed_user, self_private, ws, capture, mixing, secret, files>>

\* teardown_session: remove_local_stream, after the capture was stopped.
StopCapture ==
  /\ ws = Idle /\ capture = Idle /\ current # 0
  /\ current' = 0
  /\ UNCHANGED <<self_armed_user, self_private, armed, buffer, made, ws, capture, mixing, secret,
                 files>>

-----------------------------------------------------------------------------
\* A wrong form of the step below: the arming is worked out again, without private.
ResetFromWish ==
  /\ current # 0 /\ MakeCell(self_armed_user)
  /\ UNCHANGED <<self_armed_user, self_private, ws, capture, mixing, secret, files>>

\* The health task: reset_local_stream, under the lock of the map.
ResetLocalStream ==
  /\ current # 0 /\ MakeCell(armed[current])
  /\ UNCHANGED <<self_armed_user, self_private, ws, capture, mixing, secret, files>>

\* The capture: a block is taken, then pushed to the cell found...
Capture ==
  /\ capture = Idle /\ current # 0
  /\ capture' = [op |-> "push", kind |-> Kind, cell |-> current]
  /\ UNCHANGED <<self_armed_user, self_private, cellVars, ws, mixing, secret, files>>
PushSelf ==
  /\ capture.op = "push"
  /\ buffer' = [buffer EXCEPT ![capture.cell] =
                  IF Len(@) < MaxBlocks THEN Append(@, capture.kind)
                  ELSE Append(Tail(@), capture.kind)]
  /\ capture' = [capture EXCEPT !.op = "stem"]
  /\ UNCHANGED <<self_armed_user, self_private, current, armed, made, ws, mixing, secret, files>>

\* ...and written to the stem unless the strip is private.
StemOpen == ~self_private
TapStem ==
  /\ capture.op = "stem"
  /\ stem' = IF StemOpen THEN stem \cup {capture.kind} ELSE stem
  /\ capture' = Idle
  /\ UNCHANGED <<self_armed_user, self_private, cellVars, ws, mixing, secret, mix>>

\* The output callback, mix_into: the cells are listed, the cell is pulled, then its
\* arming is read.
ListCells ==
  /\ mixing = Idle /\ current # 0
  /\ mixing' = [op |-> "pull", cell |-> current]
  /\ UNCHANGED <<self_armed_user, self_private, cellVars, ws, capture, secret, files>>
PullSelf ==
  /\ mixing.op = "pull"
  /\ LET b == buffer[mixing.cell]
     IN IF b = <<>> THEN mixing' = Idle /\ UNCHANGED buffer
        ELSE /\ mixing' = [op |-> "mix", cell |-> mixing.cell, kind |-> Head(b)]
             /\ buffer' = [buffer EXCEPT ![mixing.cell] = Tail(@)]
  /\ UNCHANGED <<self_armed_user, self_private, current, armed, made, ws, capture, secret, files>>
TapMix ==
  /\ mixing.op = "mix"
  /\ mix' = IF armed[mixing.cell] THEN mix \cup {mixing.kind} ELSE mix
  /\ mixing' = Idle
  /\ UNCHANGED <<self_armed_user, self_private, cellVars, ws, capture, secret, stem>>

Next ==
  \/ \E b \in BOOLEAN : SetRecordArm(b) \/ SetPrivate(b)
  \/ ApplyArm \/ ApplyPrivate \/ StartCapture \/ StopCapture
  \/ ResetLocalStream
  \/ Capture \/ PushSelf \/ TapStem
  \/ ListCells \/ PullSelf \/ TapMix

Spec == Init /\ [][Next]_vars

-----------------------------------------------------------------------------
\* Every variable has its type; a cell that was never made is neither armed nor
\* filled.
TypeOK ==
  /\ self_armed_user \in BOOLEAN /\ self_private \in BOOLEAN
  /\ made \in 0 .. MaxCells /\ current \in 0 .. made
  /\ armed \in [Cells -> BOOLEAN] /\ buffer \in [Cells -> Seq(Kinds)]
  /\ \A c \in Cells : Len(buffer[c]) =< MaxBlocks /\ (c > made => ~armed[c] /\ buffer[c] = <<>>)
  /\ ws.op \in {"none", "arm", "private"}
  /\ capture.op \in {"none", "push", "stem"}
  /\ mixing.op \in {"none", "pull", "mix"}
  /\ secret \in BOOLEAN /\ stem \subseteq Kinds /\ mix \subseteq Kinds

\* While private lasts, nothing captured since it began reaches a file, whatever the
\* health task rebuilds, whatever is armed and whatever cell the callback still holds.
NothingSecretWritten == "secret" \notin stem \cup mix

\* The arming of the strip never outlives the switch to private (mixer.rs:474: the
\* effective arming is the wish, unless private).
NeverArmedInPrivate == secret /\ current # 0 => ~armed[current]

\* mixer.rs:470 "rien de ce qui est privé ne doit finir dans le FICHIER": a block
\* captured in private is not mixed to the file, then or later.
NothingPrivateMixed == mix \subseteq {"open"}

=============================================================================
