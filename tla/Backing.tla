------------------------------- MODULE Backing -------------------------------
(***************************************************************************)
(* The backing track of the reference source (jamodio-audio-core/src/      *)
(* mixer/reference.rs, Backing): the browser loads a file by pieces, then  *)
(* says which frame of it is to emerge at which frame of the output; the   *)
(* output callback jumps there or slides towards it, and fades in and out. *)
(* The preview of a file is another instance of the same.  One lock covers *)
(* each call.                                                              *)
(*                                                                         *)
(* The anchor is kept as the frame of the file due at the next block, which *)
(* moves with the blocks.  Frames are whole: the servo changes a block by  *)
(* one at most.  Volume and pan are left out.                              *)
(***************************************************************************)
EXTENDS Integers

CONSTANTS
  BLOCK,                \* frames of a callback
  BACKING_SNAP_FRAMES,
  FADE,                 \* frames of a fade, 1 / BACKING_DECLICK_STEP
  CHUNK,                \* frames of a piece
  MaxChunks,            \* bound: pieces of a file
  Lead                  \* bound: how far ahead a start is asked, in frames

BackingConstants ==
  /\ {BLOCK, BACKING_SNAP_FRAMES, FADE, CHUNK} \subseteq Nat \ {0}
  /\ {MaxChunks, Lead} \subseteq Nat

Size == MaxChunks * CHUNK
\* Past the end by more than the tolerance, further makes no difference.
Furthest == Size + BACKING_SNAP_FRAMES + 1

VARIABLES
  pcm,       \* frames loaded
  ready, playing,
  play_head,
  due,       \* the anchor: the frame due at the next block
  anchored, snap_pending,
  env,       \* the envelope, in steps
  stopping,
  level,     \* history: the envelope of the last frame heard, 0 if the last block was silent
  cut,       \* history: the file was taken away while it was heard
  early      \* history: a block was heard, further before the start asked for than the servo takes up

fileVars   == <<pcm, ready>>
anchorVars == <<due, anchored, snap_pending>>
fadeVars   == <<env, stopping>>
heardVars  == <<level, cut, early>>
vars == <<fileVars, playing, play_head, anchorVars, fadeVars, heardVars>>

Smaller(a, b) == IF a < b THEN a ELSE b
Larger(a, b)  == IF a < b THEN b ELSE a

Init ==
  /\ pcm = 0 /\ ready = FALSE /\ playing = FALSE /\ play_head = 0
  /\ due = 0 /\ anchored = FALSE /\ snap_pending = FALSE
  /\ env = 0 /\ stopping = FALSE /\ level = 0 /\ cut = FALSE /\ early = FALSE

-----------------------------------------------------------------------------
\* The browser's messages.

Emptied == /\ pcm' = 0 /\ ready' = FALSE /\ playing' = FALSE /\ anchored' = FALSE
           /\ cut' = (cut \/ level > 0)

\* begin: a fade under way ends here.
Begin ==
  /\ Emptied /\ play_head' = 0 /\ env' = 0 /\ stopping' = FALSE
  /\ UNCHANGED <<due, snap_pending, level, early>>

\* push_chunk and end.
PushChunk ==
  /\ pcm + CHUNK =< Size /\ pcm' = pcm + CHUNK
  /\ UNCHANGED <<ready, playing, play_head, anchorVars, fadeVars, heardVars>>
End ==
  /\ ready' = TRUE
  /\ UNCHANGED <<pcm, playing, play_head, anchorVars, fadeVars, heardVars>>

\* unload: the head stays where it was.
Unload ==
  /\ Emptied /\ env' = 0 /\ stopping' = FALSE
  /\ UNCHANGED <<play_head, due, snap_pending, level, early>>

Anchor(frame) == due' = frame /\ anchored' = TRUE

\* play, seek and sync.
Play(frame) ==
  /\ Anchor(frame) /\ playing' = TRUE /\ snap_pending' = TRUE /\ stopping' = FALSE
  /\ UNCHANGED <<fileVars, play_head, env, heardVars>>
Seek(frame) ==
  /\ Anchor(frame) /\ snap_pending' = TRUE
  /\ UNCHANGED <<fileVars, playing, play_head, fadeVars, heardVars>>
Sync(frame) ==
  /\ Anchor(frame)
  /\ UNCHANGED <<fileVars, playing, play_head, snap_pending, fadeVars, heardVars>>

\* pause: the sound fades before it stops.
Pause ==
  /\ playing /\ stopping' = TRUE
  /\ UNCHANGED <<fileVars, playing, play_head, anchorVars, env, heardVars>>

-----------------------------------------------------------------------------
\* The output callback, generate.

\* Jumps to the frame due, within the file.
Jumps == anchored /\ (snap_pending \/ due - play_head \notin -BACKING_SNAP_FRAMES .. BACKING_SNAP_FRAMES)
Target == Smaller(Larger(due, 0), pcm)

\* The head at the start of the block, and what the servo adds to the block.
Head == IF Jumps THEN Target ELSE play_head
Slides ==
  IF ~anchored \/ Jumps THEN {0}
  ELSE {0} \cup (IF due > play_head THEN {1} ELSE IF due < play_head THEN {-1} ELSE {})

\* Frames to the last one of the file, and of the fade that ends the sound.
Left == Larger(pcm - 1 - Head, 0)
FadedAfter == IF stopping THEN Larger(env, 1) ELSE BLOCK + 1

\* A block in which the fade is over, or the file, or neither.
FadesOut == FadedAfter =< Smaller(BLOCK, Left)
RunsOut  == ~FadesOut /\ Left < BLOCK
Ramp     == IF stopping THEN Larger(env - BLOCK, 0) ELSE Smaller(env + BLOCK, FADE)

Silent == ~ready \/ ~playing \/ pcm = 0
Block ==
  /\ due' = Smaller(due + BLOCK, Furthest)
  /\ \/ /\ Silent
        /\ level' = 0 /\ cut' = FALSE
        /\ UNCHANGED <<playing, play_head, snap_pending, fadeVars, early>>
     \/ /\ ~Silent
        /\ snap_pending' = (snap_pending /\ ~Jumps)
        /\ \E slide \in Slides :
             play_head' = Head + (IF FadesOut THEN FadedAfter
                                  ELSE IF RunsOut THEN Left ELSE BLOCK + slide)
        /\ playing' = (playing /\ ~FadesOut /\ ~RunsOut)
        /\ stopping' = (stopping /\ ~FadesOut /\ ~RunsOut)
        /\ env' = (IF FadesOut \/ RunsOut THEN 0 ELSE Ramp)
        /\ level' = env' /\ cut' = FALSE
        /\ early' = (early \/ (Left > 0 /\ due + BLOCK < -BACKING_SNAP_FRAMES))
  /\ UNCHANGED <<fileVars, anchored>>

Browser ==
  \/ Begin \/ PushChunk \/ End \/ Unload \/ Pause
  \/ \E frame \in -Lead .. Size : Play(frame) \/ Seek(frame) \/ Sync(frame)

Next == Browser \/ Block

Spec == Init /\ [][Next]_vars

-----------------------------------------------------------------------------
\* The sound is never taken away or given at once (Backing.env, "pour eviter le clic
\* ... au play et au stop/pause"): whatever the order of the messages, what was heard
\* goes on from the same level and what was silent starts from nothing, except when
\* the file is taken away, and at its end, reached or sought, where it is silent.
NoClick ==
  ~cut => level = env /\ (level > 0 => playing /\ ready /\ pcm > 0)

\* protocol.rs: "le frame backing anchorBackingFrame doit emerger au frame de sortie
\* anchorOutputFrame": nothing is heard before the start that was asked for, beyond
\* what the servo is there to take up.
StartsOnTime == ~early
==============================================================================
