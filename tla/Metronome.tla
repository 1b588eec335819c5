------------------------------ MODULE Metronome ------------------------------
(***************************************************************************)
(* The metronome of the reference source (jamodio-audio-core/src/mixer/    *)
(* reference.rs): the browser says which beat emerges at which frame of    *)
(* the output, the output callback sounds the clicks of its block.  The    *)
(* browser moves the grid by a little from time to time, to follow the     *)
(* drift of the sound card, and replaces it when the musician changes the  *)
(* tempo or the figure.  One lock covers each call.                        *)
(*                                                                         *)
(* A beat is cut in equal parts by the figure; the onset of a part has a   *)
(* key, which counts the parts.  Timbre, level, pan and accents are left   *)
(* out, and frames are whole.                                              *)
(***************************************************************************)
EXTENDS Integers, FiniteSets

CONSTANTS
  Tempos,      \* frames per beat; 0 for a tempo that means nothing
  Figures,     \* parts of a beat
  BLOCK,       \* frames of a callback
  DURATION,    \* frames of a click
  Drift,       \* bound: frames the grid moves at once
  MaxConfigs,  \* bound: configurations
  MaxMoves,    \* bound: moves of the grid
  MaxFrames    \* bound: frames rendered

MetronomeConstants ==
  /\ Tempos \subseteq Nat /\ Figures \subseteq Nat \ {0}
  /\ \A t \in Tempos, f \in Figures : t % f = 0 /\ (t > 0 => Drift < t \div f)
  /\ {BLOCK, DURATION} \subseteq Nat \ {0} /\ {Drift, MaxConfigs, MaxMoves, MaxFrames} \subseteq Nat
  /\ Drift =< BLOCK  \* the quartz of a sound card, followed: frames, not blocks

NoKey == -1

VARIABLES
  enabled,
  grid,       \* frames_per_beat, parts of the figure, anchor_beat_frame and _index
  last,       \* last_onset_key
  voices,     \* start_frame of the clicks that sound
  frames,     \* frames_rendered
  configs,    \* configurations so far
  moves,      \* moves of the grid so far
  since,      \* history: frames_rendered when the present grid began
  clicked,    \* history: keys clicked since
  twice,      \* history: some key was clicked twice
  jumped      \* history: keys whose onset a move of the grid put among the frames rendered

historyVars == <<since, clicked, twice, jumped>>
vars == <<enabled, grid, last, voices, frames, configs, moves, historyVars>>

Init ==
  /\ enabled = FALSE /\ last = NoKey /\ voices = {} /\ frames = 0 /\ configs = 0 /\ moves = 0
  /\ grid = [beat |-> 0, parts |-> 1, frame |-> 0, index |-> 0]
  /\ since = 0 /\ clicked = {} /\ twice = FALSE /\ jumped = {}

-----------------------------------------------------------------------------
\* The frame where a part of a beat emerges.
Onset(g, key) == g.frame + ((key - g.index * g.parts) * g.beat) \div g.parts

\* The beats looked at for a block: one more on each side than those it covers, the
\* parts of a beat being after it.
BeatsNear(g, start, end) ==
  {j \in ((start - g.frame) \div g.beat + g.index - 1)
         .. (-((g.frame - end) \div g.beat) + g.index + 1) : j >= 0}

\* The onsets of a block that are not behind the last one.
KeysOf(g, beats) == {j * g.parts + part : j \in beats, part \in 0 .. g.parts - 1}
Due(g, latest, start, end) ==
  IF g.beat = 0 THEN {}
  ELSE {k \in KeysOf(g, BeatsNear(g, start, end)) :
          Onset(g, k) \in start .. end - 1 /\ k > latest}

\* set_grid: the anchor only.
Moved(g, frame, index) == [g EXCEPT !.frame = frame, !.index = index]

NewGrid == /\ since' = frames /\ clicked' = {} /\ twice' = FALSE /\ jumped' = {}

\* reference-config: on or off, tempo, figure and anchor; the last onset is forgotten,
\* since a slower grid would be behind it.  The anchor is near the present frame.
\* (First a wrong form: it is kept.)
Configured(on, beat, parts, offset, index) ==
  /\ configs < MaxConfigs /\ configs' = configs + 1
  /\ enabled' = on
  /\ grid' = Moved([grid EXCEPT !.beat = beat, !.parts = parts], frames + offset, index)
  /\ UNCHANGED <<voices, frames, moves>>
  /\ NewGrid
SetConfigKeepingLast(on, beat, parts, offset, index) ==
  Configured(on, beat, parts, offset, index) /\ UNCHANGED last
SetConfig(on, beat, parts, offset, index) ==
  Configured(on, beat, parts, offset, index) /\ last' = NoKey

\* reference-grid: the same grid seen from another beat, moved by the drift.
SetGrid(d, beats) ==
  /\ moves < MaxMoves /\ moves' = moves + 1
  /\ grid.beat > 0 /\ grid.index + beats >= 0
  /\ grid' = Moved(grid, grid.frame + beats * grid.beat + d, grid.index + beats)
  /\ jumped' = jumped \cup {k \in 0 .. MaxFrames : /\ Onset(grid, k) \notin since .. frames - 1
                                                 /\ Onset(grid', k) \in since .. frames - 1}
  /\ UNCHANGED <<enabled, last, voices, frames, configs, since, clicked, twice>>

\* reference-stop: the clicks that sound are cut.
Stop ==
  /\ enabled' = FALSE /\ voices' = {} /\ last' = NoKey
  /\ UNCHANGED <<grid, frames, configs, moves>> /\ NewGrid

\* advance_and_generate: the onsets of the block begin to sound, then every click is
\* rendered and those that are over are let go.
Advance ==
  LET end == frames + BLOCK
      due == IF enabled THEN Due(grid, last, frames, end) ELSE {}
      sounding == voices \cup {Onset(grid, k) : k \in due}
  IN /\ end =< MaxFrames /\ frames' = end
     /\ voices' = {v \in sounding : v + DURATION > end}
     /\ last' = IF due = {} THEN last ELSE CHOOSE k \in due : \A o \in due : o =< k
     /\ clicked' = clicked \cup due /\ twice' = (twice \/ due \cap clicked # {})
     /\ UNCHANGED <<enabled, grid, configs, moves, since, jumped>>

\* The browser's messages.
Browser ==
  \/ \E on \in BOOLEAN, beat \in Tempos, parts \in Figures, offset \in 0 .. BLOCK, index \in 0 .. 1 :
       SetConfig(on, beat, parts, offset, index)
  \/ \E d \in -Drift .. Drift, beats \in -1 .. 1 : SetGrid(d, beats)
  \/ Stop

Next == Browser \/ Advance

Spec == Init /\ [][Next]_vars

-----------------------------------------------------------------------------
\* While a grid lasts, every part of every beat is clicked once: none twice, though
\* the grid moves over it, and none lost, unless a move took it from the frames to
\* come into those rendered (a beat that jumps over the edge of a block is not heard).
EveryBeatOnce ==
  /\ ~twice
  /\ enabled /\ grid.beat > 0 =>
       \A k \in 0 .. MaxFrames :
         Onset(grid, k) \in since .. frames - 1 => k \in clicked \cup jumped
==============================================================================
