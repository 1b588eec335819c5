------------------------------- MODULE MCMixer -------------------------------
(***************************************************************************)
(* AudioMixer in one run: the cells of the received streams                *)
(* (MixerSettings), the musician's own strip (PrivateMix), the metronome   *)
(* and the backing track of the reference source (Metronome, Backing).     *)
(* They share no state, only the thread of the browser's messages and the  *)
(* output callback: each is explored while the others rest, every          *)
(* interleaving within it included.                                        *)
(***************************************************************************)
EXTENDS MixerSettings, TLC

CONSTANTS MaxCells, MaxBlocks
CONSTANTS Tempos, Figures, BLOCK, DURATION, Drift, MaxConfigs, MaxMoves, MaxFrames
CONSTANTS BACKING_SNAP_FRAMES, FADE, CHUNK, MaxChunks, Lead

VARIABLES self_armed_user, self_private, current, armed, buffer, made, self_ws, capture, mixing,
          secret, stem, mix
VARIABLES enabled, grid, last, voices, frames, configs, moves, since, clicked, twice, jumped
VARIABLES pcm, ready, playing, play_head, due, anchored, snap_pending, env, stopping, level, cut,
          early
VARIABLE part  \* the one that is explored

stripVars   == <<self_armed_user, self_private, current, armed, buffer, made, self_ws, capture,
                 mixing, secret, stem, mix>>
metroVars   == <<enabled, grid, last, voices, frames, configs, moves, since, clicked, twice, jumped>>
backingVars == <<pcm, ready, playing, play_head, due, anchored, snap_pending, env, stopping, level,
                 cut, early>>

Strip    == INSTANCE PrivateMix WITH ws <- self_ws
Metro    == INSTANCE Metronome
Backing  == INSTANCE Backing
ASSUME MixerConstants == Strip!StripConstants /\ Metro!MetronomeConstants /\ Backing!BackingConstants

MCInit ==
  /\ Init /\ Strip!Init /\ Metro!Init /\ Backing!Init
  /\ part \in {"cells", "strip", "metronome", "backing"}
MCNext ==
  /\ \/ part = "cells" /\ Next /\ UNCHANGED <<stripVars, metroVars, backingVars>>
     \/ part = "strip" /\ Strip!Next /\ UNCHANGED <<vars, metroVars, backingVars>>
     \/ part = "metronome" /\ Metro!Next /\ UNCHANGED <<vars, stripVars, backingVars>>
     \/ part = "backing" /\ Backing!Next /\ UNCHANGED <<vars, stripVars, metroVars>>
  /\ UNCHANGED part
MCSpec == MCInit /\ [][MCNext]_<<vars, stripVars, metroVars, backingVars, part>>

\* Peers are interchangeable.
Symmetry == Permutations(Peers)

\* Of the strip (mixer.rs:470 "rien de ce qui est privé ne doit finir dans le
\* FICHIER"): while private lasts, nothing captured since it began is written to a
\* file, and no step of the health task arms the strip again.
NothingSecretWritten == Strip!NothingSecretWritten /\ Strip!NeverArmedInPrivate
\* Of the reference source: while a grid lasts every beat is clicked, and none twice; the
\* sound of the backing track neither starts nor stops at once.
BeatsAndTrack == Metro!EveryBeatOnce /\ Backing!NoClick
==============================================================================
