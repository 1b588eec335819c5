------------------------------ MODULE MCSending ------------------------------
(***************************************************************************)
(* What a musician sends and keeps, in one run: the instrument             *)
(* (EncodeChain), the voice (Talkback) and the recording (Recorder).  A    *)
(* block of the instrument for the voice's tap is taken before anything is *)
(* done to it, and the recording's taps are in the mixer, so none waits    *)
(* for another: each is explored while the others rest, every interleaving *)
(* within it included.                                                     *)
(***************************************************************************)
EXTENDS EncodeChain

CONSTANTS VOICE_TAP_MAX, CTRL, MaxVoices
VARIABLES capturing, ctrl, tap, mics, voices, stage, active, call, voice_pc, ready, closed, queued,
          isolates, isolationActive, voiceOnAir, abandoned
CONSTANTS NumRecordings, Stems, QueueSize, FrameBlocks, PACKETS_PER_PAGE, MaxSegments, Sizes, MaxTaken
VARIABLES recorder, tx, gate, taps, taken, queue, thread, files, stop, leaving, accepted
VARIABLE part  \* the one that is explored

voiceVars == <<capturing, ctrl, tap, mics, voices, stage, active, call, voice_pc, ready, closed,
               queued, isolates, isolationActive, voiceOnAir, abandoned>>
fileVars  == <<recorder, tx, gate, taps, taken, queue, thread, files, stop, leaving, accepted>>
Voice == INSTANCE Talkback WITH pc <- voice_pc
Files == INSTANCE Recorder WITH active <- gate, tap <- taps, blocks <- taken, MaxBlocks <- MaxTaken
ASSUME SendingConstants == Files!RecorderConstants /\ Voice!TalkbackConstants

InChain == part = "chain"
InVoice == part = "voice"
InFiles == part = "files"
MCInit == /\ Init /\ Voice!Init /\ Files!Init
          /\ part \in {"chain", "voice", "files"} /\ (part # "chain" => asio)
MCNext == /\ \/ InChain /\ Next /\ UNCHANGED <<voiceVars, fileVars>>
             \/ InVoice /\ Voice!Next /\ UNCHANGED <<vars, fileVars>>
             \/ InFiles /\ Files!Next /\ UNCHANGED <<vars, voiceVars>>
          /\ UNCHANGED part

\* The fairness of each, where it is explored.
ChainFairness ==
  \A g \in Captures : /\ WF_vars(InChain /\ EncoderThread(g)) /\ WF_vars(InChain /\ CaptureStage(g))
                      /\ WF_vars(InChain /\ ProcessStage(g)) /\ WF_vars(InChain /\ EncodeStage(g))
VoiceFairness ==
  /\ WF_voiceVars(InVoice /\ Voice!StopDone) /\ WF_voiceVars(InVoice /\ (Voice!Connect \/ Voice!Fail))
  /\ WF_voiceVars(InVoice /\ Voice!Obey)
  /\ \A k \in Voice!Voices :
       WF_voiceVars(InVoice /\ Voice!Encode(k)) /\ WF_voiceVars(InVoice /\ Voice!Finish(k))
FilesFairness ==
  /\ WF_fileVars(InFiles /\ Files!OpenGate)
  /\ \A r \in Files!Recordings :
       /\ WF_fileVars(InFiles /\ Files!SendFinalize(r)) /\ WF_fileVars(InFiles /\ Files!Receive(r))
       /\ WF_fileVars(InFiles /\ Files!TimeOut(r)) /\ WF_fileVars(InFiles /\ Files!Consume(r))
       /\ WF_fileVars(InFiles /\ Files!Finish(r))
MCSpec == /\ MCInit /\ [][MCNext]_<<vars, voiceVars, fileVars, part>>
          /\ ChainFairness /\ VoiceFairness /\ FilesFairness

\* Of the voice: one is heard at most, the present talkback's, and the tap follows it.
OneVoice == Voice!OneVoice
\* Of the files: they hold every block accepted before the stop, in pages that are legal
\* but for a last one that the padded frame overflows.
FilesAreWhole == Files!FilesAreWhole
\* A voice's stage that is let go ends, a call on the talkback returns, and so does the
\* stop of a recording, unless its stuck thread's queue is full.
NothingHangs == Voice!NothingHangs /\ Files!StopReturns
\* Of the instrument: what is captured is sent while the session goes on, and its stages end.
AllFlows == SoundFlows /\ NothingHangs
==============================================================================
