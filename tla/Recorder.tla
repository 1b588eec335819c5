------------------------------ MODULE Recorder ------------------------------
(***************************************************************************)
(* The recording of a session (jamodio-audio-core/src/record): the taps of *)
(* the mixer send blocks of sound to a record thread through a bounded     *)
(* queue, without waiting; the thread encodes them into one Ogg file per   *)
(* stem; a stop sends Finalize on the same queue and waits for the files.  *)
(* A recording may start while the thread of the one before still works.   *)
(***************************************************************************)
EXTENDS Naturals, Sequences

CONSTANTS
  NumRecordings,     \* bound: recordings started
  Stems,             \* what each of them records
  QueueSize,         \* 256
  FrameBlocks,       \* blocks in an Opus frame
  PACKETS_PER_PAGE,
  MaxSegments,       \* 255
  Sizes,             \* segments of a packet
  MaxBlocks          \* bound: blocks that the taps look at

RecorderConstants ==
  /\ NumRecordings \in Nat \ {0}
  /\ QueueSize \in Nat \ {0} /\ FrameBlocks \in Nat \ {0}
  /\ PACKETS_PER_PAGE \in Nat \ {0} /\ MaxSegments \in Nat \ {0}
  /\ Sizes \subseteq 1 .. MaxSegments /\ Sizes # {} /\ MaxBlocks \in Nat
  /\ "Finalize" \notin Stems

Recordings == 1 .. NumRecordings

VARIABLES
  recorder,   \* PipelineState.recorder, 0 when there is none
  tx,         \* the mixer's record_tx
  active,     \* record_active
  tap,        \* per stem: the tap has seen the gate open
  blocks,     \* blocks looked at
  queue,      \* per recording: the commands
  thread,     \* per recording: its thread
  files,      \* per recording and stem: the encoder and the file (padded: history)
  stop,       \* per recording: who stops it, and where
  leaving,    \* the stop is a departure: it holds the pipeline's mutex
  accepted    \* history, per recording and stem: blocks that entered the queue

vars == <<recorder, tx, active, tap, blocks, queue, thread, files, stop, leaving, accepted>>
mixVars  == <<tx, active, tap, blocks>>
fileVars == <<thread, files>>

Finalize == "Finalize"
NewFile  == [buf |-> 0, pending |-> 0, segments |-> 0, packets |-> 0, failed |-> 0,
             padded |-> 0, pages |-> <<>>]

Init ==
  /\ recorder = 0 /\ tx = 0 /\ active = FALSE
  /\ tap = [s \in Stems |-> FALSE] /\ blocks = 0
  /\ queue = [r \in Recordings |-> <<>>]
  /\ thread = [r \in Recordings |-> "none"]
  /\ files = [r \in Recordings |-> [s \in Stems |-> NewFile]]
  /\ stop = [r \in Recordings |-> "none"]
  /\ leaving = FALSE
  /\ accepted = [r \in Recordings |-> [s \in Stems |-> 0]]

-----------------------------------------------------------------------------
\* One file (OpusOggRecorder).

\* flush_page: the granule of a page is the sound that precedes its end.
FlushPage(f, isLast) ==
  IF f.pending = 0 /\ ~isLast THEN f
  ELSE [f EXCEPT !.pending = 0, !.segments = 0,
                 !.pages = Append(@, [segments |-> f.segments, end |-> f.packets, last |-> isLast])]
AddPacket(f, size) == [f EXCEPT !.pending = @ + 1, !.segments = @ + size, !.packets = @ + 1]

\* A page about to overflow is written first.
MakeRoom(f, size) ==
  IF f.pending # 0 /\ f.segments + size > MaxSegments THEN FlushPage(f, FALSE) ELSE f

\* push_samples: a full frame is encoded, to a packet of that size; 0 is a frame
\* that failed to encode, which is dropped.
PushBlock(f, size) ==
  LET full == [f EXCEPT !.buf = 0]
      g    == AddPacket(MakeRoom(full, size), size)
  IN IF f.buf + 1 < FrameBlocks THEN [f EXCEPT !.buf = @ + 1]
     ELSE IF size = 0 THEN [full EXCEPT !.failed = @ + 1]
     ELSE IF g.pending >= PACKETS_PER_PAGE THEN FlushPage(g, FALSE) ELSE g

\* finalize: what is left is padded to a frame, which joins the last page whatever
\* room is left there.
Finished(f, size) ==
  LET padded == [f EXCEPT !.buf = 0]
  IN IF f.buf = 0 THEN FlushPage(f, TRUE)
     ELSE IF size = 0 THEN FlushPage([padded EXCEPT !.failed = @ + 1], TRUE)
     ELSE FlushPage([AddPacket(padded, size) EXCEPT !.padded = size], TRUE)

Encoded == Sizes \cup {0}

-----------------------------------------------------------------------------
\* The mixer's taps: the gate first, the sender later.

LookAtGate(s) ==
  /\ ~tap[s] /\ active /\ blocks < MaxBlocks
  /\ tap' = [tap EXCEPT ![s] = TRUE] /\ blocks' = blocks + 1
  /\ UNCHANGED <<recorder, tx, active, queue, fileVars, stop, leaving, accepted>>

\* record_send: nothing without a sender; a full queue drops the block.
HasRoom(r) == thread[r] # "gone" /\ Len(queue[r]) < QueueSize
RecordSend(s) ==
  /\ tap[s]
  /\ tap' = [tap EXCEPT ![s] = FALSE]
  /\ IF tx # 0 /\ HasRoom(tx)
     THEN /\ queue' = [queue EXCEPT ![tx] = Append(@, s)]
          /\ accepted' = [accepted EXCEPT ![tx][s] = @ + 1]
     ELSE UNCHANGED <<queue, accepted>>
  /\ UNCHANGED <<recorder, tx, active, blocks, fileVars, stop, leaving>>

-----------------------------------------------------------------------------
\* The pipeline, under its mutex.

Unlocked == ~leaving

\* start_recording, then set_record_tx(Some).
StartRecording(r) ==
  /\ Unlocked /\ recorder = 0 /\ tx = 0
  /\ thread[r] = "none" /\ \A q \in Recordings : q < r => thread[q] # "none"
  /\ thread' = [thread EXCEPT ![r] = "runs"]
  /\ tx' = r /\ recorder' = r
  /\ UNCHANGED <<active, tap, blocks, queue, files, stop, leaving, accepted>>
\* ...and the gate, after the sender.
OpenGate ==
  /\ tx # 0 /\ tx = recorder /\ ~active
  /\ active' = TRUE
  /\ UNCHANGED <<recorder, tx, tap, blocks, queue, fileVars, stop, leaving, accepted>>

\* take_recorder: the sender is taken from the mixer first.  The stop goes on
\* without the mutex (StopRecording) or under it (a departure).
\* (First a wrong form: the mixer keeps its sender until the files are there.)
TakeKeeping(r, leaves) ==
  /\ recorder' = 0 /\ stop' = [stop EXCEPT ![r] = "send"] /\ leaving' = leaves
  /\ UNCHANGED <<tx, active>>
Take(r, leaves) ==
  /\ tx' = 0 /\ active' = FALSE
  /\ recorder' = 0 /\ stop' = [stop EXCEPT ![r] = "send"] /\ leaving' = leaves
TakeRecorder(r, leaves) ==
  /\ Unlocked /\ recorder = r /\ active
  /\ Take(r, leaves)
  /\ UNCHANGED <<tap, blocks, queue, fileVars, accepted>>

-----------------------------------------------------------------------------
\* RecorderHandle::stop.

\* Finalize waits for room, without a timeout.
SendFinalize(r) ==
  /\ stop[r] = "send" /\ (Len(queue[r]) < QueueSize \/ thread[r] = "gone")
  /\ queue' = IF thread[r] = "gone" THEN queue ELSE [queue EXCEPT ![r] = Append(@, Finalize)]
  /\ stop' = [stop EXCEPT ![r] = "wait"]
  /\ UNCHANGED <<recorder, mixVars, fileVars, leaving, accepted>>
Return(r, how) ==
  /\ stop[r] = "wait"
  /\ stop' = [stop EXCEPT ![r] = how] /\ leaving' = FALSE
  /\ UNCHANGED <<recorder, mixVars, queue, fileVars, accepted>>
\* The files came; or 30 s went by, on a thread that is stuck.
Receive(r) == thread[r] = "gone" /\ Return(r, "files")
TimeOut(r) == thread[r] = "stuck" /\ Return(r, "nothing")

-----------------------------------------------------------------------------
\* run_record_thread.

Consume(r) ==
  /\ thread[r] = "runs" /\ queue[r] # <<>> /\ Head(queue[r]) # Finalize
  /\ LET s == Head(queue[r])
     IN \E size \in Encoded : files' = [files EXCEPT ![r][s] = PushBlock(@, size)]
  /\ queue' = [queue EXCEPT ![r] = Tail(@)]
  /\ UNCHANGED <<recorder, mixVars, thread, stop, leaving, accepted>>
Finish(r) ==
  /\ thread[r] = "runs" /\ queue[r] # <<>> /\ Head(queue[r]) = Finalize
  /\ \E size \in [Stems -> Encoded] :
       files' = [files EXCEPT ![r] = [s \in Stems |-> Finished(@[s], size[s])]]
  /\ thread' = [thread EXCEPT ![r] = "gone"] /\ queue' = [queue EXCEPT ![r] = <<>>]
  /\ UNCHANGED <<recorder, mixVars, stop, leaving, accepted>>
\* The encoder or the machine holds the thread for good.
GetStuck(r) ==
  /\ thread[r] = "runs"
  /\ thread' = [thread EXCEPT ![r] = "stuck"]
  /\ UNCHANGED <<recorder, mixVars, queue, files, stop, leaving, accepted>>

-----------------------------------------------------------------------------
Recording(r) ==
  \/ StartRecording(r) \/ (\E leaves \in BOOLEAN : TakeRecorder(r, leaves))
  \/ SendFinalize(r) \/ Receive(r) \/ TimeOut(r)
  \/ Consume(r) \/ Finish(r) \/ GetStuck(r)
Next ==
  \/ \E r \in Recordings : Recording(r)
  \/ OpenGate
  \/ \E s \in Stems : LookAtGate(s) \/ RecordSend(s)

\* The threads and the handlers run; nobody owes a start, a stop or a block.
Fairness ==
  /\ WF_vars(OpenGate)
  /\ \A r \in Recordings :
       WF_vars(SendFinalize(r)) /\ WF_vars(Receive(r)) /\ WF_vars(TimeOut(r))
       /\ WF_vars(Consume(r)) /\ WF_vars(Finish(r))
Spec == Init /\ [][Next]_vars
FairSpec == Spec /\ Fairness

-----------------------------------------------------------------------------
Page == [segments: Nat, end: Nat, last: BOOLEAN]
File == [buf: 0 .. FrameBlocks - 1, pending: Nat, segments: Nat, packets: Nat, failed: Nat,
         padded: Nat, pages: Seq(Page)]
TypeOK ==
  /\ recorder \in Recordings \cup {0} /\ tx \in Recordings \cup {0} /\ active \in BOOLEAN
  /\ tap \in [Stems -> BOOLEAN] /\ blocks \in 0 .. MaxBlocks /\ leaving \in BOOLEAN
  /\ queue \in [Recordings -> Seq(Stems \cup {Finalize})]
  /\ \A r \in Recordings : Len(queue[r]) <= QueueSize
  /\ thread \in [Recordings -> {"none", "runs", "stuck", "gone"}]
  /\ files \in [Recordings -> [Stems -> File]]
  /\ stop \in [Recordings -> {"none", "send", "wait", "files", "nothing"}]
  /\ accepted \in [Recordings -> [Stems -> Nat]]

\* A finished file holds every block its queue accepted, in frames, the last one
\* padded: whatever was being pushed when the recording stopped, and although
\* the next one may have started, no accepted block is left behind.
Frames(n) == (n + FrameBlocks - 1) \div FrameBlocks
NothingLeftBehind ==
  \A r \in Recordings, s \in Stems : thread[r] = "gone" =>
    /\ files[r][s].packets + files[r][s].failed = Frames(accepted[r][s])
    /\ files[r][s].buf = 0 /\ files[r][s].pending = 0 /\ queue[r] = <<>>

\* The pages of a finished file say where the sound ends: it ends on its only last
\* page, and time never goes back.  A page needs no more than the table of segments
\* can say, and its count is true, but for one case: the last page, when the frame
\* that finalize pads takes it past the table.
Readable(page) == page.segments <= MaxSegments
Overfull(page, padded) == page.last /\ padded # 0 /\ page.segments <= MaxSegments + padded
PagesAreLegal ==
  \A r \in Recordings, s \in Stems :
    LET pages == files[r][s].pages
    IN /\ \A i \in DOMAIN pages : Readable(pages[i]) \/ Overfull(pages[i], files[r][s].padded)
       /\ \A i \in DOMAIN pages : pages[i].last <=> (thread[r] = "gone" /\ i = Len(pages))
       /\ \A i, j \in DOMAIN pages : i < j => pages[i].end <= pages[j].end
       /\ thread[r] = "gone" => pages # <<>> /\ pages[Len(pages)].end = files[r][s].packets

\* Whatever happens around the stop, the files that are handed over hold all that was
\* accepted, in pages that can be read up to the last, and the last one too unless the
\* padded frame overflowed it.
FilesAreWhole == NothingLeftBehind /\ PagesAreLegal

\* A stop returns, and lets the pipeline go, unless the thread is stuck and its
\* queue full: that one waits for ever in its send, outside the timeout.
StopReturns ==
  []<>(\A r \in Recordings :
         /\ stop[r] # "wait"
         /\ stop[r] = "send" => thread[r] = "stuck" /\ Len(queue[r]) = QueueSize)
=============================================================================
