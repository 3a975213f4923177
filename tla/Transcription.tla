------------------------------ MODULE Transcription ------------------------------
(***************************************************************************)
(* The one transcription slot of the backend (FileService.active and       *)
(* management_busy) and everything that takes it: multipart and streamed   *)
(* uploads, reprocessing, the microphone, the swap of the engines and the  *)
(* resumption of an interrupted file after a restart.                      *)
(*                                                                         *)
(* The backend is one event loop: a step is what a coroutine does between  *)
(* two awaits, and the pc of a coroutine names the await it is at.  What   *)
(* FileService.run does is task, what the WebSocket handler and then       *)
(* LiveSession.finish do is sock.  rec and job are the rows of the tables, *)
(* disk is what lies in tmp/ and audio/ of the data directory.             *)
(***************************************************************************)
EXTENDS Naturals, FiniteSets

CONSTANTS
    Files,          \* ids of sessions that transcribe a file
    Mics,           \* ids of microphone sessions
    Sockets,        \* WebSocket connections
    SocketOf,       \* the session a connection is opened for
    Retaining,      \* sessions created with options.retain_audio
    Manager,        \* the engine selection, as a user of the engines
    None,
    MaxRestarts     \* bound on restarts of the process

Sessions == Files \cup Mics

ASSUME SlotAssumption ==
    /\ SocketOf \in [Sockets -> Mics] /\ Files \cap Mics = {}
    /\ Manager \notin Sessions /\ None \notin Sessions /\ MaxRestarts \in Nat

VARIABLES rec, job, disk, active, busy, task, upload, sock, deleting, startup, restarts, patient

vars == <<rec, job, disk, active, busy, task, upload, sock, deleting, startup, restarts, patient>>

Terminal == {"COMPLETED", "PARTIAL", "FAILED", "CANCELLED", "INTERRUPTED"}
Stages == {"CREATED", "QUEUED", "UPLOADING", "PREPROCESSING", "TRANSCRIBING", "DIARIZING",
           "MERGING", "RECORDING", "FINALIZING"}

\* Ids are never reused: a session is unborn, has a row, or is deleted for good.
Row == [state : Stages \cup Terminal \cup {"UNBORN", "DELETED"}, kept : BOOLEAN]
Exists(s) == rec[s].state \notin {"UNBORN", "DELETED"}
\* Repository.valid: there is one generation, and no code writes CANCELLED.
Alive(s) == Exists(s) /\ rec[s].state # "CANCELLED"

Idle == [pc |-> "none", partial |-> FALSE]
Closed == [pc |-> "none", interrupted |-> FALSE]

TypeOK ==
    /\ rec \in [Sessions -> Row]
    /\ job \in [Sessions -> Stages \cup Terminal \cup {"none"}]
    /\ disk \in [Sessions -> SUBSET {"input", "pcm", "checkpoint", "wav"}]
    /\ active \in Sessions \cup {None}
    /\ busy \in BOOLEAN /\ patient \in BOOLEAN /\ restarts \in 0 .. MaxRestarts
    /\ task \in [Files -> [pc : {"none", "receiving", "queued", "resuming", "decoding", "asr",
                                 "diarizing", "writing", "closing"}, partial : BOOLEAN]]
    /\ upload \in [Files -> {"none", "open", "complete", "closed"}]
    /\ sock \in [Sockets -> [pc : {"none", "accepted", "initializing", "recording", "failed",
                                   "finishing", "draining", "writing", "releasing"},
                             interrupted : BOOLEAN]]
    /\ deleting \in SUBSET Sessions
    /\ startup \in {"loading", "asr", "vad", "up", "failed"}
    \* FileService.uploads has an entry only while run() may still need it.
    /\ \A s \in Files : upload[s] # "none" => task[s].pc \notin {"none", "receiving", "resuming"}

Init ==
    /\ rec = [s \in Sessions |-> [state |-> "UNBORN", kept |-> FALSE]]
    /\ job = [s \in Sessions |-> "none"]
    /\ disk = [s \in Sessions |-> {}]
    /\ active = None /\ busy = FALSE
    /\ task = [s \in Files |-> Idle]
    /\ upload = [s \in Files |-> "none"]
    /\ sock = [k \in Sockets |-> Closed]
    /\ deleting = {} /\ startup = "loading" /\ restarts = 0
    \* Whether the users wait until the service has started completely.
    /\ patient \in BOOLEAN

-----------------------------------------------------------------------------
(* Helpers                                                                 *)

\* claim succeeds; release(sid) gives the slot back if sid has it.
Free == active = None /\ ~busy
ReleaseAlways(s) == active' = None                         \* Mutant: whoever has the slot
Release(s) == active' = IF active = s THEN None ELSE active

\* check_ready: health of the workers, management and the slot.
Ready(live) ==
    /\ Free
    /\ startup # "loading"
    /\ live => startup = "up"
    /\ patient => startup \in {"up", "failed"}

SetState(s, st) == rec' = [rec EXCEPT ![s].state = st]
\* stage(): session and job move together, and only while the session is there.
Stage(s, st) ==
    IF Alive(s) THEN SetState(s, st) /\ job' = [job EXCEPT ![s] = st]
                ELSE UNCHANGED <<rec, job>>
Drop(s) == rec' = [rec EXCEPT ![s] = [state |-> "DELETED", kept |-> FALSE]]
           /\ job' = [job EXCEPT ![s] = "none"]

Goto(s, pc) == task' = [task EXCEPT ![s].pc = pc]
SockGoto(k, pc) == sock' = [sock EXCEPT ![k].pc = pc]

\* The finally of FileService.run once the upload is closed.
SweptAlways(s, there) == disk' = [disk EXCEPT ![s] = @ \cap {"wav"}]    \* Mutant: wav kept
Swept(s, there) == disk' = [disk EXCEPT ![s] = IF there THEN @ \cap {"wav"} ELSE {}]
CleanupAlive(s, there) ==                                              \* Mutant: slot kept
    /\ Swept(s, there) /\ task' = [task EXCEPT ![s] = Idle]
    /\ IF there THEN Release(s) ELSE UNCHANGED active
Cleanup(s, there) == Swept(s, there) /\ Release(s) /\ task' = [task EXCEPT ![s] = Idle]

LeaveAtOnce(s, there) == Cleanup(s, there)                 \* Mutant: the upload stays registered
\* Leaving run(): an upload has to be closed first, which awaits its readers.
Leave(s, there) ==
    IF upload[s] = "none" THEN Cleanup(s, there)
                          ELSE Goto(s, "closing") /\ UNCHANGED <<disk, active>>

-----------------------------------------------------------------------------
(* Routes that start work                                                  *)

CreateMic(s) ==
    /\ rec[s].state = "UNBORN" /\ Ready(TRUE)
    /\ SetState(s, "CREATED")
    /\ UNCHANGED <<job, disk, active, busy, task, upload, sock, deleting, startup, restarts, patient>>

\* POST /files: the row exists and the slot is taken before the body is read.
Upload(s) ==
    /\ rec[s].state = "UNBORN" /\ Ready(FALSE)
    /\ SetState(s, "QUEUED") /\ active' = s
    /\ disk' = [disk EXCEPT ![s] = {"input"}]
    /\ Goto(s, "receiving")
    /\ UNCHANGED <<job, busy, upload, sock, deleting, startup, restarts, patient>>

\* The job row is written although the session may have been deleted meanwhile.
Received(s) ==
    /\ task[s].pc = "receiving"
    /\ job' = [job EXCEPT ![s] = "QUEUED"]
    /\ Goto(s, "queued")
    /\ UNCHANGED <<rec, disk, active, busy, upload, sock, deleting, startup, restarts, patient>>

ReceiveFails(s) ==
    /\ task[s].pc = "receiving"
    /\ Drop(s) /\ Release(s)
    /\ disk' = [disk EXCEPT ![s] = @ \ {"input"}]
    /\ Goto(s, "none")
    /\ UNCHANGED <<busy, upload, sock, deleting, startup, restarts, patient>>

\* POST /files/stream
StartUpload(s) ==
    /\ rec[s].state = "UNBORN" /\ Ready(FALSE)
    /\ SetState(s, "UPLOADING") /\ job' = [job EXCEPT ![s] = "UPLOADING"] /\ active' = s
    /\ disk' = [disk EXCEPT ![s] = {"input"}]
    /\ upload' = [upload EXCEPT ![s] = "open"]
    /\ Goto(s, "queued")
    /\ UNCHANGED <<busy, sock, deleting, startup, restarts, patient>>

\* POST /files/{sid}/finish, after the last block
FinishUpload(s) ==
    /\ upload[s] = "open" /\ Exists(s)
    /\ upload' = [upload EXCEPT ![s] = "complete"]
    /\ UNCHANGED <<rec, job, disk, active, busy, task, sock, deleting, startup, restarts, patient>>

Reprocess(s, old) ==
    /\ rec[s].state = "UNBORN" /\ Ready(FALSE)
    /\ Exists(old) /\ rec[old].kept /\ "wav" \in disk[old]
    /\ SetState(s, "QUEUED") /\ job' = [job EXCEPT ![s] = "QUEUED"] /\ active' = s
    /\ disk' = [disk EXCEPT ![s] = {"input"}]
    /\ Goto(s, "queued")
    /\ UNCHANGED <<busy, upload, sock, deleting, startup, restarts, patient>>

-----------------------------------------------------------------------------
(* FileService.run                                                         *)

Begin(s) ==
    /\ task[s].pc = "queued"
    /\ IF Alive(s)
       THEN /\ Stage(s, "PREPROCESSING") /\ Goto(s, "decoding")
            /\ disk' = [disk EXCEPT ![s] = @ \cup {"pcm"}] /\ UNCHANGED active
       ELSE /\ UNCHANGED <<rec, job>>
            /\ Leave(s, FALSE)
    /\ UNCHANGED <<busy, upload, sock, deleting, startup, restarts, patient>>

\* A resumed run that finds its session deleted returns before the try block.
Resume(s) ==
    /\ task[s].pc = "resuming"
    /\ IF Alive(s)
       THEN Stage(s, "DIARIZING") /\ Goto(s, "diarizing") /\ UNCHANGED <<disk, active>>
       ELSE /\ UNCHANGED <<rec, job>> /\ Release(s) /\ Goto(s, "none")
            /\ disk' = [disk EXCEPT ![s] = @ \ {"input"}]
    /\ UNCHANGED <<busy, upload, sock, deleting, startup, restarts, patient>>

\* decode has returned, or ffprobe has found the stream of an upload
Decoded(s) ==
    /\ task[s].pc = "decoding" /\ Alive(s) /\ upload[s] # "closed"
    /\ Stage(s, "TRANSCRIBING") /\ Goto(s, "asr")
    /\ UNCHANGED <<disk, active, busy, upload, sock, deleting, startup, restarts, patient>>

\* The last window: words and PCM are kept for a restart, then diarization begins.
Transcribed(s) ==
    /\ task[s].pc = "asr" /\ Alive(s) /\ upload[s] \in {"none", "complete"}
    /\ disk' = [disk EXCEPT ![s] = @ \cup {"checkpoint"}]
    /\ Stage(s, "DIARIZING") /\ Goto(s, "diarizing")
    /\ UNCHANGED <<active, busy, upload, sock, deleting, startup, restarts, patient>>

Outcome(partial) == IF partial THEN "PARTIAL" ELSE "COMPLETED"

\* A failed diarization leaves a partial result; a retained recording is written next.
Diarized(s, partial) ==
    /\ task[s].pc = "diarizing" /\ Alive(s)
    /\ IF s \in Retaining
       THEN /\ Stage(s, "MERGING") /\ disk' = [disk EXCEPT ![s] = @ \cup {"wav"}]
            /\ task' = [task EXCEPT ![s] = [pc |-> "writing", partial |-> partial]]
            /\ UNCHANGED active
       ELSE Stage(s, Outcome(partial)) /\ Leave(s, TRUE)
    /\ UNCHANGED <<busy, upload, sock, deleting, startup, restarts, patient>>

Written(s) ==
    /\ task[s].pc = "writing" /\ Alive(s)
    /\ rec' = [rec EXCEPT ![s] = [state |-> Outcome(task[s].partial), kept |-> TRUE]]
    /\ job' = [job EXCEPT ![s] = Outcome(task[s].partial)]
    /\ Leave(s, TRUE)
    /\ UNCHANGED <<busy, upload, sock, deleting, startup, restarts, patient>>

\* The session was deleted during an await: return through the finally block.
Abandon(s) ==
    /\ task[s].pc \in {"decoding", "asr", "diarizing", "writing"} /\ ~Alive(s)
    /\ Leave(s, FALSE)
    /\ UNCHANGED <<rec, job, busy, upload, sock, deleting, startup, restarts, patient>>

FailStageOfSession(s) ==                                   \* Mutant: the job is forgotten
    /\ UNCHANGED job
    /\ IF Alive(s) THEN SetState(s, "FAILED") ELSE UNCHANGED rec
FailStage(s) == Stage(s, "FAILED")

\* An error of FFmpeg, of the model or of the disk.
TaskFails(s) ==
    /\ task[s].pc \in {"decoding", "asr", "writing"}
    /\ FailStage(s) /\ Leave(s, Alive(s))
    /\ UNCHANGED <<busy, upload, sock, deleting, startup, restarts, patient>>

\* upload.check(): no block for 120 seconds, or closed by the deletion.
UploadBreaks(s) ==
    /\ upload[s] \in {"open", "closed"} /\ task[s].pc \in {"decoding", "asr"}
    /\ FailStage(s) /\ Leave(s, Alive(s))
    /\ UNCHANGED <<busy, upload, sock, deleting, startup, restarts, patient>>

CloseUpload(s) ==
    /\ task[s].pc = "closing"
    /\ upload' = [upload EXCEPT ![s] = "none"]
    /\ Cleanup(s, Alive(s))
    /\ UNCHANGED <<rec, job, busy, sock, deleting, startup, restarts, patient>>

-----------------------------------------------------------------------------
(* DELETE /sessions/{sid} and the daily expiry of demo records             *)

\* Files of a session that holds the slot are left to its own task.
Unlinked(s) == disk' = [disk EXCEPT ![s] = IF active = s THEN @ ELSE @ \ {"input", "wav"}]

Delete(s) ==
    /\ Exists(s) /\ Drop(s)
    /\ IF s \in Files /\ upload[s] # "none"
       THEN deleting' = deleting \cup {s} /\ UNCHANGED disk
       ELSE Unlinked(s) /\ UNCHANGED deleting
    /\ UNCHANGED <<active, busy, task, upload, sock, startup, restarts, patient>>

CancelUpload(s) ==
    /\ s \in deleting /\ upload[s] \in {"open", "complete"}
    /\ upload' = [upload EXCEPT ![s] = "closed"]
    /\ UNCHANGED <<rec, job, disk, active, busy, task, sock, deleting, startup, restarts, patient>>

Deleted(s) ==
    /\ s \in deleting /\ upload[s] \in {"none", "closed"}
    /\ Unlinked(s) /\ deleting' = deleting \ {s}
    /\ UNCHANGED <<rec, job, active, busy, task, upload, sock, startup, restarts, patient>>

Expire(s) ==
    /\ Exists(s) /\ active # s
    /\ Drop(s) /\ disk' = [disk EXCEPT ![s] = {}]
    /\ UNCHANGED <<active, busy, task, upload, sock, deleting, startup, restarts, patient>>

-----------------------------------------------------------------------------
(* The WebSocket of a microphone session and LiveSession                   *)

AcceptAny(k) ==                                            \* Mutant: the state is not looked at
    /\ sock[k].pc = "none" /\ Exists(SocketOf[k])
    /\ SockGoto(k, "accepted")
    /\ UNCHANGED <<rec, job, disk, active, busy, task, upload, deleting, startup, restarts, patient>>

\* The state is looked at here, the start frame is awaited afterwards.
Accept(k) ==
    /\ sock[k].pc = "none" /\ rec[SocketOf[k]].state = "CREATED"
    /\ SockGoto(k, "accepted")
    /\ UNCHANGED <<rec, job, disk, active, busy, task, upload, deleting, startup, restarts, patient>>

StartFrame(k) ==
    /\ sock[k].pc = "accepted" /\ Ready(TRUE) /\ Exists(SocketOf[k])
    /\ active' = SocketOf[k] /\ SockGoto(k, "initializing")
    /\ UNCHANGED <<rec, job, disk, busy, task, upload, deleting, startup, restarts, patient>>

\* No start frame within ten seconds, not ready, busy, or the row is gone.
StartRefused(k) ==
    /\ sock[k].pc = "accepted" /\ SockGoto(k, "none")
    /\ UNCHANGED <<rec, job, disk, active, busy, task, upload, deleting, startup, restarts, patient>>

Initialized(k) ==
    /\ sock[k].pc = "initializing" /\ SockGoto(k, "recording")
    /\ IF Exists(SocketOf[k]) THEN SetState(SocketOf[k], "RECORDING") ELSE UNCHANGED rec
    /\ UNCHANGED <<job, disk, active, busy, task, upload, deleting, startup, restarts, patient>>

\* The voice detector cannot be loaded: the slot is released, then the error is sent.
InitFails(k) ==
    /\ sock[k].pc = "initializing" /\ SockGoto(k, "failed")
    /\ Release(SocketOf[k])
    /\ UNCHANGED <<rec, job, disk, busy, task, upload, deleting, startup, restarts, patient>>

\* finish() then finds no scheduler, records PARTIAL, removes the recording of a session
\* that was deleted, and releases once more.
InitFailed(k) ==
    /\ sock[k].pc = "failed" /\ sock' = [sock EXCEPT ![k] = Closed]
    /\ IF Alive(SocketOf[k]) THEN SetState(SocketOf[k], "PARTIAL") ELSE UNCHANGED rec
    /\ disk' = [disk EXCEPT ![SocketOf[k]] = IF Alive(SocketOf[k]) THEN @ ELSE @ \ {"wav"}]
    /\ Release(SocketOf[k])
    /\ UNCHANGED <<job, busy, task, upload, deleting, startup, restarts, patient>>

\* A stop frame; or a disconnect, a timeout of 15 seconds, the limit of a recording.
Stop(k, interrupted) ==
    /\ sock[k].pc = "recording"
    /\ sock' = [sock EXCEPT ![k] = [pc |-> "finishing", interrupted |-> interrupted]]
    /\ UNCHANGED <<rec, job, disk, active, busy, task, upload, deleting, startup, restarts, patient>>

\* The scheduler has ended; the remaining windows are drained.
Finalize(k) ==
    /\ sock[k].pc = "finishing"
    /\ IF Alive(SocketOf[k]) THEN SetState(SocketOf[k], "FINALIZING") /\ SockGoto(k, "draining")
                             ELSE SockGoto(k, "releasing") /\ UNCHANGED rec
    /\ UNCHANGED <<job, disk, active, busy, task, upload, deleting, startup, restarts, patient>>

LiveOutcome(k, partial) == IF sock[k].interrupted THEN "INTERRUPTED" ELSE Outcome(partial)

Drained(k, partial) ==
    LET s == SocketOf[k] IN
    /\ sock[k].pc = "draining"
    /\ \/ /\ Alive(s) /\ s \in Retaining
          /\ disk' = [disk EXCEPT ![s] = @ \cup {"wav"}]
          /\ SockGoto(k, "writing") /\ UNCHANGED rec
       \/ /\ Alive(s) /\ s \notin Retaining
          /\ SetState(s, LiveOutcome(k, partial))
          /\ SockGoto(k, "releasing") /\ UNCHANGED disk
       \/ /\ ~Alive(s) /\ SockGoto(k, "releasing") /\ UNCHANGED <<rec, disk>>
    /\ UNCHANGED <<job, active, busy, task, upload, deleting, startup, restarts, patient>>

Saved(k, partial) ==
    LET s == SocketOf[k] IN
    /\ sock[k].pc = "writing" /\ SockGoto(k, "releasing")
    /\ IF Alive(s)
       THEN /\ rec' = [rec EXCEPT ![s] = [state |-> LiveOutcome(k, partial), kept |-> TRUE]]
            /\ UNCHANGED disk
       ELSE disk' = [disk EXCEPT ![s] = @ \ {"wav"}] /\ UNCHANGED rec
    /\ UNCHANGED <<job, active, busy, task, upload, deleting, startup, restarts, patient>>

FinishFails(k) ==
    /\ sock[k].pc \in {"draining", "writing"} /\ SockGoto(k, "releasing")
    /\ IF Alive(SocketOf[k]) THEN SetState(SocketOf[k], "PARTIAL") ELSE UNCHANGED rec
    /\ UNCHANGED <<job, disk, active, busy, task, upload, deleting, startup, restarts, patient>>

\* The slot is held until inference that cannot be preempted has ended.
Finished(k) ==
    LET s == SocketOf[k] IN
    /\ sock[k].pc = "releasing" /\ sock' = [sock EXCEPT ![k] = Closed]
    /\ disk' = [disk EXCEPT ![s] = IF Alive(s) THEN @ ELSE @ \ {"wav"}]
    /\ Release(s)
    /\ UNCHANGED <<rec, job, busy, task, upload, deleting, startup, restarts, patient>>

-----------------------------------------------------------------------------
(* Engine selection, start-up and restart                                  *)

\* Mutant: the selection only asks whether the workers are loaded.
StartedLoaded == startup # "loading"
Started == startup \in {"up", "failed"}

Select ==
    /\ Started /\ Free /\ busy' = TRUE
    /\ UNCHANGED <<rec, job, disk, active, task, upload, sock, deleting, startup, restarts, patient>>

Selected ==
    /\ busy /\ busy' = FALSE
    /\ UNCHANGED <<rec, job, disk, active, task, upload, sock, deleting, startup, restarts, patient>>

\* The pool of the speech model is ready before that of the speaker model.
LoadAsr ==
    /\ startup = "loading" /\ startup' = "asr"
    /\ UNCHANGED <<rec, job, disk, active, busy, task, upload, sock, deleting, restarts, patient>>

Resumable(s) == rec[s].state = "INTERRUPTED" /\ {"checkpoint", "pcm"} \subseteq disk[s]
Checkpoints == {s \in Files : "checkpoint" \in disk[s]}

\* The files of stale checkpoints that come first in the directory are removed.
Stale(seen) == [s \in Sessions |-> IF s \in seen THEN disk[s] \ {"checkpoint", "pcm"} ELSE disk[s]]

\* Both pools are ready; resume_pending takes the slot for the first valid checkpoint
\* only.  A busy slot raises RuntimeError, which nothing catches.
ResumePending ==
    LET valid == {s \in Checkpoints : Resumable(s)} IN
    /\ startup \in {"loading", "asr"}
    /\ \/ /\ valid = {} /\ startup' = "vad" /\ disk' = Stale(Checkpoints)
          /\ UNCHANGED <<rec, active, task>>
       \/ \E s \in valid, seen \in SUBSET (Checkpoints \ valid) :
            /\ disk' = Stale(seen)
            /\ IF Free
               THEN /\ startup' = "vad" /\ active' = s
                    /\ SetState(s, "DIARIZING") /\ Goto(s, "resuming")
               ELSE startup' = "failed" /\ UNCHANGED <<rec, active, task>>
    /\ UNCHANGED <<job, busy, upload, sock, deleting, restarts, patient>>

VadReady ==
    /\ startup = "vad" /\ startup' = "up"
    /\ UNCHANGED <<rec, job, disk, active, busy, task, upload, sock, deleting, restarts, patient>>

\* lifespan removes inputs and PCM without a checkpoint; Repository.__init__ marks what
\* was in progress.
Interrupted(st) == IF st \in Stages THEN "INTERRUPTED" ELSE st
LeftNoPcm(files) == files \ {"input", "pcm"}               \* Mutant: every PCM file is removed
Left(files) == files \ (IF "checkpoint" \in files THEN {"input"} ELSE {"input", "pcm"})

Restart ==
    /\ restarts < MaxRestarts /\ restarts' = restarts + 1
    /\ rec' = [s \in Sessions |-> [rec[s] EXCEPT !.state = Interrupted(@)]]
    /\ job' = [s \in Sessions |-> Interrupted(job[s])]
    /\ disk' = [s \in Sessions |-> Left(disk[s])]
    /\ active' = None /\ busy' = FALSE
    /\ task' = [s \in Files |-> Idle] /\ upload' = [s \in Files |-> "none"]
    /\ sock' = [k \in Sockets |-> Closed] /\ deleting' = {} /\ startup' = "loading"
    /\ UNCHANGED patient

-----------------------------------------------------------------------------
RouteStep(s) ==
    \/ Upload(s) \/ Received(s) \/ ReceiveFails(s) \/ StartUpload(s) \/ FinishUpload(s)
    \/ \E old \in Sessions : Reprocess(s, old)
Run(s) ==
    \/ Begin(s) \/ Resume(s) \/ Decoded(s) \/ Transcribed(s) \/ Written(s) \/ Abandon(s)
    \/ TaskFails(s) \/ UploadBreaks(s) \/ CloseUpload(s)
    \/ \E partial \in BOOLEAN : Diarized(s, partial)
DeleteStep(s) == Delete(s) \/ Expire(s)
Record(k) ==
    \/ Accept(k) \/ StartFrame(k) \/ StartRefused(k) \/ Initialized(k) \/ InitFails(k)
    \/ InitFailed(k) \/ Finalize(k) \/ FinishFails(k) \/ Finished(k)
    \/ \E b \in BOOLEAN : Stop(k, b) \/ Drained(k, b) \/ Saved(k, b)
Service == Select \/ Selected \/ LoadAsr \/ ResumePending \/ VadReady \/ Restart

Next ==
    \/ \E s \in Files : RouteStep(s) \/ Run(s) \/ CancelUpload(s)
    \/ \E s \in Sessions : DeleteStep(s) \/ Deleted(s)
    \/ \E s \in Mics : CreateMic(s)
    \/ \E k \in Sockets : Record(k)
    \/ Service

Spec == Init /\ [][Next]_vars

\* The event loop runs what can run, FFmpeg and the models answer (an inference that
\* hangs for ever is a limit the documentation names), a body is received or its
\* connection breaks, and the time limits of uploads and recordings expire.
FairSpec ==
    /\ Spec
    /\ \A s \in Files :
         /\ WF_vars(Received(s) \/ ReceiveFails(s)) /\ WF_vars(Begin(s) \/ Resume(s))
         /\ WF_vars(Decoded(s)) /\ WF_vars(Transcribed(s)) /\ WF_vars(UploadBreaks(s))
         /\ WF_vars(\E partial \in BOOLEAN : Diarized(s, partial))
         /\ WF_vars(Written(s)) /\ WF_vars(Abandon(s)) /\ WF_vars(CloseUpload(s))
    /\ \A k \in Sockets :
         /\ WF_vars(Initialized(k) \/ InitFails(k)) /\ WF_vars(InitFailed(k))
         /\ WF_vars(Stop(k, TRUE)) /\ WF_vars(Finalize(k)) /\ WF_vars(Finished(k))
         /\ WF_vars(\E b \in BOOLEAN : Drained(k, b)) /\ WF_vars(\E b \in BOOLEAN : Saved(k, b))
    /\ WF_vars(ResumePending) /\ WF_vars(VadReady)

-----------------------------------------------------------------------------
(* Properties                                                              *)

\* Who works, by the coroutines that run and not by what the slot says.
Working(s) ==
    \/ s \in Files /\ task[s].pc # "none"
    \/ \E k \in Sockets : SocketOf[k] = s /\ sock[k].pc \notin {"none", "accepted", "failed"}
\* A start that failed uses no engine any more; its handler still has to clean up.
Handled(s) == Working(s) \/ \E k \in Sockets : SocketOf[k] = s /\ sock[k].pc = "failed"
Users == {s \in Sessions : Working(s)} \cup (IF busy THEN {Manager} ELSE {})

Engines == INSTANCE ExclusiveUse WITH Users <- Sessions \cup {Manager}, using <- Users

\* The slot implements exclusive use of the engines: no two sessions are processed at
\* once, none while the worker pools are swapped, although uploads, recordings, engine
\* selection and the resumption after a restart test the slot in different places.
EnginesAreExclusive == Engines!Spec

\* Deletion leaves no source file and no recording behind: what remains of a deleted
\* session is in the hands of a task or a handler that still runs.  (A process killed
\* while it writes the recording of a deleted session does leave the recording.)
NothingLeftBehind ==
    \A s \in Sessions :
        /\ rec[s].state = "DELETED" /\ "input" \in disk[s] => Handled(s) \/ s \in deleting
        /\ rec[s].state = "DELETED" /\ "wav" \in disk[s] =>
               Handled(s) \/ s \in deleting \/ restarts > 0

\* A session that has ended stays as it ended, except that an interrupted file is
\* resumed: no coroutine that outlives its session writes to it.
EndedStays ==
    [][\A s \in Sessions :
          rec[s].state \in Terminal =>
              \/ rec'[s].state \in {rec[s].state, "DELETED"}
              \/ rec[s].state = "INTERRUPTED" /\ rec'[s].state = "DIARIZING"]_vars

\* When nothing processes a file its job tells the same as its session, on every way to
\* end: completion, failure, deletion, restart.
JobTellsTheSame ==
    \A s \in Files : Exists(s) /\ ~Working(s) => job[s] \in {"none", rec[s].state}

\* Once words and PCM of a session are saved, an interruption never costs them: they
\* stay until the session is resumed or deleted, however often the service restarts.
ResumableStays ==
    [][\A s \in Files : {"checkpoint", "pcm"} \subseteq disk[s] /\ rec'[s].state = "INTERRUPTED"
                            => Resumable(s)']_vars

\* Once the service is up, an interrupted session that can be resumed has been: the
\* documentation promises that the same session continues at speaker analysis.
ResumedAfterRestart == startup \in {"vad", "up", "failed"} => \A s \in Files : ~Resumable(s)

\* The same when users wait for the end of the start-up.
ResumedIfPatient == patient => ResumedAfterRestart

\* Whoever holds the slot gives it back, also when its session is deleted on the way.
SlotIsReturned == \A s \in Sessions : (active = s) ~> (active # s)
=============================================================================
