------------------------- MODULE TranscriptionProofs -------------------------
(***************************************************************************)
(* Proofs about Transcription, for any files, microphone sessions,         *)
(* connections and restarts.  TranscriptionInv holds whatever the          *)
(* connections do: the slot and the tasks (SlotInv), a recording that has  *)
(* the slot (MicHeld), the rows (StateInv) and the jobs (JobInv), which    *)
(* the code keeps in different places, and what is left on disk (DiskInv). *)
(* What else holds of the recordings depends on how connections share a    *)
(* session, and each theorem about it says on what: MicSlot is the slot    *)
(* and the connections, MicStates the rows when each session has one       *)
(* connection.  The steps of one file and of one connection touch one      *)
(* session only (FileLocal, SockLocal), so that each part is proved once   *)
(* for the session that moves.                                             *)
(***************************************************************************)
EXTENDS Transcription, TLAPS

\* A microphone connection holds the slot from its start frame to the end of its finally.
Holding == {"initializing", "recording", "finishing", "draining", "writing", "releasing"}

\* One connection per microphone session.  live.py does not enforce it between the check
\* of the state and the first await: only the theorems that name it rest on it.
OneConnectionEach == \A k, l \in Sockets : SocketOf[k] = SocketOf[l] => k = l

\* The slot and the tasks: a file holds it while its task is under way, and engine
\* selection has it only while no session does.
SlotInv ==
    /\ \A s \in Files : active = s <=> task[s].pc # "none"
    /\ busy => active = None

\* A recording that has the slot is in the hands of a connection.
MicHeld == active \in Mics => \E k \in Sockets : SocketOf[k] = active /\ sock[k].pc \in Holding

\* The slot and the connections: the one that is past its start frame holds it.
MicSlot ==
    /\ \A k \in Sockets : sock[k].pc \in Holding => active = SocketOf[k]
    /\ \A k, l \in Sockets : sock[k].pc \in Holding /\ sock[l].pc \in Holding => k = l
    /\ MicHeld

\* A start that failed gives the slot back twice, before and after the error is sent.  The
\* second time it is harmless unless another connection of the session has it by then.
ReleasesItsOwn == \A k \in Sockets : InitFailed(k) => active # SocketOf[k]

\* What the row of a session can say while its task, or its connection, is at a point.
FileFits(s) ==
    /\ rec[s].state = "UNBORN" => task[s].pc = "none"
    /\ task[s].pc \notin {"none", "closing"} => rec[s].state \in Stages \cup {"DELETED"}
    /\ task[s].pc = "closing" => rec[s].state \in {"COMPLETED", "PARTIAL", "FAILED", "DELETED"}
MicFits(k) ==
    /\ sock[k].pc \notin {"none", "releasing"} => rec[SocketOf[k]].state \in Stages \cup {"DELETED"}
    /\ sock[k].pc \in {"recording", "finishing", "draining",
         "writing"} => rec[SocketOf[k]].state # "CREATED"

\* States of the sessions that are being processed, and of those that are recorded.
StateInv == \A s \in Files : FileFits(s)
MicStates == \A k \in Sockets : MicFits(k)

\* The sets of values that occur in the type invariant, named.
JobStates == Stages \cup Terminal
RecStates == Stages \cup Terminal \cup {"UNBORN", "DELETED"}
Parts == {"input", "pcm", "checkpoint", "wav"}
TaskPcs == {"none", "receiving", "queued", "resuming", "decoding", "asr", "diarizing", "writing",
     "closing"}
Tasks == [pc : TaskPcs, partial : BOOLEAN]
SockPcs == {"none", "accepted", "initializing", "recording", "failed", "finishing", "draining",
     "writing", "releasing"}
Socks == [pc : SockPcs, interrupted : BOOLEAN]

-----------------------------------------------------------------------------
(* Types                                                                   *)

\* The helpers keep the types of what they write.
LEMMA SetStateTyped ==
    ASSUME rec \in [Sessions -> Row], NEW s \in Sessions, NEW st \in RecStates, SetState(s, st)
    PROVE  rec' \in [Sessions -> Row]
BY DEF SetState, Row, RecStates

\* So does writing a row that is kept.
LEMMA SetRowTyped ==
    ASSUME rec \in [Sessions -> Row], NEW s \in Sessions, NEW st \in RecStates,
           rec' = [rec EXCEPT ![s] = [state |-> st, kept |-> TRUE]]
    PROVE  rec' \in [Sessions -> Row]
BY DEF Row, RecStates

\* So does moving session and job on together.
LEMMA StageTyped ==
    ASSUME rec \in [Sessions -> Row], job \in [Sessions -> JobStates \cup {"none"}],
           NEW s \in Sessions, NEW st \in JobStates, Stage(s, st)
    PROVE  rec' \in [Sessions -> Row] /\ job' \in [Sessions -> JobStates \cup {"none"}]
BY SetStateTyped DEF Stage, JobStates, RecStates

\* So does deleting both.
LEMMA DropTyped ==
    ASSUME rec \in [Sessions -> Row], job \in [Sessions -> JobStates \cup {"none"}],
           NEW s \in Sessions, Drop(s)
    PROVE  rec' \in [Sessions -> Row] /\ job' \in [Sessions -> JobStates \cup {"none"}]
BY DEF Drop, Row, JobStates

\* So does a task that goes on.
LEMMA GotoTyped ==
    ASSUME task \in [Files -> Tasks], NEW s \in Files, NEW pc \in TaskPcs, Goto(s, pc)
    PROVE  task' \in [Files -> Tasks]
BY DEF Goto, Tasks

\* So does a connection that goes on.
LEMMA SockTyped ==
    ASSUME sock \in [Sockets -> Socks], NEW k \in Sockets, NEW pc \in SockPcs, SockGoto(k, pc)
    PROVE  sock' \in [Sockets -> Socks]
BY DEF SockGoto, Socks

\* So does the cleanup of a task.
LEMMA CleanupTyped ==
    ASSUME task \in [Files -> Tasks], disk \in [Sessions -> SUBSET Parts],
           active \in Sessions \cup {None},
           NEW s \in Files, NEW there \in BOOLEAN, Cleanup(s, there)
    PROVE  task' \in [Files -> Tasks] /\ disk' \in [Sessions -> SUBSET Parts]
           /\ active' \in Sessions \cup {None}
<1>1. task' \in [Files -> Tasks]
  BY DEF Cleanup, Tasks, TaskPcs, Idle
<1>2. disk' \in [Sessions -> SUBSET Parts]
  BY DEF Cleanup, Swept
<1>3. active' \in Sessions \cup {None}
  BY DEF Cleanup, Release
<1> QED BY <1>1, <1>2, <1>3

\* So does leaving a run, at once or by way of closing its upload.
LEMMA LeaveTyped ==
    ASSUME task \in [Files -> Tasks], disk \in [Sessions -> SUBSET Parts],
           active \in Sessions \cup {None},
           NEW s \in Files, NEW there \in BOOLEAN, Leave(s, there)
    PROVE  task' \in [Files -> Tasks] /\ disk' \in [Sessions -> SUBSET Parts]
           /\ active' \in Sessions \cup {None}
BY CleanupTyped, GotoTyped DEF Leave, TaskPcs

\* The type invariant without its last conjunct, and that conjunct: a stream of blocks is
\* registered only while the task that reads it is past its start.
Typed ==
    /\ rec \in [Sessions -> Row] /\ job \in [Sessions -> JobStates \cup {"none"}]
    /\ disk \in [Sessions -> SUBSET Parts] /\ active \in Sessions \cup {None}
    /\ busy \in BOOLEAN /\ patient \in BOOLEAN /\ restarts \in 0 .. MaxRestarts
    /\ task \in [Files -> Tasks] /\ upload \in [Files -> {"none", "open", "complete", "closed"}]
    /\ sock \in [Sockets -> Socks] /\ deleting \in SUBSET Sessions
    /\ startup \in {"loading", "asr", "vad", "up", "failed"}

\* Job and session differ only before the first stage is stored and between a restart and
\* the first step of the resumed task.
JobFits(s) ==
    /\ rec[s].state = "UNBORN" => job[s] = "none"
    /\ task[s].pc = "receiving" /\ Exists(s) => rec[s].state = "QUEUED"
    /\ Exists(s) =>
         \/ job[s] = rec[s].state
         \/ job[s] = "none" /\ task[s].pc \in {"none", "receiving", "resuming"}
         \/ job[s] = "INTERRUPTED" /\ task[s].pc = "resuming" /\ rec[s].state = "DIARIZING"
JobInv == \A s \in Files : JobFits(s)

\* Where the files are: a source is there only while it is received or read, a recording
\* only after it was written, and neither remains when nothing works on a deleted session.
FileKept(s) ==
    /\ task[s].pc = "receiving" => disk[s] = {"input"}
    /\ rec[s].state = "INTERRUPTED" \/ task[s].pc = "resuming" => restarts > 0
NoneLeft(s) ==
    rec[s].state = "DELETED" /\ active # s /\ s \notin deleting =>
        "input" \notin disk[s] /\ ("wav" \in disk[s] => restarts > 0)
Open(s) == \E k \in Sockets : SocketOf[k] = s /\ sock[k].pc \notin {"none", "accepted"}
MicKept(s) ==
    /\ "input" \notin disk[s]
    /\ rec[s].state = "DELETED" /\ ~Open(s) /\ "wav" \in disk[s] => restarts > 0
DiskInv ==
    /\ \A s \in Files : FileKept(s) /\ NoneLeft(s)
    /\ \A s \in Mics : MicKept(s)

RegisteredAt(s) == upload[s] # "none" => task[s].pc \notin {"none", "receiving", "resuming"}
Registered == \A s \in Files : RegisteredAt(s)

\* A step of a file's task changes that session only, and the slot only if it has it or
\* if it is free; likewise a step of a microphone connection.
OnlyFile(s) ==
    /\ \A t \in Sessions \ {s} : rec'[t] = rec[t] /\ job'[t] = job[t] /\ disk'[t] = disk[t]
    /\ \A t \in Files \ {s} : task'[t] = task[t] /\ upload'[t] = upload[t]
    /\ \A t \in Sessions \ {s} : active = t => active' = t
    /\ UNCHANGED <<busy, sock, deleting, startup, restarts, patient>>
OnlySock(k) ==
    /\ \A t \in Sessions \ {SocketOf[k]} : rec'[t] = rec[t] /\ disk'[t] = disk[t]
    /\ \A l \in Sockets \ {k} : sock'[l] = sock[l]
    /\ \A t \in Sessions \ {SocketOf[k]} : active = t => active' = t
    /\ UNCHANGED <<job, busy, task, upload, deleting, startup, restarts, patient>>

\* What EndedStays says of one session in one step.
Stays(s) ==
    rec[s].state \in Terminal =>
        \/ rec'[s].state \in {rec[s].state, "DELETED"}
        \/ rec[s].state = "INTERRUPTED" /\ rec'[s].state = "DIARIZING"

\* The split of the type invariant.
LEMMA TypeOKIs == TypeOK <=> Typed /\ Registered
BY DEF TypeOK, Typed, Registered, RegisteredAt, JobStates, Parts, TaskPcs, Tasks, SockPcs, Socks

\* Every step keeps the types.
LEMMA TypedStep ==
    ASSUME Typed, Next
    PROVE  Typed'
<1>a. Files \subseteq Sessions /\ Mics \subseteq Sessions
  BY DEF Sessions
<1>b. \A k \in Sockets : SocketOf[k] \in Sessions
  BY <1>a, SlotAssumption
<1> USE <1>a DEF Typed
<1>1. ASSUME NEW s \in Files, Upload(s) PROVE Typed'
  BY <1>1, SetStateTyped, GotoTyped DEF Upload, RecStates, Stages, TaskPcs, Parts
<1>2. ASSUME NEW s \in Files, Received(s) PROVE Typed'
  BY <1>2, GotoTyped DEF Received, JobStates, Stages, TaskPcs
<1>3. ASSUME NEW s \in Files, ReceiveFails(s) PROVE Typed'
  BY <1>3, DropTyped, GotoTyped DEF ReceiveFails, Release, TaskPcs
<1>4. ASSUME NEW s \in Files, StartUpload(s) PROVE Typed'
  BY <1>4, SetStateTyped, GotoTyped DEF StartUpload, RecStates, JobStates, Stages, TaskPcs, Parts
<1>5. ASSUME NEW s \in Files, FinishUpload(s) PROVE Typed'
  BY <1>5 DEF FinishUpload
<1>6. ASSUME NEW s \in Files, NEW old \in Sessions, Reprocess(s, old) PROVE Typed'
  BY <1>6, SetStateTyped, GotoTyped DEF Reprocess, RecStates, JobStates, Stages, TaskPcs, Parts
<1>7. ASSUME NEW s \in Files, Begin(s) PROVE Typed'
  <2>1. CASE Alive(s)
    BY <1>7, <2>1, StageTyped, GotoTyped DEF Begin, JobStates, Stages, TaskPcs, Parts
  <2>2. CASE ~Alive(s)
    BY <1>7, <2>2, LeaveTyped DEF Begin
  <2> QED BY <2>1, <2>2
<1>8. ASSUME NEW s \in Files, Resume(s) PROVE Typed'
  BY <1>8, StageTyped, GotoTyped DEF Resume, Release, JobStates, Stages, TaskPcs
<1>9. ASSUME NEW s \in Files, Decoded(s) PROVE Typed'
  BY <1>9, StageTyped, GotoTyped DEF Decoded, JobStates, Stages, TaskPcs
<1>10. ASSUME NEW s \in Files, Transcribed(s) PROVE Typed'
  BY <1>10, StageTyped, GotoTyped DEF Transcribed, JobStates, Stages, TaskPcs, Parts
<1>11. ASSUME NEW s \in Files, NEW partial \in BOOLEAN, Diarized(s, partial) PROVE Typed'
  <2>1. CASE s \in Retaining
    <3>1. /\ Stage(s, "MERGING") /\ disk' = [disk EXCEPT ![s] = @ \cup {"wav"}]
          /\ task' = [task EXCEPT ![s] = [pc |-> "writing", partial |-> partial]]
          /\ UNCHANGED <<active, busy, upload, sock, deleting, startup, restarts, patient>>
      BY <1>11, <2>1 DEF Diarized
    <3>2. rec' \in [Sessions -> Row] /\ job' \in [Sessions -> JobStates \cup {"none"}]
      <4>1. "MERGING" \in JobStates
        BY DEF JobStates, Stages
      <4> QED BY <3>1, <4>1, StageTyped
    <3>3. task' \in [Files -> Tasks]
      <4>1. [pc |-> "writing", partial |-> partial] \in Tasks
        BY DEF Tasks, TaskPcs
      <4> QED BY <3>1, <4>1
    <3>4. disk' \in [Sessions -> SUBSET Parts]
      BY <3>1 DEF Parts
    <3> QED BY <3>1, <3>2, <3>3, <3>4
  <2>2. CASE s \notin Retaining
    BY <1>11, <2>2, StageTyped, LeaveTyped DEF Diarized, Outcome, JobStates, Terminal
  <2> QED BY <2>1, <2>2
<1>12. ASSUME NEW s \in Files, Written(s) PROVE Typed'
  <2>1. Outcome(task[s].partial) \in JobStates
    BY DEF Outcome, JobStates, Terminal
  <2>2. rec' \in [Sessions -> Row]
    BY <1>12, <2>1, SetRowTyped DEF Written, JobStates, RecStates
  <2> QED BY <1>12, <2>1, <2>2, LeaveTyped DEF Written
<1>13. ASSUME NEW s \in Files, Abandon(s) PROVE Typed'
  BY <1>13, LeaveTyped DEF Abandon
<1>14. ASSUME NEW s \in Files, TaskFails(s) PROVE Typed'
  BY <1>14, StageTyped, LeaveTyped DEF TaskFails, FailStage, JobStates, Terminal, Alive, Exists
<1>15. ASSUME NEW s \in Files, UploadBreaks(s) PROVE Typed'
  BY <1>15, StageTyped, LeaveTyped DEF UploadBreaks, FailStage, JobStates, Terminal, Alive, Exists
<1>16. ASSUME NEW s \in Files, CloseUpload(s) PROVE Typed'
  BY <1>16, CleanupTyped DEF CloseUpload, Alive, Exists
<1>17. ASSUME NEW s \in Files, CancelUpload(s) PROVE Typed'
  BY <1>17 DEF CancelUpload
<1>18. ASSUME NEW s \in Sessions, Delete(s) PROVE Typed'
  BY <1>18, DropTyped DEF Delete, Unlinked
<1>19. ASSUME NEW s \in Sessions, Expire(s) PROVE Typed'
  BY <1>19, DropTyped DEF Expire
<1>20. ASSUME NEW s \in Sessions, Deleted(s) PROVE Typed'
  BY <1>20 DEF Deleted, Unlinked
<1>21. ASSUME NEW s \in Mics, CreateMic(s) PROVE Typed'
  BY <1>21, SetStateTyped DEF CreateMic, RecStates, Stages
<1>22. ASSUME NEW k \in Sockets, Accept(k) PROVE Typed'
  BY <1>22, SockTyped DEF Accept, SockPcs
<1>23. ASSUME NEW k \in Sockets, StartFrame(k) PROVE Typed'
  BY <1>23, <1>b, SockTyped DEF StartFrame, SockPcs
<1>24. ASSUME NEW k \in Sockets, StartRefused(k) PROVE Typed'
  BY <1>24, SockTyped DEF StartRefused, SockPcs
<1>25. ASSUME NEW k \in Sockets, Initialized(k) PROVE Typed'
  BY <1>25, <1>b, SetStateTyped, SockTyped DEF Initialized, RecStates, Stages, SockPcs
<1>26. ASSUME NEW k \in Sockets, InitFails(k) PROVE Typed'
  BY <1>26, SockTyped DEF InitFails, Release, SockPcs
<1>27. ASSUME NEW k \in Sockets, InitFailed(k) PROVE Typed'
  BY <1>27, <1>b, SetStateTyped DEF InitFailed, Release, RecStates, Terminal, Closed, Socks, SockPcs
<1>28. ASSUME NEW k \in Sockets, NEW b \in BOOLEAN, Stop(k, b) PROVE Typed'
  BY <1>28 DEF Stop, Socks, SockPcs
<1>29. ASSUME NEW k \in Sockets, Finalize(k) PROVE Typed'
  BY <1>29, <1>b, SetStateTyped, SockTyped DEF Finalize, RecStates, Stages, SockPcs
<1>30. ASSUME NEW k \in Sockets, NEW b \in BOOLEAN, Drained(k, b) PROVE Typed'
  BY <1>30, <1>b, SetStateTyped, SockTyped DEF Drained, LiveOutcome, Outcome, RecStates,
     Terminal, SockPcs, Parts
<1>31. ASSUME NEW k \in Sockets, NEW b \in BOOLEAN, Saved(k, b) PROVE Typed'
  <2>1. LiveOutcome(k, b) \in RecStates
    BY DEF LiveOutcome, Outcome, RecStates, Terminal
  <2>2. CASE Alive(SocketOf[k])
    BY <1>31, <1>b, <2>1, <2>2, SetRowTyped, SockTyped DEF Saved, SockPcs
  <2>3. CASE ~Alive(SocketOf[k])
    BY <1>31, <1>b, <2>3, SockTyped DEF Saved, SockPcs
  <2> QED BY <2>2, <2>3
<1>32. ASSUME NEW k \in Sockets, FinishFails(k) PROVE Typed'
  BY <1>32, <1>b, SetStateTyped, SockTyped DEF FinishFails, RecStates, Terminal, SockPcs
<1>33. ASSUME NEW k \in Sockets, Finished(k) PROVE Typed'
  BY <1>33, <1>b DEF Finished, Release, Closed, Socks, SockPcs
<1>34. CASE Select
  BY <1>34 DEF Select
<1>35. CASE Selected
  BY <1>35 DEF Selected
<1>36. CASE LoadAsr
  BY <1>36 DEF LoadAsr
<1>37. CASE ResumePending
  BY <1>37, SetStateTyped, GotoTyped DEF ResumePending, Stale, Checkpoints, Free, RecStates,
     Stages, TaskPcs
<1>38. CASE VadReady
  BY <1>38 DEF VadReady
<1>39. CASE Restart
  <2>1. rec' \in [Sessions -> Row] /\ job' \in [Sessions -> JobStates \cup {"none"}]
    BY <1>39 DEF Restart, Interrupted, Row, JobStates, Terminal
  <2>2. disk' \in [Sessions -> SUBSET Parts]
    BY <1>39 DEF Restart, Left
  <2>3. task' \in [Files -> Tasks] /\ sock' \in [Sockets -> Socks]
    BY <1>39 DEF Restart, Idle, Closed, Tasks, TaskPcs, Socks, SockPcs
  <2>4. restarts' \in 0 .. MaxRestarts
    BY <1>39, SlotAssumption DEF Restart
  <2> QED BY <1>39, <2>1, <2>2, <2>3, <2>4 DEF Restart
<1> QED
  BY <1>1, <1>2, <1>3, <1>4, <1>5, <1>6, <1>7, <1>8, <1>9, <1>10, <1>11, <1>12, <1>13, <1>14,
     <1>15, <1>16, <1>17, <1>18, <1>19, <1>20, <1>21, <1>22, <1>23, <1>24, <1>25, <1>26, <1>27,
          <1>28, <1>29, <1>30, <1>31, <1>32, <1>33, <1>34, <1>35, <1>36, <1>37, <1>38, <1>39
     DEF Next, RouteStep, Run, DeleteStep, Record, Service

-----------------------------------------------------------------------------
(* The slot                                                                *)

\* The finally of FileService.run gives the slot back with the end of its task.
LEMMA CleanupSlot ==
    ASSUME Typed, SlotInv, NEW s \in Files, NEW there, task[s].pc # "none", Cleanup(s, there),
           UNCHANGED <<busy, sock>>
    PROVE  SlotInv'
<1>1. active = s /\ active' = None /\ s \notin Mics /\ None \notin Files /\ None \notin Mics
  BY SlotAssumption DEF SlotInv, Cleanup, Release, Sessions
<1> QED BY <1>1 DEF SlotInv, Cleanup, Idle, Typed, Tasks

\* Leaving run() keeps the slot and the task together, also while the upload is closed.
LEMMA LeaveSlot ==
    ASSUME Typed, SlotInv, NEW s \in Files, NEW there, task[s].pc # "none", Leave(s, there),
           UNCHANGED <<busy, sock>>
    PROVE  SlotInv'
<1>1. CASE upload[s] = "none"
  BY <1>1, CleanupSlot DEF Leave
<1>2. CASE upload[s] # "none"
  BY <1>2 DEF Leave, Goto, SlotInv, Typed, Tasks
<1> QED BY <1>1, <1>2

\* Every step keeps the slot and the tasks together.
LEMMA SlotStep ==
    ASSUME Typed, SlotInv, Next
    PROVE  SlotInv'
<1>a. /\ \A k \in Sockets : SocketOf[k] \in Mics /\ SocketOf[k] # None
      /\ \A s \in Files : s \notin Mics /\ s # None
      /\ None \notin Mics
  BY SlotAssumption DEF Sessions
<1> USE DEF SlotInv, Typed, Tasks, Socks
<1>1. ASSUME NEW s \in Files, Upload(s) PROVE SlotInv'
  BY <1>1, <1>a DEF Upload, Release, Goto, SockGoto, Free, Ready, Idle, Closed
<1>2. ASSUME NEW s \in Files, Received(s) PROVE SlotInv'
  BY <1>2, <1>a DEF Received, Release, Goto, SockGoto, Free, Ready, Idle, Closed
<1>3. ASSUME NEW s \in Files, ReceiveFails(s) PROVE SlotInv'
  BY <1>3, <1>a DEF ReceiveFails, Release, Goto, SockGoto, Free, Ready, Idle, Closed
<1>4. ASSUME NEW s \in Files, StartUpload(s) PROVE SlotInv'
  BY <1>4, <1>a DEF StartUpload, Release, Goto, SockGoto, Free, Ready, Idle, Closed
<1>5. ASSUME NEW s \in Files, FinishUpload(s) PROVE SlotInv'
  BY <1>5, <1>a DEF FinishUpload, Release, Goto, SockGoto, Free, Ready, Idle, Closed
<1>6. ASSUME NEW s \in Files, NEW old \in Sessions, Reprocess(s, old) PROVE SlotInv'
  BY <1>6, <1>a DEF Reprocess, Release, Goto, SockGoto, Free, Ready, Idle, Closed
<1>7. ASSUME NEW s \in Files, Begin(s) PROVE SlotInv'
  <2>1. CASE Alive(s)
    BY <1>7, <2>1 DEF Begin, Goto
  <2>2. CASE ~Alive(s)
    BY <1>7, <2>2, LeaveSlot DEF Begin
  <2> QED BY <2>1, <2>2
<1>8. ASSUME NEW s \in Files, Resume(s) PROVE SlotInv'
  BY <1>8, <1>a DEF Resume, Release, Goto, SockGoto, Free, Ready, Idle, Closed
<1>9. ASSUME NEW s \in Files, Decoded(s) PROVE SlotInv'
  BY <1>9, <1>a DEF Decoded, Release, Goto, SockGoto, Free, Ready, Idle, Closed
<1>10. ASSUME NEW s \in Files, Transcribed(s) PROVE SlotInv'
  BY <1>10, <1>a DEF Transcribed, Release, Goto, SockGoto, Free, Ready, Idle, Closed
<1>11. ASSUME NEW s \in Files, NEW partial \in BOOLEAN, Diarized(s, partial) PROVE SlotInv'
  <2>1. CASE s \in Retaining
    BY <1>11, <2>1 DEF Diarized
  <2>2. CASE s \notin Retaining
    BY <1>11, <2>2, LeaveSlot DEF Diarized
  <2> QED BY <2>1, <2>2
<1>12. ASSUME NEW s \in Files, Written(s) PROVE SlotInv'
  BY <1>12, LeaveSlot DEF Written
<1>13. ASSUME NEW s \in Files, Abandon(s) PROVE SlotInv'
  BY <1>13, LeaveSlot DEF Abandon
<1>14. ASSUME NEW s \in Files, TaskFails(s) PROVE SlotInv'
  BY <1>14, LeaveSlot DEF TaskFails
<1>15. ASSUME NEW s \in Files, UploadBreaks(s) PROVE SlotInv'
  BY <1>15, LeaveSlot DEF UploadBreaks
<1>16. ASSUME NEW s \in Files, CloseUpload(s) PROVE SlotInv'
  BY <1>16, CleanupSlot DEF CloseUpload
<1>17. ASSUME NEW s \in Files, CancelUpload(s) PROVE SlotInv'
  BY <1>17, <1>a DEF CancelUpload, Release, Goto, SockGoto, Free, Ready, Idle, Closed
<1>18. ASSUME NEW s \in Sessions, Delete(s) PROVE SlotInv'
  BY <1>18, <1>a DEF Delete, Release, Goto, SockGoto, Free, Ready, Idle, Closed
<1>19. ASSUME NEW s \in Sessions, Expire(s) PROVE SlotInv'
  BY <1>19, <1>a DEF Expire, Release, Goto, SockGoto, Free, Ready, Idle, Closed
<1>20. ASSUME NEW s \in Sessions, Deleted(s) PROVE SlotInv'
  BY <1>20, <1>a DEF Deleted, Release, Goto, SockGoto, Free, Ready, Idle, Closed
<1>21. ASSUME NEW s \in Mics, CreateMic(s) PROVE SlotInv'
  BY <1>21, <1>a DEF CreateMic, Release, Goto, SockGoto, Free, Ready, Idle, Closed
<1>22. ASSUME NEW k \in Sockets, Accept(k) PROVE SlotInv'
  BY <1>22, <1>a DEF Accept, Release, Goto, SockGoto, Free, Ready, Idle, Closed
<1>23. ASSUME NEW k \in Sockets, StartFrame(k) PROVE SlotInv'
  BY <1>23, <1>a DEF StartFrame, Release, Goto, SockGoto, Free, Ready, Idle, Closed
<1>24. ASSUME NEW k \in Sockets, StartRefused(k) PROVE SlotInv'
  BY <1>24, <1>a DEF StartRefused, Release, Goto, SockGoto, Free, Ready, Idle, Closed
<1>25. ASSUME NEW k \in Sockets, Initialized(k) PROVE SlotInv'
  BY <1>25, <1>a DEF Initialized, Release, Goto, SockGoto, Free, Ready, Idle, Closed
<1>26. ASSUME NEW k \in Sockets, InitFails(k) PROVE SlotInv'
  BY <1>26, <1>a DEF InitFails, Release, Goto, SockGoto, Free, Ready, Idle, Closed
<1>27. ASSUME NEW k \in Sockets, InitFailed(k) PROVE SlotInv'
  BY <1>27, <1>a DEF InitFailed, Release, Goto, SockGoto, Free, Ready, Idle, Closed
<1>28. ASSUME NEW k \in Sockets, NEW b \in BOOLEAN, Stop(k, b) PROVE SlotInv'
  BY <1>28, <1>a DEF Stop, Release, Goto, SockGoto, Free, Ready, Idle, Closed
<1>29. ASSUME NEW k \in Sockets, Finalize(k) PROVE SlotInv'
  BY <1>29, <1>a DEF Finalize, Release, Goto, SockGoto, Free, Ready, Idle, Closed
<1>30. ASSUME NEW k \in Sockets, NEW b \in BOOLEAN, Drained(k, b) PROVE SlotInv'
  BY <1>30, <1>a DEF Drained, Release, Goto, SockGoto, Free, Ready, Idle, Closed
<1>31. ASSUME NEW k \in Sockets, NEW b \in BOOLEAN, Saved(k, b) PROVE SlotInv'
  BY <1>31, <1>a DEF Saved, Release, Goto, SockGoto, Free, Ready, Idle, Closed
<1>32. ASSUME NEW k \in Sockets, FinishFails(k) PROVE SlotInv'
  BY <1>32, <1>a DEF FinishFails, Release, Goto, SockGoto, Free, Ready, Idle, Closed
<1>33. ASSUME NEW k \in Sockets, Finished(k) PROVE SlotInv'
  BY <1>33, <1>a DEF Finished, Release, Goto, SockGoto, Free, Ready, Idle, Closed
<1>34. CASE Select
  BY <1>34, <1>a DEF Select, Release, Goto, SockGoto, Free, Ready, Idle, Closed
<1>35. CASE Selected
  BY <1>35, <1>a DEF Selected, Release, Goto, SockGoto, Free, Ready, Idle, Closed
<1>36. CASE LoadAsr
  BY <1>36, <1>a DEF LoadAsr, Release, Goto, SockGoto, Free, Ready, Idle, Closed
<1>37. CASE ResumePending
  <2>1. CASE UNCHANGED <<active, task>>
    BY <1>37, <2>1 DEF ResumePending
  <2>2. ASSUME NEW s \in Files, Free, active' = s, Goto(s, "resuming") PROVE SlotInv'
    BY <1>37, <1>a, <2>2 DEF ResumePending, Free, Goto
  <2> QED BY <1>37, <2>1, <2>2 DEF ResumePending, Checkpoints
<1>38. CASE VadReady
  BY <1>38, <1>a DEF VadReady, Release, Goto, SockGoto, Free, Ready, Idle, Closed
<1>39. CASE Restart
  BY <1>39, <1>a DEF Restart, Release, Goto, SockGoto, Free, Ready, Idle, Closed
<1> QED
  BY <1>1, <1>2, <1>3, <1>4, <1>5, <1>6, <1>7, <1>8, <1>9, <1>10, <1>11, <1>12, <1>13, <1>14,
     <1>15, <1>16, <1>17, <1>18, <1>19, <1>20, <1>21, <1>22, <1>23, <1>24, <1>25, <1>26, <1>27,
     <1>28, <1>29, <1>30, <1>31, <1>32, <1>33, <1>34, <1>35, <1>36, <1>37, <1>38, <1>39
     DEF Next, RouteStep, Run, DeleteStep, Record, Service

-----------------------------------------------------------------------------
(* Steps are local                                                         *)

\* A step of a file's route or task touches no other session.
LEMMA FileLocal ==
    ASSUME Typed, NEW s \in Files, RouteStep(s) \/ Run(s) \/ CancelUpload(s)
    PROVE  OnlyFile(s)
<1>a. None \notin Sessions
  BY SlotAssumption
<1> USE <1>a DEF OnlyFile, Typed, Release, Free, Ready
<1>1. CASE Upload(s)
  BY <1>1 DEF Upload, SetState, Goto
<1>2. CASE Received(s)
  BY <1>2 DEF Received, SetState, Goto
<1>3. CASE ReceiveFails(s)
  BY <1>3 DEF ReceiveFails, Stage, SetState, Drop, Goto, FailStage, Leave, Cleanup, Swept
<1>4. CASE StartUpload(s)
  BY <1>4 DEF StartUpload, SetState, Goto
<1>5. CASE FinishUpload(s)
  BY <1>5 DEF FinishUpload, SetState, Goto
<1>6. ASSUME NEW old \in Sessions, Reprocess(s, old) PROVE OnlyFile(s)
  BY <1>6 DEF Reprocess, SetState, Goto
<1>7. CASE Begin(s)
  BY <1>7 DEF Begin, Stage, SetState, Drop, Goto, FailStage, Leave, Cleanup, Swept
<1>8. CASE Resume(s)
  BY <1>8 DEF Resume, Stage, SetState, Drop, Goto, FailStage, Leave, Cleanup, Swept
<1>9. CASE Decoded(s)
  BY <1>9 DEF Decoded, Stage, SetState, Drop, Goto, FailStage, Leave, Cleanup, Swept
<1>10. CASE Transcribed(s)
  BY <1>10 DEF Transcribed, Stage, SetState, Drop, Goto, FailStage, Leave, Cleanup, Swept
<1>11. ASSUME NEW partial \in BOOLEAN, Diarized(s, partial) PROVE OnlyFile(s)
  BY <1>11 DEF Diarized, Stage, SetState, Goto, Leave, Cleanup, Swept
<1>12. CASE Written(s)
  BY <1>12 DEF Written, Stage, SetState, Drop, Goto, FailStage, Leave, Cleanup, Swept
<1>13. CASE Abandon(s)
  BY <1>13 DEF Abandon, Stage, SetState, Drop, Goto, FailStage, Leave, Cleanup, Swept
<1>14. CASE TaskFails(s)
  BY <1>14 DEF TaskFails, Stage, SetState, Drop, Goto, FailStage, Leave, Cleanup, Swept
<1>15. CASE UploadBreaks(s)
  BY <1>15 DEF UploadBreaks, Stage, SetState, Drop, Goto, FailStage, Leave, Cleanup, Swept
<1>16. CASE CloseUpload(s)
  BY <1>16 DEF CloseUpload, Stage, SetState, Drop, Goto, FailStage, Leave, Cleanup, Swept
<1>17. CASE CancelUpload(s)
  BY <1>17 DEF CancelUpload, SetState, Goto
<1> QED
  BY <1>1, <1>2, <1>3, <1>4, <1>5, <1>6, <1>7, <1>8, <1>9, <1>10, <1>11, <1>12, <1>13, <1>14,
     <1>15, <1>16, <1>17
     DEF RouteStep, Run

\* A step of a microphone connection touches no other session.
LEMMA SockLocal ==
    ASSUME Typed, NEW k \in Sockets, Record(k)
    PROVE  OnlySock(k)
<1>a. None \notin Sessions
  BY SlotAssumption
<1> USE <1>a DEF OnlySock, Typed, Release, Free, Ready
<1>1. CASE Accept(k)
  BY <1>1 DEF Accept, SetState, SockGoto
<1>2. CASE StartFrame(k)
  BY <1>2 DEF StartFrame, SetState, SockGoto
<1>3. CASE StartRefused(k)
  BY <1>3 DEF StartRefused, SetState, SockGoto
<1>4. CASE Initialized(k)
  BY <1>4 DEF Initialized, SetState, SockGoto
<1>5. CASE InitFails(k)
  BY <1>5 DEF InitFails, SetState, SockGoto
<1>6. CASE InitFailed(k)
  BY <1>6 DEF InitFailed, SetState, SockGoto
<1>7. ASSUME NEW b \in BOOLEAN, Stop(k, b) PROVE OnlySock(k)
  BY <1>7 DEF Stop, SetState, SockGoto
<1>8. CASE Finalize(k)
  BY <1>8 DEF Finalize, SetState, SockGoto
<1>9. ASSUME NEW b \in BOOLEAN, Drained(k, b) PROVE OnlySock(k)
  BY <1>9 DEF Drained, SetState, SockGoto
<1>10. ASSUME NEW b \in BOOLEAN, Saved(k, b) PROVE OnlySock(k)
  BY <1>10 DEF Saved, SetState, SockGoto
<1>11. CASE FinishFails(k)
  BY <1>11 DEF FinishFails, SetState, SockGoto
<1>12. CASE Finished(k)
  BY <1>12 DEF Finished, SetState, SockGoto
<1> QED
  BY <1>1, <1>2, <1>3, <1>4, <1>5, <1>6, <1>7, <1>8, <1>9, <1>10, <1>11, <1>12
     DEF Record

\* A file takes the slot only when it is free.
LEMMA FileTakes ==
    ASSUME NEW s \in Files, RouteStep(s) \/ Run(s) \/ CancelUpload(s)
    PROVE  active' = active \/ active' = None \/ (Free /\ active' = s)
<1> DEFINE Goal == active' = active \/ active' = None \/ (Free /\ active' = s)
<1>1. CASE Upload(s)
  BY <1>1 DEF Upload, Ready
<1>2. CASE Received(s)
  BY <1>2 DEF Received
<1>3. CASE ReceiveFails(s)
  BY <1>3 DEF ReceiveFails, Release
<1>4. CASE StartUpload(s)
  BY <1>4 DEF StartUpload, Ready
<1>5. CASE FinishUpload(s)
  BY <1>5 DEF FinishUpload
<1>6. ASSUME NEW old \in Sessions, Reprocess(s, old) PROVE Goal
  BY <1>6 DEF Reprocess, Ready
<1>7. CASE Begin(s)
  BY <1>7 DEF Begin, Leave, Cleanup, Release
<1>8. CASE Resume(s)
  BY <1>8 DEF Resume, Release
<1>9. CASE Decoded(s)
  BY <1>9 DEF Decoded
<1>10. CASE Transcribed(s)
  BY <1>10 DEF Transcribed
<1>11. ASSUME NEW partial \in BOOLEAN, Diarized(s, partial) PROVE Goal
  BY <1>11 DEF Diarized, Leave, Cleanup, Release
<1>12. CASE Written(s)
  BY <1>12 DEF Written, Leave, Cleanup, Release
<1>13. CASE Abandon(s)
  BY <1>13 DEF Abandon, Leave, Cleanup, Release
<1>14. CASE TaskFails(s)
  BY <1>14 DEF TaskFails, Leave, Cleanup, Release
<1>15. CASE UploadBreaks(s)
  BY <1>15 DEF UploadBreaks, Leave, Cleanup, Release
<1>16. CASE CloseUpload(s)
  BY <1>16 DEF CloseUpload, Leave, Cleanup, Release
<1>17. CASE CancelUpload(s)
  BY <1>17 DEF CancelUpload
<1> QED
  BY <1>1, <1>2, <1>3, <1>4, <1>5, <1>6, <1>7, <1>8, <1>9, <1>10, <1>11, <1>12, <1>13, <1>14,
     <1>15, <1>16, <1>17
     DEF RouteStep, Run

\* A microphone connection takes the slot only when it is free.
LEMMA SockTakes ==
    ASSUME NEW k \in Sockets, Record(k)
    PROVE  active' = active \/ active' = None \/ (Free /\ active' = SocketOf[k])
<1> DEFINE Goal == active' = active \/ active' = None \/ (Free /\ active' = SocketOf[k])
<1>1. CASE Accept(k)
  BY <1>1 DEF Accept
<1>2. CASE StartFrame(k)
  BY <1>2 DEF StartFrame, Ready
<1>3. CASE StartRefused(k)
  BY <1>3 DEF StartRefused
<1>4. CASE Initialized(k)
  BY <1>4 DEF Initialized
<1>5. CASE InitFails(k)
  BY <1>5 DEF InitFails, Release
<1>6. CASE InitFailed(k)
  BY <1>6 DEF InitFailed, Release
<1>7. ASSUME NEW b \in BOOLEAN, Stop(k, b) PROVE Goal
  BY <1>7 DEF Stop
<1>8. CASE Finalize(k)
  BY <1>8 DEF Finalize
<1>9. ASSUME NEW b \in BOOLEAN, Drained(k, b) PROVE Goal
  BY <1>9 DEF Drained
<1>10. ASSUME NEW b \in BOOLEAN, Saved(k, b) PROVE Goal
  BY <1>10 DEF Saved
<1>11. CASE FinishFails(k)
  BY <1>11 DEF FinishFails
<1>12. CASE Finished(k)
  BY <1>12 DEF Finished, Release
<1> QED
  BY <1>1, <1>2, <1>3, <1>4, <1>5, <1>6, <1>7, <1>8, <1>9, <1>10, <1>11, <1>12
     DEF Record

\* A connection that has the slot gives it back when it ends.
LEMMA MicHeldStep ==
    ASSUME Typed, MicHeld, Next
    PROVE  MicHeld'
<1>a. /\ \A k \in Sockets : SocketOf[k] \in Mics /\ SocketOf[k] # None
      /\ \A s \in Files : s \notin Mics /\ s # None
      /\ None \notin Mics /\ Mics \subseteq Sessions
  BY SlotAssumption DEF Sessions
<1>1. ASSUME NEW s \in Files, RouteStep(s) \/ Run(s) \/ CancelUpload(s) PROVE MicHeld'
  BY <1>1, <1>a, FileLocal, FileTakes DEF OnlyFile, MicHeld
<1>2. ASSUME NEW k \in Sockets, Record(k) PROVE MicHeld'
  <2> USE <1>a DEF MicHeld, Holding, Typed, Socks, SockGoto, Release, Closed
  <2>1. CASE Accept(k)
    BY <2>1 DEF Accept
  <2>2. CASE StartFrame(k)
    BY <2>2 DEF StartFrame, Ready, Free
  <2>3. CASE StartRefused(k)
    BY <2>3 DEF StartRefused
  <2>4. CASE Initialized(k)
    BY <2>4 DEF Initialized
  <2>5. CASE InitFails(k)
    BY <2>5 DEF InitFails
  <2>6. CASE InitFailed(k)
    BY <2>6 DEF InitFailed
  <2>7. ASSUME NEW b \in BOOLEAN, Stop(k, b) PROVE MicHeld'
    BY <2>7 DEF Stop
  <2>8. CASE Finalize(k)
    BY <2>8 DEF Finalize
  <2>9. ASSUME NEW b \in BOOLEAN, Drained(k, b) PROVE MicHeld'
    BY <2>9 DEF Drained
  <2>10. ASSUME NEW b \in BOOLEAN, Saved(k, b) PROVE MicHeld'
    BY <2>10 DEF Saved
  <2>11. CASE FinishFails(k)
    BY <2>11 DEF FinishFails
  <2>12. CASE Finished(k)
    BY <2>12 DEF Finished
  <2> QED
    BY <1>2, <2>1, <2>2, <2>3, <2>4, <2>5, <2>6, <2>7, <2>8, <2>9, <2>10, <2>11, <2>12
       DEF Record
<1>3. CASE UNCHANGED <<active, sock>>
  BY <1>3 DEF MicHeld
<1>4. ASSUME NEW s \in Sessions, DeleteStep(s) \/ Deleted(s) PROVE UNCHANGED <<active, sock>>
  BY <1>4 DEF DeleteStep, Delete, Expire, Deleted
<1>5. ASSUME NEW s \in Mics, CreateMic(s) PROVE UNCHANGED <<active, sock>>
  BY <1>5 DEF CreateMic
<1>6. CASE ResumePending
  <2>1. ASSUME NEW s \in Files, Free, active' = s, UNCHANGED sock PROVE MicHeld'
    BY <2>1, <1>a DEF Free, MicHeld
  <2> QED BY <1>6, <1>3, <2>1 DEF ResumePending, Checkpoints
<1>7. CASE Restart
  BY <1>7, <1>a DEF Restart, MicHeld, Closed, Holding
<1>8. CASE Select \/ Selected \/ LoadAsr \/ VadReady
  BY <1>8, <1>3 DEF Select, Selected, LoadAsr, VadReady
<1> QED
  BY <1>1, <1>2, <1>3, <1>4, <1>5, <1>6, <1>7, <1>8 DEF Next, Service

\* No step takes the slot from a connection that holds it, or leaves it behind: the second
\* release of a failed start is the only one that could.
LEMMA MicSlotStep ==
    ASSUME Typed, SlotInv, MicSlot, ReleasesItsOwn, Next
    PROVE  MicSlot'
<1>a. /\ \A k \in Sockets : SocketOf[k] \in Mics /\ SocketOf[k] # None
      /\ \A s \in Files : s \notin Mics /\ s # None
      /\ None \notin Mics /\ Mics \subseteq Sessions
  BY SlotAssumption DEF Sessions
<1>1. ASSUME NEW s \in Files, RouteStep(s) \/ Run(s) \/ CancelUpload(s) PROVE MicSlot'
  BY <1>1, <1>a, FileLocal, FileTakes DEF OnlyFile, MicSlot, MicHeld
<1>2. ASSUME NEW k \in Sockets, Record(k) PROVE MicSlot'
  <2> USE <1>a DEF MicSlot, MicHeld, Holding, Typed, Socks, SockGoto, Release, Closed
  <2>1. CASE Accept(k)
    BY <2>1 DEF Accept
  <2>2. CASE StartFrame(k)
    BY <2>2 DEF StartFrame, Ready, Free
  <2>3. CASE StartRefused(k)
    BY <2>3 DEF StartRefused
  <2>4. CASE Initialized(k)
    BY <2>4 DEF Initialized
  <2>5. CASE InitFails(k)
    BY <2>5 DEF InitFails
  <2>6. CASE InitFailed(k)
    <3>1. active' = active
      BY <2>6 DEF InitFailed, ReleasesItsOwn
    <3>2. \A l \in Sockets : sock'[l].pc \in Holding <=> sock[l].pc \in Holding
      BY <2>6 DEF InitFailed
    <3> QED BY <3>1, <3>2
  <2>7. ASSUME NEW b \in BOOLEAN, Stop(k, b) PROVE MicSlot'
    BY <2>7 DEF Stop
  <2>8. CASE Finalize(k)
    BY <2>8 DEF Finalize
  <2>9. ASSUME NEW b \in BOOLEAN, Drained(k, b) PROVE MicSlot'
    BY <2>9 DEF Drained
  <2>10. ASSUME NEW b \in BOOLEAN, Saved(k, b) PROVE MicSlot'
    BY <2>10 DEF Saved
  <2>11. CASE FinishFails(k)
    BY <2>11 DEF FinishFails
  <2>12. CASE Finished(k)
    BY <2>12 DEF Finished
  <2> QED
    BY <1>2, <2>1, <2>2, <2>3, <2>4, <2>5, <2>6, <2>7, <2>8, <2>9, <2>10, <2>11, <2>12
       DEF Record
<1>3. CASE UNCHANGED <<active, sock>>
  BY <1>3 DEF MicSlot, MicHeld
<1>4. ASSUME NEW s \in Sessions, DeleteStep(s) \/ Deleted(s) PROVE UNCHANGED <<active, sock>>
  BY <1>4 DEF DeleteStep, Delete, Expire, Deleted
<1>5. ASSUME NEW s \in Mics, CreateMic(s) PROVE UNCHANGED <<active, sock>>
  BY <1>5 DEF CreateMic
<1>6. CASE ResumePending
  <2>1. ASSUME NEW s \in Files, Free, active' = s, UNCHANGED sock PROVE MicSlot'
    BY <2>1, <1>a DEF Free, MicSlot, MicHeld
  <2> QED BY <1>6, <1>3, <2>1 DEF ResumePending, Checkpoints
<1>7. CASE Restart
  BY <1>7, <1>a DEF Restart, MicSlot, MicHeld, Closed, Holding
<1>8. CASE Select \/ Selected \/ LoadAsr \/ VadReady
  BY <1>8, <1>3 DEF Select, Selected, LoadAsr, VadReady
<1> QED
  BY <1>1, <1>2, <1>3, <1>4, <1>5, <1>6, <1>7, <1>8 DEF Next, Service

\* With one connection each there is no other that could have the slot.
LEMMA OneReleasesItsOwn == ASSUME OneConnectionEach, MicSlot PROVE ReleasesItsOwn
BY SlotAssumption DEF OneConnectionEach, MicSlot, MicHeld, ReleasesItsOwn, InitFailed, Holding

\* Leaving run() with an open upload goes on to close it.
LEMMA LeaveRegisters ==
    ASSUME Typed, NEW s \in Files, NEW there, Leave(s, there), upload' = upload
    PROVE  RegisteredAt(s)'
<1>1. CASE upload[s] = "none"
  BY <1>1 DEF RegisteredAt
<1>2. CASE upload[s] # "none"
  BY <1>2 DEF RegisteredAt, Leave, Goto, Typed, Tasks
<1> QED BY <1>1, <1>2

\* The steps of a file keep its upload registered only while its task may read it.
LEMMA FileRegisteredStep ==
    ASSUME Typed, NEW s \in Files, RegisteredAt(s), FileFits(s),
           RouteStep(s) \/ Run(s) \/ CancelUpload(s)
    PROVE  RegisteredAt(s)'
<1>a. s \in Sessions /\ rec[s] \in Row /\ task[s] \in Tasks
  BY DEF Typed, Sessions
<1>b. DOMAIN rec = Sessions /\ DOMAIN job = Sessions /\ DOMAIN disk = Sessions
     /\ DOMAIN task = Files /\ DOMAIN upload = Files
  BY DEF Typed
<1> USE DEF RegisteredAt
<1>1. CASE Upload(s)
  BY <1>1, <1>a, <1>b DEF Upload, FileFits, Goto
<1>2. CASE Received(s)
  BY <1>2, <1>a, <1>b DEF Received, Goto
<1>3. CASE ReceiveFails(s)
  BY <1>3, <1>a, <1>b DEF ReceiveFails, Goto
<1>4. CASE StartUpload(s)
  BY <1>4, <1>a, <1>b DEF StartUpload, FileFits, Goto
<1>5. CASE FinishUpload(s)
  BY <1>5, <1>a, <1>b DEF FinishUpload, Goto
<1>6. ASSUME NEW old \in Sessions, Reprocess(s, old) PROVE RegisteredAt(s)'
  BY <1>6, <1>a, <1>b DEF Reprocess, FileFits, Goto
<1>7. CASE Begin(s)
  <2>1. CASE Alive(s)
    BY <1>7, <2>1, <1>a, <1>b DEF Begin, Goto, Tasks
  <2>2. CASE ~Alive(s)
    BY <1>7, <2>2, LeaveRegisters DEF Begin
  <2> QED BY <2>1, <2>2
<1>8. CASE Resume(s)
  BY <1>8, <1>a, <1>b DEF Resume, Goto, Idle
<1>9. CASE Decoded(s)
  BY <1>9, <1>a, <1>b DEF Decoded, Goto
<1>10. CASE Transcribed(s)
  BY <1>10, <1>a, <1>b DEF Transcribed, Goto
<1>11. ASSUME NEW partial \in BOOLEAN, Diarized(s, partial) PROVE RegisteredAt(s)'
  <2>1. CASE s \in Retaining
    BY <1>11, <2>1, <1>a, <1>b DEF Diarized
  <2>2. CASE s \notin Retaining
    BY <1>11, <2>2, LeaveRegisters DEF Diarized
  <2> QED BY <2>1, <2>2
<1>12. CASE Written(s)
  BY <1>12, LeaveRegisters DEF Written
<1>13. CASE Abandon(s)
  BY <1>13, LeaveRegisters DEF Abandon
<1>14. CASE TaskFails(s)
  BY <1>14, LeaveRegisters DEF TaskFails
<1>15. CASE UploadBreaks(s)
  BY <1>15, LeaveRegisters DEF UploadBreaks
<1>16. CASE CloseUpload(s)
  BY <1>16, <1>a, <1>b DEF CloseUpload, Cleanup, Idle
<1>17. CASE CancelUpload(s)
  BY <1>17, <1>a, <1>b DEF CancelUpload, Goto
<1> QED
  BY <1>1, <1>2, <1>3, <1>4, <1>5, <1>6, <1>7, <1>8, <1>9, <1>10, <1>11, <1>12, <1>13, <1>14,
     <1>15, <1>16, <1>17
     DEF RouteStep, Run

\* The steps of a file keep row and task in agreement.
LEMMA FileStateStep ==
    ASSUME Typed, NEW s \in Files, FileFits(s), RouteStep(s) \/ Run(s) \/ CancelUpload(s)
    PROVE  FileFits(s)'
<1>a. s \in Sessions /\ rec[s] \in Row /\ task[s] \in Tasks
  BY DEF Typed, Sessions
<1>b. DOMAIN rec = Sessions /\ DOMAIN job = Sessions /\ DOMAIN disk = Sessions
     /\ DOMAIN task = Files /\ DOMAIN upload = Files
  BY DEF Typed
<1> USE <1>a, <1>b DEF FileFits, Row, Tasks, Stages, Outcome, FailStage, SetState, Stage, Drop,
     Goto,
        Leave, Cleanup, Swept, Release, Alive, Exists, Idle
<1>1. CASE Upload(s)
  BY <1>1 DEF Upload
<1>2. CASE Received(s)
  BY <1>2 DEF Received
<1>3. CASE ReceiveFails(s)
  BY <1>3 DEF ReceiveFails
<1>4. CASE StartUpload(s)
  BY <1>4 DEF StartUpload
<1>5. CASE FinishUpload(s)
  BY <1>5 DEF FinishUpload
<1>6. ASSUME NEW old \in Sessions, Reprocess(s, old) PROVE FileFits(s)'
  BY <1>6 DEF Reprocess
<1>7. CASE Begin(s)
  BY <1>7 DEF Begin
<1>8. CASE Resume(s)
  BY <1>8 DEF Resume
<1>9. CASE Decoded(s)
  BY <1>9 DEF Decoded
<1>10. CASE Transcribed(s)
  BY <1>10 DEF Transcribed
<1>11. ASSUME NEW partial \in BOOLEAN, Diarized(s, partial) PROVE FileFits(s)'
  BY <1>11 DEF Diarized
<1>12. CASE Written(s)
  BY <1>12 DEF Written
<1>13. CASE Abandon(s)
  BY <1>13 DEF Abandon
<1>14. CASE TaskFails(s)
  BY <1>14 DEF TaskFails
<1>15. CASE UploadBreaks(s)
  BY <1>15 DEF UploadBreaks
<1>16. CASE CloseUpload(s)
  BY <1>16 DEF CloseUpload
<1>17. CASE CancelUpload(s)
  BY <1>17 DEF CancelUpload
<1> QED
  BY <1>1, <1>2, <1>3, <1>4, <1>5, <1>6, <1>7, <1>8, <1>9, <1>10, <1>11, <1>12, <1>13, <1>14,
     <1>15, <1>16, <1>17
     DEF RouteStep, Run

\* The steps of a file keep job and row in agreement.
LEMMA FileJobStep ==
    ASSUME Typed, NEW s \in Files, FileFits(s), JobFits(s),
           RouteStep(s) \/ Run(s) \/ CancelUpload(s)
    PROVE  JobFits(s)'
<1>a. s \in Sessions /\ rec[s] \in Row /\ task[s] \in Tasks
  BY DEF Typed, Sessions
<1>b. DOMAIN rec = Sessions /\ DOMAIN job = Sessions /\ DOMAIN disk = Sessions
     /\ DOMAIN task = Files /\ DOMAIN upload = Files
  BY DEF Typed
<1> USE <1>a, <1>b DEF JobFits, FileFits, Row, Tasks, Outcome, FailStage, SetState, Stage, Drop,
     Goto,
        Leave, Cleanup, Swept, Release, Alive, Exists, Idle
<1>1. CASE Upload(s)
  BY <1>1 DEF Upload
<1>2. CASE Received(s)
  BY <1>2 DEF Received
<1>3. CASE ReceiveFails(s)
  BY <1>3 DEF ReceiveFails
<1>4. CASE StartUpload(s)
  BY <1>4 DEF StartUpload
<1>5. CASE FinishUpload(s)
  BY <1>5 DEF FinishUpload
<1>6. ASSUME NEW old \in Sessions, Reprocess(s, old) PROVE JobFits(s)'
  BY <1>6 DEF Reprocess
<1>7. CASE Begin(s)
  BY <1>7 DEF Begin
<1>8. CASE Resume(s)
  BY <1>8 DEF Resume
<1>9. CASE Decoded(s)
  BY <1>9 DEF Decoded
<1>10. CASE Transcribed(s)
  BY <1>10 DEF Transcribed
<1>11. ASSUME NEW partial \in BOOLEAN, Diarized(s, partial) PROVE JobFits(s)'
  BY <1>11 DEF Diarized
<1>12. CASE Written(s)
  BY <1>12 DEF Written
<1>13. CASE Abandon(s)
  BY <1>13 DEF Abandon
<1>14. CASE TaskFails(s)
  BY <1>14 DEF TaskFails
<1>15. CASE UploadBreaks(s)
  BY <1>15 DEF UploadBreaks
<1>16. CASE CloseUpload(s)
  BY <1>16 DEF CloseUpload
<1>17. CASE CancelUpload(s)
  BY <1>17 DEF CancelUpload
<1> QED
  BY <1>1, <1>2, <1>3, <1>4, <1>5, <1>6, <1>7, <1>8, <1>9, <1>10, <1>11, <1>12, <1>13, <1>14,
     <1>15, <1>16, <1>17
     DEF RouteStep, Run

\* The steps of a file leave no source and no recording of a deleted session.
LEMMA FileDiskStep ==
    ASSUME Typed, NEW s \in Files, FileFits(s), FileKept(s), NoneLeft(s), SlotInv,
           RouteStep(s) \/ Run(s) \/ CancelUpload(s)
    PROVE  FileKept(s)' /\ NoneLeft(s)'
<1>a. s \in Sessions /\ rec[s] \in Row /\ task[s] \in Tasks
  BY DEF Typed, Sessions
<1>b. DOMAIN rec = Sessions /\ DOMAIN job = Sessions /\ DOMAIN disk = Sessions
     /\ DOMAIN task = Files /\ DOMAIN upload = Files
  BY DEF Typed
<1> USE <1>a, <1>b DEF FileKept, NoneLeft, FileFits, SlotInv, Row, Tasks, Outcome, FailStage,
     SetState, Stage, Drop, Goto,
        Leave, Cleanup, Swept, Release, Alive, Exists, Idle
<1>1. CASE Upload(s)
  BY <1>1 DEF Upload
<1>2. CASE Received(s)
  BY <1>2 DEF Received
<1>3. CASE ReceiveFails(s)
  BY <1>3 DEF ReceiveFails
<1>4. CASE StartUpload(s)
  BY <1>4 DEF StartUpload
<1>5. CASE FinishUpload(s)
  BY <1>5 DEF FinishUpload
<1>6. ASSUME NEW old \in Sessions, Reprocess(s, old) PROVE FileKept(s)' /\ NoneLeft(s)'
  BY <1>6 DEF Reprocess
<1>7. CASE Begin(s)
  BY <1>7 DEF Begin
<1>8. CASE Resume(s)
  BY <1>8 DEF Resume
<1>9. CASE Decoded(s)
  BY <1>9 DEF Decoded
<1>10. CASE Transcribed(s)
  BY <1>10 DEF Transcribed
<1>11. ASSUME NEW partial \in BOOLEAN, Diarized(s, partial) PROVE FileKept(s)' /\ NoneLeft(s)'
  BY <1>11 DEF Diarized
<1>12. CASE Written(s)
  BY <1>12 DEF Written
<1>13. CASE Abandon(s)
  BY <1>13 DEF Abandon
<1>14. CASE TaskFails(s)
  BY <1>14 DEF TaskFails
<1>15. CASE UploadBreaks(s)
  BY <1>15 DEF UploadBreaks
<1>16. CASE CloseUpload(s)
  BY <1>16 DEF CloseUpload
<1>17. CASE CancelUpload(s)
  BY <1>17 DEF CancelUpload
<1> QED
  BY <1>1, <1>2, <1>3, <1>4, <1>5, <1>6, <1>7, <1>8, <1>9, <1>10, <1>11, <1>12, <1>13, <1>14,
     <1>15, <1>16, <1>17
     DEF RouteStep, Run

\* The steps of a connection keep row and connection in agreement.
LEMMA SockStateStep ==
    ASSUME Typed, NEW k \in Sockets, MicFits(k), Record(k)
    PROVE  MicFits(k)'
<1>a. SocketOf[k] \in Mics /\ SocketOf[k] \in Sessions /\ rec[SocketOf[k]] \in Row
     /\ sock[k] \in Socks
  BY SlotAssumption DEF Typed, Sessions
<1>b. DOMAIN rec = Sessions /\ DOMAIN disk = Sessions /\ DOMAIN sock = Sockets
  BY DEF Typed
<1> USE <1>a, <1>b DEF MicFits, Stages, SetState, SockGoto, Release, Alive, Exists, Closed,
        Row, Socks, LiveOutcome, Outcome
<1>1. CASE Accept(k)
  BY <1>1 DEF Accept
<1>2. CASE StartFrame(k)
  BY <1>2 DEF StartFrame
<1>3. CASE StartRefused(k)
  BY <1>3 DEF StartRefused
<1>4. CASE Initialized(k)
  BY <1>4 DEF Initialized
<1>5. CASE InitFails(k)
  BY <1>5 DEF InitFails
<1>6. CASE InitFailed(k)
  BY <1>6 DEF InitFailed
<1>7. ASSUME NEW b \in BOOLEAN, Stop(k, b) PROVE MicFits(k)'
  BY <1>7 DEF Stop
<1>8. CASE Finalize(k)
  BY <1>8 DEF Finalize
<1>9. ASSUME NEW b \in BOOLEAN, Drained(k, b) PROVE MicFits(k)'
  BY <1>9 DEF Drained
<1>10. ASSUME NEW b \in BOOLEAN, Saved(k, b) PROVE MicFits(k)'
  BY <1>10 DEF Saved
<1>11. CASE FinishFails(k)
  BY <1>11 DEF FinishFails
<1>12. CASE Finished(k)
  BY <1>12 DEF Finished
<1> QED
  BY <1>1, <1>2, <1>3, <1>4, <1>5, <1>6, <1>7, <1>8, <1>9, <1>10, <1>11, <1>12
     DEF Record

\* The steps of a connection leave no recording of a deleted session.
LEMMA SockDiskStep ==
    ASSUME Typed, NEW k \in Sockets, MicKept(SocketOf[k]), Record(k)
    PROVE  MicKept(SocketOf[k])'
<1>a. SocketOf[k] \in Mics /\ SocketOf[k] \in Sessions /\ rec[SocketOf[k]] \in Row
     /\ sock[k] \in Socks
  BY SlotAssumption DEF Typed, Sessions
<1>b. DOMAIN rec = Sessions /\ DOMAIN disk = Sessions /\ DOMAIN sock = Sockets
  BY DEF Typed
<1> USE <1>a, <1>b DEF MicKept, Open, SetState, SockGoto, Release, Alive, Exists, Closed, Row, Socks, LiveOutcome, Outcome
<1>1. CASE Accept(k)
  BY <1>1 DEF Accept
<1>2. CASE StartFrame(k)
  BY <1>2 DEF StartFrame
<1>3. CASE StartRefused(k)
  BY <1>3 DEF StartRefused
<1>4. CASE Initialized(k)
  BY <1>4 DEF Initialized
<1>5. CASE InitFails(k)
  BY <1>5 DEF InitFails
<1>6. CASE InitFailed(k)
  BY <1>6 DEF InitFailed
<1>7. ASSUME NEW b \in BOOLEAN, Stop(k, b) PROVE MicKept(SocketOf[k])'
  BY <1>7 DEF Stop
<1>8. CASE Finalize(k)
  BY <1>8 DEF Finalize
<1>9. ASSUME NEW b \in BOOLEAN, Drained(k, b) PROVE MicKept(SocketOf[k])'
  BY <1>9 DEF Drained
<1>10. ASSUME NEW b \in BOOLEAN, Saved(k, b) PROVE MicKept(SocketOf[k])'
  BY <1>10 DEF Saved
<1>11. CASE FinishFails(k)
  BY <1>11 DEF FinishFails
<1>12. CASE Finished(k)
  BY <1>12 DEF Finished
<1> QED
  BY <1>1, <1>2, <1>3, <1>4, <1>5, <1>6, <1>7, <1>8, <1>9, <1>10, <1>11, <1>12
     DEF Record

\* No step of a file reopens a session that has ended.
LEMMA FileEndsStep ==
    ASSUME Typed, NEW s \in Files, FileFits(s), RouteStep(s) \/ Run(s) \/ CancelUpload(s)
    PROVE  Stays(s)
<1>a. s \in Sessions /\ rec[s] \in Row /\ task[s] \in Tasks
  BY DEF Typed, Sessions
<1>b. DOMAIN rec = Sessions /\ DOMAIN job = Sessions /\ DOMAIN disk = Sessions
     /\ DOMAIN task = Files /\ DOMAIN upload = Files
  BY DEF Typed
<1> USE <1>a, <1>b DEF FileFits, Stays, Row, Tasks, Stages, Terminal, Outcome, FailStage,
     SetState, Stage, Drop, Goto,
        Leave, Cleanup, Swept, Release, Alive, Exists, Idle
<1>1. CASE Upload(s)
  BY <1>1 DEF Upload
<1>2. CASE Received(s)
  BY <1>2 DEF Received
<1>3. CASE ReceiveFails(s)
  BY <1>3 DEF ReceiveFails
<1>4. CASE StartUpload(s)
  BY <1>4 DEF StartUpload
<1>5. CASE FinishUpload(s)
  BY <1>5 DEF FinishUpload
<1>6. ASSUME NEW old \in Sessions, Reprocess(s, old) PROVE Stays(s)
  BY <1>6 DEF Reprocess
<1>7. CASE Begin(s)
  BY <1>7 DEF Begin
<1>8. CASE Resume(s)
  BY <1>8 DEF Resume
<1>9. CASE Decoded(s)
  BY <1>9 DEF Decoded
<1>10. CASE Transcribed(s)
  BY <1>10 DEF Transcribed
<1>11. ASSUME NEW partial \in BOOLEAN, Diarized(s, partial) PROVE Stays(s)
  BY <1>11 DEF Diarized
<1>12. CASE Written(s)
  BY <1>12 DEF Written
<1>13. CASE Abandon(s)
  BY <1>13 DEF Abandon
<1>14. CASE TaskFails(s)
  BY <1>14 DEF TaskFails
<1>15. CASE UploadBreaks(s)
  BY <1>15 DEF UploadBreaks
<1>16. CASE CloseUpload(s)
  BY <1>16 DEF CloseUpload
<1>17. CASE CancelUpload(s)
  BY <1>17 DEF CancelUpload
<1> QED
  BY <1>1, <1>2, <1>3, <1>4, <1>5, <1>6, <1>7, <1>8, <1>9, <1>10, <1>11, <1>12, <1>13, <1>14,
     <1>15, <1>16, <1>17
     DEF RouteStep, Run

\* No step of a connection reopens a session that has ended.
LEMMA SockEndsStep ==
    ASSUME Typed, NEW k \in Sockets, MicFits(k), Record(k)
    PROVE  Stays(SocketOf[k])
<1>a. SocketOf[k] \in Mics /\ SocketOf[k] \in Sessions /\ rec[SocketOf[k]] \in Row
     /\ sock[k] \in Socks
  BY SlotAssumption DEF Typed, Sessions
<1>b. DOMAIN rec = Sessions /\ DOMAIN disk = Sessions /\ DOMAIN sock = Sockets
  BY DEF Typed
<1> USE <1>a, <1>b DEF MicFits, Stays, Stages, Terminal, SetState, SockGoto, Release, Alive,
     Exists, Closed,
        Row, Socks, LiveOutcome, Outcome
<1>1. CASE Accept(k)
  BY <1>1 DEF Accept
<1>2. CASE StartFrame(k)
  BY <1>2 DEF StartFrame
<1>3. CASE StartRefused(k)
  BY <1>3 DEF StartRefused
<1>4. CASE Initialized(k)
  BY <1>4 DEF Initialized
<1>5. CASE InitFails(k)
  BY <1>5 DEF InitFails
<1>6. CASE InitFailed(k)
  BY <1>6 DEF InitFailed
<1>7. ASSUME NEW b \in BOOLEAN, Stop(k, b) PROVE Stays(SocketOf[k])
  BY <1>7 DEF Stop
<1>8. CASE Finalize(k)
  BY <1>8 DEF Finalize
<1>9. ASSUME NEW b \in BOOLEAN, Drained(k, b) PROVE Stays(SocketOf[k])
  BY <1>9 DEF Drained
<1>10. ASSUME NEW b \in BOOLEAN, Saved(k, b) PROVE Stays(SocketOf[k])
  BY <1>10 DEF Saved
<1>11. CASE FinishFails(k)
  BY <1>11 DEF FinishFails
<1>12. CASE Finished(k)
  BY <1>12 DEF Finished
<1> QED
  BY <1>1, <1>2, <1>3, <1>4, <1>5, <1>6, <1>7, <1>8, <1>9, <1>10, <1>11, <1>12
     DEF Record

\* No route or task touches the row or the files of an interrupted session.
LEMMA FileLeavesInterrupted ==
    ASSUME Typed, NEW s \in Files, FileFits(s), rec'[s].state = "INTERRUPTED",
           RouteStep(s) \/ Run(s) \/ CancelUpload(s)
    PROVE  rec[s] = rec'[s] /\ disk'[s] = disk[s]
<1>a. s \in Sessions /\ rec[s] \in Row /\ task[s] \in Tasks
  BY DEF Typed, Sessions
<1>b. DOMAIN rec = Sessions /\ DOMAIN job = Sessions /\ DOMAIN disk = Sessions
     /\ DOMAIN task = Files /\ DOMAIN upload = Files
  BY DEF Typed
<1> USE <1>a, <1>b DEF FileFits, Row, Tasks, Stages, Outcome, FailStage, SetState, Stage, Drop,
     Goto,
        Leave, Cleanup, Swept, Release, Alive, Exists, Idle
<1>1. CASE Upload(s)
  BY <1>1 DEF Upload
<1>2. CASE Received(s)
  BY <1>2 DEF Received
<1>3. CASE ReceiveFails(s)
  BY <1>3 DEF ReceiveFails
<1>4. CASE StartUpload(s)
  BY <1>4 DEF StartUpload
<1>5. CASE FinishUpload(s)
  BY <1>5 DEF FinishUpload
<1>6. ASSUME NEW old \in Sessions, Reprocess(s, old) PROVE rec[s] = rec'[s] /\ disk'[s] = disk[s]
  BY <1>6 DEF Reprocess
<1>7. CASE Begin(s)
  BY <1>7 DEF Begin
<1>8. CASE Resume(s)
  BY <1>8 DEF Resume
<1>9. CASE Decoded(s)
  BY <1>9 DEF Decoded
<1>10. CASE Transcribed(s)
  BY <1>10 DEF Transcribed
<1>11. ASSUME NEW partial \in BOOLEAN, Diarized(s,
     partial) PROVE rec[s] = rec'[s] /\ disk'[s] = disk[s]
  BY <1>11 DEF Diarized
<1>12. CASE Written(s)
  BY <1>12 DEF Written
<1>13. CASE Abandon(s)
  BY <1>13 DEF Abandon
<1>14. CASE TaskFails(s)
  BY <1>14 DEF TaskFails
<1>15. CASE UploadBreaks(s)
  BY <1>15 DEF UploadBreaks
<1>16. CASE CloseUpload(s)
  BY <1>16 DEF CloseUpload
<1>17. CASE CancelUpload(s)
  BY <1>17 DEF CancelUpload
<1> QED
  BY <1>1, <1>2, <1>3, <1>4, <1>5, <1>6, <1>7, <1>8, <1>9, <1>10, <1>11, <1>12, <1>13, <1>14,
     <1>15, <1>16, <1>17
     DEF RouteStep, Run

-----------------------------------------------------------------------------
(* Every step keeps the invariant                                          *)

\* Every step keeps uploads registered only while a task may read them.
LEMMA RegisteredStep ==
    ASSUME Typed, Registered, SlotInv, StateInv, Next
    PROVE  Registered'
<1>1. ASSUME NEW s \in Files, RouteStep(s) \/ Run(s) \/ CancelUpload(s) PROVE Registered'
  <2>1. RegisteredAt(s)'
    BY <1>1, FileRegisteredStep DEF Registered, StateInv
  <2>2. ASSUME NEW t \in Files \ {s} PROVE RegisteredAt(t)'
    BY <1>1, FileLocal DEF OnlyFile, Registered, RegisteredAt
  <2> QED BY <2>1, <2>2 DEF Registered
<1>2. CASE UNCHANGED <<task, upload>>
  BY <1>2 DEF Registered, RegisteredAt
<1>3. ASSUME NEW k \in Sockets, Record(k) PROVE UNCHANGED <<task, upload>>
  BY <1>3, SockLocal DEF OnlySock
<1>4. CASE ResumePending
  <2>1. ASSUME NEW s \in Files, Free, Goto(s, "resuming"), UNCHANGED upload PROVE Registered'
    <3>1. task[s].pc = "none" /\ upload[s] = "none"
      BY <2>1, SlotAssumption DEF Free, SlotInv, Registered, RegisteredAt, Sessions
    <3> QED BY <2>1, <3>1 DEF Goto, Registered, RegisteredAt, Typed
  <2> QED BY <1>4, <1>2, <2>1 DEF ResumePending, Checkpoints
<1>5. CASE Restart
  BY <1>5 DEF Restart, Registered, RegisteredAt
<1>6. CASE Select \/ Selected \/ LoadAsr \/ VadReady
  BY <1>6, <1>2 DEF Select, Selected, LoadAsr, VadReady
<1>7. ASSUME NEW s \in Sessions, DeleteStep(s) \/ Deleted(s) PROVE UNCHANGED <<task, upload>>
  BY <1>7 DEF DeleteStep, Delete, Expire, Deleted
<1>8. ASSUME NEW s \in Mics, CreateMic(s) PROVE UNCHANGED <<task, upload>>
  BY <1>8 DEF CreateMic
<1> QED
  BY <1>1, <1>2, <1>3, <1>4, <1>5, <1>6, <1>7, <1>8 DEF Next, Service

\* Every step keeps StateInv: one step per group of actions, each touching one session.
LEMMA StateStep ==
    ASSUME Typed, SlotInv, StateInv, Next
    PROVE  StateInv'
<1>a. /\ \A k \in Sockets : SocketOf[k] \in Mics /\ SocketOf[k] \in Sessions
      /\ \A s \in Files : s \notin Mics /\ s \in Sessions
      /\ Mics \subseteq Sessions
  BY SlotAssumption DEF Sessions
<1>1. ASSUME NEW s \in Files, RouteStep(s) \/ Run(s) \/ CancelUpload(s) PROVE StateInv'
  <2>1. FileFits(s)'
    BY <1>1, FileStateStep DEF StateInv
  <2>2. ASSUME NEW t \in Files \ {s} PROVE FileFits(t)'
    BY <1>1, <1>a, FileLocal DEF OnlyFile, StateInv, FileFits
  <2> QED BY <2>1, <2>2 DEF StateInv
<1>2. ASSUME NEW k \in Sockets, Record(k) PROVE StateInv'
  BY <1>2, <1>a, SockLocal DEF OnlySock, StateInv, FileFits
<1>3. CASE UNCHANGED <<rec, task>>
  BY <1>3 DEF StateInv, FileFits
<1>4. ASSUME NEW s \in Sessions, UNCHANGED task, Drop(s), rec[s].state # "UNBORN" PROVE StateInv'
  <2>1. /\ rec'[s].state = "DELETED"
        /\ \A t \in Sessions \ {s} : rec'[t] = rec[t]
    BY <1>4 DEF Drop, Typed
  <2> QED BY <2>1, <1>4, <1>a DEF StateInv, FileFits
<1>5. ASSUME NEW s \in Sessions, DeleteStep(s) \/ Deleted(s) PROVE StateInv'
  BY <1>5, <1>3, <1>4 DEF DeleteStep, Delete, Expire, Deleted, Exists
<1>6. ASSUME NEW s \in Mics, CreateMic(s) PROVE StateInv'
  <2>1. UNCHANGED task /\ \A t \in Sessions \ {s} : rec'[t] = rec[t]
    BY <1>6, <1>a DEF CreateMic, SetState, Typed, Row
  <2> QED BY <2>1, <1>a DEF StateInv, FileFits
<1>7. CASE ResumePending
  <2>1. ASSUME NEW s \in Files, SetState(s, "DIARIZING"), Goto(s, "resuming") PROVE StateInv'
    <3>1. /\ rec'[s].state = "DIARIZING" /\ task'[s].pc = "resuming"
          /\ \A t \in Sessions \ {s} : rec'[t] = rec[t]
          /\ \A t \in Files \ {s} : task'[t] = task[t]
      BY <2>1, <1>a DEF SetState, Goto, Typed, Row, Tasks
    <3> QED BY <2>1, <3>1, <1>a DEF StateInv, FileFits, Stages
  <2> QED BY <1>7, <1>3, <2>1 DEF ResumePending, Checkpoints
<1>8. CASE Restart
  BY <1>8, <1>a DEF Restart, StateInv, FileFits, Idle
<1>9. CASE Select \/ Selected \/ LoadAsr \/ VadReady
  BY <1>9, <1>3 DEF Select, Selected, LoadAsr, VadReady
<1> QED
  BY <1>1, <1>2, <1>5, <1>6, <1>7, <1>8, <1>9 DEF Next, Service

\* With one connection each, no other one changes the row under a recording.
LEMMA MicStateStep ==
    ASSUME OneConnectionEach, Typed, MicStates, Next
    PROVE  MicStates'
<1>a. /\ \A k \in Sockets : SocketOf[k] \in Mics /\ SocketOf[k] \in Sessions
      /\ \A s \in Files : s \notin Mics /\ s \in Sessions
      /\ Mics \subseteq Sessions
  BY SlotAssumption DEF Sessions
<1>1. ASSUME NEW s \in Files, RouteStep(s) \/ Run(s) \/ CancelUpload(s) PROVE MicStates'
  BY <1>1, <1>a, FileLocal DEF OnlyFile, MicStates, MicFits
<1>2. ASSUME NEW k \in Sockets, Record(k) PROVE MicStates'
  <2>1. MicFits(k)'
    BY <1>2, SockStateStep DEF MicStates
  <2>2. ASSUME NEW l \in Sockets \ {k} PROVE MicFits(l)'
    BY <1>2, <1>a, SockLocal DEF OnlySock, MicStates, MicFits, OneConnectionEach
  <2> QED BY <2>1, <2>2 DEF MicStates
<1>3. CASE UNCHANGED <<rec, sock>>
  BY <1>3 DEF MicStates, MicFits
<1>4. ASSUME NEW s \in Sessions, UNCHANGED sock, Drop(s) PROVE MicStates'
  <2>1. /\ rec'[s].state = "DELETED"
        /\ \A t \in Sessions \ {s} : rec'[t] = rec[t]
    BY <1>4 DEF Drop, Typed
  <2> QED BY <2>1, <1>4, <1>a DEF MicStates, MicFits
<1>5. ASSUME NEW s \in Sessions, DeleteStep(s) \/ Deleted(s) PROVE MicStates'
  BY <1>5, <1>3, <1>4 DEF DeleteStep, Delete, Expire, Deleted
<1>6. ASSUME NEW s \in Mics, CreateMic(s) PROVE MicStates'
  <2>1. /\ rec[s].state = "UNBORN" /\ rec'[s].state = "CREATED" /\ UNCHANGED sock
        /\ \A t \in Sessions \ {s} : rec'[t] = rec[t]
    BY <1>6, <1>a DEF CreateMic, SetState, Typed, Row
  <2> QED BY <2>1, <1>a DEF MicStates, MicFits, Stages
<1>7. CASE ResumePending
  <2>1. ASSUME NEW s \in Files, SetState(s, "DIARIZING"), UNCHANGED sock PROVE MicStates'
    BY <2>1, <1>a DEF SetState, Typed, MicStates, MicFits
  <2> QED BY <1>7, <1>3, <2>1 DEF ResumePending, Checkpoints
<1>8. CASE Restart
  BY <1>8, <1>a DEF Restart, MicStates, MicFits, Closed
<1>9. CASE Select \/ Selected \/ LoadAsr \/ VadReady
  BY <1>9, <1>3 DEF Select, Selected, LoadAsr, VadReady
<1> QED
  BY <1>1, <1>2, <1>5, <1>6, <1>7, <1>8, <1>9 DEF Next, Service


\* Every step keeps JobInv.
LEMMA JobStep ==
    ASSUME Typed, SlotInv, StateInv, JobInv, Next
    PROVE  JobInv'
<1>a. /\ \A k \in Sockets : SocketOf[k] \in Mics
      /\ \A s \in Files : s \notin Mics /\ s \in Sessions /\ s # None
      /\ Mics \subseteq Sessions
  BY SlotAssumption DEF Sessions
<1>1. ASSUME NEW s \in Files, RouteStep(s) \/ Run(s) \/ CancelUpload(s) PROVE JobInv'
  <2>1. JobFits(s)'
    BY <1>1, FileJobStep DEF StateInv, JobInv
  <2>2. OnlyFile(s)
    BY <1>1, FileLocal
  <2>3. ASSUME NEW t \in Files \ {s} PROVE JobFits(t)'
    BY <2>2, <1>a DEF OnlyFile, JobInv, JobFits, Exists
  <2> QED BY <2>1, <2>3 DEF JobInv
<1>2. ASSUME NEW k \in Sockets, Record(k) PROVE JobInv'
  BY <1>2, <1>a, SockLocal DEF OnlySock, JobInv, JobFits, Exists
<1>3. CASE UNCHANGED <<rec, job, task>>
  BY <1>3 DEF JobInv, JobFits, Exists
<1>4. ASSUME NEW s \in Sessions, UNCHANGED task, Drop(s) PROVE JobInv'
  <2>1. /\ rec'[s].state = "DELETED" /\ job'[s] = "none"
        /\ \A t \in Sessions \ {s} : rec'[t] = rec[t] /\ job'[t] = job[t]
    BY <1>4 DEF Drop, Typed
  <2> QED BY <2>1, <1>4, <1>a DEF JobInv, JobFits, Exists
<1>5. ASSUME NEW s \in Sessions, DeleteStep(s) \/ Deleted(s) PROVE JobInv'
  BY <1>5, <1>3, <1>4 DEF DeleteStep, Delete, Expire, Deleted
<1>6. ASSUME NEW s \in Mics, CreateMic(s) PROVE JobInv'
  <2>1. UNCHANGED <<job, task>> /\ \A t \in Sessions \ {s} : rec'[t] = rec[t]
    BY <1>6, <1>a DEF CreateMic, SetState, Typed
  <2> QED BY <2>1, <1>a DEF JobInv, JobFits, Exists
<1>7. CASE ResumePending
  <2>1. ASSUME NEW s \in Files, rec[s].state = "INTERRUPTED", Free, SetState(s, "DIARIZING"),
               Goto(s, "resuming"), UNCHANGED job
        PROVE  JobInv'
    <3>1. /\ rec'[s].state = "DIARIZING" /\ task[s].pc = "none" /\ task'[s].pc = "resuming"
          /\ \A t \in Sessions \ {s} : rec'[t] = rec[t]
          /\ \A t \in Files \ {s} : task'[t] = task[t]
      BY <2>1, <1>a DEF SetState, Goto, Typed, Row, Tasks, Free, SlotInv
    <3>2. JobFits(s)'
      BY <2>1, <3>1, <1>a DEF JobInv, JobFits, Exists
    <3> QED BY <2>1, <3>1, <3>2, <1>a DEF JobInv, JobFits, Exists
  <2> QED BY <1>7, <1>3, <2>1 DEF ResumePending, Checkpoints, Resumable
<1>8. CASE Restart
  <2>1. ASSUME NEW s \in Files PROVE JobFits(s)'
    <3>1. /\ rec'[s].state = Interrupted(rec[s].state) /\ job'[s] = Interrupted(job[s])
          /\ task'[s].pc = "none"
      BY <1>8, <1>a DEF Restart, Idle, Typed, Row
    <3>2. JobFits(s)
      BY DEF JobInv
    <3> QED BY <3>1, <3>2 DEF JobFits, Exists, Interrupted, Stages
  <2> QED BY <2>1 DEF JobInv
<1>9. CASE Select \/ Selected \/ LoadAsr \/ VadReady
  BY <1>9, <1>3 DEF Select, Selected, LoadAsr, VadReady
<1> QED
  BY <1>1, <1>2, <1>5, <1>6, <1>7, <1>8, <1>9 DEF Next, Service

\* Every step keeps DiskInv.
LEMMA DiskStep ==
    ASSUME Typed, SlotInv, MicHeld, StateInv, DiskInv, Next
    PROVE  DiskInv'
<1>a. /\ \A k \in Sockets : SocketOf[k] \in Mics /\ SocketOf[k] \in Sessions
      /\ \A s \in Files : s \notin Mics /\ s \in Sessions /\ s # None
      /\ Mics \subseteq Sessions /\ None \notin Sessions
  BY SlotAssumption DEF Sessions
<1>1. ASSUME NEW s \in Files, RouteStep(s) \/ Run(s) \/ CancelUpload(s) PROVE DiskInv'
  <2>1. FileKept(s)' /\ NoneLeft(s)'
    BY <1>1, <1>a, FileDiskStep DEF StateInv, DiskInv
  <2>2. OnlyFile(s)
    BY <1>1, FileLocal
  <2>3. ASSUME NEW t \in Files \ {s} PROVE FileKept(t)' /\ NoneLeft(t)'
    BY <2>2, <1>a DEF OnlyFile, DiskInv, FileKept, NoneLeft
  <2>4. ASSUME NEW t \in Mics PROVE MicKept(t)'
    BY <2>2, <1>a DEF OnlyFile, DiskInv, MicKept, Open
  <2> QED BY <2>1, <2>3, <2>4 DEF DiskInv
<1>2. ASSUME NEW k \in Sockets, Record(k) PROVE DiskInv'
  <2>1. MicKept(SocketOf[k])'
    BY <1>2, <1>a, SockDiskStep DEF DiskInv
  <2>2. OnlySock(k)
    BY <1>2, SockLocal
  <2>3. ASSUME NEW t \in Files PROVE FileKept(t)' /\ NoneLeft(t)'
    BY <2>2, <1>a DEF OnlySock, DiskInv, FileKept, NoneLeft
  <2>4. ASSUME NEW t \in Mics \ {SocketOf[k]} PROVE MicKept(t)'
    <3>1. ~Open(t)' => ~Open(t)
      BY <2>2, <2>4 DEF OnlySock, Open
    <3> QED BY <2>2, <2>4, <3>1, <1>a DEF OnlySock, DiskInv, MicKept
  <2> QED BY <2>1, <2>3, <2>4 DEF DiskInv
<1>3. CASE UNCHANGED <<rec, disk, active, task, sock, deleting, restarts>>
  BY <1>3 DEF DiskInv, FileKept, MicKept, Open, NoneLeft
<1>4. ASSUME NEW s \in Sessions, DeleteStep(s) \/ Deleted(s) PROVE DiskInv'
  <2>1. /\ UNCHANGED <<active, task, sock, restarts>>
        /\ \A t \in Sessions \ {s} : rec'[t] = rec[t] /\ disk'[t] = disk[t]
        /\ \A t \in Sessions \ {s} : t \in deleting' <=> t \in deleting
        /\ disk'[s] \subseteq disk[s] /\ (active = s => disk'[s] = disk[s])
        /\ rec'[s].state = "DELETED" \/ rec'[s] = rec[s]
    BY <1>4 DEF DeleteStep, Delete, Expire, Deleted, Unlinked, Drop, Typed
  <2>2. NoneLeft(s)'
    BY <1>4 DEF DeleteStep, Delete, Expire, Deleted, Unlinked, Typed, NoneLeft
  <2>3. ASSUME NEW t \in Files PROVE FileKept(t)' /\ NoneLeft(t)'
    <3>1. FileKept(t)'
      BY <2>1, <1>a DEF DiskInv, FileKept, SlotInv
    <3>2. CASE t # s
      BY <2>1, <3>1, <3>2, <1>a DEF DiskInv, NoneLeft
    <3> QED BY <2>2, <3>1, <3>2
  <2>4. ASSUME NEW t \in Mics PROVE MicKept(t)'
    <3>1. CASE t # s
      BY <2>1, <3>1, <1>a DEF DiskInv, MicKept, Open
    <3>2. CASE t = s /\ (rec[s].state = "DELETED" \/ rec'[s] = rec[s])
      <4>1. rec'[s].state = "DELETED" => rec[s].state = "DELETED"
        BY <3>2
      <4> QED BY <2>1, <3>2, <4>1, <1>a DEF DiskInv, MicKept, Open
    <3>3. CASE t = s /\ ~(rec[s].state = "DELETED" \/ rec'[s] = rec[s])
      <4>1. "wav" \notin disk'[s] \/ active = s
        BY <1>4, <3>3, <1>a DEF DeleteStep, Delete, Expire, Deleted, Unlinked, Typed
      <4>2. active = s => Open(s)
        BY <3>3 DEF MicHeld, Open, Holding
      <4>3. Open(s) => Open(s)'
        BY <2>1 DEF Open
      <4> QED BY <2>1, <3>3, <4>1, <4>2, <4>3, <1>a DEF DiskInv, MicKept
    <3> QED BY <3>1, <3>2, <3>3
  <2> QED BY <2>3, <2>4 DEF DiskInv
<1>5. ASSUME NEW s \in Mics, CreateMic(s) PROVE DiskInv'
  <2>1. /\ UNCHANGED <<disk, active, task, sock, deleting, restarts>>
        /\ rec[s].state = "UNBORN" /\ rec'[s].state = "CREATED"
        /\ \A t \in Sessions \ {s} : rec'[t] = rec[t]
    BY <1>5, <1>a DEF CreateMic, SetState, Typed, Row
  <2> QED BY <2>1, <1>a DEF DiskInv, FileKept, MicKept, Open, NoneLeft
<1>6. CASE ResumePending
  <2>1. /\ UNCHANGED <<sock, deleting, restarts>>
        /\ \A t \in Sessions : disk'[t] \subseteq disk[t]
        /\ \A t \in Files : "checkpoint" \notin disk[t] => disk'[t] = disk[t]
    BY <1>6, <1>a DEF ResumePending, Stale, Checkpoints, Typed
  <2>2. CASE UNCHANGED <<rec, active, task>>
    BY <2>1, <2>2, <1>a DEF DiskInv, FileKept, MicKept, Open, NoneLeft
  <2>3. ASSUME NEW s \in Files, rec[s].state = "INTERRUPTED", Free, active' = s,
               SetState(s, "DIARIZING"), Goto(s, "resuming")
        PROVE  DiskInv'
    <3>1. /\ rec'[s].state = "DIARIZING" /\ task'[s].pc = "resuming" /\ active = None
          /\ \A t \in Sessions \ {s} : rec'[t] = rec[t]
          /\ \A t \in Files \ {s} : task'[t] = task[t]
      BY <2>3, <1>a DEF SetState, Goto, Typed, Row, Tasks, Free
    <3> QED BY <2>1, <2>3, <3>1, <1>a DEF DiskInv, FileKept, MicKept, Open, NoneLeft
  <2> QED BY <1>6, <2>2, <2>3 DEF ResumePending, Checkpoints, Resumable
<1>7. CASE Restart
  <2>1. /\ restarts' > 0 /\ \A s \in Files : task'[s].pc = "none"
        /\ \A k \in Sockets : sock'[k].pc = "none"
    BY <1>7, SlotAssumption DEF Restart, Idle, Closed, Typed
  <2>2. ASSUME NEW s \in Sessions
        PROVE  /\ "input" \notin disk'[s] /\ disk'[s] \subseteq disk[s]
               /\ rec'[s].state \in {rec[s].state, "INTERRUPTED"} /\ rec'[s].state # "CREATED"
    BY <1>7 DEF Restart, Left, Interrupted, Stages, Typed, Row
  <2> QED BY <2>1, <2>2, <1>a DEF DiskInv, FileKept, MicKept, Open, NoneLeft
<1>8. CASE Select \/ Selected \/ LoadAsr \/ VadReady
  BY <1>8, <1>3 DEF Select, Selected, LoadAsr, VadReady
<1> QED
  BY <1>1, <1>2, <1>4, <1>5, <1>6, <1>7, <1>8 DEF Next, Service

-----------------------------------------------------------------------------
(* The inductive invariant and what follows from it                        *)

\* The invariant of the files, and what is added when each session has one connection.
TranscriptionInv == TypeOK /\ SlotInv /\ MicHeld /\ StateInv /\ JobInv /\ DiskInv
ConnectionInv == TranscriptionInv /\ MicSlot /\ MicStates

\* The service starts in them.
LEMMA InvInit == Init => ConnectionInv
<1> SUFFICES ASSUME Init PROVE ConnectionInv
  OBVIOUS
<1>a. /\ \A k \in Sockets : SocketOf[k] \in Mics /\ SocketOf[k] \in Sessions
      /\ \A s \in Files : s \in Sessions /\ s # None
      /\ Mics \subseteq Sessions /\ None \notin Sessions
  BY SlotAssumption DEF Sessions
<1>b. /\ \A s \in Sessions : rec[s].state = "UNBORN" /\ job[s] = "none" /\ disk[s] = {}
      /\ \A s \in Files : task[s].pc = "none" /\ upload[s] = "none"
      /\ \A k \in Sockets : sock[k].pc = "none"
      /\ active = None /\ busy = FALSE
  BY DEF Init, Idle, Closed, Sessions
<1>1. TypeOK
  <2>1. rec \in [Sessions -> Row] /\ job \in [Sessions -> JobStates \cup {"none"}]
    BY DEF Init, Row
  <2>2. task \in [Files -> Tasks] /\ sock \in [Sockets -> Socks]
    BY DEF Init, Idle, Closed, Tasks, TaskPcs, Socks, SockPcs
  <2>3. restarts \in 0 .. MaxRestarts
    BY SlotAssumption DEF Init
  <2>4. disk \in [Sessions -> SUBSET Parts]
    BY DEF Init
  <2>5. Typed
    BY <2>1, <2>2, <2>3, <2>4 DEF Init, Typed
  <2> QED BY <1>b, <2>5, TypeOKIs DEF Registered, RegisteredAt
<1>2. SlotInv /\ MicSlot /\ MicHeld
  BY <1>a, <1>b, SlotAssumption DEF SlotInv, MicSlot, MicHeld, Holding, Sessions
<1>3. StateInv /\ MicStates
  BY <1>a, <1>b DEF StateInv, MicStates, FileFits, MicFits
<1>4. JobInv
  BY <1>a, <1>b DEF JobInv, JobFits, Exists
<1>5. DiskInv
  BY <1>a, <1>b DEF DiskInv, FileKept, MicKept, NoneLeft
<1> QED BY <1>1, <1>2, <1>3, <1>4, <1>5 DEF ConnectionInv, TranscriptionInv

\* Every step of the specification keeps the invariant of the files.
LEMMA InvStep ==
    ASSUME TranscriptionInv, [Next]_vars
    PROVE  TranscriptionInv'
<1>1. CASE Next
  <2>1. Typed /\ Registered /\ SlotInv /\ MicHeld /\ StateInv /\ JobInv /\ DiskInv
    BY TypeOKIs DEF TranscriptionInv
  <2>2. Typed' /\ Registered'
    BY <1>1, <2>1, TypedStep, RegisteredStep
  <2>3. TypeOK'
    BY <2>2 DEF TypeOK, Typed, Registered, RegisteredAt, JobStates, Parts, TaskPcs, Tasks,
       SockPcs, Socks
  <2>4. SlotInv' /\ MicHeld' /\ StateInv' /\ JobInv' /\ DiskInv'
    BY <1>1, <2>1, SlotStep, MicHeldStep, StateStep, JobStep, DiskStep
  <2> QED BY <2>3, <2>4 DEF TranscriptionInv
<1>2. CASE UNCHANGED vars
  <2>1. TypeOK' /\ SlotInv' /\ MicHeld' /\ StateInv' /\ JobInv'
    BY <1>2 DEF vars, TranscriptionInv, TypeOK, SlotInv, MicHeld, StateInv, FileFits, JobInv,
       JobFits, Exists
  <2>2. DiskInv'
    BY <1>2 DEF vars, TranscriptionInv, DiskInv, FileKept, NoneLeft, MicKept, Open
  <2> QED BY <2>1, <2>2 DEF TranscriptionInv
<1> QED BY <1>1, <1>2

\* It holds in every behaviour, however many connections a session has.
LEMMA InvHolds == Spec => []TranscriptionInv
<1>1. Init => TranscriptionInv
  BY InvInit DEF ConnectionInv
<1> QED BY <1>1, InvStep, PTL DEF Spec

\* With one connection each, every step keeps the whole.
LEMMA ConnectionStep ==
    ASSUME OneConnectionEach, ConnectionInv, [Next]_vars
    PROVE  ConnectionInv'
<1>1. TranscriptionInv'
  BY InvStep DEF ConnectionInv
<1>2. CASE Next
  <2>1. Typed /\ SlotInv /\ MicSlot /\ MicStates
    BY TypeOKIs DEF ConnectionInv, TranscriptionInv
  <2>2. MicSlot' /\ MicStates'
    BY <1>2, <2>1, OneReleasesItsOwn, MicSlotStep, MicStateStep
  <2> QED BY <1>1, <2>2 DEF ConnectionInv
<1>3. CASE UNCHANGED vars
  BY <1>1, <1>3 DEF vars, ConnectionInv, MicSlot, MicHeld, MicStates, MicFits
<1> QED BY <1>2, <1>3

\* It holds in every behaviour with one connection each.
LEMMA ConnectionInvHolds == ASSUME OneConnectionEach PROVE Spec => []ConnectionInv
BY InvInit, ConnectionStep, PTL DEF Spec

\* Every variable keeps its type, and a stream stays registered only while a task may
\* still read it: FileService.uploads never outlives its pipeline.
THEOREM TypeCorrect == Spec => []TypeOK
<1>1. TranscriptionInv => TypeOK
  BY DEF TranscriptionInv
<1> QED BY <1>1, InvHolds, PTL

\* The user of the engines, by what the slot says.
Holders == IF busy THEN {Manager} ELSE IF active = None THEN {} ELSE {active}

\* The coroutines that run are one: the holder of the slot, or the selection.
LEMMA UsersAre == ASSUME TypeOK, SlotInv, MicSlot PROVE Users = Holders
<1>a. /\ \A k \in Sockets : SocketOf[k] \in Mics
      /\ \A s \in Files : s \notin Mics
      /\ Sessions = Files \cup Mics /\ None \notin Sessions
  BY SlotAssumption DEF Sessions
<1>b. /\ active \in Sessions \cup {None} /\ busy \in BOOLEAN
      /\ \A k \in Sockets : sock[k].pc \in SockPcs
  BY DEF TypeOK, SockPcs
<1>1. ASSUME NEW s \in Sessions PROVE Working(s) <=> active = s
  <2>1. CASE s \in Files
    BY <1>a, <2>1 DEF Working, SlotInv
  <2>2. CASE s \in Mics
    <3>1. \A k \in Sockets :
            sock[k].pc \notin {"none", "accepted", "failed"} <=> sock[k].pc \in Holding
      BY <1>b DEF Holding, SockPcs
    <3> QED BY <1>a, <2>2, <3>1 DEF Working, MicSlot, MicHeld
  <2> QED BY <1>a, <2>1, <2>2
<1>2. {s \in Sessions : Working(s)} = IF active = None THEN {} ELSE {active}
  BY <1>1, <1>a, <1>b
<1>3. busy => active = None
  BY DEF SlotInv
<1> QED BY <1>2, <1>3 DEF Users, Holders

\* The same after a step.
LEMMA UsersArePrimed ==
    (TypeOK /\ SlotInv /\ MicSlot)' => Users' = Holders'
<1>1. (TypeOK /\ SlotInv /\ MicSlot)' => (Users = Holders)'
  BY UsersAre, PTL
<1> QED BY <1>1

\* What a step may do to the slot: keep it, give it back, or take it when it is free.
LEMMA SlotMoves ==
    ASSUME TypeOK, Next
    PROVE  \/ active' \in {active, None} /\ busy' \in {busy, FALSE}
           \/ Free /\ active' \in Sessions /\ busy' = busy
           \/ Free /\ active' = active /\ busy'
<1>a. Typed /\ Files \subseteq Sessions /\ \A k \in Sockets : SocketOf[k] \in Sessions
  BY TypeOKIs, SlotAssumption DEF Sessions
<1> DEFINE Goal == \/ active' \in {active, None} /\ busy' \in {busy, FALSE}
                   \/ Free /\ active' \in Sessions /\ busy' = busy
                   \/ Free /\ active' = active /\ busy'
<1>1. ASSUME NEW s \in Files, RouteStep(s) \/ Run(s) \/ CancelUpload(s) PROVE Goal
  BY <1>1, <1>a, FileLocal, FileTakes DEF OnlyFile
<1>2. ASSUME NEW k \in Sockets, Record(k) PROVE Goal
  BY <1>2, <1>a, SockLocal, SockTakes DEF OnlySock
<1>3. ASSUME NEW s \in Sessions, DeleteStep(s) \/ Deleted(s) PROVE Goal
  BY <1>3 DEF DeleteStep, Delete, Expire, Deleted
<1>4. ASSUME NEW s \in Mics, CreateMic(s) PROVE Goal
  BY <1>4 DEF CreateMic
<1>5. CASE Service
  BY <1>5, <1>a DEF Service, Select, Selected, LoadAsr, ResumePending, Checkpoints, VadReady,
     Restart, Free
<1> QED
  BY <1>1, <1>2, <1>3, <1>4, <1>5 DEF Next

\* Initially nobody uses the engines.
LEMMA EnginesInit == Init => Engines!Init
<1> SUFFICES ASSUME Init PROVE Users = {}
  BY DEF Engines!Init
<1>1. TypeOK /\ SlotInv /\ MicSlot /\ active = None /\ busy = FALSE
  BY InvInit DEF Init, ConnectionInv, TranscriptionInv
<1> QED BY <1>1, UsersAre DEF Holders

\* Every step is one of exclusive use, or leaves its user alone.
LEMMA EnginesStep ==
    ASSUME TypeOK, SlotInv, MicSlot, (TypeOK /\ SlotInv /\ MicSlot)', [Next]_vars
    PROVE  [Engines!Next]_Users
<1>a. Users = Holders /\ Users' = Holders'
  BY UsersAre, UsersArePrimed
<1>b. None \notin Sessions
  BY SlotAssumption
<1>c. busy => active = None
  BY DEF SlotInv
<1>1. CASE active' \in {active, None} /\ busy' \in {busy, FALSE}
  <2>1. Users' = {} \/ Users' = Users
    <3>1. CASE busy
      BY <1>1, <1>a, <1>c, <3>1 DEF Holders
    <3>2. CASE ~busy
      <4>1. ~busy'
        BY <1>1, <3>2
      <4> QED BY <1>1, <1>a, <3>2, <4>1 DEF Holders
    <3> QED BY <3>1, <3>2
  <2> QED BY <2>1 DEF Engines!Next, Engines!Stop
<1>2. CASE Free /\ active' \in Sessions /\ busy' = busy
  <2>1. Users = {} /\ Users' = {active'} /\ active' \in Sessions \cup {Manager}
    BY <1>2, <1>a, <1>b DEF Free, Holders
  <2> QED BY <2>1 DEF Engines!Next, Engines!Take
<1>3. CASE Free /\ active' = active /\ busy'
  <2>1. Users = {} /\ Users' = {Manager} /\ Manager \in Sessions \cup {Manager}
    BY <1>3, <1>a DEF Free, Holders
  <2> QED BY <2>1 DEF Engines!Next, Engines!Take
<1>4. CASE UNCHANGED vars
  <2>1. Users' = Users
    BY <1>4, <1>a DEF vars, Holders
  <2> QED BY <2>1
<1> QED BY <1>1, <1>2, <1>3, <1>4, SlotMoves

\* The slot implements exclusive use of the engines, for any number of files, recordings,
\* connections and restarts, as long as no start that failed gives back what another
\* connection of its session has taken: that second release in finish() is the only step
\* of the service that can let two sessions, or a session and a selection, run at once.
THEOREM EnginesAreUsedExclusively == Spec /\ [][ReleasesItsOwn]_vars => EnginesAreExclusive
<1>1. Init => MicSlot
  BY InvInit DEF ConnectionInv
<1>2. TranscriptionInv /\ MicSlot /\ [Next]_vars /\ [ReleasesItsOwn]_vars => MicSlot'
  <2>1. ASSUME TranscriptionInv, MicSlot, Next, ReleasesItsOwn PROVE MicSlot'
    BY <2>1, MicSlotStep, TypeOKIs DEF TranscriptionInv
  <2>2. ASSUME MicSlot, UNCHANGED vars PROVE MicSlot'
    BY <2>2 DEF vars, MicSlot, MicHeld
  <2> QED BY <2>1, <2>2
<1>3. TranscriptionInv => TypeOK /\ SlotInv
  BY DEF TranscriptionInv
<1>4. /\ TypeOK /\ SlotInv /\ MicSlot /\ (TypeOK /\ SlotInv /\ MicSlot)' /\ [Next]_vars
      => [Engines!Next]_Users
  BY EnginesStep
<1> QED
  BY <1>1, <1>2, <1>3, <1>4, EnginesInit, InvHolds, PTL DEF Spec, EnginesAreExclusive, Engines!Spec

\* So it does when the voice detector can always be loaded, whatever connections there are.
COROLLARY ExclusiveIfDetectorLoads ==
    Spec /\ [][\A k \in Sockets : ~InitFails(k)]_vars => EnginesAreExclusive
<1> DEFINE NoneFailed == \A k \in Sockets : sock[k].pc # "failed"
<1>1. Init => NoneFailed
  BY DEF Init, Closed
<1>2. /\ TranscriptionInv /\ NoneFailed /\ [Next]_vars
      /\ [\A k \in Sockets : ~InitFails(k)]_vars
      => NoneFailed'
  <2>1. ASSUME NEW k \in Sockets, Record(k), Typed, NoneFailed, ~InitFails(k) PROVE NoneFailed'
    <3> USE DEF Typed, Socks, SockGoto, Closed
    <3>1. CASE Accept(k)
      BY <2>1, <3>1 DEF Accept
    <3>2. CASE StartFrame(k)
      BY <2>1, <3>2 DEF StartFrame
    <3>3. CASE StartRefused(k)
      BY <2>1, <3>3 DEF StartRefused
    <3>4. CASE Initialized(k)
      BY <2>1, <3>4 DEF Initialized
    <3>5. CASE InitFailed(k)
      BY <2>1, <3>5 DEF InitFailed
    <3>6. CASE Finalize(k)
      BY <2>1, <3>6 DEF Finalize
    <3>7. CASE FinishFails(k)
      BY <2>1, <3>7 DEF FinishFails
    <3>8. CASE Finished(k)
      BY <2>1, <3>8 DEF Finished
    <3>9. ASSUME NEW b \in BOOLEAN, Stop(k, b) PROVE NoneFailed'
      BY <2>1, <3>9 DEF Stop
    <3>10. ASSUME NEW b \in BOOLEAN, Drained(k, b) PROVE NoneFailed'
      BY <2>1, <3>10 DEF Drained
    <3>11. ASSUME NEW b \in BOOLEAN, Saved(k, b) PROVE NoneFailed'
      BY <2>1, <3>11 DEF Saved
    <3> QED
      BY <2>1, <3>1, <3>2, <3>3, <3>4, <3>5, <3>6, <3>7, <3>8, <3>9, <3>10, <3>11 DEF Record
  <2>2. ASSUME NEW s \in Files, RouteStep(s) \/ Run(s) \/ CancelUpload(s), Typed PROVE sock' = sock
    BY <2>2, FileLocal DEF OnlyFile
  <2>3. ASSUME NEW s \in Sessions, DeleteStep(s) \/ Deleted(s) PROVE sock' = sock
    BY <2>3 DEF DeleteStep, Delete, Expire, Deleted
  <2>4. ASSUME NEW s \in Mics, CreateMic(s) PROVE sock' = sock
    BY <2>4 DEF CreateMic
  <2>5. ASSUME Service, NoneFailed PROVE NoneFailed'
    BY <2>5 DEF Service, Select, Selected, LoadAsr, ResumePending, VadReady, Restart, Closed
  <2>6. ASSUME TranscriptionInv, NoneFailed, Next, \A k \in Sockets : ~InitFails(k)
        PROVE  NoneFailed'
    BY <2>1, <2>2, <2>3, <2>4, <2>5, <2>6, TypeOKIs DEF Next, TranscriptionInv
  <2>7. ASSUME NoneFailed, UNCHANGED vars PROVE NoneFailed'
    BY <2>7 DEF vars
  <2> QED BY <2>6, <2>7
<1>3. NoneFailed => [ReleasesItsOwn]_vars
  BY DEF ReleasesItsOwn, InitFailed
<1> HIDE DEF NoneFailed
<1> QED BY <1>1, <1>2, <1>3, InvHolds, EnginesAreUsedExclusively, PTL DEF Spec

\* And so it does when each session has one connection, also with a detector that fails.
COROLLARY ExclusiveIfOneConnection ==
    ASSUME OneConnectionEach PROVE Spec => EnginesAreExclusive
<1>1. ConnectionInv => [ReleasesItsOwn]_vars
  BY OneReleasesItsOwn DEF ConnectionInv
<1> QED BY <1>1, ConnectionInvHolds, EnginesAreUsedExclusively, PTL

\* The users of the engines among the uploaded and reprocessed files and the selection.
FileUsers == {s \in Files : Working(s)} \cup (IF busy THEN {Manager} ELSE {})
FileEngines == INSTANCE ExclusiveUse WITH Users <- Files \cup {Manager}, using <- FileUsers

\* They are one at a time, by the slot.
FileHolders == IF busy THEN {Manager} ELSE IF active \in Files THEN {active} ELSE {}
LEMMA FileUsersAre == SlotInv => FileUsers = FileHolders
<1>1. ASSUME NEW s \in Files, SlotInv PROVE Working(s) <=> active = s
  BY <1>1, SlotAssumption DEF Working, SlotInv
<1>2. None \notin Files
  BY SlotAssumption DEF Sessions
<1> QED BY <1>1, <1>2 DEF FileUsers, FileHolders, SlotInv

\* The same after a step.
LEMMA FileUsersArePrimed == SlotInv' => FileUsers' = FileHolders'
<1>1. SlotInv' => (FileUsers = FileHolders)'
  BY FileUsersAre, PTL
<1> QED BY <1>1

\* Uploads, reprocessing, resumption and engine selection use the engines one at a time
\* whatever the microphone connections do: two on one session, a failed start, a release
\* that comes twice.
THEOREM FilesUseEnginesOneAtATime == Spec => FileEngines!Spec
<1>1. Init => FileEngines!Init
  <2>1. SlotInv /\ active = None /\ busy = FALSE /\ None \notin Files => FileUsers = {}
    BY FileUsersAre DEF FileHolders
  <2> QED
    BY <2>1, InvInit, SlotAssumption DEF Init, ConnectionInv, TranscriptionInv, FileEngines!Init, Sessions
<1>2. ASSUME TranscriptionInv, TranscriptionInv', [Next]_vars PROVE [FileEngines!Next]_FileUsers
  <2>a. FileUsers = FileHolders /\ FileUsers' = FileHolders' /\ None \notin Files
    BY <1>2, FileUsersAre, FileUsersArePrimed, SlotAssumption DEF TranscriptionInv, Sessions
  <2>b. TypeOK /\ busy \in BOOLEAN /\ (busy => active = None)
    BY <1>2 DEF TranscriptionInv, TypeOK, SlotInv
  <2>1. CASE active' \in {active, None} /\ busy' \in {busy, FALSE}
    <3>1. CASE busy
      BY <2>1, <2>a, <2>b, <3>1 DEF FileHolders, FileEngines!Next, FileEngines!Stop
    <3>2. CASE ~busy
      <4>1. ~busy'
        BY <2>1, <3>2
      <4> QED BY <2>1, <2>a, <3>2, <4>1 DEF FileHolders, FileEngines!Next, FileEngines!Stop
    <3> QED BY <3>1, <3>2
  <2>2. CASE Free /\ active' \in Sessions /\ busy' = busy
    <3>1. FileUsers = {} /\ FileUsers' \in {{}, {active'}} /\ (FileUsers' = {active'} => active' \in Files)
      BY <2>2, <2>a DEF Free, FileHolders
    <3> QED BY <3>1 DEF FileEngines!Next, FileEngines!Take, FileEngines!Stop
  <2>3. CASE Free /\ active' = active /\ busy'
    <3>1. FileUsers = {} /\ FileUsers' = {Manager} /\ Manager \in Files \cup {Manager}
      BY <2>3, <2>a DEF Free, FileHolders
    <3> QED BY <3>1 DEF FileEngines!Next, FileEngines!Take
  <2>4. CASE UNCHANGED vars
    <3>1. FileUsers' = FileUsers
      BY <2>4, <2>a DEF vars, FileHolders
    <3> QED BY <3>1
  <2> QED BY <1>2, <2>1, <2>2, <2>3, <2>4, <2>b, SlotMoves
<1> QED BY <1>1, <1>2, InvHolds, PTL DEF Spec, FileEngines!Spec

\* Deleting a session leaves no source and no recording behind, at whatever point of its
\* processing the deletion comes and however many connections its recording has.
THEOREM DeletionIsClean == Spec => []NothingLeftBehind
<1>1. ASSUME TranscriptionInv, NEW s \in Sessions, rec[s].state = "DELETED",
             ~Handled(s), s \notin deleting
      PROVE  "input" \notin disk[s] /\ ("wav" \in disk[s] => restarts > 0)
  <2>1. CASE s \in Files
    <3>1. active # s
      BY <1>1, <2>1 DEF TranscriptionInv, SlotInv, Handled, Working
    <3> QED BY <1>1, <2>1, <3>1 DEF TranscriptionInv, DiskInv, NoneLeft
  <2>2. CASE s \in Mics
    <3>1. ~Open(s)
      BY <1>1 DEF Open, Handled, Working
    <3> QED BY <1>1, <2>2, <3>1 DEF TranscriptionInv, DiskInv, MicKept
  <2> QED BY <2>1, <2>2 DEF Sessions
<1>2. TranscriptionInv => NothingLeftBehind
  BY <1>1 DEF NothingLeftBehind
<1> QED BY <1>2, InvHolds, PTL

\* The job of a file that nothing processes tells what its session tells.
THEOREM JobsTellTheSame == Spec => []JobTellsTheSame
<1>1. TranscriptionInv => JobTellsTheSame
  BY DEF TranscriptionInv, JobInv, JobFits, JobTellsTheSame, Working
<1> QED BY <1>1, InvHolds, PTL

\* No step reopens a session that has ended, except to resume an interrupted one.
LEMMA StaysStep ==
    ASSUME Typed, StateInv, Next, NEW s \in Sessions, s \in Mics => MicStates
    PROVE  Stays(s)
<1>a. /\ \A k \in Sockets : SocketOf[k] \in Sessions
      /\ Files \subseteq Sessions /\ Mics \subseteq Sessions
  BY SlotAssumption DEF Sessions
<1>b. rec[s].state \in Stages \cup Terminal \cup {"UNBORN", "DELETED"}
  BY DEF Typed, Row
<1>1. CASE rec'[s] = rec[s]
  BY <1>1 DEF Stays
<1>2. ASSUME NEW t \in Files, RouteStep(t) \/ Run(t) \/ CancelUpload(t) PROVE Stays(s)
  <2>1. CASE s = t
    BY <1>2, <2>1, FileEndsStep DEF StateInv
  <2>2. CASE s # t
    BY <1>1, <1>2, <2>2, FileLocal DEF OnlyFile
  <2> QED BY <2>1, <2>2
<1>3. ASSUME NEW k \in Sockets, Record(k) PROVE Stays(s)
  <2>1. CASE s = SocketOf[k]
    BY <1>3, <2>1, SockEndsStep, SlotAssumption DEF MicStates
  <2>2. CASE s # SocketOf[k]
    BY <1>1, <1>3, <2>2, SockLocal DEF OnlySock
  <2> QED BY <2>1, <2>2
<1>4. ASSUME NEW t \in Sessions, DeleteStep(t) \/ Deleted(t) PROVE Stays(s)
  BY <1>4 DEF DeleteStep, Delete, Expire, Deleted, Drop, Typed, Stays
<1>5. ASSUME NEW t \in Mics, CreateMic(t) PROVE Stays(s)
  BY <1>5, <1>a DEF CreateMic, SetState, Typed, Row, Stays, Terminal
<1>6. CASE ResumePending
  <2>1. CASE UNCHANGED rec
    BY <1>1, <2>1
  <2>2. ASSUME NEW t \in Files, rec[t].state = "INTERRUPTED", SetState(t,
       "DIARIZING") PROVE Stays(s)
    BY <2>2, <1>a DEF SetState, Typed, Row, Stays
  <2> QED BY <1>6, <2>1, <2>2 DEF ResumePending, Checkpoints, Resumable
<1>7. CASE Restart
  BY <1>7, <1>b DEF Restart, Interrupted, Typed, Row, Stays, Stages, Terminal
<1>8. CASE Select \/ Selected \/ LoadAsr \/ VadReady
  BY <1>1, <1>8 DEF Select, Selected, LoadAsr, VadReady
<1> QED
  BY <1>2, <1>3, <1>4, <1>5, <1>6, <1>7, <1>8 DEF Next, Service

\* The result of a file is never overwritten, by no coroutine that outlives its session and
\* by no connection, however many there are.
THEOREM EndedFilesStay == Spec => [][\A s \in Files : Stays(s)]_vars
<1>1. ASSUME TranscriptionInv, [Next]_vars PROVE [\A s \in Files : Stays(s)]_vars
  <2>1. CASE Next
    BY <1>1, <2>1, StaysStep, TypeOKIs, SlotAssumption DEF TranscriptionInv, Sessions
  <2>2. CASE UNCHANGED vars
    BY <2>2
  <2> QED BY <1>1, <2>1, <2>2
<1> QED BY <1>1, InvHolds, PTL DEF Spec

\* With one connection each no recording is overwritten either.  (A second connection that
\* was accepted before the first began to record can record over a completed session.)
COROLLARY EndedSessionsStay == ASSUME OneConnectionEach PROVE Spec => EndedStays
<1>1. ASSUME ConnectionInv, [Next]_vars PROVE \A s \in Sessions : Stays(s)
  <2>1. CASE Next
    BY <1>1, <2>1, StaysStep, TypeOKIs DEF ConnectionInv, TranscriptionInv
  <2>2. CASE UNCHANGED vars
    BY <2>2 DEF vars, Stays
  <2> QED BY <1>1, <2>1, <2>2
<1>2. ConnectionInv /\ [Next]_vars =>
        [\A s \in Sessions :
            rec[s].state \in Terminal =>
                \/ rec'[s].state \in {rec[s].state, "DELETED"}
                \/ rec[s].state = "INTERRUPTED" /\ rec'[s].state = "DIARIZING"]_vars
  BY <1>1 DEF Stays
<1> QED BY <1>2, ConnectionInvHolds, PTL DEF Spec, EndedStays

\* Only a restart interrupts; an interrupted session has no task that touches its files.
LEMMA KeptStep ==
    ASSUME Typed, SlotInv, StateInv, Next, NEW s \in Files,
           {"checkpoint", "pcm"} \subseteq disk[s], rec'[s].state = "INTERRUPTED"
    PROVE  Resumable(s)'
<1>a. /\ \A k \in Sockets : SocketOf[k] \in Sessions \ Files
      /\ Files \subseteq Sessions /\ s \in Sessions /\ \A t \in Mics : t # s
  BY SlotAssumption DEF Sessions
<1>b. disk[s] \subseteq Parts
  BY <1>a DEF Typed
<1>1. CASE disk'[s] = disk[s]
  BY <1>1 DEF Resumable
<1>2. ASSUME NEW t \in Files, RouteStep(t) \/ Run(t) \/ CancelUpload(t) PROVE Resumable(s)'
  <2>1. CASE s = t
    BY <1>2, <2>1, FileLeavesInterrupted DEF StateInv, Resumable
  <2>2. CASE s # t
    BY <1>1, <1>2, <1>a, <2>2, FileLocal DEF OnlyFile
  <2> QED BY <2>1, <2>2
<1>3. ASSUME NEW k \in Sockets, Record(k) PROVE Resumable(s)'
  BY <1>1, <1>3, <1>a, SockLocal DEF OnlySock
<1>4. ASSUME NEW t \in Sessions, DeleteStep(t) \/ Deleted(t) PROVE Resumable(s)'
  <2>1. CASE Deleted(t) \/ Delete(t)
    BY <2>1, <1>a DEF Deleted, Delete, Unlinked, Typed, Resumable
  <2>2. CASE Expire(t) /\ s # t
    BY <1>1, <2>2, <1>a DEF Expire, Typed
  <2>3. CASE Expire(t) /\ s = t
    BY <2>3, <1>a DEF Expire, Drop, Typed
  <2> QED BY <1>4, <2>1, <2>2, <2>3 DEF DeleteStep
<1>5. ASSUME NEW t \in Mics, CreateMic(t) PROVE Resumable(s)'
  BY <1>1, <1>5 DEF CreateMic
<1>6. CASE ResumePending
  <2>1. rec[s].state = "INTERRUPTED"
    BY <1>6, <1>a DEF ResumePending, SetState, Checkpoints, Typed, Row
  <2>2. s \in Checkpoints /\ Resumable(s)
    BY <2>1 DEF Checkpoints, Resumable
  <2>3. disk'[s] = disk[s]
    BY <1>6, <1>a, <2>2 DEF ResumePending, Stale
  <2> QED BY <1>1, <2>3
<1>7. CASE Restart
  BY <1>7, <1>a, <1>b DEF Restart, Left, Resumable
<1>8. CASE Select \/ Selected \/ LoadAsr \/ VadReady
  BY <1>1, <1>8 DEF Select, Selected, LoadAsr, VadReady
<1> QED
  BY <1>2, <1>3, <1>4, <1>5, <1>6, <1>7, <1>8 DEF Next, Service

\* Saved words and PCM of a session survive every interruption until it is resumed or
\* deleted.
THEOREM ResumableIsKept == Spec => ResumableStays
<1>1. ASSUME TranscriptionInv, [Next]_vars
      PROVE [\A s \in Files : {"checkpoint",
           "pcm"} \subseteq disk[s] /\ rec'[s].state = "INTERRUPTED"
                                => Resumable(s)']_vars
  BY <1>1, KeptStep, TypeOKIs DEF TranscriptionInv
<1> QED BY <1>1, InvHolds, PTL DEF Spec, ResumableStays

-----------------------------------------------------------------------------
(* Resumption                                                              *)

\* A file that is in progress by its row has a task.
Attended(s) == rec[s].state \in Stages => task[s].pc # "none"
AllAttended == \A s \in Files : Attended(s)

\* Users who wait for the end of the start-up find the slot untouched until then.  At most one
\* session can be resumed, and once the start-up is past resume_pending none can.
AtRest == active = None /\ ~busy
StartingUp == startup \in {"loading", "asr"}
ResumeInv ==
    patient =>
        /\ StartingUp => AtRest /\ \A s, t \in Files : Resumable(s) /\ Resumable(t) => s = t
        /\ ~StartingUp => \A s \in Files : ~Resumable(s)

\* The task of a file does not leave before its row has ended.
LEMMA FileAttendedStep ==
    ASSUME Typed, NEW s \in Files, FileFits(s), Attended(s),
           RouteStep(s) \/ Run(s) \/ CancelUpload(s)
    PROVE  Attended(s)'
<1>a. s \in Sessions /\ rec[s] \in Row /\ task[s] \in Tasks
  BY DEF Typed, Sessions
<1>b. DOMAIN rec = Sessions /\ DOMAIN job = Sessions /\ DOMAIN disk = Sessions
     /\ DOMAIN task = Files /\ DOMAIN upload = Files
  BY DEF Typed
<1> USE <1>a, <1>b DEF FileFits, Attended, Row, Tasks, Stages, Terminal, Outcome, FailStage, SetState,
     Stage, Drop, Goto, Leave, Cleanup, Swept, Release, Alive, Exists, Idle
<1>1. CASE Upload(s)
  BY <1>1 DEF Upload
<1>2. CASE Received(s)
  BY <1>2 DEF Received
<1>3. CASE ReceiveFails(s)
  BY <1>3 DEF ReceiveFails
<1>4. CASE StartUpload(s)
  BY <1>4 DEF StartUpload
<1>5. CASE FinishUpload(s)
  BY <1>5 DEF FinishUpload
<1>6. ASSUME NEW old \in Sessions, Reprocess(s, old) PROVE Attended(s)'
  BY <1>6 DEF Reprocess
<1>7. CASE Begin(s)
  BY <1>7 DEF Begin
<1>8. CASE Resume(s)
  BY <1>8 DEF Resume
<1>9. CASE Decoded(s)
  BY <1>9 DEF Decoded
<1>10. CASE Transcribed(s)
  BY <1>10 DEF Transcribed
<1>11. ASSUME NEW partial \in BOOLEAN, Diarized(s, partial) PROVE Attended(s)'
  BY <1>11 DEF Diarized
<1>12. CASE Written(s)
  BY <1>12 DEF Written
<1>13. CASE Abandon(s)
  BY <1>13 DEF Abandon
<1>14. CASE TaskFails(s)
  BY <1>14 DEF TaskFails
<1>15. CASE UploadBreaks(s)
  BY <1>15 DEF UploadBreaks
<1>16. CASE CloseUpload(s)
  BY <1>16 DEF CloseUpload
<1>17. CASE CancelUpload(s)
  BY <1>17 DEF CancelUpload
<1> QED
  BY <1>1, <1>2, <1>3, <1>4, <1>5, <1>6, <1>7, <1>8, <1>9, <1>10, <1>11, <1>12, <1>13, <1>14,
     <1>15, <1>16, <1>17
     DEF RouteStep, Run

\* Every step keeps it.
LEMMA AttendedStep ==
    ASSUME Typed, StateInv, AllAttended, Next
    PROVE  AllAttended'
<1> SUFFICES ASSUME NEW s \in Files PROVE Attended(s)'
  BY DEF AllAttended
<1>a. /\ \A k \in Sockets : SocketOf[k] \in Sessions \ Files
      /\ Files \subseteq Sessions /\ s \in Sessions /\ \A t \in Mics : t # s
      /\ Attended(s) /\ FileFits(s) /\ rec[s] \in Row
  BY SlotAssumption DEF Sessions, AllAttended, StateInv, Typed
<1>1. CASE rec'[s] = rec[s] /\ task'[s] = task[s]
  BY <1>1, <1>a DEF Attended
<1>2. ASSUME NEW t \in Files, RouteStep(t) \/ Run(t) \/ CancelUpload(t) PROVE Attended(s)'
  <2>1. CASE s = t
    BY <1>2, <2>1, <1>a, FileAttendedStep
  <2>2. CASE s # t
    BY <1>1, <1>2, <1>a, <2>2, FileLocal DEF OnlyFile
  <2> QED BY <2>1, <2>2
<1>3. ASSUME NEW k \in Sockets, Record(k) PROVE Attended(s)'
  BY <1>1, <1>3, <1>a, SockLocal DEF OnlySock
<1>4. ASSUME NEW t \in Sessions, DeleteStep(t) \/ Deleted(t) PROVE Attended(s)'
  <2>1. rec'[s].state = "DELETED" \/ rec'[s] = rec[s]
    BY <1>4, <1>a DEF DeleteStep, Delete, Expire, Deleted, Drop, Typed
  <2>2. task' = task
    BY <1>4 DEF DeleteStep, Delete, Expire, Deleted
  <2> QED BY <2>1, <2>2, <1>a DEF Attended, Stages
<1>5. ASSUME NEW t \in Mics, CreateMic(t) PROVE Attended(s)'
  BY <1>1, <1>5, <1>a DEF CreateMic, SetState, Typed
<1>6. CASE ResumePending
  <2>1. CASE UNCHANGED <<rec, task>>
    BY <1>1, <2>1
  <2>2. ASSUME NEW t \in Files, SetState(t, "DIARIZING"), Goto(t, "resuming") PROVE Attended(s)'
    <3>1. rec \in [Sessions -> Row] /\ task \in [Files -> Tasks]
      BY DEF Typed
    <3>2. CASE s = t
      BY <2>2, <3>1, <3>2, <1>a DEF Goto, Attended, Tasks
    <3>3. CASE s # t
      BY <1>1, <2>2, <3>1, <3>3, <1>a DEF SetState, Goto
    <3> QED BY <3>2, <3>3
  <2> QED BY <1>6, <2>1, <2>2 DEF ResumePending, Checkpoints
<1>7. CASE Restart
  <2>1. rec'[s].state = Interrupted(rec[s].state)
    BY <1>7, <1>a DEF Restart, Row
  <2> QED BY <2>1 DEF Interrupted, Attended, Stages
<1>8. CASE Select \/ Selected \/ LoadAsr \/ VadReady
  BY <1>1, <1>8 DEF Select, Selected, LoadAsr, VadReady
<1> QED
  BY <1>2, <1>3, <1>4, <1>5, <1>6, <1>7, <1>8 DEF Next, Service

\* Nothing but a restart makes a session resumable.
LEMMA FewerResumable ==
    ASSUME Typed, SlotInv, StateInv, Next, ~Restart, NEW s \in Files, Resumable(s)'
    PROVE  Resumable(s)
<1>a. /\ \A k \in Sockets : SocketOf[k] \in Sessions \ Files
      /\ Files \subseteq Sessions /\ s \in Sessions /\ \A t \in Mics : t # s
  BY SlotAssumption DEF Sessions
<1>1. CASE disk'[s] = disk[s] /\ rec'[s] = rec[s]
  BY <1>1 DEF Resumable
<1>2. ASSUME NEW t \in Files, RouteStep(t) \/ Run(t) \/ CancelUpload(t) PROVE Resumable(s)
  <2>1. CASE s = t
    BY <1>2, <2>1, FileLeavesInterrupted DEF StateInv, Resumable
  <2>2. CASE s # t
    BY <1>1, <1>2, <1>a, <2>2, FileLocal DEF OnlyFile
  <2> QED BY <2>1, <2>2
<1>3. ASSUME NEW k \in Sockets, Record(k) PROVE Resumable(s)
  BY <1>1, <1>3, <1>a, SockLocal DEF OnlySock
<1>4. ASSUME NEW t \in Sessions, DeleteStep(t) \/ Deleted(t) PROVE Resumable(s)
  <2>1. CASE Deleted(t)
    BY <2>1, <1>a DEF Deleted, Unlinked, Typed, Resumable
  <2>2. CASE DeleteStep(t) /\ s # t
    BY <1>1, <2>2, <1>a DEF DeleteStep, Expire, Delete, Drop, Unlinked, Typed
  <2>3. CASE DeleteStep(t) /\ s = t
    BY <2>3, <1>a DEF DeleteStep, Expire, Delete, Drop, Typed, Resumable
  <2> QED BY <1>4, <2>1, <2>2, <2>3
<1>5. ASSUME NEW t \in Mics, CreateMic(t) PROVE Resumable(s)
  BY <1>1, <1>5, <1>a DEF CreateMic, SetState, Typed
<1>6. CASE ResumePending
  <2>1. disk'[s] \subseteq disk[s]
    BY <1>6, <1>a DEF ResumePending, Stale, Typed
  <2>2. rec'[s].state = "INTERRUPTED" => rec[s].state = "INTERRUPTED"
    <3>1. CASE UNCHANGED rec
      BY <3>1
    <3>2. ASSUME NEW t \in Files, SetState(t, "DIARIZING")
          PROVE  rec'[s].state = "INTERRUPTED" => rec[s].state = "INTERRUPTED"
      BY <3>2, <1>a DEF SetState, Typed, Row
    <3> QED BY <1>6, <3>1, <3>2 DEF ResumePending, Checkpoints
  <2> QED BY <2>1, <2>2 DEF Resumable
<1>7. CASE Select \/ Selected \/ LoadAsr \/ VadReady
  BY <1>1, <1>7 DEF Select, Selected, LoadAsr, VadReady
<1> QED
  BY <1>2, <1>3, <1>4, <1>5, <1>6, <1>7 DEF Next, Service

\* The start-up goes on by its own steps only.
LEMMA StartupMoves ==
    ASSUME Next, ~Restart
    PROVE  /\ StartingUp' => StartingUp
           /\ StartingUp /\ ~StartingUp' => ResumePending
<1>1. CASE Service
  BY <1>1 DEF StartingUp, Service, Select, Selected, LoadAsr, ResumePending, VadReady
<1>2. ASSUME NEW s \in Files, RouteStep(s) \/ Run(s) \/ CancelUpload(s) PROVE startup' = startup
  BY <1>2 DEF RouteStep, Upload, Received, ReceiveFails, StartUpload, FinishUpload,
     Reprocess, Run, Begin, Resume, Decoded, Transcribed, Written, Abandon, TaskFails,
     UploadBreaks, CloseUpload, Diarized, CancelUpload
<1>3. ASSUME NEW k \in Sockets, Record(k) PROVE startup' = startup
  BY <1>3 DEF Record, Accept, StartFrame, StartRefused, Initialized, InitFails,
     InitFailed, Stop, Finalize, Drained, Saved, FinishFails, Finished
<1>4. ASSUME NEW s \in Sessions, DeleteStep(s) \/ Deleted(s) \/ CreateMic(s) PROVE startup' = startup
  BY <1>4 DEF DeleteStep, Delete, Expire, Deleted, CreateMic
<1> QED
  BY <1>1, <1>2, <1>3, <1>4 DEF Next, StartingUp, Sessions

\* Before the end of the start-up no route, connection or selection takes the slot.
LEMMA SlotAtRest ==
    ASSUME SlotInv, Next, patient, StartingUp, StartingUp', AtRest
    PROVE  AtRest'
<1>a. /\ \A t \in Files : t # None /\ task[t].pc = "none"
      /\ \A k \in Sockets : SocketOf[k] # None
  BY SlotAssumption DEF SlotInv, AtRest, Sessions
<1>b. \A live : ~Ready(live)
  BY DEF Ready, StartingUp
<1>1. ASSUME NEW s \in Files, RouteStep(s) \/ Run(s) \/ CancelUpload(s) PROVE AtRest'
  <2>1. UNCHANGED <<active, busy>>
    BY <1>1, <1>a, <1>b DEF RouteStep, Upload, Received, ReceiveFails, StartUpload, FinishUpload,
       Reprocess, Run, Begin, Resume, Decoded, Transcribed, Written, Abandon, TaskFails,
       UploadBreaks, CloseUpload, Diarized, CancelUpload
  <2> QED BY <2>1 DEF AtRest
<1>2. ASSUME NEW k \in Sockets, Record(k) PROVE AtRest'
  <2>1. ~StartFrame(k)
    BY <1>b DEF StartFrame
  <2>2. active' \in {active, None} /\ busy' = busy
    BY <1>2, <2>1 DEF Record, Accept, StartRefused, Initialized, InitFails, InitFailed, Stop,
       Finalize, Drained, Saved, FinishFails, Finished, Release
  <2> QED BY <2>2 DEF AtRest
<1>3. ASSUME NEW s \in Sessions, DeleteStep(s) \/ Deleted(s) PROVE AtRest'
  <2>1. UNCHANGED <<active, busy>>
    BY <1>3 DEF DeleteStep, Delete, Expire, Deleted
  <2> QED BY <2>1 DEF AtRest
<1>4. ASSUME NEW s \in Mics, CreateMic(s) PROVE AtRest'
  BY <1>4 DEF AtRest, CreateMic
<1>5. CASE Service
  <2>1. CASE ResumePending
    BY <2>1 DEF ResumePending, StartingUp
  <2>2. CASE Select
    BY <2>2 DEF Select, Started, StartingUp
  <2>3. CASE Selected
    BY <2>3 DEF AtRest, Selected
  <2>4. CASE LoadAsr
    BY <2>4 DEF AtRest, LoadAsr
  <2>5. CASE VadReady
    BY <2>5 DEF AtRest, VadReady
  <2>6. CASE Restart
    BY <2>6 DEF AtRest, Restart
  <2> QED BY <1>5, <2>1, <2>2, <2>3, <2>4, <2>5, <2>6 DEF Service
<1> QED
  BY <1>1, <1>2, <1>3, <1>4, <1>5 DEF Next

\* What a restart makes resumable was being processed, or was resumable before: at most one.
LEMMA RestartLeavesOne ==
    ASSUME Typed, SlotInv, AllAttended, ResumeInv, patient, Restart,
           NEW s \in Files, NEW t \in Files, Resumable(s)', Resumable(t)'
    PROVE  s = t
<1>1. ASSUME NEW u \in Files, Resumable(u)'
      PROVE  Resumable(u) \/ active = u
  <2>1. u \in Sessions /\ rec[u] \in Row /\ disk[u] \subseteq Parts
    BY DEF Typed, Sessions
  <2>2. rec'[u].state = Interrupted(rec[u].state) /\ disk'[u] = Left(disk[u])
    BY <2>1 DEF Restart, Row
  <2>3. {"checkpoint", "pcm"} \subseteq disk[u]
    BY <1>1, <2>1, <2>2 DEF Resumable, Left
  <2>4. rec[u].state = "INTERRUPTED" \/ rec[u].state \in Stages
    BY <1>1, <2>2 DEF Resumable, Interrupted
  <2> QED BY <2>3, <2>4 DEF Resumable, AllAttended, Attended, SlotInv
<1>2. None \notin Files
  BY SlotAssumption DEF Sessions
<1> QED BY <1>1, <1>2 DEF ResumeInv, AtRest, StartingUp

\* Whether users wait is decided once.
LEMMA PatienceStays == ASSUME Next PROVE patient' = patient
<1>1. ASSUME NEW s \in Files, RouteStep(s) PROVE patient' = patient
  BY <1>1 DEF RouteStep, Upload, Received, ReceiveFails, StartUpload, FinishUpload, Reprocess
<1>2. ASSUME NEW s \in Files, Run(s) \/ CancelUpload(s) PROVE patient' = patient
  BY <1>2 DEF Run, Begin, Resume, Decoded, Transcribed, Written, Abandon, TaskFails,
     UploadBreaks, CloseUpload, Diarized, CancelUpload
<1>3. ASSUME NEW k \in Sockets, Record(k) PROVE patient' = patient
  BY <1>3 DEF Record, Accept, StartFrame, StartRefused, Initialized, InitFails, InitFailed, Stop,
     Finalize, Drained, Saved, FinishFails, Finished
<1>4. ASSUME NEW s \in Sessions, DeleteStep(s) \/ Deleted(s) \/ CreateMic(s) PROVE patient' = patient
  BY <1>4 DEF DeleteStep, Delete, Expire, Deleted, CreateMic
<1>5. CASE Service
  BY <1>5 DEF Service, Select, Selected, LoadAsr, ResumePending, VadReady, Restart
<1> QED
  BY <1>1, <1>2, <1>3, <1>4, <1>5 DEF Next, Sessions

\* Every step keeps the slot at rest during the start-up, and few sessions resumable.
LEMMA ResumeStep ==
    ASSUME Typed, SlotInv, StateInv, AllAttended, ResumeInv, Next
    PROVE  ResumeInv'
<1> SUFFICES ASSUME patient PROVE ResumeInv'
  BY PatienceStays DEF ResumeInv
<1>1. CASE Restart
  <2>1. StartingUp' /\ AtRest'
    BY <1>1 DEF Restart, StartingUp, AtRest
  <2> QED BY <1>1, <2>1, RestartLeavesOne DEF ResumeInv
<1>2. ASSUME ~Restart, StartingUp' PROVE ResumeInv'
  <2>1. StartingUp
    BY <1>2, StartupMoves
  <2>2. AtRest'
    BY <1>2, <2>1, SlotAtRest DEF ResumeInv
  <2> QED BY <1>2, <2>1, <2>2, FewerResumable DEF ResumeInv
<1>3. ASSUME ~Restart, ~StartingUp', ~StartingUp PROVE ResumeInv'
  BY <1>3, FewerResumable DEF ResumeInv
<1>4. ASSUME ~Restart, ~StartingUp', StartingUp PROVE ResumeInv'
  <2>1. ResumePending /\ AtRest
    BY <1>4, StartupMoves DEF ResumeInv
  <2>2. ASSUME NEW s \in Files, Resumable(s)' PROVE FALSE
    <3>1. Resumable(s)
      BY <1>4, <2>2, FewerResumable
    <3>2. s \in Checkpoints
      BY <3>1 DEF Resumable, Checkpoints
    <3>3. PICK t \in Checkpoints : Resumable(t) /\ SetState(t, "DIARIZING")
      BY <2>1, <3>1, <3>2 DEF ResumePending, AtRest, Free
    <3>4. t = s
      BY <1>4, <3>1, <3>3 DEF ResumeInv, Checkpoints
    <3> QED
      BY <2>2, <3>3, <3>4 DEF SetState, Resumable, Typed, Sessions, Row
  <2> QED BY <1>4, <2>2 DEF ResumeInv
<1> QED BY <1>1, <1>2, <1>3, <1>4

\* Users who wait for the end of the start-up see no session left interrupted that could be
\* resumed: resume_pending looks for one checkpoint only, and there is never a second.
THEOREM PatientUsersSeeResumption == Spec => []ResumedIfPatient
<1> DEFINE Inv == TranscriptionInv /\ AllAttended /\ ResumeInv
<1>1. Init => Inv
  <2> SUFFICES ASSUME Init PROVE AllAttended /\ ResumeInv
    BY InvInit DEF ConnectionInv
  <2>1. \A s \in Files : rec[s].state = "UNBORN"
    BY DEF Init, Sessions
  <2> QED
    BY <2>1 DEF Init, AllAttended, Attended, Stages, ResumeInv, AtRest, StartingUp, Resumable
<1>2. Inv /\ [Next]_vars => Inv'
  <2> SUFFICES ASSUME Inv, [Next]_vars PROVE Inv'
    OBVIOUS
  <2>1. TranscriptionInv'
    BY InvStep
  <2>2. CASE Next
    BY <2>1, <2>2, AttendedStep, ResumeStep, TypeOKIs DEF TranscriptionInv
  <2>3. CASE UNCHANGED vars
    BY <2>1, <2>3 DEF vars, AllAttended, Attended, ResumeInv, AtRest, StartingUp, Resumable
  <2> QED BY <2>2, <2>3
<1>3. Inv => ResumedIfPatient
  BY DEF ResumedIfPatient, ResumedAfterRestart, ResumeInv, StartingUp
<1> HIDE DEF Inv
<1> QED BY <1>1, <1>2, <1>3, PTL DEF Spec
=============================================================================
