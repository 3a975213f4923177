# meetingbot: TLA+ models, model checking and proofs

meetingbot records or receives meetings, transcribes them, and lets a second
service look for questions and claims in the transcript and answer them from
the user's documents. Two Python processes do the work:

- the **backend** (`src/backend/app`): speech to text, one asyncio event loop,
  SQLite, worker processes for the models;
- the **RAG service** (`src/rag/meetingbot_rag`): documents, indexes, questions
  and the meeting analysis queue, FastAPI handlers on a thread pool, background
  threads, SQLite behind one lock.

The transcript is the inbox of the analysis: the backend delivers utterances to
the RAG service, which classifies, retrieves and answers in the background.
This directory models the control of both services, checks it with TLC and
proves with TLAPS, for every value of the constants, what the analysis queue, the
delivery of utterances to it, the transcription slot, the speech pipeline and the RAG
service promise.

## Inventory

| component | state | operations | what is hard | what makes it correct |
|---|---|---|---|---|
| analysis queue (`rag/meeting_jobs.py`, `meeting_policy.py`) | tables `meeting_jobs`, `meeting_subscriptions`, `meeting_policies`; `running`, `modes`, LLM gate | subscribe, cancel, sync, enqueue, retry, policy save, tick, worker stages, recovery | requests between a read and a transaction, stale snapshots in the tick and in the workers, model calls that return after the row was withdrawn, restart | exclusive leases, fenced writes, one analysis per utterance, no publication without a grant, lateness never lost, permits conserved, every row settles |
| subscription delivery (`backend/modules/meeting/subscriptions.py`, meeting tables of `stt/repository.py`) | row of `meeting_subscriptions`, receipts, session snapshot | PUT subscription, delivery rounds, deletion tombstone | awaits between read and save, calls that fail or arrive late, crash on either side | receipts stand for accepted work, withdrawn speech is withdrawn upstream, the active grant stands, deletion reaches every workspace |
| RagBridge, workspace proxy | none | request with a 10 s or 45 s timeout | a call given up may still be carried out | part of subscription delivery |
| file transcription (`stt/file_service.py`, upload and session routes) | the slot `active`, `management_busy`, session and job rows, input, PCM, checkpoint and WAV files | upload, reprocess, run, delete, resume | deletion at any await, half-finished start-up, restart | one session at a time, the slot is always given back, no file is left, no ended session is rewritten, saved work survives |
| streaming upload (`stt/upload_stream.py`) | blocks, sparse file, range readers, FFmpeg | put, finish, read, decode, close, dispose | readers waiting for blocks that may never come, close from two sides | no gap is read as audio, nothing runs after disposal, every upload ends |
| live session (`stt/live_service.py`) | PCM buffer, words, two inferences in flight | receive, transcribe, diarize, finish, dispose | stop and deletion during both inferences, windows that fail | no audio is displaced or skipped, stable text stays, a complete recording is complete, every session ends |
| transcript assembly (`stt/transcript_assembler.py`, `repository.publish`, `correct`), export | utterances, revisions, events | publish, correct, script | user corrections against new results | corrections survive and nothing is told beside them, ids stay unique, the script shows everything once |
| speaker mapping (`stt/speaker_mapper.py`) | evidence and ids | map | labels change from analysis to analysis | two voices never share a name |
| worker pools, runtime manager (`system/manager.py`, `stt/workers.py`, `lifecycle.py`) | pools, job list, selection file, environments | install, select, start, stop | swap of the pools against sessions and start-up, commands that fail | no swap under a session, what is selected can be loaded, no pool is left |
| question queue (`rag/question_jobs.py`, `query_history.py`) | table `query_runs`, permits | create, claim, search, ask, store, recover | three threads, shared permits, consent that changes, restart | each question is worked on once, nothing is sent unapproved, each ends |
| meeting answers, judgement (`rag/meeting.py`, `answers.py`, `meeting_classifier.py`) | checks around provider calls | analyse, resume, confirm; validate, classify, context | settings, scope or grant change between two calls | no popup under circumstances that have changed, colours are earned |
| revisions, workspaces (`rag/services/` `core.py`, `ingestion.py`, `revisions.py`, `retrieval.py`) | revisions, documents, indexes, files | create, build, cancel, activate, pin, remove, search, delete | files written between checks, deletion and removal during a build or a search | the active revision is whole, deletion leaves nothing, evidence stands |
| folder uploads (`rag/uploads.py`) | `upload_sessions`, staged and published trees | create, receive, commit, cancel, sweep | crash between rename and commit | all or nothing |
| chunks, ranking, context (`rag/adapters.py`, `services/retrieval.py`) | none | cut, fuse, expand | boundaries, overlaps, budgets | the text is covered, hits come first |
| provider settings, prompts (`rag/llm_settings.py`, `prompt_policy.py`, `runtime_settings.py`), managed proxy (`managed_proxy.py`) | versioned rows, consent; accounts of a child process | load, save, approve, revoke; select, delete, sign in | forms that are stale, requests half done | a key stays with its address, one account answers, or the old choice is restored |
| storage, migrations, process lock | SQLite files | transaction, migrate, lock | taken as given: atomic, serialised | - |
| access store, audit | keys, sessions, quota | verify, consume | single statements | - |
| parsers, sources, views, frontend, scripts | - | conversions and input/output | - | not modelled |

`PROJECT.json` lists every component with what is left out of it, and the
hazards of the code, each at its line with the properties that cover it. Two
hazards have no property yet: a row admitted under the old scope (`meeting_jobs.py:187`,
see below) and a delivery that is refused for ever (`subscriptions.py:214`). Three
more are known and not listed there: a resend after a save of the policy that
changes only timings becomes a second analysis (`meeting_jobs.py:198`), one
workspace can fill the global queue (`:222`), and a worker that fails before it
rereads its row decides the miss from an old copy (`:664`).

## Modules

| module | about |
|---|---|
| `MeetingJobs` | the analysis queue: tables, API threads, scheduler, pool threads, LLM gate |
| `MeetingJobsMC`, `MeetingJobsScenarios` | keys, sessions and symmetry of its instances; several instances in one run |
| `MeetingJobsProofs`, `MeetingScenarioProofs` | theorems about `MeetingJobs` (leases, fencing and publication; what the rows say; the dedicated lane and the rows of an utterance), and about the instances of its runs |
| `SubscriptionDelivery` | one session's subscription, receipts and delivery rounds, with the RAG handlers they call |
| `SubscriptionDeliveryMC`, `SubscriptionDeliveryScenarios` | its instances |
| `SubscriptionDeliveryProofs`, `SubscriptionScenarioProofs` | theorems about `SubscriptionDelivery`, and about the instances of its runs |
| `Transcription` | the transcription slot and everything that takes it; files, rows and jobs of the sessions |
| `ExclusiveUse` | the abstract specification of the slot: one user of the engines at a time |
| `TranscriptionMC`, `TranscriptionProofs` | its instance; theorems about `Transcription`, the refinement among them |
| `StreamingUpload`, `LiveCapture`, `TranscriptPublishing`, `SpeakerMapping`, `SpeechRuntime` | the other parts of the speech pipeline |
| `BackendServices` | these five in one run |
| `BackendProofs` | theorems about them: uploads and recordings; the runtime manager and the evidence of speakers |
| `KnowledgeBase`, `QuestionQueue`, `FolderUpload`, `MeetingAnswer`, `MeetingJudgement`, `Retrieval`, `ProviderSettings`, `ProxyAccounts` | the RAG service besides the queue |
| `RagServices` | these eight in one run |
| `RagProofs`, `RuleProofs` | theorems about them: questions, answers, settings, accounts, workspaces and folder uploads; the rules of judgement and retrieval |

Each module keeps, next to some definitions, a variant marked *Mutant*: the same
definition with a bug the code could plausibly have. The specification never
uses it; substituted for the original, it makes a property of a run fail, which
shows that the property depends on that line of the code.

How the parts meet: `SubscriptionDelivery` reduces the queue to one live row per
utterance, which is what `MeetingJobs` shows of it, and reads snapshots that
`TranscriptPublishing` and `LiveCapture` make; `Transcription` leaves out what
happens inside an upload, a recording or a selection, which is what
`StreamingUpload`, `LiveCapture` and `SpeechRuntime` are about; `QuestionQueue` and
`MeetingAnswer` take permits of the gate that `MeetingJobs` shares with them
(each sees the others as holders that come and go).

### MeetingJobs and the code

| in the model | in `meeting_jobs.py` |
|---|---|
| `jobs`, `sub`, `policy` | the three tables; a row keeps key, source generation, revision, state, stage, class, lease, scope, attempts and the miss; classification, checkpoint and result are the scope they were computed under |
| `client` | an API thread between its reads outside and its transaction inside `enqueue`, `retry`, `save_policy`/`policy_changed` |
| `Subscribe`, `Cancel`, `Sync` | one transaction each |
| `TickPlan` | the reads of a tick: watchdog, reaping of finished threads, mode, snapshot of the rows |
| `Claim`, `Miss` | one turn of the loop over the slots: claim by a conditional UPDATE, or nothing to claim |
| `Begin`, `Return`, `Commit` | a pool thread: `_active` rereads the row, the call comes back, `_update` is fenced by the lease |
| `TickRaises`, `WorkerRaises` | a database error that escapes a worker, and the tick that reports it |
| `DeadlinePasses` | the clock |
| `Restart` | the process dies; `__init__` recovers |

Time is abstracted: a delay is over or not as the tick finds it, a deadline has
passed or not. `_mode` and `_pick` choose among the allowed modes and rows; any
choice is taken, so what holds, holds for the code's choice. A save of the
policy that changes neither scope nor filter model still bumps the version, as
in `MeetingPolicies.save`. The user's own POST of a job is not held to the
source generation, only deliveries of the backend are.

### SubscriptionDelivery and the code

| in the model | in the code |
|---|---|
| `session` | row of `sessions`: `snapshot_revision` and the stable utterances |
| `sub`, `receipts`, `acked` | `meeting_subscriptions`, `meeting_deliveries` and its flag `delivered` |
| `Save`, `Delete` | `Repository.save` (every change of the transcript goes through it) and `Repository.delete` |
| `Ask`, `Disable`, `Register`, `ServeApi`, `FailApi`, `Subscribe` | `PUT subscription`: session looked up, lock awaited, row read, grant registered upstream, row built from the copy read before |
| `Start`, `Continue`, `Defer` | `deliver`/`_deliver`: what runs between two awaits is one step; `Route`, `Prepare`, `Admit` and `Resume` are the parts of the round |
| `KeyOf`, `States` | `source_entries`: a key stands for text with context, revision, generation and the chain of earlier keys |
| `rag`, `Handle` | the handlers `subscription`, `cancel`, `sync` and `enqueue` at the other end, reduced to one live row per utterance; that there is at most one is what `MeetingJobs` shows |
| `Fail`, `lost`, `Late` | a call refused, or given up after its timeout and carried out later |
| `Activate` | a finished ingestion makes a new revision current |
| `Crash` | the backend dies; a call under way may still arrive |

The backend is one event loop, so there are no steps inside a synchronous
stretch of code; the lock of the session excludes a round and a subscribe call,
while transcription, corrections and deletion take no lock.

### Transcription and the code

| in the model | in the code |
|---|---|
| `active`, `busy` | `FileService.active`, `management_busy` |
| `rec`, `job` | state of the session and of its job row |
| `disk` | input, PCM, checkpoint and WAV of a session |
| `Upload`, `Received`, `ReceiveFails` | the multipart route: claim, body, rows (`routes/uploads.py`) |
| `StartUpload`, `FinishUpload`, `UploadBreaks`, `CloseUpload` | the streamed upload as `run` sees it |
| `Begin` to `Written`, `Abandon`, `TaskFails` | `FileService.run`, cut at its awaits; every step begins with the test for deletion that the code makes there, and only there |
| `Accept` to `Finished` | the WebSocket handler of `routes/live.py` and `LiveSession.finish` |
| `Delete`, `Unlinked`, `CancelUpload`, `Expire` | DELETE, its thread, and the time limits |
| `Select`, `Selected` | an engine selection as far as the slot sees it |
| `LoadAsr`, `ResumePending`, `VadReady`, `Restart` | `lifecycle.prepare`, `resume_pending`, the death of the process and `recover` |

### The other speech modules and the code

| module | state | actions |
|---|---|---|
| `StreamingUpload` | blocks received and written, the lock of `changed`, readers of the loopback server, the decoder coroutine and its FFmpeg process, the file descriptor | `Put`, `Stored`, `WriteFails`, `Finish`; `Connect`, `WaitForBlock`, `ReadAt`, `Sent`; `Decode`, `Spawn`, `Exit`, `Reaped`, `Trail`; `Close`, `Closed`, `CancelDecoder`, `Dispose`, called by `run` and by DELETE |
| `LiveCapture` | the PCM buffer unit by unit, words and `stable_before`, one transcription and one analysis in flight, the point `finish` has reached | `Receive`, `Feed`, `Schedule` with `Window`, `Transcribed`, `Diarize`, and the awaits of `finish` |
| `TranscriptPublishing` | utterances with revisions, events, what a user has on the screen | `Pass` (words, `assemble`, `publish`), `Read`, `Correct`; `BuildScript` is a function of the state |
| `SpeakerMapping` | the evidence of earlier analyses | `Analyse`: `exclusive` and `map` |
| `SpeechRuntime` | pools and what they have loaded, environments and their mark, manifest, selection file, the job | `Submit` and the awaits of `install` and `select`; `Prepared`, `DetectorLoaded` of the start-up; `Down`, `Crash`, `Restart`; `Claim`, `Release` of the slot |

### The modules of the RAG service and the code

| module | state | actions |
|---|---|---|
| `KnowledgeBase` | one workspace: revisions, document versions, snapshots, vector and keyword indexes, the folder, the worker thread, removals, a reader | `Create`, the steps of a build from `Start` to `Publish`, `Cancel`, `Pin`, `Ask`, `Remove` to `RemoveCommits`, `Delete` to `DeleteCommits`, `Search` to `Validated`, `Restart` |
| `QuestionQueue` | rows of `query_runs`, consumer threads, permits, provider, consent | `Enqueue`, `Acquire`, `Claim`, `Begin` to `Store`, `SaveSettings`, `SetConsent`, `Expire`, `Delete`, `Restart` |
| `FolderUpload` | session rows, staged, replaced and published files, workspaces | `Create`, `Insert`, `Receive`, `Replace`, `Record`, `Commit`, `Transaction`, `Cancel`, `Expire`, `Delete`, `Restart` |
| `MeetingAnswer` | the world a call was asked in (settings, consent, scope, source) and the call | `Resolve` to `Forward`, each check where the code makes it; `SaveSettings`, `SetConsent`, `EditScope`, `Revoke` |
| `MeetingJudgement` | the answer judged last | `ValidatePopup`, `Classify`, `BoundContext` on every bounded input |
| `Retrieval` | the last text, cut or search | `Cut`, `Segment`, `Search`, `AnswerContext` on every bounded input |
| `ProviderSettings` | settings, forms, grants, requests, one versioned document | `Load`, `Save`, `UseReads`, `UseSaves`, `Approve`, `Revoke`, `Capture`, `Answer`, `Open`, `SaveDocument` |
| `ProxyAccounts` | the accounts of the proxy, the operation and its plan of requests | `Select`, `Delete`, `StartLogin`, `Callback`, `LoggedIn`; a request is `Answered` or `Failed`, with or without effect |

The proxy process, the speech engines, FFmpeg and the vector store are outside
`src/`; they appear as calls that return, raise, or take effect without an
answer, as the code in `src/` must expect.

## Runs

Where one run asks several questions of one module, the initial state picks a
*scenario* that never changes; the state space is the sum of theirs.

| run | question | instance |
|---|---|---|
| `operations` | every operation of the queue on one utterance: leases, fencing, permits, publication, results against their scope, lateness | 1 row, 2 slots, 1 permit, 1 API thread, 2 scopes, 1 fault, restarts |
| `jobs_safety` | *fencing*: `LeaseMeansCurrent`, `AnalysisMatchesPolicy` and final withdrawal (`FencingHolds`, `FencingWithdrawnIsFinal`); *sources*: two revisions delivered by two requests at once (`SourcesOneAnalysis`, `SourcesNewerStays`) | 2 rows, 2 slots, 1 permit; 3 rows, 2 API threads |
| `jobs_liveness` | *lanes*: with workers that hang and ticks that raise a passed deadline is recorded and the dedicated lane stays pure; *settles*: every admitted row reaches a terminal state | 2 rows, 2 slots, 1 fault; 2 rows, pressure, errors |
| `delivery_safety` | *speech*: receipts, withdrawn utterances, returning texts (`SpeechHolds`); *switch*: grants (`SwitchHolds`) | 1 utterance, 2 texts, 5 snapshots, a late call, a crash; 2 workspaces, 3 grants, 2 revisions |
| `delivery_liveness` | *analysed*: speech ends up analysed; *deletion*: the tombstone is kept, served and dropped | 2 utterances, 1 delivery per round; 2 workspaces, deletion at every await |
| `transcription` | the slot with all its users; `EnginesAreExclusive` is the refinement of `ExclusiveUse` | 2 files, one of which keeps its recording, 1 microphone session, 2 restarts |
| `backend_services` | *upload*, *capture*, *publishing*, *speakers*, *runtime* | see below |
| `rag_services` | *builds*, *readers*, *queue*, *sending*, *folders*, *meeting*, *judgement*, *retrieval*, *settings*, *accounts* | see below |

What the properties of the first six say:

| property | promise |
|---|---|
| `EveryLeaseHasOneHolder`, `LeaseMeansCurrent` | a row is in flight exactly while one thread holds its lease, and a thread whose lease stands works on the current row |
| `GateConserved` | permits of the LLM gate are neither leaked nor given back twice |
| `AnalysisMatchesPolicy`, `PublishedUnderGrant` | what a row has been given was computed under the scope the row carries, and a result appears only under an enabled grant |
| `MissIsSticky`, `LateAnswerIsMissed` | lateness is recorded, and nothing clears it |
| `SourcesOneAnalysis`, `SourcesNewerStays` | `OneAnalysisPerUtterance` and `NewerIsNeverReplaced` under concurrent deliveries |
| `LanesPure`, `LanesDeadlineRecorded` | `PriorityLanePure`, and that a passed deadline is recorded although workers hang |
| `SettlesEveryRow` | `EveryRowSettles` under fair scheduling |
| `SpeechHolds` | `ReceiptHasRow`, `AnnouncedIsClean`, `ReturnsUnderNewKey` |
| `SwitchHolds` | `ReceiptHasRow`, `ActiveGrantStands`, `FormerGrantsAreCancelled` |
| `DeletionTombstoneKept`, `DeletionForgotten` | a tombstone stays until RAG confirmed the deletion, and is then dropped (`DeletionTypeOK` types the instance) |
| `SpeechAnalysed` | what is said while the subscription is on ends up analysed |
| `NothingLeftBehind`, `JobTellsTheSame` | no file outlives its session, and the job row agrees with the session |
| `EndedStays`, `ResumableStays` | an ended session is not rewritten, and saved work survives restarts |
| `ResumedIfPatient`, `SlotIsReturned` | a session that can be resumed is resumed if nothing is uploaded before the models are up; the slot is always given back |

Properties of the last two runs are conjunctions, one part for each promise; the
parts are stated and explained in the modules they speak of.

| property | parts |
|---|---|
| `AudioHolds` | `StreamingUpload`: no gap is read, a decode has seen all, quiet after disposal. `LiveCapture`: positions hold, stable text was transcribed, what is COMPLETED is whole, released is quiet |
| `TranscriptHolds` | `TranscriptPublishing`: events tell what the session tells, every utterance has an id of its own, the script keeps all and joins no overlapping speech. `SpeakerMapping`: speakers stay apart, evidence is exclusive |
| `RuntimeHolds` | `SpeechRuntime`: marked is usable, a selection has loaded, settings, selection and pool are one, no pool is left, no swap under a transcription, the detector is known |
| `ReadTextStays` | stable words stay, corrections stay, a correction changes what was read, the time of a corrected utterance is left to it |
| `SpeechEnds` | every upload, every closed recording and every pause for a selection ends |
| `KnowledgeHolds` | `KnowledgeBase`: the active revision is whole, kept revisions keep documents, strict builds are complete, a question keeps its revision, nothing of a deleted workspace is left. `FolderUpload`: published is what was committed, one workspace per upload, no files without a row |
| `WorkHolds` | `QuestionQueue`: one consumer each, permits conserved. `MeetingAnswer`: no late popup, stale checkpoints rest, permits return. `ProviderSettings`: a key stays with its address, consent is informed, no save is lost. `ProxyAccounts`: the chosen account is never enabled beside another one |
| `RulesHold` | `MeetingJudgement`: colours are earned, scores are coherent, context is recent. `Retrieval`: chunks cover the text, a small overlap advances, titles enclose, named documents first, hits first |
| `StepsHold` | evidence stands, cancelled stays out, results stay, a selection of an account is alone or restored |
| `SentOnlyWhereApproved` | a question leaves for a provider only while a manager approves that provider |
| `WorkEnds` | builds and questions end |

### Bounds

Every bound is a constant with a name that begins with `Max`, or a small set.

- `MeetingJobs`: two rows are enough for one to be claimed while the other is
  withdrawn or admitted in its place; two slots compete for one permit and can
  hold claims of one row before and after it was re-queued. Fresh ids and tokens
  are those nothing refers to, so old ones are reused and the instances stay
  finite.
- `SubscriptionDelivery`: five snapshots let a text be said, delivered, replaced
  or withdrawn, announced and said again while a call of an early snapshot is
  still out. Three grants are the shortest A to B to A. One delivery per round
  and two utterances make a round end with work left.
- `Transcription`: two files, so that one waits or is resumed while the other
  holds the slot; two restarts, so that a resumed run is interrupted again.
- `StreamingUpload`: two blocks and two readers, of which one waits while the
  other reads. `LiveCapture`: three units of speech, silence or loss with windows of
  two and a context of two, so that windows overlap, are skipped and are cut; two
  wordings per unit. `TranscriptPublishing`: three steps, two passes, a
  correction; at most two words per pass, of one or two steps, which may overlap in any way,
  as may the utterances made of them: windows place words differently (`transcript_assembler.py:20`)
  and people speak at once (`test_export.py:102`). Utterances with the same start may come in any
  order, as the code sorts by times only, except that heard ones precede the corrected. The constraint
  `Publishing` lets the first pass hear one speaker, nobody at once and one status, and a
  correction change the text or the speaker. `SpeakerMapping`: three
  units, two labels, three analyses. `SpeechRuntime`: two engines, two models,
  two jobs, one stop.
- `KnowledgeBase`: two revisions of two files, one fault or one edit of a file that begins like the other.
  `QuestionQueue`: two questions, two consumers, two permits, one storage error,
  two saves. `FolderUpload`: two uploads, two files, one crash, one failing step.
  `MeetingAnswer`: two analyses and a job, one permit, one change of each kind.
  `MeetingJudgement`: two pieces of evidence and one foreign reference, lists of
  at most four. `Retrieval`: texts of six characters, four lines, budgets to four, two passages (64 in the code).
  `ProviderSettings`: two addresses and models, versions to three.
  `ProxyAccounts`: three accounts, two failing requests, one sign-in.
- Constraints of `RagServices` and `BackendServices` (`Builds`, `Readers`, `Queue`, `Sending`,
  `Meeting`, `Setting`, `Signing`, `Capture`, `Publishing`) keep apart what need not meet for
  the cases of the properties; each is commented where it stands.

Larger instances were checked once: recordings of four units, three requests per
reader of an upload, three jobs of the runtime manager.

Deadlock is checked except where the system may really stop: a queue whose
bounded inputs are used up, a session that is deleted and forgotten, a service at
rest. Symmetry (ids, tokens, scopes, workspaces and texts are only compared) is
used in the safety runs of the queue and of delivery, never with liveness.

### Fairness

`MeetingJobs`, `FairSpec`: threads and the scheduler keep running (weak fairness of worker
and slot steps); a tick that sees all delays over, and one in NORMAL mode when
no urgent row exists, recur (strong fairness), since delays are finite and
`_mode` leaves pressure when its measurements fall. Nothing is assumed of the
API, and no call is assumed to succeed: attempts are counted by the code.
`TickingSpec`, used by the scenario *lanes*, assumes of all this only that the scheduler
thread keeps ticking; workers may hang for ever.

`SubscriptionDelivery`: the event loop runs what can run; `asyncio.Lock` is first
come, first served, hence strong fairness for those who await it; each kind of
call is answered again and again when it is tried again and again (an outage
ends), hence strong fairness of `Serve` per kind and utterance or workspace.

`Transcription`, `FairSpec`: the event loop runs what can run, FFmpeg and the models
answer (an inference that hangs for ever is a limit the documentation names), a
body is received or its connection breaks, and the time limits of uploads and
recordings expire. No request is assumed to come.

`StreamingUpload`: threads return, the idle timeout passes, a process nobody serves
exits, `run` polls; `close` gets the lock of the condition, since `asyncio` hands it on
first come, first served (strong fairness). Clients need not send anything.
`LiveCapture`: inferences return, and `finish` goes on. `SpeechRuntime`: loads and
commands return, with or without success, and an application that was stopped is
started again. `KnowledgeBase`: the index thread takes builds and finishes removals.
`QuestionQueue`: consumers run and a retry delay passes.

What is assumed of the outside in safety too: the speech engine finds a word in
every unit of speech of its window (`LiveCapture` is about what the session does
with the windows, not about the engine), and the machine can load the models of
`Loadable` only (`SpeechRuntime`).

### What the code does not keep

Four runs state something a comment or document of the repository says and show
a behaviour of the code that breaks it; `PROJECT.json` quotes the lines.

| run, property | what happens |
|---|---|
| `retry_race`, `WithdrawnIsFinal` | a retry re-queues a row that was superseded after it was read |
| `wedge`, `EveryRowSettles` | one escaped database error stops all claims until a restart |
| `delivery_tombstone_race`, `TombstoneKept` | reporting a stop overwrites the tombstone of a session deleted meanwhile |
| `transcription_resume_busy`, `ResumedAfterRestart` | a file uploaded while the speaker model still loads takes the slot; the resumption raises, and the start-up ends without it and without the voice detector |

The same models reach more sequences of this kind, which are recorded here and not
as runs of their own. In the queue and in delivery:

- A row is admitted after its grant was revoked, or under the old scope after a
  scope change: `enqueue` reads grant and policy before its transaction
  (`meeting_jobs.py:178`, `:187`). The first is harmless for publication
  (`PublishedUnderGrant`); the second lasts until the next scope change.
- A save of the policy that changes only timings bumps the version, which is part
  of a source's identity (`:198`): a resent delivery becomes a second analysis.
- A worker that fails before it rereads its row decides the miss from the copy
  the tick picked (`:664`), so an unclassified row can fail late without a miss.
- A deletion during a workspace switch: `subscribe` carries the list of former
  workspaces over from its copy (`subscriptions.py:295`), so finished rows of one
  that was already cleaned up without deletion stay there.
- A cancel that timed out is carried out after the user has switched on again and
  disables the new grant, which cancel does not name (`:299`).
- The backend dies after a renewed grant re-pinned the revision upstream and
  before `subscribe` saves: receipts say delivered, nothing is sent again (`:277`).

In the speech pipeline:

- Two sockets on one microphone session pass the test of its state before either
  has started (`live.py:59`, then an await at `:61`): the second restarts a COMPLETED
  session. A failed initialisation releases the slot twice, at `live.py:69` and in `finish`
  (`live_service.py:245`): if the other socket has taken it in between, its recording goes on
  beside whoever takes the slot next.
- A multipart upload whose session is deleted while the body is read writes a job
  row without a session (`uploads.py:43`).
- PCM and checkpoint of a deleted INTERRUPTED session, or of a resumed run whose
  session is gone (`file_service.py:85`), stay until a later restart; only the first
  valid checkpoint is resumed (`:326`).
- A process killed while it writes the WAV of a deleted session leaves the file.
- A `start_upload` that fails after the upload was constructed leaves it open and
  registered (`uploads.py:67`).
- Old evidence of a speaker that a newly mapped turn touches only partly is dropped
  whole (`speaker_mapper.py:60`, whose comment says that earlier evidence is kept).
- A candidate whose last word reaches into a corrected region is dropped with its
  earlier words (`repository.py:168`, `transcript_assembler.py:65`).
- `select` looks only at the speech model of the candidate: a selection whose
  speaker model failed to load is swapped in (`manager.py:226`). A job cancelled
  before it began stays "queued" in the file until the next start.

In the RAG service:

- Consent withdrawn between the last check and `invoke` does not stop the call
  (`answers.py:250` says that withdrawal blocks new transmissions).
- A search or `ensure_view`, which take no workspace lock, may recreate directories
  of a workspace that is being deleted.
- A crash in `Core.delete` leaves rows marked deleted for ever; one in
  `revisions.remove` after the vectors were dropped leaves a READY revision without
  data until the removal is repeated; one between unlink and COMMIT (`:72`) leaves
  rows without snapshots.
- A crash between the directory and the row of a new upload leaves the directory.
- `check` of the provider lets `models()` read the settings again (`answers.py:190`): after a
  change in between the result of the new connection is stored under the old id.
- A Markdown text that skips a heading level nests the second H3 under the first
  (`adapters.py:165`); an overlap of half the budget or more emits chunks that lie
  within the one before (`:202`).
- `answer_context` returns all hits, over budget, if none fits (`retrieval.py:223`).

The passing runs exclude exactly these: no retry or fault where they would
interfere, no stop in the scenario *deletion*, no late call in *switch*, one revision in
*analysed*, one socket per microphone session, no crash inside a removal. The properties of a passing run therefore say
what holds outside these windows; the invariants proved below hold inside them
too.

## Proofs

`MeetingJobsProofs` proves, for any number of rows, tokens, keys, sessions, API
threads and slots, any caps and any bounds:

| theorem | says |
|---|---|
| `TypeCorrect` | `Spec => []TypeOK` |
| `GateIsConserved` | free permits plus held permits are the size of the gate |
| `LeasesAreExclusive` | a row is in flight exactly while leased, each lease has one holder |
| `FencingIsSound` | a thread past `_active` that still owns its lease works on the row as it is |
| `PublicationNeedsGrant` | a result appears only under an enabled subscription |

The only assumption is `ConstantsAssumption` of `MeetingJobs`: functions of keys
are total, slots are finitely many, bounds are natural numbers, `None` is none
of the values. TLC evaluates it in every run.

The argument. None of these properties is inductive by itself:

- `TypeInv` is `TypeOK`, which slots may hold a thread or a permit, and
  conservation of permits; they go together, because the type of `gate` needs
  the count of holders, and the count changes by one exactly when a slot changes
  hands. `TypeCorrect` and `GateIsConserved` follow.
- `LeaseInv` adds to the exclusive leases that a busy thread has a lease at all.
  Every action of the API, the tick and the recovery either keeps a row or drops
  its lease together with its in-flight state (`TableStep`), which makes one
  lemma do for all of them; claims take a token nothing refers to.
- `CurrentInv` adds to `LeaseMeansCurrent` that a leased row past `_active`
  belongs to an enabled grant pinned to its revision (`Granted`). The proof
  needs `LeaseInv`: whoever rewrites the compared columns drops the lease, so the
  thread no longer owns it; whoever disables a grant withdraws its rows.
- `KeyInv` says that rows that exist have a key, which `Granted` needs to speak
  of the session of a row.

`QueueInv`, the conjunction of the four, is shown to hold initially and to be kept by
every step; the theorems are read off it, and `PublicationNeedsGrant` is then an
argument about one step.

What the rows say builds on `QueueInv`, under the same assumption:

| theorem | says |
|---|---|
| `AnalysesMatchTheirPolicy` | `Spec => []AnalysisMatchesPolicy`: what a row holds was computed under its scope, and each stage finds its input |
| `LateAnswersAreMissed` | a commit after the deadline records the miss itself |
| `MissesStick` | a recorded miss lasts as long as its row |

- `AnalysisMatchesPolicy` speaks of rows only. For a commit to keep it, the
  outcome must be one its stage can have and the copy the thread writes from must
  be the row: the first is `OutsFit`, the second is fencing. `AnswerInv` is
  `QueueInv`, `RowsFit` and `OutsFit`.
- `MissInv` says that a recorded miss stands for a passed deadline in the table, in
  the snapshot of the tick and in the copies of the threads that own their row.
  Without the last two a claim or a commit could bring a miss to a row that has
  none; without the first a commit, which recomputes the miss from the deadline
  for some rows, could lose one.

What deliveries and the dedicated lane rely on, again for any rows, slots, sessions, keys
and operations:

| theorem | says |
|---|---|
| `PriorityLaneIsPure` | `Spec => []PriorityLanePure`: the slot kept for live questions never searches or answers anything else |
| `UtteranceHasOneAnalysis` | `Spec => []OneAnalysisPerUtterance`, if `"retry"` is none of the operations |
| `NewestSourceStays`, `WithdrawingIsFinal` | `Spec => NewerIsNeverReplaced` and `Spec => WithdrawnIsFinal`, under the same hypothesis |

The hypothesis is needed: `RetryCommit` writes a row by its id without looking at it again,
and `retry_race` shows a superseded row that comes back this way. The utterance then has two live
rows, and `enqueue` compares a delivery with the one of the latest `created_at` only
(`meeting_jobs.py:207-216`): an older revision than the revived row's may supersede it. `created_at`
is read before the transaction, so of several live rows `Latest` may be any.

- The lane. A row is claimed because the snapshot calls it a live question, and executed by
  what is read after the claim; in between the API may have rewritten or removed it. `LaneInv` says that what is
  in the snapshot carries no lease and, as long as it is not sent back to the classifier, is
  still what the snapshot says (`SnapshotStands`), and that the same is true of the claimed row as long
  as the thread owns it (`ClaimStands`). Every step outside the pool only drops leases and
  never moves a row on to searching or answering (`LaneKept`).
- Rows of an utterance. Every step but an admission and a retry makes no row, changes no key and brings no
  withdrawn row back (`Aged`; for a commit this needs `LeaseInv`, since only a row in flight
  is written). The admission is then looked at alone: it removes or withdraws every live row of the
  utterance in the transaction that inserts the new one, and is refused if the one it looks at is
  newer, which without retries is the only one.

`MeetingScenarioProofs` carries this over to the runs. A scenario with the constants of the cfg
is the module itself, for every value of them; the scenario *sources* has constants of its
own. `So` is `MeetingJobsProofs` under the same substitution, so its theorems are at hand once
the constants satisfy `ConstantsAssumption` (`SourceConstants`, from `ScenarioAssumption`,
which TLC evaluates) and the two instances are shown to have the same initial states, steps
and promises, action by action (`SourceInit`, `SourceSteps`, `SourcePromises`).

| theorem | says |
|---|---|
| `FencingScenarioHolds`, `FencingScenarioWithdraws`, `LanesScenarioIsPure` | what the runs check of their first scenario, for every value of its constants |
| `SourcesHaveOneAnalysis`, `SourcesKeepNewest` | `SourcesOneAnalysis` and `SourcesNewerStays` |

`SubscriptionDeliveryProofs` proves, for any workspaces, utterances, texts, document revisions, batch
sizes and bounds:

| theorem | says | where |
|---|---|---|
| `TypeCorrect` | `Spec => []TypeOK` | always |
| `SpeechIsSafe` | `ReceiptHasRow`, `AnnouncedIsClean` and `ReturnsUnderNewKey` always hold | `OnlySpeech`: one workspace, never switched off or pinned, no new document revision, no deletion; calls may be lost, late or refused, and the backend may die |
| `SwitchingIsSafe` | `ReceiptHasRow`, `ActiveGrantStands` and `FormerGrantsAreCancelled` always hold | `OnlySwitch`: no call carried out late, no crash, no deletion; every other operation, and calls may be refused |
| `TombstonesStay` | `Spec => TombstoneKept` | the subscription is never switched off |

The hypotheses are the ones the code needs, not conveniences: a cancellation that is carried out
after a later grant takes that grant away, and switching off while the session is deleted writes
the row over its tombstone (`tombstone_race`). Assumed are `ConstantsAssumption` and
`NoneAssumption` (`None` is no row), which TLC evaluates.

A round holds copies of the row and of the session across its awaits, and everything else may
change meanwhile. The proofs first say what a round is: each handler of an await is reduced to
one of a few outcomes (`Ending`, `Calling`, `Admitting`, `Preparing`, `Routing`), whatever the
await was, and each call to what it may do to the service. The invariants are then shown for
these:

- `TypeInv` says besides types where a round can be with which call, that the copy it holds has
  the generation of the row, and that no grant is awaited during a round. The last is the lock
  of the session; without it a generation could be given twice.
- `SpeechInv` says of the row that it is the one of the first grant (`QuietRows`); of the keys that
  each receipt of an utterance is one of the chain that leads to its present key (`Chained`); of
  every call that may still be carried out, the lost ones included, that it is about an earlier
  snapshot or says what the present one says (`Truthful`); and of the service that it has only
  what was sent, and all that was acknowledged and is still said (`Faithful`). `ReceiptHasRow`
  is not inductive: a late announcement of an early snapshot could remove the row. It comes
  too late, because the service refuses generations older than the one it has seen, and this
  is what `Fenced` keeps of every such call.
- `SwitchInv` says that the row a round works on is the row of the table (`SwitchRows`); that a
  grant that is on is the one shown, one whose cancellation is pending, or the one just
  answered (`SwitchGrants`); and that what was delivered under the present grant, or under the
  one about to be recorded, has its row (`SwitchKeys`). Between the answer of a grant and the
  commit of the row that records it the promises hold of different workspaces, which is why
  they are not inductive.
- `TombInv` says that only a row that is deleted asks for a cleanup, and only if the session is
  gone, in the table, in the copy and in the snapshot of the round.

`SubscriptionScenarioProofs` proves `SpeechHolds`, `SwitchHolds`, `DeletionTypeOK` and
`DeletionTombstoneKept` of the runs (`SpeechScenarioHolds`, `SwitchScenarioHolds`, `DeletionTypes`,
`DeletionTombstones`), in the way of `MeetingScenarioProofs`: `Sw` and `De` are the proof module under the
substitutions of the scenarios.

`TranscriptionProofs` proves, for any files, microphone sessions and restarts:

| theorem | says |
|---|---|
| `TypeCorrect` | `Spec => []TypeOK`; a stream stays registered only while its task may read it |
| `FilesUseEnginesOneAtATime` | uploads, reprocessing, resumption and selection implement `ExclusiveUse`, whatever the microphone connections do |
| `EnginesAreUsedExclusively` | `Transcription` with its recordings implements `ExclusiveUse` as long as no failed start gives back a slot that another connection of its session has taken (`ReleasesItsOwn`) |
| `ExclusiveIfDetectorLoads`, `ExclusiveIfOneConnection` | so it does if the voice detector loads, or if each session has one connection |
| `DeletionIsClean` | a deleted session leaves neither source nor recording, however many connections it has |
| `JobsTellTheSame` | the job of a file that nothing processes tells what the session tells |
| `EndedFilesStay` | the result of a file is never overwritten, by no coroutine that outlives its session and by no connection |
| `EndedSessionsStay` | nor is a recording, if each session has one connection |
| `ResumableIsKept` | saved words and PCM survive interruptions |
| `PatientUsersSeeResumption` | users who wait for the start-up find nothing left to resume |

Assumed is `SlotAssumption`, which TLC evaluates. The code does not enforce that a microphone
session has one connection (`OneConnectionEach`; see the two sockets above), so what is said of
files, of the slot and of deleted sessions is proved without it. It is a hypothesis where the
property fails for two connections: `EndedSessionsStay`, since the second may record over a COMPLETED
session, and `ExclusiveIfOneConnection`. Exclusive use has one exception, which `EnginesAreUsedExclusively` names:
the second release in `finish` of a start that failed, at a time when another connection of the
session has the slot. Every other step keeps it with any number of connections.

None of the properties is inductive, since each relates a row, a file or a job to
the coroutine that is to change it. `TranscriptionInv`, which holds of every behaviour, is `TypeOK`
with `SlotInv` (a file has the slot exactly while its task is under way, and the selection only
while no session has it), `MicHeld` (a recording that has the slot is in the hands of a connection),
`StateInv` (what the row of a file says at each await), `JobInv` (the same of jobs) and `DiskInv`
(which files may lie there while nobody works on a deleted session). `ConnectionInv` adds, for one
connection each, `MicSlot` (the connection past its start frame has the slot) and `MicStates` (what
the row of a recording says). `MicSlot` by itself is kept by every step that satisfies
`ReleasesItsOwn`, however many connections there are. The steps of a file and of a connection touch
one session (`FileLocal`, `SockLocal`), so each part is shown for the session that moves and carried
over to the others. The refinement maps the slot to the set of sessions whose
coroutine uses the engines; `SlotInv` and `MicSlot` make every step a step of `ExclusiveUse` or a
stutter.

`ResumedIfPatient` needs two facts more: `AllAttended`, a file that is in progress by its row has
a task, and `ResumeInv`, which holds while users wait for the start-up. Until `resume_pending`
has run the slot is free and not busy and at most one session can be resumed; from then on none
can. Only the file that holds the slot is in progress, so a restart makes no second session
resumable, and the first checkpoint, which is all that `resume_pending` looks for, is all there is.

`RagProofs` and `RuleProofs` prove about `RagServices`, for any revisions, files, questions,
threads, uploads, calls, administrators, accounts, chunks and texts and any bounds:

| theorem | says |
|---|---|
| `WorkIsSafe` | `Spec => []WorkHolds` |
| `SendsWhereApproved` | `Spec => SentOnlyWhereApproved` |
| `KnowledgeIsSafe` | `Spec => []KnowledgeHolds` |
| `StepsAreSafe` | `Spec => StepsHold` |
| `RulesAreSafe` | `Spec => []RulesHold` |

`BackendProofs` proves about `BackendServices`, for any
blocks, readers, lengths, windows, contexts, gaps, thresholds, wordings, speakers, engines,
models, labels and bounds:

| theorem | says |
|---|---|
| `AudioIsSafe` | `Spec => []AudioHolds` |
| `StableWordsAreSafe` | words below `stable_before` are not rewritten, which is the part of `ReadTextStays` about recordings |
| `RuntimeIsSafe` | `Spec => []RuntimeHolds` |
| `TranscriptIsSafe` | `Spec => []TranscriptHolds` |
| `ReadTextIsSafe` | `Spec => ReadTextStays` |
| `EvidenceStaysExclusive` | `Spec => []Sm!EvidenceIsExclusive`, the part of `TranscriptHolds` that names rest on |

Each component has its own inductive invariant and, in the RAG service, its own theorem
about the component alone (`QueueIsSafe`, `AnswersAreSafe`, `SettingsAreSafe`,
`AccountsAreSafe`, `WorkspaceIsSafe`, `UploadsAreSafe`). The scenarios and bounds of the two
services only restrict which steps a run looks at: every step of a service is a step of a
component or leaves its variables alone, which carries the component's invariant over.
None of the invariants the runs check is inductive; what had to be added:

- Questions (`QqInv`): the row of a claimed question waits for its thread unless the
  workspace is deleted (`QqClaimed`), and a thread about to send has captured a provider the
  question was approved for (`QqGranted`). That consent is looked at under the lock and the
  request made after it is the point of the second.
- Answers (`MaInv`): a call in doubt, one whose circumstances have changed since they were
  looked at, can only be at places from which every way ends in a refusal (`MaDoubtedAt`), and
  a job carries the scope it was searched in (`MaScopedAt`).
- Settings (`PsInv`): a key is at home in every copy a request can be made with, not only
  in the row; each text was saved onto the version it shows.
- Accounts (`PaInv`): the plan of a selection ends with the account that is to be on and
  switches off everything else before (`PaOthersFirst`); an account that was not touched, or
  has been given back, is as it was (`PaUntouched`). The plan is a sequence of any length,
  so the proof rests on lemmas about lists, their reversal, head and tail.
- Workspaces (`KbInv`): who holds the lock is at one of its steps (`KbLocks`); a build under
  way has its job, its collections, and each file left, taken or failed (`KbBuilding`); a
  revision that is being removed is neither active, nor asked about, nor built
  (`KbRemovals`). The last is why documents may be unlinked while a build runs.
- Uploads (`FuInv`): what the operation under the lock has found stays true until it ends
  (`FuOperation`), and a folder is published before its row only by the commit under way
  (`FuRows`), so a crash leaves nothing that recovery does not see.
- Rules (`MjInv`, `ReInv`): what is judged, cut or found is computed in one step, so the work
  is in the loops, which the modules write as folds. A fold over a sequence is shown to be
  the last value of a *run*, a sequence of values by one step of the fold each (`FoldFromLeft`,
  `FoldFromRight`), and a property of the loop is an invariant of its run (`Counting`). What
  had to be added to the loops: where each chosen utterance stands in the list
  (`MjReached`); the size of what is chosen and that nothing is given up (`ReKeeps`); of the
  lines read, the segments that cover them and the open titles, each at its depth
  (`ReOut`). The chunks of a text are cut in many steps and have an invariant of their
  own (`ReCut`): the next one starts behind the last start, not behind the last end.
- Streaming (`UlInv`): blocks that count are in the file, and `close` takes the lock, the
  readers and the server, in that order, from those who might start something (`UlEnding`).
- Recordings (`LcInv`): no speech lies between what was processed and the window that is
  being read, and words that are not stable wait for speech that is to come
  (`LcTranscribed`); what is over at each await of `finish` (`LcFinish`). The lemmas on
  `Window`, `SpeechWindowStart` and `StableAfter` say where windows begin and end for any
  length; they rest on the least number of a set, which is derived from the well-founded
  order of the natural numbers, since the induction rules themselves take an operator.
- Runtime (`SrInv`): a candidate belongs to the selection under way, workers carry the number
  of their job, and until start-up is over they are those it started with (`SrWorkers`);
  an installation works on an environment that is not marked (`SrJob`).
- Speakers (`SmInv`, `SmInv2`): the times of the evidence are numbers. Spans cut by `exclusive` are
  apart because a span ends where another voice begins. Ids that evidence speaks for are below the
  next new one, and there are no more of them than labels times analyses (`SmKnown`). Two voices
  of one analysis never share an id: a label keeps one only with seven tenths of what that id
  has in common with all labels, which two cannot have (`SumCovers`), and new ids are ranks above
  all old ones (`SmIsKnown`, `SmIsNew`).
- Transcript (`TpInv`): the rows of a session have ids of their own, whatever the times of the
  words (`TpRows`); no event of a row is newer than it, and an event of its revision is the row
  itself (`TpTold`); what is on the screen is a row as it is or an older revision of it
  (`TpScreen`). Each pass is three loops, again folds: `assemble` gives well-formed candidates, which
  may overlap (`TpFormed`), the fit to the rows gives each candidate an id nobody else has
  (`TpFitsUp`), and `build_script` has told all rows up to the present one, each after the one
  before it where they share a paragraph (`TpTells`, `TpAfter`). What meets a corrected utterance is
  left out before the candidates are published, which is why nothing stands beside a correction (`TpLeft`).
  Passes and corrections then make the same kind of
  step: a row goes on with its id, and a new revision if it differs, or has a new id, and what is
  gone is withdrawn (`TpGoesOn`). That events tell the session follows from this alone
  (`TpEventsGoOn`).

Except for the invariants of loops, which no run stops inside of, each of these was an invariant
of a run before it was proved. Assumed are the named
assumptions of `RagServices` and `BackendServices`: bounds are natural numbers, windows are
not empty, sets that are counted are finite, `None` is none of the values, the provider a
run starts with and the default engine exist. TLC evaluates them.

Only model-checked:

- the promises of `SubscriptionDelivery` outside the hypotheses above, as far as a scenario
  has them;
- liveness, which needs fairness and `ENABLED`, which the prover cannot reason about.

## Not modelled

Content (texts, prompts, scores, evidence) beyond what the properties tell
apart; keys and receipts of versions before `source_states` (`legacy_key`); real time;
other workspaces and sessions and the limits they share; authentication and quotas;
file formats, parsing, rendering and resampling; the frontend, the scripts and the
deployment. Some inputs and failures are left out where a module has the rest: the write that
re-queues a question after an error succeeds (`question_jobs.py:131`; where it fails too, the question
stays "processing" until the next start), a restart of the RAG service resets the forms of
`ProviderSettings`, which a browser would keep, and nobody sends an explicitly empty model for an
unchanged address. Transactions of SQLite are atomic and serialised, since both services
own their database alone and hold one connection behind a lock or an event loop.
What is left out of a component that has a module is in its note in
`PROJECT.json`.

## Plan

Done: the queue and delivery; the slot with its refinement; uploads, recordings,
transcripts, speakers and the runtime manager; the RAG service's builds, questions,
uploads, answers, judgement, retrieval, settings and accounts; the proofs above.

Left, in this order:

1. `FencedQueue`, an abstract queue of exclusive claims and fenced commits that
   `MeetingJobs` and `QuestionQueue` implement.
2. A scheduler in real time, with several workspaces and the global limit.
3. A permanently refused delivery as an input of `SubscriptionDelivery`, crashes inside
   `revisions.remove` and `Core.delete` in `KnowledgeBase`.
