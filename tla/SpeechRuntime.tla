-------------------------------- MODULE SpeechRuntime --------------------------------
(***************************************************************************)
(* SpeechRuntime: which engine transcribes.  RuntimeManager installs an    *)
(* engine and its models, and selects one of them: it loads a second set   *)
(* of worker processes beside the first and swaps them while nothing is    *)
(* transcribed.  The start-up of the application loads the engine of the   *)
(* selection file, resumes a session and then loads the voice detector.    *)
(*                                                                         *)
(* A step is what happens between two awaits.  Commands and loads fail or  *)
(* succeed; the application may be stopped or killed at any step.          *)
(***************************************************************************)
EXTENDS Naturals, FiniteSets

CONSTANTS
    Engines, Models, None,
    BuiltIn,        \* engines the application's own environment has
    Loadable,       \* choices whose model this machine can load
    Default,        \* the choice of the settings when nothing was selected
    MaxJobs, MaxStops

VARIABLES
    up,             \* the application runs
    startup,        \* prepare() of the application: loading, detector, done, or failed
    settings,       \* asr_backend and default_model
    workers,        \* the worker processes in use: [id, of, asr, vad]
    candidate,      \* those select() loads, or None
    pools,          \* ids of the workers whose processes were not closed
    busy,           \* management_busy
    job,            \* the latest job: [action, choice, status, pc], or None
    packages,       \* what the environment of an engine holds
    marked,         \* engines with installed.json
    manifest,       \* models/manifest.json: choices that were downloaded
    selection,      \* system-selection.json, or None
    active,         \* the workers a transcription started with, or None
    jobCount, stops

srVars == <<up, startup, settings, workers, candidate, pools, busy, job, packages, marked, manifest,
            selection, active, jobCount, stops>>
disk == <<packages, marked, manifest, selection>>
engines == <<settings, workers, candidate, pools, busy>>

Choices == [engine : Engines, model : Models]
Loading(id, choice) == [id |-> id, of |-> choice, asr |-> "loading", vad |-> FALSE]
Installed(choice) == choice \in manifest /\ choice.engine \in marked \cup BuiltIn
Running == job # None /\ job.status \in {"queued", "running"}

TypeOK ==
    /\ {up, busy} \subseteq BOOLEAN /\ startup \in {"loading", "detector", "done", "failed"}
    /\ settings \in Choices /\ selection \in Choices \cup {None}
    /\ \A w \in {workers, candidate} \ {None} :
           w.of \in Choices /\ w.asr \in {"loading", "ready", "failed"} /\ w.vad \in BOOLEAN
    /\ marked \subseteq Engines /\ manifest \subseteq Choices
    /\ packages \in [Engines -> {"none", "bare", "broken", "good"}]
    /\ jobCount <= MaxJobs /\ stops <= MaxStops

Init ==
    /\ up = TRUE /\ startup = "loading" /\ settings = Default
    /\ workers = Loading(0, Default) /\ candidate = None /\ pools = {0} /\ busy = FALSE /\ job = None
    /\ packages = [e \in Engines |-> "none"] /\ marked = {} /\ manifest = {Default} /\ selection = None
    /\ active = None /\ jobCount = 0 /\ stops = 0

-----------------------------------------------------------------------------
(* Start-up                                                                *)

Outcomes(choice) == IF choice \in Loadable THEN {"ready", "failed"} ELSE {"failed"}

\* The speech model may be ready before prepare() goes on.
AsrLoaded ==
    /\ up /\ workers.asr = "loading"
    /\ \E outcome \in Outcomes(workers.of) : workers' = [workers EXCEPT !.asr = outcome]
    /\ UNCHANGED <<up, startup, settings, candidate, pools, busy, job, disk, active, jobCount, stops>>

\* resume_pending claims the slot for a session that waits, and raises when it is taken.
Prepared ==
    /\ up /\ startup = "loading" /\ workers.asr # "loading"
    /\ \/ startup' = "detector" /\ UNCHANGED active
       \/ active = None /\ active' = workers.id /\ startup' = "detector"
       \/ active # None /\ startup' = "failed" /\ UNCHANGED active
    /\ UNCHANGED <<up, engines, job, disk, jobCount, stops>>

\* prepare() marks the workers it started with; without a detector it has ended as well.
DetectorLoaded ==
    /\ up /\ startup = "detector"
    /\ \/ startup' = "done" /\ workers' = [workers EXCEPT !.vad = (workers.id = 0)]
       \/ startup' = "failed" /\ UNCHANGED workers
    /\ UNCHANGED <<up, settings, candidate, pools, busy, job, disk, active, jobCount, stops>>

-----------------------------------------------------------------------------
(* Transcriptions, and what submit refuses                                 *)

Claim ==
    /\ up /\ active = None /\ ~busy /\ workers.asr = "ready"
    /\ active' = workers.id
    /\ UNCHANGED <<up, startup, engines, job, disk, jobCount, stops>>
Release ==
    /\ up /\ active # None /\ active' = None
    /\ UNCHANGED <<up, startup, engines, job, disk, jobCount, stops>>

StartedAny == TRUE                                          \* Mutant: while the start-up still loads
Started == startup \in {"done", "failed"}
Unclaimed(action) == busy' = busy                           \* Mutant: the swap is not announced
Claimed(action) == busy' = (action = "selection" \/ busy)

Submit(action, choice) ==
    /\ up /\ ~Running /\ jobCount < MaxJobs /\ jobCount' = jobCount + 1
    /\ action = "selection" => Started /\ active = None /\ Installed(choice)
    /\ Claimed(action)
    /\ job' = [action |-> action, choice |-> choice, status |-> "queued", pc |-> "start"]
    /\ UNCHANGED <<up, startup, settings, workers, candidate, pools, disk, active, stops>>

-----------------------------------------------------------------------------
(* execute: the end of a job, install and select                           *)

Doing(action, pc) == up /\ Running /\ job.action = action /\ job.pc = pc
Goto(pc) == job' = [job EXCEPT !.status = "running", !.pc = pc] /\ UNCHANGED busy

\* finally: management_busy is cleared whatever the job was.
BusyStays(status) == job' = [job EXCEPT !.status = status] /\ UNCHANGED busy  \* Mutant: not after a failure
Ended(status) == job' = [job EXCEPT !.status = status] /\ busy' = FALSE

InstallStep == UNCHANGED <<up, startup, settings, workers, candidate, pools, selection, active, jobCount, stops>>

\* Too little space, or a missing uv, ends the job; an environment that is marked is kept.
Install ==
    /\ Doing("install", "start")
    /\ \/ job.choice.engine \notin marked /\ Goto("venv")
       \/ job.choice.engine \in marked /\ Goto("download")
       \/ Ended("failed")
    /\ InstallStep /\ UNCHANGED <<packages, marked, manifest>>

\* An environment that is there is used again, however it was left.
Venv ==
    /\ Doing("install", "venv")
    /\ \/ /\ Goto("pip")
          /\ packages' = [packages EXCEPT ![job.choice.engine] = IF @ = "none" THEN "bare" ELSE @]
       \/ /\ packages[job.choice.engine] = "none" /\ Ended("failed")
          /\ packages' \in {packages, [packages EXCEPT ![job.choice.engine] = "bare"]}
    /\ InstallStep /\ UNCHANGED <<marked, manifest>>

Pip ==
    /\ Doing("install", "pip")
    /\ \E found \in {"broken", "good"} : packages' = [packages EXCEPT ![job.choice.engine] = found]
    /\ Goto("check") \/ Ended("failed")
    /\ InstallStep /\ UNCHANGED <<marked, manifest>>

\* The engine counts as installed when it was imported once.
ImportsAny(engine) == TRUE                                  \* Mutant: marked without the import
Imports(engine) == packages[engine] = "good"
Check ==
    /\ Doing("install", "check")
    /\ \/ /\ Imports(job.choice.engine) /\ Goto("download")
          /\ marked' = marked \cup {job.choice.engine}
       \/ Ended("failed") /\ UNCHANGED marked
    /\ InstallStep /\ UNCHANGED <<packages, manifest>>

Download ==
    /\ Doing("install", "download")
    /\ \/ manifest' = manifest \cup {job.choice} /\ Ended("completed")
       \/ Ended("failed") /\ UNCHANGED manifest
    /\ InstallStep /\ UNCHANGED <<packages, marked>>

Select ==
    /\ Doing("selection", "start") /\ Goto("loading")
    /\ candidate' = Loading(jobCount, job.choice) /\ pools' = pools \cup {jobCount}
    /\ UNCHANGED <<up, startup, settings, workers, disk, active, jobCount, stops>>

\* The selection is written, and the workers are swapped, once the chosen model has loaded.
LoadedAny(outcome) == TRUE                                  \* Mutant: whatever the load gave
Loaded(outcome) == outcome = "ready"
ForgetCandidate == UNCHANGED pools                          \* Mutant: the candidate is left running
CloseCandidate == pools' = pools \ {candidate.id}
SwapOnly == UNCHANGED selection                             \* Mutant: not for the next start
WriteSelection == selection' = job.choice

Selected ==
    /\ Doing("selection", "loading")
    /\ \E outcome \in Outcomes(job.choice) :
           \/ /\ Loaded(outcome) /\ WriteSelection
              /\ workers' = [candidate EXCEPT !.asr = outcome, !.vad = workers.vad]
              /\ settings' = job.choice /\ pools' = pools \ {workers.id}
              /\ Ended("completed")
           \/ /\ CloseCandidate /\ UNCHANGED <<selection, workers, settings>>
              /\ Ended("failed")
    /\ candidate' = None
    /\ UNCHANGED <<up, startup, packages, marked, manifest, active, jobCount, stops>>

-----------------------------------------------------------------------------
(* Stop and restart                                                        *)

\* A stop cancels the job, which says so unless it has not begun; a crash leaves everything as
\* it is.  A command that is terminated leaves its environment as far as it came.
Down ==
    /\ up /\ stops < MaxStops /\ stops' = stops + 1 /\ up' = FALSE
    /\ job' = IF Running /\ job.pc # "start" THEN [job EXCEPT !.status = "failed"] ELSE job
    /\ busy' = FALSE /\ candidate' = None /\ pools' = {}
    /\ UNCHANGED <<startup, settings, workers, disk, active, jobCount>>
Crash ==
    /\ up /\ stops < MaxStops /\ stops' = stops + 1 /\ up' = FALSE
    /\ UNCHANGED <<startup, engines, job, active, jobCount, disk>>

LoadDefault == Default                                      \* Mutant: the selection is not read
LoadSelection == IF selection = None THEN Default ELSE selection
Restart ==
    /\ ~up /\ up' = TRUE /\ startup' = "loading"
    /\ settings' = LoadSelection /\ workers' = Loading(0, LoadSelection)
    /\ candidate' = None /\ pools' = {0} /\ busy' = FALSE /\ active' = None
    /\ job' = IF Running THEN [job EXCEPT !.status = "failed"] ELSE job
    /\ UNCHANGED <<disk, jobCount, stops>>

Job == Install \/ Venv \/ Pip \/ Check \/ Download \/ Select \/ Selected
Next ==
    \/ AsrLoaded \/ Prepared \/ DetectorLoaded
    \/ Claim \/ Release
    \/ \E action \in {"install", "selection"}, choice \in Choices : Submit(action, choice)
    \/ Job \/ Down \/ Crash \/ Restart

Spec == Init /\ [][Next]_srVars

-----------------------------------------------------------------------------
(* Properties                                                              *)

\* An engine that counts as installed can be imported, however often an installation was
\* broken off before and in whatever state it left the environment.
MarkedIsUsable == \A e \in marked : packages[e] = "good"

\* A model that cannot be loaded never becomes the selection, and so the engine that a
\* restart loads is one that has loaded before.
SelectionHasLoaded == selection # None => selection \in Loadable /\ Installed(selection)

\* What transcribes, what the settings say and what a restart would load are the same.
OneSelection == up => workers.of = settings /\ settings = LoadSelection

\* Every set of worker processes is closed but the one in use and the one that is loading.
NoPoolIsLeft == up => pools = {w.id : w \in {workers, candidate} \ {None}}

\* Workers are not swapped under a transcription that has started with them.
WorkersStay == active # None => active = workers.id

\* The voice detector that was loaded is known to the workers in use: it is marked on those
\* of the start-up, which no selection may have replaced before, and handed on by every swap.
DetectorIsKnown == up /\ startup = "done" => workers.vad

\* A selection stops transcriptions only for as long as it loads.
BusyEnds == busy ~> ~busy
=============================================================================
