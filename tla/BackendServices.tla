------------------------------ MODULE BackendServices ------------------------------
(***************************************************************************)
(* The speech modules of the backend in one run.  The scenario is chosen   *)
(* by the initial state and never changes: its module moves, the others    *)
(* stay in their initial state, so the state space is the sum of theirs.   *)
(* A constraint named after a scenario keeps apart what need not meet to   *)
(* reach the cases its properties are about.                               *)
(***************************************************************************)
EXTENDS Naturals, FiniteSets

CONSTANTS
    None,
    Blocks, Readers, MaxAsks,                                       \* StreamingUpload
    Recording, WINDOW, CONTEXT, MAX_GAP, Inferences,                \* LiveCapture
    ScriptLength, NEAR_START, NEAR_END, JOIN_GAP, JOIN_LENGTH, SCRIPT_GAP,
    UNKNOWN, Speakers, Texts, MaxWords, MaxPasses, MaxCorrections,  \* TranscriptPublishing
    Talk, Labels, MaxAnalyses,                                      \* SpeakerMapping
    Engines, Models, OwnEngine, SmallModel, MaxJobs, MaxStops       \* SpeechRuntime

\* One assumption for each module that a theorem is about.  None is no choice, no pool and no job.
ASSUME RuntimeAssumption ==
    /\ OwnEngine \in Engines /\ SmallModel \in Models /\ {MaxJobs, MaxStops} \subseteq Nat
    /\ LET choices == [engine : Engines, model : Models] IN
        /\ None \notin choices
        /\ None \notin [id : Nat, of : choices, asr : {"loading", "ready", "failed"}, vad : BOOLEAN]
        /\ None \notin [action : {"install", "selection"}, choice : choices,
                        status : {"queued", "running", "failed", "completed"},
                        pc : {"start", "venv", "pip", "check", "download", "loading"}]

ASSUME UploadAssumption == MaxAsks \in Nat
ASSUME TalkAssumption ==
    Talk \in Nat /\ Labels \subseteq Nat /\ IsFiniteSet(Labels) /\ MaxAnalyses \in Nat
ASSUME PublishingAssumption == {ScriptLength, MaxWords, MaxPasses, MaxCorrections} \subseteq Nat
ASSUME CaptureAssumption == {Recording, CONTEXT, MAX_GAP, Inferences} \subseteq Nat /\ WINDOW \in Nat \ {0}

VARIABLES
    received, written, mutex, complete, closed, silent, reader, decoder, process, asked,
    server, closer, runner, fd,
    frames, nextSample, held, audio, appending, heard, lastSpeech, processed, attempt, stable,
    words, asr, diar, diarUntil, asrFailed, diarFailed, finish, interrupted, stopped, state, alive,
    utterances, events, seen, nextUtterance, passes, corrections,
    previous, nextId, mapping, turns, analyses,
    up, startup, settings, workers, candidate, pools, busy, job, packages, marked, manifest,
    selection, active, jobCount, stops,
    scenario

Up == INSTANCE StreamingUpload
Lc == INSTANCE LiveCapture WITH Length <- Recording, Wordings <- Inferences
Tp == INSTANCE TranscriptPublishing WITH Length <- ScriptLength, Wordings <- Texts
Sm == INSTANCE SpeakerMapping WITH Length <- Talk
\* The machine loads the small models only.
Sr == INSTANCE SpeechRuntime WITH
          BuiltIn <- {OwnEngine}, Loadable <- [engine : Engines, model : {SmallModel}],
          Default <- [engine |-> OwnEngine, model |-> SmallModel]

ul == <<received, written, mutex, complete, closed, silent, reader, decoder, process, asked,
        server, closer, runner, fd>>
lc == <<frames, nextSample, held, audio, appending, heard, lastSpeech, processed, attempt, stable,
        words, asr, diar, diarUntil, asrFailed, diarFailed, finish, interrupted, stopped, state, alive>>
tp == <<utterances, events, seen, nextUtterance, passes, corrections>>
sm == <<previous, nextId, mapping, turns, analyses>>
sr == <<up, startup, settings, workers, candidate, pools, busy, job, packages, marked, manifest,
        selection, active, jobCount, stops>>
all == <<ul, lc, tp, sm, sr, scenario>>

-----------------------------------------------------------------------------
Scenarios == {"upload", "capture", "publishing", "speakers", "runtime"}

Init ==
    /\ scenario \in Scenarios
    /\ Up!Init /\ Lc!Init /\ Tp!Init /\ Sm!Init /\ Sr!Init

\* A session is deleted, and its speakers are analysed, within the first units of a recording.
Capture == (alive' \/ nextSample' <= 2) /\ (diar' > 0 /\ finish' = "none" => nextSample' <= 2)
\* The first pass hears one speaker, nobody at once, and one kind of utterances; the user reads
\* before the last one, and corrects the text or the speaker.
Publishing ==
    /\ passes' = 1 => \A i \in DOMAIN utterances' : /\ utterances'[i].speaker = utterances'[1].speaker
                                                    /\ utterances'[i].status = utterances'[1].status
                                                    /\ ~utterances'[i].overlap
    /\ passes' = MaxPasses => seen' \in {seen, None}
    /\ \A i \in DOMAIN utterances' : Cardinality(utterances'[i].manual) <= 1

Rest(a, b, c, d) == UNCHANGED <<a, b, c, d, scenario>>
Uploading(A) == scenario = "upload" /\ A /\ Rest(lc, tp, sm, sr)
Capturing(A) == scenario = "capture" /\ A /\ Capture /\ Rest(ul, tp, sm, sr)
Managing(A) == scenario = "runtime" /\ A /\ Rest(ul, lc, tp, sm)
Next ==
    \/ Uploading(Up!Next)
    \/ Capturing(Lc!Next)
    \/ scenario = "publishing" /\ Tp!Next /\ Publishing /\ Rest(ul, lc, sm, sr)
    \/ scenario = "speakers" /\ Sm!Next /\ Rest(ul, lc, tp, sr)
    \/ Managing(Sr!Next)

\* Threads, processes and timers of the modules go on; so do the jobs of the runtime manager,
\* and an application that has stopped is started again.
Fairness ==
    /\ WF_all(Uploading(Up!Write)) /\ WF_all(Uploading(Up!FallSilent))
    /\ WF_all(Uploading(Up!RunMustEnd)) /\ WF_all(Uploading(Up!Dispose))
    /\ WF_all(Uploading(Up!Decode)) /\ WF_all(Uploading(Up!Spawn)) /\ WF_all(Uploading(Up!Reaped))
    /\ WF_all(Uploading(Up!Trail)) /\ WF_all(Uploading(Up!CancelDecoder))
    /\ WF_all(Uploading(Up!ExitUnserved))
    /\ \A r \in Readers : /\ WF_all(Uploading(Up!WaitForBlock(r)))
                          /\ WF_all(Uploading(Up!ReadAt(r))) /\ WF_all(Uploading(Up!Sent(r)))
    /\ \A c \in {"run", "delete"} : /\ SF_all(Uploading(Up!Close(c)))
                                    /\ WF_all(Uploading(Up!Closed(c)))
    /\ WF_all(Capturing(Lc!Feed)) /\ WF_all(Capturing(Lc!Fed)) /\ WF_all(Capturing(Lc!Transcribed))
    /\ WF_all(Capturing(Lc!Diarized)) /\ WF_all(Capturing(Lc!Finishing))
    /\ WF_all(Managing(Sr!Job)) /\ WF_all(Managing(Sr!Restart))

Spec == Init /\ [][Next]_all /\ Fairness

-----------------------------------------------------------------------------
(* The properties of the modules, where each part is explained             *)

\* Audio is neither lost, invented nor displaced on its way to the engines, whether its
\* blocks arrive while FFmpeg decodes or its frames while the user speaks; and nothing
\* works with it any more when it is released.
AudioHolds ==
    /\ Up!TypeOK /\ Up!NoGapIsRead /\ Up!DecodedWhole /\ Up!QuietAfterDispose
    /\ Lc!TypeOK /\ Lc!PositionsHold /\ Lc!StableIsTranscribed /\ Lc!CompletedIsWhole
    /\ Lc!ReleasedIsQuiet

\* The events and the script tell what the transcript tells, every utterance has an id of its
\* own, and two voices are never given one name.
TranscriptHolds ==
    /\ Tp!TypeOK /\ Tp!EventsTellTheSession /\ Tp!OneRowEach /\ Tp!ScriptKeepsAll
    /\ Sm!TypeOK /\ Sm!SpeakersStayApart /\ Sm!EvidenceIsExclusive

\* Through failing installations and loads, stops and restarts the engine in use is the one
\* that was selected, can be loaded, knows the voice detector and is not swapped under a
\* transcription; no worker process is left behind.
RuntimeHolds ==
    /\ Sr!TypeOK /\ Sr!MarkedIsUsable /\ Sr!SelectionHasLoaded /\ Sr!OneSelection
    /\ Sr!NoPoolIsLeft /\ Sr!WorkersStay /\ Sr!DetectorIsKnown

\* What a user has read as final, or has corrected, stays and is told by nothing else; a
\* correction changes only what its user has read.
ReadTextStays ==
    Lc!StableWordsStay /\ Tp!CorrectionsStay /\ Tp!LeftToCorrections /\ Tp!CorrectsWhatWasRead

\* Every upload, every closed microphone session and every pause for a selection ends.
\* (The scenario never changes, so this is UploadEnds, FinishEnds and BusyEnds at once.)
Waiting == (scenario = "upload" /\ Up!Working) \/ Lc!Ending \/ busy
SpeechEnds == Waiting ~> ~Waiting
=============================================================================
