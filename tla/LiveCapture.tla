-------------------------------- MODULE LiveCapture --------------------------------
(***************************************************************************)
(* LiveCapture: one microphone session while it records.  The socket       *)
(* handler appends frames and has the voice detector hear them in a        *)
(* thread; schedule() starts at most one transcription and one speaker     *)
(* analysis; finish() flushes, drains what is left and closes the session. *)
(*                                                                         *)
(* Time is in units of a second, the overlap of two windows, which is also *)
(* the longest frame.  audio is what the buffer holds of each unit.  The   *)
(* speech engine is assumed to find a word in every unit of speech of its  *)
(* window; words[u] is the wording it gave for unit u, 0 when it gave      *)
(* none.  The intervals of schedule() are left to chance.                  *)
(***************************************************************************)
EXTENDS Naturals, Sequences, FiniteSetsExt

CONSTANTS
    Length,     \* bound: units of a recording
    WINDOW,     \* longest window of one transcription
    CONTEXT,    \* shortest window while speech goes on
    MAX_GAP,    \* longest gap between two frames
    Wordings    \* bound: wordings an inference may choose from, 1..Wordings

VARIABLES
    frames,     \* what the client sent: set of [at, sound] that were accepted
    nextSample, \* next_sample of the stream
    held,       \* what the resampler holds back, at most a unit
    audio,
    appending,  \* append: idle, feeding the detector, or fed
    heard,      \* units speech_ranges knows of
    lastSpeech, processed, attempt,
    stable,     \* stable_before
    words,
    asr,        \* the transcription: [pc, begin, end, final]
    diar,       \* end of the speaker analysis that runs, or 0
    diarUntil, asrFailed, diarFailed,
    finish,     \* where finish() is
    interrupted,
    stopped,    \* the position the client named in its stop frame
    state, alive

vars == <<frames, nextSample, held, audio, appending, heard, lastSpeech, processed, attempt, stable, words,
          asr, diar, diarUntil, asrFailed, diarFailed, finish, interrupted, stopped, state, alive>>
input == <<frames, nextSample, held, audio, appending, heard, lastSpeech, stopped>>
progress == <<processed, attempt, stable, words, asr, asrFailed>>
speakers == <<diar, diarUntil, diarFailed>>
ending == <<finish, interrupted, state>>

Units == 1..Length
Sounds == {"speech", "silence"}
Idle == [pc |-> "idle", begin |-> 0, end |-> 0, final |-> FALSE]
Size == Len(audio)

TypeOK ==
    /\ frames \subseteq [at : Units, sound : Sounds] /\ nextSample \in 0..Length /\ Len(held) <= 1
    /\ Size <= Length /\ \A u \in 1..Size : audio[u] \in Sounds \cup {"gap"}
    /\ appending \in {"idle", "feeding", "fed"}
    /\ heard <= Size /\ lastSpeech <= heard /\ processed <= Size /\ attempt <= Size /\ stable <= Size
    /\ words \in [Units -> 0..Wordings]
    /\ asr.end <= Size /\ diar <= Size /\ diarUntil <= Size
    /\ finish \in {"none", "closing", "flushing", "awaiting", "draining", "transcribing", "ready",
                   "diarizing", "publishing", "saving", "leaving", "ended"}
    /\ state \in {"RECORDING", "FINALIZING", "COMPLETED", "PARTIAL", "INTERRUPTED"}
    /\ {asrFailed, diarFailed, interrupted, alive} \subseteq BOOLEAN /\ stopped \in 0..Length

Init ==
    /\ frames = {} /\ nextSample = 0 /\ held = <<>> /\ audio = <<>> /\ appending = "idle"
    /\ heard = 0 /\ lastSpeech = 0 /\ processed = 0 /\ attempt = 0 /\ stable = 0
    /\ words = [u \in Units |-> 0]
    /\ asr = Idle /\ diar = 0 /\ diarUntil = 0 /\ asrFailed = FALSE /\ diarFailed = FALSE
    /\ finish = "none" /\ interrupted = FALSE /\ stopped = 0
    /\ state = "RECORDING" /\ alive = TRUE

-----------------------------------------------------------------------------
(* The socket: frames, stop, and everything that breaks the connection     *)

\* What push hands on: the samples that are missing are replaced by silence.
FilledNot(p, sound) == <<sound>>                            \* Mutant: the gap is not filled
Filled(p, sound) == [u \in 1..(p - nextSample) |-> IF u = p - nextSample THEN sound ELSE "gap"]


\* A frame that follows what was received, possibly after lost ones.
Receive(p, sound) ==
    /\ finish = "none" /\ appending = "idle" /\ p > nextSample /\ p - nextSample - 1 <= MAX_GAP
    /\ frames' = frames \cup {[at |-> p, sound |-> sound]} /\ nextSample' = p
    /\ \E kept \in 0..1 :
           LET all == held \o Filled(p, sound)
           IN  /\ audio' = audio \o SubSeq(all, 1, Len(all) - kept)
               /\ held' = SubSeq(all, Len(all) - kept + 1, Len(all))
    /\ appending' = "feeding"
    /\ UNCHANGED <<heard, lastSpeech, stopped, progress, speakers, ending, alive>>

\* The detector runs in a thread: first it knows the ranges, then append returns.
Speech(n) == {u \in 1..n : audio[u] = "speech"}
Feed ==
    /\ appending = "feeding" /\ appending' = "fed" /\ heard' = Size
    /\ UNCHANGED <<frames, nextSample, held, audio, lastSpeech, stopped, progress, speakers, ending, alive>>
Fed ==
    /\ appending = "fed" /\ appending' = "idle" /\ lastSpeech' = Max(Speech(heard) \cup {0})
    /\ UNCHANGED <<frames, nextSample, held, audio, heard, stopped, progress, speakers, ending, alive>>

Close(broken) == finish' = "closing" /\ interrupted' = broken /\ UNCHANGED state

\* A stop frame that names another last sequence than the last received is refused.
AcceptedAny(last) == TRUE                                   \* Mutant: a lost end is not noticed
Accepted(last) == last = nextSample
Stop(last) ==
    /\ finish = "none" /\ appending = "idle" /\ last >= nextSample /\ Accepted(last)
    /\ stopped' = last /\ Close(FALSE)
    /\ UNCHANGED <<frames, nextSample, held, audio, appending, heard, lastSpeech, progress, speakers, alive>>

\* Disconnection, 15 silent seconds, a frame out of order or after too long a gap.
Interrupt ==
    /\ finish = "none" /\ appending = "idle" /\ Close(TRUE)
    /\ UNCHANGED <<input, progress, speakers, alive>>

Delete ==
    /\ alive /\ alive' = FALSE
    /\ UNCHANGED <<input, progress, speakers, ending>>

-----------------------------------------------------------------------------
(* transcribe                                                              *)

\* A unit without speech ends a range of the detector and is a pause.  A window starts at
\* the first range that reaches into it, but no more than a unit before processed.
Least(a, b) == IF a < b THEN a ELSE b
Relevant(end) == {u \in Speech(Least(end, heard)) : u >= processed}
IsSilent(end) == Relevant(end) = {}
SpeechWindowStart(end) == Min(Relevant(end)) - 1
Silence(end) == end > lastSpeech

\* Without speech the position advances and nothing is inferred.
Skip(end) ==
    /\ processed' = end /\ attempt' = end /\ stable' = end
    /\ UNCHANGED <<words, asr, asrFailed>>
Start(end, final) ==
    /\ asr' = [pc |-> "running", begin |-> SpeechWindowStart(end), end |-> end, final |-> final]
    /\ UNCHANGED <<processed, attempt, stable, words, asrFailed>>

\* merge_words: in the window, what is stable stays and what is not is replaced.
MergedAll(wording) ==                                       \* Mutant: rewrites the whole window
    [u \in Units |-> IF u \in asr.begin + 1..asr.end
                     THEN IF audio[u] = "speech" THEN wording ELSE 0
                     ELSE words[u]]
Merged(wording) ==
    [u \in Units |-> IF u \in asr.begin + 1..asr.end /\ u > stable
                     THEN IF audio[u] = "speech" THEN wording ELSE 0
                     ELSE words[u]]
StableAfter ==
    LET end == asr.end
        least == IF asr.final \/ Silence(end) THEN end
                 ELSE IF end > 0 THEN end - 1 ELSE 0
    IN  IF least > stable THEN least ELSE stable

FailedMoves == processed' = asr.end                         \* Mutant: a failed window counts
FailedStays == UNCHANGED processed
\* An error before the result was merged, or after it while it is published.
Result ==
    /\ asr.pc = "running" /\ asr' = Idle /\ attempt' = asr.end
    /\ \/ /\ alive
          /\ \E wording \in 1..Wordings : words' = Merged(wording)
          /\ stable' = StableAfter /\ processed' = asr.end
          /\ asrFailed' \in BOOLEAN
       \/ alive /\ asrFailed' = TRUE /\ FailedStays /\ UNCHANGED <<words, stable>>
       \/ ~alive /\ UNCHANGED <<words, stable, processed, asrFailed>>

-----------------------------------------------------------------------------
(* schedule                                                                *)

Window == Least(Size, processed + WINDOW)
\* One round looks at the transcription and at the speaker analysis without waiting in
\* between; when only one of them is due it is the other's action that does not happen.
Schedule ==
    /\ finish = "none" /\ alive /\ asr.pc = "idle" /\ Size > attempt
    /\ lastSpeech > attempt \/ (0 < processed /\ stable < processed /\ Silence(Size))
    /\ Window > processed
    /\ \/ IsSilent(Window) /\ Skip(Window)
       \/ /\ ~IsSilent(Window)
          /\ (Window - SpeechWindowStart(Window) >= CONTEXT \/ Silence(Size))
          /\ Start(Window, FALSE)
    /\ UNCHANGED <<input, speakers, ending, alive>>
Transcribed ==
    /\ finish # "transcribing" /\ Result
    /\ UNCHANGED <<input, speakers, ending, alive>>

Diarize ==
    /\ finish = "none" /\ alive /\ diar = 0 /\ Size > diarUntil
    /\ diar' = Size /\ UNCHANGED <<diarUntil, diarFailed>>
    /\ UNCHANGED <<input, progress, ending, alive>>
DiarizeResult ==
    /\ diar > 0 /\ diar' = 0
    /\ \/ alive /\ diar >= diarUntil /\ diarUntil' = diar /\ diarFailed' \in BOOLEAN
       \/ alive /\ diarFailed' = TRUE /\ UNCHANGED diarUntil
       \/ ~alive /\ UNCHANGED <<diarUntil, diarFailed>>
Diarized ==
    /\ finish # "diarizing" /\ DiarizeResult
    /\ UNCHANGED <<input, progress, ending, alive>>

-----------------------------------------------------------------------------
(* finish                                                                  *)

Goto(pc) == finish' = pc /\ UNCHANGED <<interrupted, state>>

\* The scheduler has ended; the rest of the resampler is appended.
FlushNothing == <<>>                                        \* Mutant: the rest is not flushed
Flush == held
Flushed ==
    /\ finish = "closing"
    /\ \/ ~alive /\ Goto("leaving") /\ UNCHANGED input
       \/ /\ alive /\ finish' = "flushing" /\ state' = "FINALIZING" /\ UNCHANGED interrupted
          /\ audio' = audio \o Flush /\ held' = <<>> /\ appending' = "feeding"
          /\ UNCHANGED <<frames, nextSample, heard, lastSpeech, stopped>>
    /\ UNCHANGED <<progress, speakers, alive>>
FlushedHeard ==
    /\ finish = "flushing" /\ appending = "idle" /\ Goto("awaiting")
    /\ UNCHANGED <<input, progress, speakers, alive>>
TasksEnded ==
    /\ finish = "awaiting" /\ asr.pc = "idle" /\ diar = 0 /\ Goto("draining")
    /\ UNCHANGED <<input, progress, speakers, alive>>

Drain ==
    /\ finish = "draining" /\ processed < Size /\ alive
    /\ \/ /\ lastSpeech = 0 /\ words = [u \in Units |-> 0]
          /\ processed' = Size /\ Goto("ready")
          /\ UNCHANGED <<attempt, stable, words, asr, asrFailed>>
       \/ /\ lastSpeech > 0 \/ words # [u \in Units |-> 0]
          /\ \/ IsSilent(Window) /\ Skip(Window) /\ Goto("draining")
             \/ ~IsSilent(Window) /\ Start(Window, Window = Size) /\ Goto("transcribing")
    /\ UNCHANGED <<input, speakers, alive>>

\* A window that did not advance is not tried again.
AgainAlways == "draining"                                   \* Mutant: retries what failed
Again == IF processed' = processed THEN "ready" ELSE "draining"
Drained ==
    /\ finish = "transcribing" /\ Result /\ Goto(Again)
    /\ UNCHANGED <<input, speakers, alive>>
DrainEnds ==
    /\ finish = "draining" /\ (processed = Size \/ ~alive)
    /\ Goto("ready")
    /\ UNCHANGED <<input, progress, speakers, alive>>

LastDiarize ==
    /\ finish = "ready"
    /\ \/ alive /\ Size > 0 /\ diar' = Size /\ Goto("diarizing")
       \/ ~(alive /\ Size > 0) /\ UNCHANGED diar /\ Goto("publishing")
    /\ UNCHANGED <<diarUntil, diarFailed, input, progress, alive>>
LastDiarized ==
    /\ finish = "diarizing" /\ DiarizeResult /\ Goto("publishing")
    /\ UNCHANGED <<input, progress, alive>>

Publish ==
    /\ finish = "publishing"
    /\ \/ ~alive /\ Goto("leaving") /\ UNCHANGED progress
       \/ /\ alive /\ stable' = Size /\ Goto("saving")
          /\ UNCHANGED <<processed, attempt, words, asr, asrFailed>>
    /\ UNCHANGED <<input, speakers, alive>>

OutcomeByDiar == IF interrupted THEN "INTERRUPTED"          \* Mutant: asr_failed is forgotten
                 ELSE IF diarFailed THEN "PARTIAL" ELSE "COMPLETED"
Outcome == IF interrupted THEN "INTERRUPTED"
           ELSE IF diarFailed \/ asrFailed THEN "PARTIAL" ELSE "COMPLETED"
\* After save_wav, when audio is retained.
Conclude ==
    /\ finish = "saving" /\ finish' = "leaving" /\ UNCHANGED interrupted
    /\ state' = (IF alive THEN Outcome ELSE state)
    /\ UNCHANGED <<input, progress, speakers, alive>>

FinishFails ==
    /\ finish \in {"closing", "publishing", "saving"} \/ (finish = "flushing" /\ appending = "feeding")
    /\ finish' = "leaving" /\ UNCHANGED interrupted
    /\ state' = (IF alive THEN "PARTIAL" ELSE state)
    /\ appending' = "idle" /\ UNCHANGED <<frames, nextSample, held, audio, heard, lastSpeech, stopped>>
    /\ UNCHANGED <<progress, speakers, alive>>

\* Also for a deleted session the slot is kept until the engines have returned.
EndedAtOnce == TRUE                                         \* Mutant: released at once
Ended == asr.pc = "idle" /\ diar = 0
Release ==
    /\ finish = "leaving" /\ Ended /\ Goto("ended")
    /\ UNCHANGED <<input, progress, speakers, alive>>

-----------------------------------------------------------------------------
Finishing ==
    \/ Flushed \/ FlushedHeard \/ TasksEnded \/ Drain \/ Drained \/ DrainEnds
    \/ LastDiarize \/ LastDiarized \/ Publish \/ Conclude \/ Release
Next ==
    \/ \E p \in Units, sound \in Sounds : Receive(p, sound)
    \/ Feed \/ Fed \/ \E last \in Units : Stop(last)
    \/ Interrupt \/ Delete
    \/ Schedule \/ Transcribed \/ Diarize \/ Diarized
    \/ Finishing \/ FinishFails

Spec == Init /\ [][Next]_vars

-----------------------------------------------------------------------------
(* Properties                                                              *)

\* What is heard stays at the time it was said: every frame sits in the buffer at its own
\* position whatever was lost before it, and nothing else does.
PositionsHold ==
    finish \notin {"none", "closing"} =>
        \A u \in 1..Size :
            \/ [at |-> u, sound |-> audio[u]] \in frames
            \/ audio[u] = "gap" /\ \A sound \in Sounds : [at |-> u, sound |-> sound] \notin frames

\* Text is declared final only where the engine listened: no pause skipped, no window that
\* failed and no block the detector had not heard yet hides speech before stable_before.
StableIsTranscribed ==
    finish \notin {"saving", "leaving", "ended"} =>
        \A u \in 1..stable : audio[u] = "speech" => words[u] # 0

\* A recording that counts as complete is complete: every frame up to the position the
\* client named is in the buffer, all its speech was transcribed, and the speaker analysis
\* covers it to its end.
CompletedIsWhole ==
    state = "COMPLETED" =>
        /\ Size = stopped /\ diarUntil = Size
        /\ \A u \in 1..Size : audio[u] = "speech" => words[u] # 0

\* The slot is given back only when no engine works for the session any more.
ReleasedIsQuiet == finish = "ended" => asr.pc = "idle" /\ diar = 0

\* What a user has read as stable is not rewritten by a later window.
StableWordsStay == [][\A u \in 1..stable : words'[u] = words[u]]_vars

\* A session that is closed ends, also when the engine fails on every window.
Ending == finish \notin {"none", "ended"}
FinishEnds == Ending ~> ~Ending
=============================================================================
