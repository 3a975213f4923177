---------------------------- MODULE TranscriptPublishing ----------------------------
(***************************************************************************)
(* TranscriptPublishing: every pass over the audio assembles words into    *)
(* candidates, and Repository.publish fits them to the utterances of the   *)
(* session, which users correct in the meantime.  Events record each       *)
(* revision that is not partial.                                           *)
(*                                                                         *)
(* An utterance is [id, revision, start, end, text, speaker, overlap,      *)
(* status, manual]; its text is the sequence of its words, or a            *)
(* correction, and overlap says that several people speak.  The times are  *)
(* in steps; the thresholds of the code are constants.                     *)
(***************************************************************************)
EXTENDS Integers, SequencesExt

CONSTANTS
    Length,                 \* bound: steps of audio
    NEAR_START, NEAR_END,   \* how far an utterance may move and be the same (250 and 400 ms)
    JOIN_GAP, JOIN_LENGTH,  \* words join within such a gap, up to such a length (900 ms, 10 s)
    SCRIPT_GAP, UNKNOWN,    \* blocks of the script join; unknown speech is absorbed (3 s, 2 s)
    Speakers, None,
    Wordings,               \* bound: texts a pass may give to a word
    MaxWords,               \* bound: words a pass hears
    MaxPasses, MaxCorrections

VARIABLES
    utterances,     \* the session's, in order
    events,         \* the table events
    seen,           \* the utterance a user has on the screen, or None
    nextUtterance,  \* ids are handed out in order
    passes, corrections

tpVars == <<utterances, events, seen, nextUtterance, passes, corrections>>

Ids(list) == {list[i].id : i \in DOMAIN list}
Manual(u) == u.manual # {}
Meets(u, v) == u.start < v.end /\ v.start < u.end
Distance(a, b) == IF a < b THEN b - a ELSE a - b

TypeOK ==
    /\ \A u \in ToSet(utterances) \cup events :
           /\ u.id < nextUtterance /\ u.revision > 0 /\ 0 <= u.start /\ u.start < u.end /\ u.end <= Length
           /\ u.status \in {"partial", "stable", "corrected", "retracted"}
           /\ u.manual \subseteq {"text", "speaker"} /\ u.speaker \in Speakers \cup {None}
           /\ u.overlap \in BOOLEAN
    /\ \A u \in ToSet(utterances) : u.status # "retracted"
    /\ \A u \in events : u.status # "partial"
    /\ passes <= MaxPasses /\ corrections <= MaxCorrections

Init ==
    /\ utterances = <<>> /\ events = {} /\ seen = None /\ nextUtterance = 0
    /\ passes = 0 /\ corrections = 0

-----------------------------------------------------------------------------
(* What a pass hears                                                       *)

Steps == 0..Length - 1
Spans == {s \in [start : Steps, end : 1..Length] : s.end - s.start \in {1, 2}}

\* Words are sorted by start and end.  Nothing keeps them apart: two windows may place the same
\* moment differently, and several people speak at once.
Sorted(a, b) == a.start < b.start \/ (a.start = b.start /\ a.end <= b.end)
Hearings ==
    {h \in UNION {[1..n -> Spans] : n \in 0..MaxWords} : \A i, j \in DOMAIN h : i < j => Sorted(h[i], h[j])}

\* One wording for the pass; who speaks, if that is clear, and whether others do depend on the time.
Voices == [Spans -> Speakers \cup {None}]
Words(spans, wording, voice, overlaps) ==
    [i \in DOMAIN spans |->
        [start |-> spans[i].start, end |-> spans[i].end, wording |-> wording, speaker |-> voice[spans[i]],
         overlap |-> \E k \in overlaps : spans[i].start <= k /\ k < spans[i].end]]
Heard ==
    {Words(spans, wording, voice, overlaps) :
        spans \in Hearings, wording \in Wordings, voice \in Voices, overlaps \in SUBSET Steps}

-----------------------------------------------------------------------------
(* assemble                                                                *)

Word(w) == <<w.start, w.end, w.wording>>
Status(w, stable) == IF w.end <= stable THEN "stable" ELSE "partial"

\* No utterance goes over the border of one that was corrected.
Boundaries == UNION {{u.start, u.end} : u \in {v \in ToSet(utterances) : Manual(v)}}

Continues(u, w, stable) ==
    /\ u.speaker = w.speaker /\ u.status = Status(w, stable) /\ u.overlap = w.overlap
    /\ w.start - u.end < JOIN_GAP /\ w.end - u.start < JOIN_LENGTH
    /\ ~\E b \in Boundaries : u.start < b /\ b <= w.start

Began(w, stable) ==
    [id |-> None, revision |-> 1, start |-> w.start, end |-> w.end, text |-> <<Word(w)>>,
     speaker |-> w.speaker, overlap |-> w.overlap, status |-> Status(w, stable), manual |-> {}]
Joined(list, w, stable) ==
    IF list # <<>> /\ Continues(Last(list), w, stable)
    THEN Append(Front(list), [Last(list) EXCEPT !.end = w.end, !.text = Append(@, Word(w))])
    ELSE Append(list, Began(w, stable))
Assembled(words, stable) == FoldLeft(LAMBDA list, w : Joined(list, w, stable), <<>>, words)

-----------------------------------------------------------------------------
(* publish                                                                 *)

\* INSERT OR IGNORE, unique in (utterance, revision); partial results are not recorded.
Recorded(emitted) ==
    events \cup {u \in emitted : u.status # "partial" /\ ~\E e \in events : e.id = u.id /\ e.revision = u.revision}

\* A candidate that touches a corrected utterance is left to that one.
TakenAnyway(c) == FALSE                                     \* Mutant: candidates are not checked
Taken(c) == \E u \in ToSet(utterances) : Manual(u) /\ Meets(c, u)

Matches(c, used) ==
    {i \in DOMAIN utterances : LET u == utterances[i] IN
        /\ u.id \notin used /\ ~Manual(u)
        /\ Distance(u.start, c.start) <= NEAR_START /\ Distance(u.end, c.end) <= NEAR_END}

\* The next one keeps the id of the first utterance it matches; its revision grows if it differs.
Renewed(c, old) ==
    LET same == [c EXCEPT !.id = old.id, !.revision = old.revision]
    IN  IF same = old THEN old ELSE [same EXCEPT !.revision = @ + 1]
FitAgain(f, c) ==                                           \* Mutant: an id is given twice
    LET matches == Matches(c, {})
        new == IF matches # {} THEN Renewed(c, utterances[Min(matches)]) ELSE [c EXCEPT !.id = f.nextUtterance]
    IN  IF Taken(c) THEN f
        ELSE [output |-> f.output \cup {new}, used |-> f.used \cup {new.id},
              nextUtterance |-> IF matches # {} THEN f.nextUtterance ELSE f.nextUtterance + 1]
Fit(f, c) ==
    LET matches == Matches(c, f.used)
        new == IF matches # {} THEN Renewed(c, utterances[Min(matches)]) ELSE [c EXCEPT !.id = f.nextUtterance]
    IN  IF Taken(c) THEN f
        ELSE [output |-> f.output \cup {new}, used |-> f.used \cup {new.id},
              nextUtterance |-> IF matches # {} THEN f.nextUtterance ELSE f.nextUtterance + 1]
Fitted(candidates) == FoldLeft(Fit, [output |-> {}, used |-> {}, nextUtterance |-> nextUtterance], candidates)

\* A corrected utterance takes what was not corrected from the candidates it meets.
Related(u, candidates) == {i \in DOMAIN candidates : Meets(candidates[i], u)}
Said(candidates, places) ==
    FlattenSeq([i \in DOMAIN candidates |-> IF i \in places THEN candidates[i].text ELSE <<>>])
Overwritten(u, candidates) ==                               \* Mutant: the correction is lost
    IF Related(u, candidates) = {} THEN u
    ELSE [u EXCEPT !.text = Said(candidates, Related(u, candidates)), !.revision = @ + 1]
Refreshed(u, candidates) ==
    LET related == Related(u, candidates)
        voices == {candidates[i].speaker : i \in related}
        new == [u EXCEPT
            !.text = IF "text" \in u.manual THEN @ ELSE Said(candidates, related),
            !.speaker = IF "speaker" \in u.manual THEN @
                        ELSE IF Cardinality(voices) = 1 THEN CHOOSE s \in voices : TRUE ELSE None,
            !.overlap = \E i \in related : candidates[i].overlap]
    IN  IF related = {} \/ new = u THEN u ELSE [new EXCEPT !.revision = @ + 1]

\* What nothing matches is withdrawn, with a revision of its own.
RetractedSilently(u) == [u EXCEPT !.status = "retracted"]   \* Mutant: without a new revision
Retracted(u) == [u EXCEPT !.status = "retracted", !.revision = @ + 1]

\* By start.  What the pass heard comes before what was corrected; other ties are left open.
Ordered(u, v) == u.start < v.start \/ (u.start = v.start /\ (Manual(u) => Manual(v)))
InOrder(S) == {list \in SetToSeqs(S) : \A i, j \in DOMAIN list : i < j => Ordered(list[i], list[j])}

Publish(words, stable) ==
    LET old == ToSet(utterances)
        candidates == Assembled(words, stable)
        fitted == Fitted(candidates)
        output == fitted.output \cup {Refreshed(u, candidates) : u \in {v \in old : Manual(v)}}
        withdrawn == {Retracted(u) : u \in {v \in old : ~Manual(v) /\ v.id \notin fitted.used}}
    IN  /\ utterances' \in InOrder(output)
        /\ events' = Recorded((output \ old) \cup withdrawn)
        /\ nextUtterance' = fitted.nextUtterance

Pass ==
    /\ passes < MaxPasses /\ passes' = passes + 1
    /\ \E words \in Heard, stable \in 0..Length : Publish(words, stable)
    /\ UNCHANGED <<seen, corrections>>

-----------------------------------------------------------------------------
(* PATCH /utterances/{id} by a user who has read some revision             *)

Read(u) ==
    /\ corrections < MaxCorrections /\ seen' = u
    /\ UNCHANGED <<utterances, events, nextUtterance, passes, corrections>>

BaseOld(u) == TRUE                                          \* Mutant: no check of base_revision
BaseHolds(u) == u.revision = seen.revision
Corrected(u, text, speaker) ==
    [u EXCEPT !.text = IF text THEN <<"correction">> ELSE @,
              !.speaker = IF speaker = "same" THEN @ ELSE speaker,
              !.manual = @ \cup (IF text THEN {"text"} ELSE {})
                           \cup (IF speaker = "same" THEN {} ELSE {"speaker"}),
              !.status = "corrected", !.revision = @ + 1]

Correct(i, text, speaker) ==
    /\ seen # None /\ utterances[i].id = seen.id /\ BaseHolds(utterances[i])
    /\ text \/ speaker # "same"
    /\ utterances' = [utterances EXCEPT ![i] = Corrected(@, text, speaker)]
    /\ events' = Recorded({utterances'[i]})
    /\ seen' = None /\ corrections' = corrections + 1
    /\ UNCHANGED <<nextUtterance, passes>>

Next ==
    \/ Pass
    \/ \E u \in ToSet(utterances) : Read(u)
    \/ \E i \in DOMAIN utterances, text \in BOOLEAN, speaker \in Speakers \cup {None, "same"} :
           Correct(i, text, speaker)

Spec == Init /\ [][Next]_tpVars

-----------------------------------------------------------------------------
(* build_script                                                            *)

AdjoinsAnyway(u, v) == v.start - u.end <= SCRIPT_GAP        \* Mutant: also what is said at once
Adjoins(u, v) == ~u.overlap /\ ~v.overlap /\ 0 <= v.start - u.end /\ v.start - u.end <= SCRIPT_GAP

\* Unknown utterances between two of one speaker are shown as that speaker's.
UnknownRun(i, j) == \A k \in i..j : utterances[k].speaker = None
FreelyOpen(i, j) == TRUE                                    \* Mutant: also where a user cleared the speaker
Open(i, j) == \A k \in i..j : "speaker" \notin utterances[k].manual
Absorbed(i, j) ==
    /\ 1 < i /\ j < Len(utterances) /\ UnknownRun(i, j)
    /\ utterances[i - 1].speaker # None /\ utterances[i - 1].speaker = utterances[j + 1].speaker
    /\ utterances[j].end - utterances[i].start <= UNKNOWN
    /\ Open(i, j) /\ \A k \in i - 1..j : Adjoins(utterances[k], utterances[k + 1])
Voice(k) ==
    IF \E i, j \in DOMAIN utterances : i <= k /\ k <= j /\ Absorbed(i, j)
    THEN utterances[CHOOSE i \in DOMAIN utterances : i < k /\ utterances[i].speaker # None
                                                     /\ UnknownRun(i + 1, k)].speaker
    ELSE utterances[k].speaker

Added(blocks, k) ==
    IF blocks # <<>> /\ Last(blocks).speaker = Voice(k) /\ Adjoins(utterances[k - 1], utterances[k])
    THEN Append(Front(blocks), [Last(blocks) EXCEPT !.of = Append(@, k)])
    ELSE Append(blocks, [speaker |-> Voice(k), of |-> <<k>>])
BuildScript == FoldLeft(Added, <<>>, [k \in DOMAIN utterances |-> k])

-----------------------------------------------------------------------------
(* Properties                                                              *)

\* Later passes take nothing of a correction back: a field a user corrected keeps its value,
\* and its utterance is neither withdrawn nor moved by what the engines hear next.
CorrectionsStay ==
    [][\A u \in ToSet(utterances) : Manual(u) /\ corrections' = corrections =>
           \E v \in ToSet(utterances') :
               /\ v.id = u.id /\ v.start = u.start /\ v.end = u.end /\ v.manual = u.manual
               /\ "text" \in u.manual => v.text = u.text
               /\ "speaker" \in u.manual => v.speaker = u.speaker]_tpVars

\* A user corrects what is on the screen: when a correction is accepted, no pass and no
\* other user has changed the utterance since it was read.
CorrectsWhatWasRead ==
    [][corrections' > corrections => seen \in ToSet(utterances)]_tpVars

\* The events tell what became of the transcript: the last event of every utterance that
\* is not partial is what the session shows, and of every other one that it was withdrawn.
Latest(e) == \A f \in events : f.id = e.id => f.revision <= e.revision
EventsTellTheSession ==
    /\ \A u \in ToSet(utterances) : u.status # "partial" => u \in events /\ Latest(u)
    /\ \A e \in events : Latest(e) /\ e.id \notin Ids(utterances) => e.status = "retracted"
    /\ \A e, f \in events : e.id = f.id /\ e.revision = f.revision => e = f

\* A revision addresses one utterance: no two utterances of a session share an id, though two
\* candidates may be near the same earlier one.
OneRowEach == \A i, j \in DOMAIN utterances : i # j => utterances[i].id # utterances[j].id

\* The time a user has corrected is left to the correction: what a pass publishes beside it meets
\* no corrected utterance, even where the words it heard do.  (Other utterances may overlap.)
LeftToCorrections ==
    [][passes' > passes =>
           \A u, v \in ToSet(utterances') : Manual(u) /\ ~Manual(v) => ~Meets(u, v)]_tpVars

\* The script shows every utterance once and in order, it never names a speaker for speech whose
\* speaker a user has cleared or has set to somebody else, and a paragraph runs over several
\* utterances only where one person speaks at a time.
ScriptKeepsAll ==
    LET script == BuildScript IN
    /\ \A k \in DOMAIN utterances : \E b \in DOMAIN script : k \in ToSet(script[b].of)
    /\ \A b, c \in DOMAIN script : \A i \in DOMAIN script[b].of, j \in DOMAIN script[c].of :
           b < c \/ (b = c /\ i < j) => script[b].of[i] < script[c].of[j]
    /\ \A b \in DOMAIN script : \A k \in ToSet(script[b].of) :
           "speaker" \in utterances[k].manual => script[b].speaker = utterances[k].speaker
    /\ \A b \in DOMAIN script : \A k, l \in ToSet(script[b].of) :
           k < l => /\ ~utterances[k].overlap /\ ~utterances[l].overlap
                    /\ utterances[k].end <= utterances[l].start
=============================================================================
