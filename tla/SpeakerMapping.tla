------------------------------- MODULE SpeakerMapping -------------------------------
(***************************************************************************)
(* SpeakerMapping: every speaker analysis of a session names its speakers  *)
(* anew; SpeakerMapper.map gives them the ids the session knows, or new    *)
(* ones, or none.  Time is in units of the 0.35 s that count as evidence;  *)
(* an analysis says which of its Labels speak in each unit.                *)
(***************************************************************************)
EXTENDS Integers, FiniteSetsExt

CONSTANTS
    Length,         \* bound: units of audio
    Labels,         \* names the analysis uses
    MaxAnalyses,    \* bound
    None

VARIABLES
    previous,   \* the evidence kept: turns [from, to, speaker], to is exclusive
    nextId,
    mapping,    \* label -> id of the last analysis
    turns,      \* who speaks when, as the session is told: unit -> ids
    analyses

smVars == <<previous, nextId, mapping, turns, analyses>>

Ids == 1..Cardinality(Labels) * MaxAnalyses
Turns == [from : 0..Length - 1, to : 1..Length, speaker : Ids]

TypeOK ==
    /\ previous \subseteq Turns /\ \A t \in previous : t.from < t.to
    /\ nextId \in 1..Cardinality(Labels) * MaxAnalyses + 1
    /\ mapping \in [Labels -> Ids \cup {None}]
    /\ turns \in [1..Length -> SUBSET Ids] /\ analyses \in 0..MaxAnalyses

Init ==
    /\ previous = {} /\ nextId = 1 /\ mapping = [l \in Labels |-> None]
    /\ turns = [u \in 1..Length |-> {}] /\ analyses = 0

\* exclusive: the longest spans in which nobody comes or goes and exactly one speaks.
Exclusive(voices) ==
    LET Starts == {u \in 1..Length : Cardinality(voices[u]) = 1 /\ (u > 1 => voices[u - 1] # voices[u])}
        Until(u) == Max({v \in u..Length : \A w \in u..v : voices[w] = voices[u]})
    IN  {[from |-> u - 1, to |-> Until(u), speaker |-> CHOOSE s \in voices[u] : TRUE] : u \in Starts}

UnitsOf(evidence, speaker) ==
    UNION {t.from + 1..t.to : t \in {e \in evidence : e.speaker = speaker}}
Speaking(evidence) == {t.speaker : t \in evidence}

-----------------------------------------------------------------------------
(* map, for the evidence of a new analysis                                 *)

Score(current, new, old) ==
    Cardinality(UnitsOf(current, new) \cap UnitsOf(previous, old))
TotalNew(current, new) ==
    MapThenSumSet(LAMBDA old : Score(current, new, old), Speaking(previous))
TotalOld(current, old) ==
    MapThenSumSet(LAMBDA new : Score(current, new, old), Speaking(current))

\* The old id with the most in common; among equals the last one.
Best(current, new) ==
    CHOOSE old \in Speaking(previous) : \A o \in Speaking(previous) :
        \/ Score(current, new, o) < Score(current, new, old)
        \/ Score(current, new, o) = Score(current, new, old) /\ o <= old
Known(current, new) == \E old \in Speaking(previous) : Score(current, new, old) >= 1

\* A speaker that was split, or merged with another, is not resolved.
ResolvedNew(current, new, old) ==                           \* Mutant: only one side is checked
    10 * Score(current, new, old) >= 7 * TotalNew(current, new)
Resolved(current, new, old) ==
    /\ 10 * Score(current, new, old) >= 7 * TotalNew(current, new)
    /\ 10 * Score(current, new, old) >= 7 * TotalOld(current, old)

\* A new id takes speech after everything the evidence covers.
Novel(current, new) ==
    \E u \in UnitsOf(current, new) : \A t \in previous : u > t.to
Fresh(current) == {l \in Speaking(current) : ~Known(current, l) /\ Novel(current, l)}

Mapping(current, fresh) ==
    [l \in Labels |->
        IF l \in fresh THEN nextId + Cardinality({f \in fresh : f < l})
        ELSE IF Known(current, l) /\ Resolved(current, l, Best(current, l)) THEN Best(current, l)
        ELSE None]

\* Evidence that the mapped turns touch gives way to them, the rest is kept.
KeptAll(covered) == previous                                \* Mutant: nothing gives way
Kept(covered) ==
    {t \in previous : ~\E c \in covered : c.from < t.to /\ c.to > t.from}

Map(voices) ==
    LET current == Exclusive(voices)
        fresh == Fresh(current)
        covered == Exclusive(turns')
    IN  /\ mapping' = Mapping(current, fresh)
        /\ nextId' = nextId + Cardinality(fresh)
        /\ turns' = [u \in 1..Length |-> {mapping'[l] : l \in voices[u]} \ {None}]
        /\ previous' = (IF covered = {} THEN previous ELSE covered \cup Kept(covered))

\* diarize analyses the recording up to its current end.
Analyse ==
    /\ analyses < MaxAnalyses /\ analyses' = analyses + 1
    /\ \E end \in 1..Length, voices \in [1..Length -> SUBSET Labels] :
           /\ \A u \in 1..Length : u > end => voices[u] = {}
           /\ Map(voices)

Next == Analyse

Spec == Init /\ [][Next]_smVars

-----------------------------------------------------------------------------
(* Properties                                                              *)

\* Two voices that one analysis tells apart are never shown as the same speaker, although
\* each label looks for its id on its own.
SpeakersStayApart ==
    \A k, l \in Labels : k # l /\ mapping[k] # None => mapping[k] # mapping[l]

\* At no time does the evidence speak for two speakers, however analyses and ambiguities
\* followed each other: the shares that decide on an id count nothing twice.
EvidenceIsExclusive ==
    \A s, t \in previous : s # t => s.to <= t.from \/ t.to <= s.from
=============================================================================
