-------------------------------- MODULE Retrieval --------------------------------
(***************************************************************************)
(* Retrieval: how text becomes chunks, and how chunks become evidence.     *)
(* Three pure algorithms of the RAG service: chunk_document cuts a text at *)
(* its boundaries, _search fuses two rankings and prefers documents that   *)
(* the query names, answer_context expands the hits within a budget.       *)
(***************************************************************************)
EXTENDS Naturals, FiniteSets, Sequences, SequencesExt

CONSTANTS
    Chunks,         \* indexed chunks: sets of [doc, n], n the position in the document
    Docs, None,
    MAX_PASSAGES,   \* passages of a context (64 in the code)
    MaxText,        \* bound: characters of a text
    MaxLines,       \* bound: lines of a text
    MaxBudget       \* bound: tokens of a chunk, and of a context

VARIABLES
    text,       \* the text being cut: [length, ends, budget, overlap]; ends: where a boundary ends
    cut,        \* [offset, done, chunks]; a chunk is [from, to], its characters from + 1 .. to
    found       \* [input, result] of one search or context, or None

reVars == <<text, cut, found>>

---------------------------------------------------------------------------
(* chunk_document, one segment: a character is one token. *)

NoText == [length |-> 0, ends |-> {}, budget |-> 1, overlap |-> 0]
Texts == {[length |-> n, ends |-> e, budget |-> b, overlap |-> o] :
            n \in 0..MaxText, e \in SUBSET (1..MaxText), b \in 1..MaxBudget, o \in 0..MaxBudget}
Valid(t) == t.ends \subseteq 1..t.length /\ t.overlap < t.budget

Lower(a, b) == IF a < b THEN a ELSE b
Higher(a, b) == IF a > b THEN a ELSE b

\* The binary search finds the longest prefix within the budget.
Fits(offset) == Lower(text.length, offset + text.budget)

CutAnywhere(offset, end) ==                                 \* Mutant: the last boundary, wherever it is
    LET valid == {e \in text.ends : offset < e /\ e <= end}
    IN  IF end = text.length \/ valid = {} THEN end ELSE CHOOSE e \in valid : \A f \in valid : f <= e
\* Of the boundaries past the middle the last one; the whole prefix if there is none.
CutAt(offset, end) ==
    LET valid == {e \in text.ends : offset < e /\ e <= end /\ e - offset > (end - offset) \div 2}
    IN  IF end = text.length \/ valid = {} THEN end ELSE CHOOSE e \in valid : \A f \in valid : f <= e

\* The overlap starts as many tokens back as the setting allows; the offset always advances.
NextOffsetSkips(offset, end) == end + 1                     \* Mutant: off by one
NextOffset(offset, end) == Higher(offset + 1, Higher(end, text.overlap) - text.overlap)

Cut ==
    /\ ~cut.done /\ found = None
    /\ IF cut.offset >= text.length THEN cut' = [cut EXCEPT !.done = TRUE]
       ELSE LET end == CutAt(cut.offset, Fits(cut.offset)) IN
            cut' = [offset |-> NextOffset(cut.offset, end), done |-> end >= text.length,
                    chunks |-> Append(cut.chunks, [from |-> cut.offset, to |-> end])]
    /\ UNCHANGED <<text, found>>

---------------------------------------------------------------------------
(* chunk_document, the segments of a Markdown text: a line is 0 (text), the depth of a heading, or *)
(* Fence; a title is the number of its line.                                                       *)

Fence == 9
Layouts == UNION {[1..n -> {0, 1, 2, 3, Fence}] : n \in 0..MaxLines}

Flushed(acc, n) == IF acc.start < n THEN Append(acc.segments, [from |-> acc.start, to |-> n - 1, titles |-> acc.titles])
                   ELSE acc.segments

\* A heading outside a fence ends the segment, and replaces the titles from its depth on.
UnderAppends(titles, depth, n) == Append(titles, n)           \* Mutant: titles only grow
Under(titles, depth, n) == Append(SubSeq(titles, 1, Lower(depth - 1, Len(titles))), n)

Line(acc, line, n) ==
    IF line = Fence THEN [acc EXCEPT !.fence = ~@]
    ELSE IF line = 0 \/ acc.fence THEN acc
    ELSE [acc EXCEPT !.segments = Flushed(acc, n), !.titles = Under(@, line, n), !.start = n]

Segments(lines) ==
    LET last == FoldLeft(LAMBDA acc, n : Line(acc, lines[n], n),
                         [segments |-> <<>>, titles |-> <<>>, start |-> 1, fence |-> FALSE], [n \in DOMAIN lines |-> n])
    IN  Flushed(last, Len(lines) + 1)

Segment == \E lines \in Layouts : found' = [rule |-> "segment", lines |-> lines, segments |-> Segments(lines)]

---------------------------------------------------------------------------
(* _search *)

Rankings == {r \in UNION {[1..n -> Chunks] : n \in 0..3} : \A i, j \in DOMAIN r : r[i] = r[j] => i = j}
Position(r, c) == CHOOSE i \in DOMAIN r : r[i] = c

\* Reciprocal ranks in millionths; a document the query names adds 0.1 per degree of the match.
Reciprocal(r, c) == IF c \in {r[i] : i \in DOMAIN r} THEN 1000000 \div (60 + Position(r, c)) ELSE 0

\* Vector hits below the least score count only if the keywords found them too.
Allowed(vector, near, keyword) == {vector[i] : i \in 1..near} \cup {keyword[i] : i \in DOMAIN keyword}

\* A named document brings its matched chunks, or its first ones if none was matched.
Named(doc, ranked, limit) ==
    LET all == {c \in Chunks : c.doc = doc} IN
    IF all \cap ranked # {} THEN all \cap ranked ELSE {c \in all : c.n <= limit}

BoostLess(strength) == 10000 * strength                       \* Mutant: a boost that a rank outweighs
Boost(strength) == 100000 * strength

Scores(vector, near, keyword, named, limit) ==
    LET ranked == Allowed(vector, near, keyword)
        extra == UNION {Named(d, ranked, limit) : d \in {e \in Docs : named[e] > 0}}
        base(c) == IF c \in ranked THEN Reciprocal(vector, c) + Reciprocal(keyword, c) ELSE 0
    IN  [c \in ranked \cup extra |-> base(c) + (IF c \in extra THEN Boost(named[c.doc]) ELSE 0)]

\* The orders of a set by falling value; what is equal stands either way.
Falling(value, S) == {order \in SetToSeqs(S) : \A i, j \in DOMAIN order : i < j => value[order[i]] >= value[order[j]]}

Ranked(score, limit) == {SubSeq(order, 1, Lower(limit, Len(order))) : order \in Falling(score, DOMAIN score)}

Search ==
    \E vector \in Rankings, keyword \in Rankings, named \in [Docs -> 0..2], limit \in 1..2 :
        \E near \in 0..Len(vector) :
            LET score == Scores(vector, near, keyword, named, limit) IN
            \E hits \in Ranked(score, limit) : found' = [rule |-> "search", score |-> score, named |-> named, hits |-> hits]

---------------------------------------------------------------------------
(* answer_context: hits grouped by document; cost is the size of a passage *)

Include(acc, c, cost, max) ==
    IF c \in {acc.chosen[i] : i \in DOMAIN acc.chosen} \/ acc.used + cost[c] > max
       \/ Len(acc.chosen) >= MAX_PASSAGES THEN acc
    ELSE [chosen |-> Append(acc.chosen, c), used |-> acc.used + cost[c]]

\* Only the documents the query names best, if it names any.
Groups(hits, named) ==
    LET docs == {hits[i].doc : i \in DOMAIN hits}
    IN  {d \in docs : \A e \in docs : named[e] <= named[d]}

\* A document scores by its hits, their ranks and its name.
Weight(hits, named, d) ==
    FoldLeft(LAMBDA sum, i : sum + (IF hits[i].doc = d THEN 1000000 * named[d] + 1000000 \div (59 + i) ELSE 0),
             0, [i \in DOMAIN hits |-> i])

\* The chunks of a document in order; chunks are numbered from 1.
Whole(d) == [n \in 1..Cardinality({c \in Chunks : c.doc = d}) |-> [doc |-> d, n |-> n]]

\* The hits of the chosen documents come first, then these documents in order.
Included(acc, passages, groups, cost, max) ==
    FoldLeft(LAMBDA sofar, c : IF c.doc \in groups THEN Include(sofar, c, cost, max) ELSE sofar, acc, passages)
Expanded(acc, order, groups, cost, max) ==
    FoldLeft(LAMBDA sofar, d : Included(sofar, Whole(d), groups, cost, max), acc, order)

Nothing == [chosen |-> <<>>, used |-> 0]
ChosenFlat(hits, order, groups, cost, max) ==                 \* Mutant: whole documents first
    Included(Expanded(Nothing, order, groups, cost, max), hits, groups, cost, max).chosen
Chosen(hits, order, groups, cost, max) ==
    Expanded(Included(Nothing, hits, groups, cost, max), order, groups, cost, max).chosen

AnswerContext ==
    \E hits \in Rankings \ {<<>>}, named \in [Docs -> 0..1], cost \in [Chunks -> 1..2], max \in 1..MaxBudget :
        LET groups == Groups(hits, named) IN
        \E order \in Falling([d \in groups |-> Weight(hits, named, d)], groups) :
            LET chosen == Chosen(hits, order, groups, cost, max) IN
            found' = [rule |-> "context", hits |-> hits, named |-> named, cost |-> cost, max |-> max,
                      passages |-> IF chosen = <<>> THEN hits ELSE chosen]

---------------------------------------------------------------------------

Init ==
    /\ text \in {t \in Texts : Valid(t)} \cup {NoText} /\ found = None
    /\ cut = [offset |-> 0, done |-> FALSE, chunks |-> <<>>]

Next == Cut \/ (text = NoText /\ cut.done /\ found = None /\ (Segment \/ Search \/ AnswerContext) /\ UNCHANGED <<text, cut>>)

---------------------------------------------------------------------------

TypeOK == cut.offset \in 0..MaxText + 1 /\ cut.done \in BOOLEAN /\ (found = None \/ found.rule \in {"segment", "search", "context"})

\* Every character is in a chunk, no chunk is over the budget, and each starts after the one before
\* it and before that one ends: nothing is skipped between two chunks.
ChunksCoverTheText ==
    LET ch == cut.chunks IN
    /\ \A i \in DOMAIN ch : ch[i].from < ch[i].to /\ ch[i].to - ch[i].from <= text.budget
    /\ \A i \in 2..Len(ch) : ch[i - 1].from < ch[i].from /\ ch[i].from <= ch[i - 1].to
    /\ cut.done /\ text.length > 0 => ch[1].from = 0 /\ ch[Len(ch)].to = text.length

\* An overlap of less than half the budget never repeats a chunk inside the one before.
SmallOverlapAdvances ==
    2 * text.overlap < text.budget => \A i \in 2..Len(cut.chunks) : cut.chunks[i - 1].to < cut.chunks[i].to

\* Every line is in one segment, and the titles of a segment are the headings that enclose it, if no
\* heading skips a level; what stands in a fence is not a heading.
TitlesEnclose ==
    found # None /\ found.rule = "segment" =>
        LET l == found.lines sg == found.segments
            heading == {n \in DOMAIN l : l[n] \in 1..3 /\ Cardinality({m \in 1..n : l[m] = Fence}) % 2 = 0}
            encloses(m, n) == m \in heading /\ m <= n /\ \A h \in heading \cap (m + 1..n) : l[h] > l[m]
            even == \A n \in heading : l[n] = 1 \/ \E m \in heading : m < n /\ encloses(m, n) /\ l[m] = l[n] - 1
        IN  /\ \A n \in DOMAIN l : \E i \in DOMAIN sg : n \in sg[i].from..sg[i].to /\ \A j \in DOMAIN sg \ {i} : n \notin sg[j].from..sg[j].to
            /\ even => \A i \in DOMAIN sg : {sg[i].titles[k] : k \in DOMAIN sg[i].titles} = {m \in heading : encloses(m, sg[i].from)}

\* A passage of a document the query names comes before any other, and the better name before
\* the looser one, whatever the two rankings say.
NamedDocumentsFirst ==
    found # None /\ found.rule = "search" =>
        \A i, j \in DOMAIN found.hits : i < j => found.named[found.hits[i].doc] >= found.named[found.hits[j].doc]

\* What the passages of some documents take up.
Size(passages, docs, cost) == FoldLeft(LAMBDA sum, c : sum + (IF c.doc \in docs THEN cost[c] ELSE 0), 0, passages)

\* The context stays within its budget and its number of passages unless nothing fits, and a hit of
\* the chosen documents is left out only if it does not fit beside the hits before it.
HitsComeFirst ==
    found # None /\ found.rule = "context" =>
        LET p == found.passages hits == found.hits kept == Groups(hits, found.named)
            upto(i, cost) == Size(SubSeq(hits, 1, i), kept, cost)
        IN  /\ (Size(p, Docs, found.cost) <= found.max /\ Len(p) <= MAX_PASSAGES) \/ p = hits
            /\ \A i \in DOMAIN hits : hits[i].doc \in kept =>
                \/ hits[i] \in {p[k] : k \in DOMAIN p}
                \/ upto(i, found.cost) > found.max \/ upto(i, [c \in Chunks |-> 1]) > MAX_PASSAGES
=============================================================================
