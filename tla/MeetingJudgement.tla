------------------------------ MODULE MeetingJudgement ------------------------------
(***************************************************************************)
(* MeetingJudgement: what becomes of a provider's answer.  validate_popup  *)
(* turns the answer of the writing model into a popup; classify turns the  *)
(* answer of the classifier into a score; bounded_context picks the        *)
(* utterances both are shown.  Each is a pure function; one step applies   *)
(* it to any input the schemas admit.                                      *)
(***************************************************************************)
EXTENDS Naturals, Sequences, SequencesExt

CONSTANTS
    Evidence,       \* evidence of the search
    Foreign,        \* an id the search did not return
    None,
    MAX_ITEMS, MAX_CHARS, MaxLength     \* of the context; MaxLength bounds the utterances there are

VARIABLE judged     \* [rule, input, result] of the one application, or None

mjVars == <<judged>>

---------------------------------------------------------------------------
(* validate_popup.  confidence: low < 0.65 <= mid < 0.85 <= high; quoted: the evidence whose text *)
(* holds one of the support quotes, and Foreign if a quote is in no evidence.                     *)

Answers ==
    [status : {"popup"}, assessment : {"contradicted", "supported", "supplemental", "conflicting", "uncertain", "irrelevant"},
     scope_match : BOOLEAN, kind : {"warning", "caution", "info", "success"}, confidence : {"low", "mid", "high"},
     citations : SUBSET (Evidence \cup {Foreign}), quoted : SUBSET (Evidence \cup {Foreign})]

\* A fact check has a claim (Extraction.coherent).
Extractions == {a \in [intent : {"fact_check", "practical_guidance", "context"}, claim : BOOLEAN] :
                a.intent = "fact_check" => a.claim}

Definitive == [warning |-> "contradicted", success |-> "supported"]

\* Red and green need a claim of the same scope, the assessment of that colour and high confidence.
EarnedByAssessment(o, a) == o.assessment = Definitive[o.kind]       \* Mutant: the scope is not asked for
Earned(o, a) == a.claim /\ o.scope_match /\ o.assessment = Definitive[o.kind] /\ o.confidence = "high"

\* Text that was not earned is replaced, not only recoloured.
Toned(o, a) ==
    IF o.kind \in DOMAIN Definitive /\ ~Earned(o, a) THEN [kind |-> "caution", words |-> "generic"]
    ELSE [kind |-> IF o.kind \notin DOMAIN Definitive /\ o.assessment \in {"conflicting", "uncertain"} THEN "caution" ELSE o.kind,
          words |-> "given"]

\* Green is kept for facts that were asked to be checked.
Coloured(o, a) ==
    LET t == Toned(o, a) IN
    IF t.kind = "success" /\ a.intent # "fact_check"
    THEN [t EXCEPT !.kind = IF a.intent = "practical_guidance" THEN "caution" ELSE "info"]
    ELSE t

CitedOnly(o) == o.citations # {} /\ o.citations \subseteq Evidence  \* Mutant: cited passages need no quote
Cited(o) == o.quoted \subseteq Evidence /\ o.citations # {} /\ o.citations \subseteq Evidence \cap o.quoted

Popup(o, a) ==
    IF ~Cited(o) THEN [status |-> "INVALID_LLM_CITATIONS"]
    ELSE IF o.confidence = "low" \/ o.assessment = "irrelevant" THEN [status |-> "insufficient_evidence"]
    ELSE IF o.assessment = "conflicting" /\ (\E e \in Evidence : o.citations = {e}) THEN [status |-> "insufficient_evidence"]
    ELSE [status |-> "popup", popup |-> Coloured(o, a)]

---------------------------------------------------------------------------
(* classify *)

Outputs ==
    [score : 1..5 \cup {0}, scope : {"in_scope", "out_of_scope", "uncertain"},
     act : {"filler", "social", "topic", "factual_claim", "question", "request"}, addressed : BOOLEAN,
     intent : {"fact_check", "practical_guidance", "context", "none"}, query : BOOLEAN, claim : BOOLEAN,
     unsupported : BOOLEAN, reason : {"UNSUPPORTED_ACTION", "OTHER"}]

Relevant(o) == o.score >= 3

\* ClassificationOutput.coherent; score 0 stands for none (needs_clarification).
Coherent(o) ==
    /\ (o.score = 0 <=> o.scope = "uncertain")
    /\ (o.score >= 3 => o.scope = "in_scope") /\ (o.score \in {1, 2} => o.scope = "out_of_scope")
    /\ (o.score = 1 => o.act = "filler") /\ (o.score = 3 => o.act = "topic" /\ o.intent = "context")
    /\ (o.score >= 4 => o.act \in {"factual_claim", "question", "request"})
    /\ (o.score = 5 => o.addressed /\ o.act = "request")
    /\ (IF Relevant(o) THEN o.query /\ o.intent # "none" ELSE ~o.query /\ ~o.claim /\ o.intent = "none")
    /\ (o.intent = "fact_check" => o.claim)
    /\ (o.act \in {"question", "request"} => o.intent # "fact_check" /\ ~o.claim)
    /\ (Relevant(o) /\ o.act = "factual_claim" => o.intent = "fact_check")

\* The recipient is what the transcript shows, never what the model says.
Rescored(o, verified) ==
    IF o.score = 5 /\ ~verified THEN 4 ELSE IF o.score = 4 /\ o.act = "request" /\ verified THEN 5 ELSE o.score

Adjusted(o, verified) == [o EXCEPT !.addressed = verified, !.score = Rescored(o, verified),
                                   !.reason = IF o.score = 5 /\ ~verified THEN "OTHER" ELSE @]

\* "Unsupported action" is said of requests in scope only; anything else gets a reason of its own.
NormalizedKeeps(o) == o                                     \* Mutant: the model's reason is kept
Normalized(o) ==
    IF o.score \in {4, 5} /\ o.act = "request" THEN o
    ELSE [o EXCEPT !.unsupported = FALSE, !.reason = "OTHER"]

Classified(o, verified) == IF Coherent(o) THEN Normalized(Adjusted(o, verified)) ELSE None

---------------------------------------------------------------------------
(* bounded_context: items are lengths of utterances, 0 a blank one *)

\* Newest first: a blank is passed over, one that does not fit ends the window.
TakenBeyond(acc, n) ==                                      \* Mutant: a long one is passed over
    IF n = 0 \/ acc.used + n > MAX_CHARS THEN acc ELSE [acc EXCEPT !.used = @ + n, !.chosen = <<n>> \o @]
Taken(acc, n) ==
    IF acc.full \/ n = 0 THEN acc
    ELSE IF acc.used + n > MAX_CHARS THEN [acc EXCEPT !.full = TRUE]
    ELSE [acc EXCEPT !.used = @ + n, !.chosen = <<n>> \o @]

Recent(items) == SubSeq(items, IF Len(items) > MAX_ITEMS THEN Len(items) - MAX_ITEMS + 1 ELSE 1, Len(items))
Window(items) ==
    LET last == FoldRight(LAMBDA n, acc : Taken(acc, n), Recent(items), [used |-> 0, full |-> FALSE, chosen |-> <<>>])
    IN  [chosen |-> last.chosen, omitted |-> Len(last.chosen) # Len(items)]

---------------------------------------------------------------------------

Init == judged = None

ValidatePopup ==
    \E o \in Answers, a \in Extractions : judged' = [rule |-> "popup", input |-> <<o, a>>, result |-> Popup(o, a)]
Classify ==
    \E o \in Outputs, verified \in BOOLEAN :
        Coherent(o) /\ judged' = [rule |-> "score", input |-> <<o, verified>>, result |-> Classified(o, verified)]
BoundContext ==
    \E n \in 0..MaxLength : \E items \in [1..n -> 0..MAX_CHARS + 1] :
        judged' = [rule |-> "context", input |-> <<items>>, result |-> Window(items)]

Next == judged = None /\ (ValidatePopup \/ Classify \/ BoundContext)

---------------------------------------------------------------------------

By(rule) == judged # None /\ judged.rule = rule
TypeOK == judged = None \/ judged.rule \in {"popup", "score", "context"}

\* A popup in red or green stands on a checked claim of the same scope with quoted evidence, two
\* pieces of it for a conflict; an assertion that did not earn its colour is not shown at all.
ColoursAreEarned ==
    By("popup") /\ judged.result.status = "popup" =>
        LET o == judged.input[1] a == judged.input[2] p == judged.result.popup IN
        /\ o.citations # {} /\ o.citations \subseteq Evidence \cap o.quoted
        /\ (o.assessment = "conflicting" => \E d, e \in o.citations : d # e)
        /\ p.kind = "success" => a.intent = "fact_check" /\ o.assessment = "supported" /\ o.scope_match
        /\ p.kind = "warning" => a.claim /\ o.assessment = "contradicted" /\ o.scope_match
        /\ (p.words = "given" /\ o.kind \in {"warning", "success"} => o.confidence = "high" /\ a.claim)

\* The server's corrections leave a coherent classification, in which score five is exactly a
\* request whose recipient was verified, and only requests in scope are "unsupported".
ScoresStayCoherent ==
    By("score") =>
        LET r == judged.result verified == judged.input[2] IN
        /\ Coherent(r)
        /\ (r.score = 5 <=> verified /\ r.act = "request" /\ r.score \in {4, 5})
        /\ (r.unsupported \/ r.reason = "UNSUPPORTED_ACTION" => r.act = "request" /\ r.scope = "in_scope")

\* What the utterances of a context take up.
Total(chosen) == FoldLeft(LAMBDA x, y : x + y, 0, chosen)

\* The context is a recent stretch without a hole: between a chosen utterance and the end nothing
\* was left out but blanks, whole utterances only, within the limits; and an omission is told.
ContextIsRecent ==
    By("context") =>
        LET items == judged.input[1] r == judged.result IN
        /\ Total(r.chosen) <= MAX_CHARS
        /\ \E k \in 0..Len(items), place \in [DOMAIN r.chosen -> DOMAIN items] :
            /\ Len(items) - k <= MAX_ITEMS
            /\ \A i, j \in DOMAIN place : i < j => place[i] < place[j]
            /\ {place[i] : i \in DOMAIN place} = {n \in k + 1..Len(items) : items[n] > 0}
            /\ \A i \in DOMAIN place : r.chosen[i] = items[place[i]]
        /\ (r.omitted <=> Len(r.chosen) < Len(items))
=============================================================================
