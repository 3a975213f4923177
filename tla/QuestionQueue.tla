------------------------------- MODULE QuestionQueue -------------------------------
(***************************************************************************)
(* Questions wait in SQLite; consumer threads share the LLM gate with the  *)
(* meeting pipeline, claim the oldest question that is due, search, ask    *)
(* the provider and store the result.  The administrator changes provider  *)
(* and consent meanwhile; accounts expire; the workspace is deleted; the   *)
(* process restarts.                                                       *)
(***************************************************************************)
EXTENDS Naturals, FiniteSets

CONSTANTS Questions, Consumers, Providers, None,
    LLM_CONCURRENCY,
    MaxErrors,      \* bound: failed writes and restarts
    MaxSaves        \* bound: changes of the settings

VARIABLES
    question,   \* rows of query_runs: [status, due, born]
    consumer,   \* [pc, q, config] of each thread; config is the snapshot it captured
    gate,       \* free LLM permits
    calls,      \* permits meeting calls hold
    searcher,   \* who holds the search gate: None, a consumer, or "other"
    provider,   \* provider of the saved settings, and their version
    version,
    consent,    \* provider the workspace consents to
    expired,    \* the account of the questions is revoked
    deleted,    \* the workspace is deleted
    sent,       \* [q, provider] of every transmission
    approved,   \* providers consented to since the evidence of each question was assembled
    errors

qqVars == <<question, consumer, gate, calls, searcher, provider, version, consent, expired, deleted,
            sent, approved, errors>>

Absent == [status |-> "absent", due |-> FALSE, born |-> 0]
Resting == [pc |-> "idle", q |-> None, config |-> None, version |-> 0]
Ended == {"answered", "unavailable", "failed"}
Outcomes == Ended \cup {"queued"}     \* what a consumer is about to write
Steps == {"idle", "gated", "begin", "searching", "snapshot", "approve", "context", "check", "send"} \cup
         Outcomes

TypeOK ==
    /\ question \in [Questions -> [status : {"absent", "gone", "queued", "processing"} \cup Ended, due : BOOLEAN,
                                   born : 0..Cardinality(Questions)]]
    /\ \A t \in Consumers : consumer[t].pc \in Steps /\ consumer[t].q \in Questions \cup {None}
    /\ gate \in 0..LLM_CONCURRENCY /\ calls \in 0..LLM_CONCURRENCY
    /\ searcher \in Consumers \cup {None, "other"}
    /\ {provider, consent} \subseteq Providers \cup {None} /\ version \in 0..MaxSaves
    /\ {expired, deleted} \subseteq BOOLEAN /\ approved \in [Questions -> SUBSET Providers]

Init ==
    /\ question = [q \in Questions |-> Absent] /\ consumer = [t \in Consumers |-> Resting]
    /\ gate = LLM_CONCURRENCY /\ calls = 0 /\ searcher = None
    /\ provider \in Providers /\ version = 0 /\ consent \in {None, provider}
    /\ expired = FALSE /\ deleted = FALSE /\ sent = {} /\ approved = [q \in Questions |-> {}] /\ errors = 0

Born == Cardinality({q \in Questions : question[q].born > 0})
IsDue(q) == question[q].status = "queued" /\ question[q].due

\* The same account and idempotency key return the question there is.
Enqueue(q) ==
    /\ question[q] = Absent /\ ~deleted /\ ~expired
    /\ question' = [question EXCEPT ![q] = [status |-> "queued", due |-> TRUE, born |-> Born + 1]]
    /\ UNCHANGED <<consumer, gate, calls, searcher, provider, version, consent, expired, deleted, sent, approved, errors>>

Move(t, pc) == consumer' = [consumer EXCEPT ![t].pc = pc]
OnlyMoves == UNCHANGED <<question, gate, calls, searcher, provider, version, consent, expired, deleted, sent,
                         approved, errors>>

\* A look at the queue, then the gate without waiting for it.
Acquire(t) ==
    /\ consumer[t].pc = "idle" /\ (\E q \in Questions : IsDue(q)) /\ gate > 0
    /\ gate' = gate - 1 /\ Move(t, "gated")
    /\ UNCHANGED <<question, calls, searcher, provider, version, consent, expired, deleted, sent, approved, errors>>

\* The oldest question that is due, whatever was seen before the gate.
Oldest(q) == IsDue(q) /\ \A p \in Questions : IsDue(p) => question[q].born <= question[p].born
MarkedLater(q) == question                                    \* Mutant: the claim does not mark the row
Marked(q) == [question EXCEPT ![q].status = "processing"]

Claim(t) ==
    /\ consumer[t].pc = "gated"
    /\ \E q \in Questions :
        /\ Oldest(q) /\ question' = Marked(q)
        /\ consumer' = [consumer EXCEPT ![t] = [Resting EXCEPT !.pc = "begin", !.q = q]]
    /\ UNCHANGED <<gate, calls, searcher, provider, version, consent, expired, deleted, sent, approved, errors>>

NothingToClaimHolds(t) ==                                     \* Mutant: the permit is kept
    /\ consumer[t].pc = "gated" /\ ~(\E q \in Questions : IsDue(q)) /\ Move(t, "idle") /\ OnlyMoves
NothingToClaim(t) ==
    /\ consumer[t].pc = "gated" /\ ~\E q \in Questions : IsDue(q)
    /\ gate' = gate + 1 /\ Move(t, "idle")
    /\ UNCHANGED <<question, calls, searcher, provider, version, consent, expired, deleted, sent, approved, errors>>

\* The account and the workspace are looked up again; the search gate is not waited for.
Begin(t) ==
    /\ consumer[t].pc = "begin" /\ ~expired /\ ~deleted /\ searcher = None
    /\ searcher' = t /\ Move(t, "searching")
    /\ UNCHANGED <<question, gate, calls, provider, version, consent, expired, deleted, sent, approved, errors>>

BeginRefused(t) ==
    /\ consumer[t].pc = "begin"
    /\ IF expired \/ deleted THEN Move(t, "failed") ELSE (searcher # None /\ Move(t, "queued"))
    /\ OnlyMoves

\* Evidence; or none, or a sum that is not supported; or a revoked source or a removed revision.
Searched(t) ==
    /\ consumer[t].pc = "searching" /\ searcher' = None
    /\ \E pc \in {"snapshot", "answered", "failed"} :
        (deleted => pc = "failed") /\ Move(t, pc)
    /\ UNCHANGED <<question, gate, calls, provider, version, consent, expired, deleted, sent, approved, errors>>

Snapshot(t) ==
    /\ consumer[t].pc = "snapshot"
    /\ consumer' = [consumer EXCEPT ![t].pc = "approve", ![t].config = provider, ![t].version = version]
    /\ OnlyMoves

\* Under the workspace lock; a deleted workspace is an error before any request is made.
Approve(t) ==
    /\ consumer[t].pc = "approve"
    /\ Move(t, IF deleted THEN "failed"
               ELSE IF consumer[t].config # None /\ consent = consumer[t].config THEN "context"
               ELSE "unavailable")
    /\ OnlyMoves

Context(t) ==
    /\ consumer[t].pc = "context"
    /\ \E pc \in {"check", "unavailable"} : (deleted => pc = "unavailable") /\ Move(t, pc)
    /\ approved' = [approved EXCEPT ![consumer[t].q] = {consent} \ {None}]
    /\ UNCHANGED <<question, gate, calls, searcher, provider, version, consent, expired, deleted, sent, errors>>

\* In one transaction: the consent, for the provider that was captured, and the settings as captured.
PermitsCurrent(t) == ~deleted /\ consent = provider           \* Mutant: consent for the saved provider only
Permits(t) == ~deleted /\ consent = consumer[t].config /\ version = consumer[t].version

Check(t) ==
    /\ consumer[t].pc = "check" /\ Move(t, IF Permits(t) THEN "send" ELSE "unavailable") /\ OnlyMoves

\* The request goes out; its answer cites the evidence, or is an error.
Send(t) ==
    /\ consumer[t].pc = "send"
    /\ sent' = sent \cup {[q |-> consumer[t].q, provider |-> consumer[t].config]}
    /\ \E pc \in {"answered", "unavailable"} : Move(t, pc)
    /\ UNCHANGED <<question, gate, calls, searcher, provider, version, consent, expired, deleted, approved, errors>>

\* UPDATE only: a row that was deleted meanwhile is not recreated.
Upserted(q, row) == [question EXCEPT ![q] = row]              \* Mutant: INSERT OR REPLACE
Rewritten(q, row) == IF question[q].status \in {"absent", "gone"} THEN question ELSE [question EXCEPT ![q] = row]

Store(t) ==
    LET s == consumer[t].pc IN
    /\ s \in Outcomes
    /\ question' = Rewritten(consumer[t].q,
                     [status |-> s, due |-> s # "queued", born |-> question[consumer[t].q].born])
    /\ consumer' = [consumer EXCEPT ![t] = Resting] /\ gate' = gate + 1
    /\ UNCHANGED <<calls, searcher, provider, version, consent, expired, deleted, sent, approved, errors>>

\* The write fails: the gate is released, and the row goes back to the queue if it is still processing.
Forgotten(q) == question                                      \* Mutant: the error only ends the round
Requeued(q) == IF question[q].status = "processing" THEN [question EXCEPT ![q].status = "queued", ![q].due = FALSE]
               ELSE question

StoreFails(t) ==
    /\ consumer[t].pc \in Outcomes /\ errors < MaxErrors /\ errors' = errors + 1
    /\ question' = Requeued(consumer[t].q) /\ consumer' = [consumer EXCEPT ![t] = Resting] /\ gate' = gate + 1
    /\ UNCHANGED <<calls, searcher, provider, version, consent, expired, deleted, sent, approved>>

\* available_at passes.
Due(q) ==
    /\ question[q].status = "queued" /\ ~question[q].due /\ question' = [question EXCEPT ![q].due = TRUE]
    /\ UNCHANGED <<consumer, gate, calls, searcher, provider, version, consent, expired, deleted, sent, approved, errors>>

\* Classification, generation and diagnostic calls share the gate; other searches the search gate.
OtherCall ==
    /\ \/ (gate > 0 /\ calls = 0 /\ gate' = gate - 1 /\ calls' = calls + 1)
       \/ (calls > 0 /\ gate' = gate + 1 /\ calls' = calls - 1)
    /\ UNCHANGED <<question, consumer, searcher, provider, version, consent, expired, deleted, sent, approved, errors>>

OtherSearch ==
    /\ \/ (searcher = None /\ searcher' = "other") \/ (searcher = "other" /\ searcher' = None)
    /\ UNCHANGED <<question, consumer, gate, calls, provider, version, consent, expired, deleted, sent, approved, errors>>

\* Another provider clears the consent given to the old one.
SaveSettings(p) ==
    /\ version < MaxSaves /\ version' = version + 1 /\ provider' = p
    /\ consent' = IF p = provider THEN consent ELSE None
    /\ UNCHANGED <<question, consumer, gate, calls, searcher, expired, deleted, sent, approved, errors>>

\* Consent names the provider that is saved now.
SetConsent(given) ==
    /\ ~deleted /\ consent' = (IF given THEN provider ELSE None) /\ consent' # consent
    /\ approved' = [q \in Questions |-> IF question[q].status = "processing" THEN approved[q] \cup ({consent'} \ {None})
                                        ELSE approved[q]]
    /\ UNCHANGED <<question, consumer, gate, calls, searcher, provider, version, expired, deleted, sent, errors>>

Expire ==
    /\ ~expired /\ expired' = TRUE
    /\ UNCHANGED <<question, consumer, gate, calls, searcher, provider, version, consent, deleted, sent, approved, errors>>

Delete ==
    /\ ~deleted /\ deleted' = TRUE /\ consent' = None
    /\ question' = [q \in Questions |-> [question[q] EXCEPT !.status = IF @ = "absent" THEN @ ELSE "gone"]]
    /\ UNCHANGED <<consumer, gate, calls, searcher, provider, version, expired, sent, approved, errors>>

\* What was processing is queued again: its input is in the row.
Reopened(q) == IF question[q].status = "processing" THEN [question[q] EXCEPT !.status = "queued", !.due = TRUE] ELSE question[q]

Restart ==
    /\ errors < MaxErrors /\ errors' = errors + 1
    /\ question' = [q \in Questions |-> Reopened(q)]
    /\ consumer' = [t \in Consumers |-> Resting] /\ gate' = LLM_CONCURRENCY /\ calls' = 0 /\ searcher' = None
    /\ UNCHANGED <<provider, version, consent, expired, deleted, sent, approved>>

Consume(t) ==
    \/ Acquire(t) \/ Claim(t) \/ NothingToClaim(t) \/ Begin(t) \/ BeginRefused(t) \/ Searched(t) \/ Snapshot(t)
    \/ Approve(t) \/ Context(t) \/ Check(t) \/ Send(t) \/ Store(t)

Next ==
    \/ \E t \in Consumers : Consume(t) \/ StoreFails(t)
    \/ \E q \in Questions : Enqueue(q) \/ Due(q)
    \/ OtherCall \/ OtherSearch \/ (\E p \in Providers \cup {None} : SaveSettings(p))
    \/ (\E given \in BOOLEAN : SetConsent(given)) \/ Expire \/ Delete \/ Restart

---------------------------------------------------------------------------

\* No question is executed by two consumers at once.
OneConsumerEach ==
    \A s, t \in Consumers : consumer[s].q # None /\ consumer[s].q = consumer[t].q => s = t

\* Every permit is free, with a consumer past the gate, or with another call.
PermitsConserved == gate + calls + Cardinality({t \in Consumers : consumer[t].pc # "idle"}) = LLM_CONCURRENCY

\* A question goes out only to a provider the workspace consented to after the evidence was
\* assembled: what was withdrawn or saved before stops it, whatever the snapshot said.
SentOnlyWhereApproved ==
    [][\A m \in sent' \ sent : m.provider \in approved[m.q]]_qqVars

\* A result is final: restarts and late answers do not reopen it, and a deleted row stays deleted.
ResultsStay == [][\A q \in Questions : question[q].status \in Ended \cup {"gone"} =>
                    question'[q].status \in {question[q].status, "gone"}]_qqVars

\* Once nothing else competes for the two gates, every question gets its result or is deleted.
QuestionEnds ==
    <>[](calls = 0 /\ searcher # "other") =>
        \A q \in Questions : question[q].status = "queued" ~> question[q].status \in Ended \cup {"gone"}
=============================================================================
