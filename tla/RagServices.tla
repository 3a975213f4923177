-------------------------------- MODULE RagServices --------------------------------
(***************************************************************************)
(* The modules of the RAG service in one run.  The scenario is chosen by   *)
(* the initial state and never changes: its module moves, the others stay  *)
(* in one initial state, so the state space is the sum of theirs.  A       *)
(* constraint named after a scenario keeps apart what need not meet to     *)
(* reach the cases its properties are about.                               *)
(***************************************************************************)
EXTENDS Integers, FiniteSets

CONSTANTS
    None,
    Revs, Files, Contents, MaxFaults, MaxEdits,                     \* KnowledgeBase
    Questions, Consumers, Providers, p1, LLM_CONCURRENCY,
    MaxErrors, MaxSaves,                                            \* QuestionQueue
    Uploads, Parts, MaxCrashes, MaxBreaks, MaxActive,               \* FolderUpload
    Inquiries, Jobs, Vendors, v1, PERMITS, MaxChanges,              \* MeetingAnswer
    Evidence, Foreign, MAX_ITEMS, MAX_CHARS, MaxLength,             \* MeetingJudgement
    Docs, MAX_PASSAGES, MaxText, MaxLines, MaxBudget,               \* Retrieval
    URLs, Local, Models, Users, Prompts, MaxVersion,                \* ProviderSettings
    Accounts, MaxFailures, MaxLogins                                \* ProxyAccounts

\* One assumption for each module that a theorem is about; the last is for judgement and retrieval.
ASSUME KnowledgeAssumption ==
    /\ None \notin Revs /\ (\A names \in SUBSET Files : names # None)
    /\ None \notin {"worker", "remove", "delete"}
ASSUME FolderAssumption ==
    (\A names \in SUBSET Parts : names # None) /\ MaxCrashes \in Nat /\ MaxBreaks \in Nat
ASSUME QueueAssumption ==
    /\ IsFiniteSet(Questions) /\ IsFiniteSet(Consumers) /\ None \notin Questions
    /\ p1 \in Providers /\ LLM_CONCURRENCY \in Nat /\ MaxSaves \in Nat
ASSUME AnswerAssumption ==
    IsFiniteSet(Inquiries \cup Jobs) /\ v1 \in Vendors /\ PERMITS \in Nat /\ MaxChanges \in Nat
ASSUME SettingsAssumption ==
    /\ Local \in URLs /\ MaxVersion \in Nat
    /\ \A setting \in [url : URLs, model : {None} \cup [home : URLs, name : Models]] : setting # None
ASSUME AccountsAssumption == IsFiniteSet(Accounts) /\ {MaxFailures, MaxLogins} \subseteq Nat
ASSUME RulesAssumption ==
    {MAX_ITEMS, MAX_CHARS, MaxLength, MAX_PASSAGES, MaxText, MaxLines, MaxBudget} \subseteq Nat /\ IsFiniteSet(Docs)

VARIABLES
    workspace, active, build, versions, snapshots, vectors, keyword, folder, worker, locked,
    removing, asked, reader, edits, faults,
    question, consumer, gate, calls, searcher, provider, version, consent, expired, deleted,
    sent, approved, errors,
    row, stored, staging, partial, published, space, alive, old, op, deleting, crashes, breaks,
    world, call, doubt, told, free,
    judged,
    text, cut, found,
    settings, form, taking, grant, standing, request, keysSent, document, page,
    enabled, known, login, logins, accountOp, report, failures, meddled,
    scenario

Kb == INSTANCE KnowledgeBase
Qq == INSTANCE QuestionQueue
Fu == INSTANCE FolderUpload
Ma == INSTANCE MeetingAnswer WITH Analyses <- Inquiries
Mj == INSTANCE MeetingJudgement
\* Document a has two chunks, document b has one.
Chunks == {[doc |-> d, n |-> n] : d \in Docs, n \in {1, 2}} \ {[doc |-> "b", n |-> 2]}
Re == INSTANCE Retrieval
Ps == INSTANCE ProviderSettings WITH Documents <- Prompts
Pa == INSTANCE ProxyAccounts WITH op <- accountOp

kb == <<workspace, active, build, versions, snapshots, vectors, keyword, folder, worker, locked,
        removing, asked, reader, edits, faults>>
qq == <<question, consumer, gate, calls, searcher, provider, version, consent, expired, deleted,
        sent, approved, errors>>
fu == <<row, stored, staging, partial, published, space, alive, old, op, deleting, crashes, breaks>>
ma == <<world, call, doubt, told, free>>
mj == <<judged>>
re == <<text, cut, found>>
ps == <<settings, form, taking, grant, standing, request, keysSent, document, page>>
pa == <<enabled, known, login, logins, accountOp, report, failures, meddled>>
all == <<kb, qq, fu, ma, mj, re, ps, pa, scenario>>

-----------------------------------------------------------------------------
Scenarios == {"builds", "readers", "queue", "sending", "folders", "meeting", "judgement",
              "retrieval", "settings", "accounts"}

Init ==
    /\ scenario \in Scenarios
    /\ Kb!Init /\ folder = [f \in Files |-> CHOOSE c \in Contents : TRUE] /\ Fu!Init /\ Mj!Init
    /\ Ma!Init /\ (scenario # "meeting" => world.vendor = v1)
    /\ Qq!Init /\ (scenario # "sending" => provider = p1 /\ consent = p1)
    /\ Re!Init /\ (scenario # "retrieval" => text = Re!NoText)
    /\ Ps!Init /\ (scenario # "settings" => settings.url = Local)
    /\ Pa!Init /\ (scenario # "accounts" => known = {})

\* Builds that fail, are cancelled and published; pins and reviews are left to "readers".  A file is
\* edited only where no step fails.
Builds ==
    /\ edits' > 0 => faults' = 0
    /\ reader' = reader /\ \A r \in Revs : ~build'[r].pinned /\ ~build'[r].review
\* Searches beside publication, removal, pins and deletion, without failing steps.
Readers ==
    /\ faults' = 0 /\ edits' = 0 /\ asked' = None
    /\ \A r \in Revs : /\ build'[r].pinned => reader' = Kb!NoReader /\ ~build'[r].review
                       /\ build'[r].cancel => workspace' # "live"
\* Two questions and two consumers of one workspace, without changes of the settings;
\* at most one of the two permits is with other users of the model.
Queue ==
    /\ version' = 0 /\ consent' \in {consent, None} /\ (deleted' \/ consent' = consent) /\ ~expired'
    /\ calls' < LLM_CONCURRENCY
\* One question while settings and approvals change.
Sending ==
    /\ Cardinality({q \in Questions : question'[q].status # "absent"}) <= 1
    /\ calls' = 0 /\ searcher' # "other" /\ errors' = 0
\* Two calls at once only for the two analyses and without changes of the meeting.
Working == {c \in Ma!Calls : call'[c].pc # "idle"}
Meeting ==
    Cardinality(Working) > 1 => Working \subseteq Inquiries /\ world'.version = 0 /\ world'.scope = 0
\* Prompts are edited while the connection rests, and one grant or request is open at a time.
Setting ==
    /\ (\E d \in Prompts : document'[d].version > 0) =>
           /\ settings'.version = 0 /\ form' = [x \in Users |-> settings'] /\ grant' = None
           /\ request' = None /\ taking' = [x \in Users |-> None]
    /\ settings'.version > 1 => page' = [x \in Users |-> document']
    /\ request' # None => grant' = None /\ taking' = [x \in Users |-> None]
\* A run of the sign-in helper and a failing save do not meet.
Signing == logins' = 0 \/ failures' = 0

Rest(a, b, c, d, e, f, g) == UNCHANGED <<a, b, c, d, e, f, g, scenario>>
KbRests == Rest(qq, fu, ma, mj, re, ps, pa)
QqRests == Rest(kb, fu, ma, mj, re, ps, pa)

Next ==
    \/ scenario = "builds" /\ Kb!Next /\ Builds /\ KbRests
    \/ scenario = "readers" /\ Kb!Next /\ Readers /\ KbRests
    \/ scenario = "queue" /\ Qq!Next /\ Queue /\ QqRests
    \/ scenario = "sending" /\ Qq!Next /\ Sending /\ QqRests
    \/ scenario = "folders" /\ Fu!Next /\ Rest(kb, qq, ma, mj, re, ps, pa)
    \/ scenario = "meeting" /\ Ma!Next /\ Meeting /\ Rest(kb, qq, fu, mj, re, ps, pa)
    \/ scenario = "judgement" /\ Mj!Next /\ Rest(kb, qq, fu, ma, re, ps, pa)
    \/ scenario = "retrieval" /\ Re!Next /\ Rest(kb, qq, fu, ma, mj, ps, pa)
    \/ scenario = "settings" /\ Ps!Next /\ Setting /\ Rest(kb, qq, fu, ma, mj, re, pa)
    \/ scenario = "accounts" /\ Pa!Next /\ Signing /\ Rest(kb, qq, fu, ma, mj, re, ps)

\* The index thread takes builds and finishes removals; the consumers take due questions.
Fairness ==
    /\ WF_all(scenario = "builds" /\ Kb!Worker /\ removing.pc # "unlinked" /\ Builds /\ KbRests)
    /\ WF_all(scenario = "builds" /\ Kb!Removing /\ Builds /\ KbRests)
    /\ \A t \in Consumers : WF_all(scenario = "queue" /\ Qq!Consume(t) /\ Queue /\ QqRests)
    /\ \A q \in Questions : WF_all(scenario = "queue" /\ Qq!Due(q) /\ Queue /\ QqRests)

Spec == Init /\ [][Next]_all /\ Fairness

-----------------------------------------------------------------------------
(* The properties of the modules, where each part is explained             *)

\* What a workspace says it has is there: the active revision is whole, revisions that are
\* kept or asked about keep their documents, an upload is published as it was committed, and
\* nothing of a deleted workspace or a withdrawn upload is left.
KnowledgeHolds ==
    /\ Kb!TypeOK /\ Kb!ActiveIsWhole /\ Kb!KeptKeepDocuments /\ Kb!StrictBuildIsComplete
    /\ Kb!QuestionKeepsRevision /\ Kb!NothingOfDeleted
    /\ Fu!TypeOK /\ Fu!PublishedIsCommitted /\ Fu!OneWorkspace /\ Fu!NoFilesWithoutRow

\* A question or an utterance is worked on once and under a permit that comes back; what is
\* shown belongs to the circumstances it was asked in, keys, approvals and edits to the
\* connection and the page they were made for; one account of the proxy answers at a time.
WorkHolds ==
    /\ Qq!TypeOK /\ Qq!OneConsumerEach /\ Qq!PermitsConserved
    /\ Ma!TypeOK /\ Ma!NoLatePopup /\ Ma!StaleCheckpointRests /\ Ma!PermitsReturn
    /\ Ps!TypeOK /\ Ps!KeyStaysHome /\ Ps!ConsentIsInformed /\ Ps!NoLostSave
    /\ Pa!TypeOK /\ Pa!NeverBeside

\* The rules that turn texts into evidence and model output into popups give what their
\* readers count on, for every bounded input.
RulesHold ==
    /\ Mj!TypeOK /\ Mj!ColoursAreEarned /\ Mj!ScoresStayCoherent /\ Mj!ContextIsRecent
    /\ Re!TypeOK /\ Re!ChunksCoverTheText /\ Re!SmallOverlapAdvances /\ Re!TitlesEnclose
    /\ Re!NamedDocumentsFirst /\ Re!HitsComeFirst

\* Evidence is returned only of what stands, a cancelled build stays out, results stay, and a
\* selection of an account succeeds or is undone as a whole.
StepsHold ==
    /\ Kb!EvidenceStands /\ Kb!CancelledStaysOut /\ Qq!ResultsStay
    /\ Pa!SelectedIsAlone /\ Pa!FailedIsRestored

\* What leaves the machine goes where a manager has approved it.
SentOnlyWhereApproved == Qq!SentOnlyWhereApproved

\* Every build and every question comes to an end.
WorkEnds == (scenario = "builds" => Kb!BuildEnds) /\ (scenario = "queue" => Qq!QuestionEnds)
=============================================================================
