-------------------------- MODULE MeetingJobsScenarios --------------------------
(***************************************************************************)
(* Several instances of MeetingJobs in one run.  The scenario is chosen by *)
(* the initial state and never changes, so the state space is the sum of   *)
(* theirs.  The constants of a cfg are those of its first scenario:        *)
(* "fencing" in the safety run and "lanes" in the liveness run.            *)
(***************************************************************************)
EXTENDS MeetingJobsMC

\* NULL is not an id, a token, a key, a document revision or a scope of any scenario.
ASSUME ScenarioAssumption ==
    None \notin {i1, i2, i3, t1, t2, x, y, "r1"} \cup MCKeys3

VARIABLE scenario

scenarioVars == <<vars, scenario>>

-----------------------------------------------------------------------------
(* Safety: admission, revocation, re-grant and a scope change with two     *)
(* rows and two slots, or two revisions of one utterance from two clients  *)
(* while sources advance.                                                  *)

Sources == INSTANCE MeetingJobs WITH
    Ids <- {i1, i2, i3}, Tokens <- {t1}, Keys <- MCKeys2, Sessions <- {"s"}, Utterances <- {"a"},
    Revisions <- {"r1"}, Scopes <- {x}, Clients <- {"c1", "c2"}, Slots <- {"filter"},
    FilterSlots <- {"filter"}, SessionOf <- SessionOf2, UttOf <- UttOf2, RevOf <- RevOf2,
    LiveKeys <- MCKeys2, GateSize <- 1, LiveCap <- 3, FileCap <- 1, LateKeys <- {},
    MaxVersion <- 0, MaxGen <- 1, MaxFaults <- 0,
    Ops <- {"enqueue", "direct", "resend", "grant", "sync"}

SafetyInit == \/ scenario = "fencing" /\ Init
              \/ scenario = "sources" /\ Sources!Init
SafetyNext == \/ scenario = "fencing" /\ Next /\ UNCHANGED scenario
              \/ scenario = "sources" /\ Sources!Next /\ UNCHANGED scenario
SafetySpec == SafetyInit /\ [][SafetyNext]_scenarioVars

\* A permutation acts on the values a scenario uses and leaves the others alone.
ScenarioSymmetry == Permutations({i1, i2, i3}) \cup Permutations({t1, t2}) \cup Permutations({x, y})

\* LeaseMeansCurrent and AnalysisMatchesPolicy with two rows, two slots and one permit, while
\* the scope changes under the workers.
FencingHolds == scenario = "fencing" => LeaseMeansCurrent /\ AnalysisMatchesPolicy
\* WithdrawnIsFinal while deliveries, revocations and commits interleave.
FencingWithdrawnIsFinal == [][scenario = "fencing" => KeepsWithdrawn]_scenarioVars
\* OneAnalysisPerUtterance while sources advance.
SourcesOneAnalysis == scenario = "sources" => Sources!OneAnalysisPerUtterance
\* NewerIsNeverReplaced while sources advance.
SourcesNewerStays == [][scenario = "sources" => Sources!ReplacesOlder]_scenarioVars

-----------------------------------------------------------------------------
(* Liveness: the dedicated lane and the watchdog with workers that hang,   *)
(* or two rows, transient errors and pressure under fair scheduling.       *)

Settling == INSTANCE MeetingJobs WITH
    Ids <- {i1, i2}, Tokens <- {t1, t2}, Keys <- MCKeysAB, Sessions <- {"s"},
    Utterances <- {"a", "b"}, Revisions <- {"r1"}, Scopes <- {x}, Clients <- {"c1"},
    Slots <- {"filter", "shared"}, FilterSlots <- {"filter"}, SessionOf <- SessionOfAB,
    UttOf <- UttOfAB, RevOf <- RevOfAB, LiveKeys <- MCKeysAB, GateSize <- 1, LiveCap <- 2,
    FileCap <- 1, LateKeys <- {}, MaxVersion <- 0, MaxGen <- 0, MaxFaults <- 0,
    Ops <- {"enqueue", "grant", "pressure", "errors"}

LivenessInit == \/ scenario = "lanes" /\ Init
                \/ scenario = "settles" /\ Settling!Init
LivenessNext == \/ scenario = "lanes" /\ Next /\ UNCHANGED scenario
                \/ scenario = "settles" /\ Settling!Next /\ UNCHANGED scenario

\* TickingSpec and FairSpec of MeetingJobs, each in its own scenario.
Lanes(A) == scenario = "lanes" /\ A
Settles(A) == scenario = "settles" /\ A
LivenessSpec ==
    /\ LivenessInit /\ [][LivenessNext]_scenarioVars
    /\ WF_scenarioVars(Lanes(TickStep) /\ UNCHANGED scenario)
    /\ WF_scenarioVars(Lanes(VisitStep) /\ UNCHANGED scenario)
    /\ \A s \in {"filter", "shared"} :
         WF_scenarioVars(Settles(Settling!WorkerStep(s)) /\ UNCHANGED scenario)
    /\ WF_scenarioVars(Settles(Settling!VisitStep) /\ UNCHANGED scenario)
    /\ WF_scenarioVars(Settles(Settling!TickRaises) /\ UNCHANGED scenario)
    /\ SF_scenarioVars(/\ scenario = "settles" /\ UNCHANGED scenario
                       /\ \E m \in {"NORMAL", "PRESSURED", "RECOVERY"} :
                            Settling!TickPlan(m, Settling!Delayed))
    /\ SF_scenarioVars(/\ scenario = "settles" /\ UNCHANGED scenario
                       /\ \A i \in {i1, i2} : ~Settling!Urgent(i)
                       /\ Settling!TickPlan("NORMAL", Settling!Delayed))

\* PriorityLanePure with the dedicated slot in use.
LanesPure == scenario = "lanes" => PriorityLanePure
\* PassedDeadlineIsRecorded although workers hang and ticks raise.  The ids are
\* interchangeable: one of them stands for all, here and below.
LanesDeadlineRecorded == (scenario = "lanes" /\ Watched(i1)) ~> (jobs[i1].missed \/ ~Watched(i1))
\* EveryRowSettles under fair scheduling.
SettlesEveryRow == (scenario = "settles" /\ Settling!Open(i1)) ~> ~Settling!Open(i1)
=============================================================================
