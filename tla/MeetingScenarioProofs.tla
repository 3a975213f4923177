-------------------------- MODULE MeetingScenarioProofs --------------------------
(***************************************************************************)
(* Proofs about the runs of MeetingJobsScenarios: what the theorems of     *)
(* MeetingJobsProofs say of the instances that TLC checks.  The scenarios  *)
(* "fencing" and "lanes" are the module itself under the constants of the  *)
(* cfg.  The scenario "sources" has constants of its own: its theorems are *)
(* those of So, the proof module under the same substitution, and the      *)
(* lemmas below carry the steps and the promises over, operator by         *)
(* operator.                                                               *)
(***************************************************************************)
EXTENDS MeetingJobsProofs, MeetingJobsScenarios

-----------------------------------------------------------------------------
(* The scenarios of the cfgs' own constants                                *)

\* In the run of several scenarios too, a thread that holds the lease works on the current row
\* and an analysis matches the policy of its row.
THEOREM FencingScenarioHolds == SafetySpec => []FencingHolds
  <1> DEFINE Inv == scenario = "fencing" => AnswerInv
  <1>1. SafetyInit => Inv
    BY AnswerInit DEF SafetyInit
  <1>2. Inv /\ [SafetyNext]_scenarioVars => Inv'
    <2> SUFFICES ASSUME Inv, [SafetyNext]_scenarioVars, scenario' = "fencing" PROVE AnswerInv'
      OBVIOUS
    <2>1. scenario = "fencing" /\ [Next]_vars
      BY DEF SafetyNext, scenarioVars
    <2> QED
      BY <2>1, AnswerStep
  <1>3. Inv => FencingHolds
    <2>1. AnswerInv => LeaseMeansCurrent
      BY DEF AnswerInv, QueueInv, CurrentInv
    <2>2. AnswerInv => AnalysisMatchesPolicy
      BY DEF AnswerInv, RowsFit, RowFits, AnalysisMatchesPolicy, Live, Exists
    <2> QED
      BY <2>1, <2>2 DEF FencingHolds
  <1> HIDE DEF Inv
  <1> QED
    BY <1>1, <1>2, <1>3, PTL DEF SafetySpec

\* Where its instance offers no retry, what that scenario withdraws stays withdrawn.
THEOREM FencingScenarioWithdraws ==
  ASSUME "retry" \notin Ops PROVE SafetySpec => FencingWithdrawnIsFinal
  <1> DEFINE Inv == scenario = "fencing" => TypeInv /\ LeaseInv /\ NoRetry
  <1>1. SafetyInit => Inv
    BY InitTypeInv, InitLease DEF SafetyInit, Init, NoRetry, Idle
  <1>2. ASSUME [SafetyNext]_scenarioVars, scenario = "fencing" \/ scenario' = "fencing"
        PROVE  scenario = "fencing" /\ [Next]_vars
    BY <1>2 DEF SafetyNext, scenarioVars
  <1>3. Inv /\ [SafetyNext]_scenarioVars => Inv'
    BY <1>2, StepTypeInv, StepLease, NoRetryStep
  <1>4. Inv /\ [SafetyNext]_scenarioVars => [scenario = "fencing" => KeepsWithdrawn]_scenarioVars
    BY <1>2, NoRetryStep, WithdrawnStep
  <1> HIDE DEF Inv
  <1> QED
    BY <1>1, <1>3, <1>4, PTL DEF SafetySpec, FencingWithdrawnIsFinal

\* In the run of the dedicated lane as well, fair or not, the lane is kept for live questions.
THEOREM LanesScenarioIsPure == LivenessSpec => []LanesPure
  <1> DEFINE Inv == scenario = "lanes" => TypeInv /\ LeaseInv /\ LaneInv
  <1>1. LivenessInit => Inv
    BY InitTypeInv, InitLease, LaneInit DEF LivenessInit
  <1>2. Inv /\ [LivenessNext]_scenarioVars => Inv'
    <2> SUFFICES ASSUME Inv, [LivenessNext]_scenarioVars, scenario' = "lanes"
                 PROVE  (TypeInv /\ LeaseInv /\ LaneInv)'
      OBVIOUS
    <2>1. scenario = "lanes" /\ [Next]_vars
      BY DEF LivenessNext, scenarioVars
    <2> QED
      BY <2>1, StepTypeInv, StepLease, LaneStepInv
  <1>3. Inv => LanesPure
    BY DEF LanesPure, LaneInv
  <1>4. LivenessSpec => LivenessInit /\ [][LivenessNext]_scenarioVars
    BY PTL DEF LivenessSpec
  <1> HIDE DEF Inv
  <1> QED
    BY <1>1, <1>2, <1>3, <1>4, PTL

-----------------------------------------------------------------------------
(* The scenario of sources                                                 *)

So == INSTANCE MeetingJobsProofs WITH
    Ids <- {i1, i2, i3}, Tokens <- {t1}, Keys <- MCKeys2, Sessions <- {"s"}, Utterances <- {"a"},
    Revisions <- {"r1"}, Scopes <- {x}, Clients <- {"c1", "c2"}, Slots <- {"filter"},
    FilterSlots <- {"filter"}, SessionOf <- SessionOf2, UttOf <- UttOf2, RevOf <- RevOf2,
    LiveKeys <- MCKeys2, GateSize <- 1, LiveCap <- 3, FileCap <- 1, LateKeys <- {},
    MaxVersion <- 0, MaxGen <- 1, MaxFaults <- 0,
    Ops <- {"enqueue", "direct", "resend", "grant", "sync"}

\* The constants of the scenario are those of an instance.
LEMMA SourceConstants == So!ConstantsAssumption
  <1>1. /\ SessionOf2 \in [MCKeys2 -> {"s"}] /\ UttOf2 \in [MCKeys2 -> {"a"}]
        /\ RevOf2 \in [MCKeys2 -> Nat]
    BY DEF SessionOf2, UttOf2, RevOf2, MCSessionOf, MCUttOf, MCRevOf, MCKeys2
  <1>2. IsFiniteSet({"filter"})
    BY FS_Singleton
  <1>3. None \notin {i1, i2, i3} \cup {t1} \cup MCKeys2 \cup {"r1"} \cup {x}
    BY ScenarioAssumption DEF MCKeys2, MCKeys3
  <1>4. So!IsFiniteSet({"filter"})
    BY <1>2 DEF IsFiniteSet, So!IsFiniteSet
  <1> QED
    BY <1>1, <1>3, <1>4 DEF So!ConstantsAssumption

\* The scenario starts where its proofs do.
LEMMA SourceInit == Sources!Init <=> So!Init
  BY DEF Sources!Init, So!Init, Sources!NoRow, So!NoRow, Sources!FreeWorker, So!FreeWorker,
     Sources!NoCopy, So!NoCopy, Sources!CopyOf, So!CopyOf, Sources!NoTick, So!NoTick,
     Sources!Idle, So!Idle

\* The scenario of sources has the steps its proofs are about.
LEMMA SourceSteps == Sources!Next <=> So!Next
  <1>1. \A c, k, g : Sources!EnqueueRead(c, k, g) <=> So!EnqueueRead(c, k, g)
    BY DEF Sources!EnqueueRead, So!EnqueueRead, Sources!Idle, So!Idle
  <1>2. \A c : Sources!EnqueueAnswer(c) <=> So!EnqueueAnswer(c)
    BY DEF Sources!EnqueueAnswer, So!EnqueueAnswer, Sources!Refused, So!Refused, Sources!Latest,
       So!Latest, Sources!Old, So!Old, Sources!Exists, So!Exists, Sources!Outdated, So!Outdated, Sources!Live, So!Live,
       Sources!Withdrawn, So!Withdrawn, Sources!Open, So!Open, Sources!RUNNABLE, So!RUNNABLE,
       Sources!InFlight, So!InFlight, Sources!Cardinality, So!Cardinality, Sources!Idle, So!Idle
  <1>3. \A c, j : Sources!EnqueueInsert(c, j) <=> So!EnqueueInsert(c, j)
    BY DEF Sources!EnqueueInsert, So!EnqueueInsert, Sources!Withdraw, So!Withdraw,
       Sources!Superseding, So!Superseding, Sources!Outdated, So!Outdated, Sources!Live, So!Live,
       Sources!Exists, So!Exists, Sources!Withdrawn, So!Withdrawn, Sources!Refused, So!Refused,
       Sources!Latest, So!Latest, Sources!Old, So!Old, Sources!Open, So!Open, Sources!RUNNABLE, So!RUNNABLE,
       Sources!InFlight, So!InFlight, Sources!Cardinality, So!Cardinality, Sources!FreshId,
       So!FreshId, Sources!NoRow, So!NoRow, Sources!Idle, So!Idle
  <1>4. \A c, i : Sources!RetryRead(c, i) <=> So!RetryRead(c, i)
    BY DEF Sources!RetryRead, So!RetryRead, Sources!Idle, So!Idle
  <1>5. \A c : Sources!RetryCommit(c) <=> So!RetryCommit(c)
    BY DEF Sources!RetryCommit, So!RetryCommit, Sources!Unique, So!Unique, Sources!Retried,
       So!Retried, Sources!Exists, So!Exists, Sources!Reclassified, So!Reclassified,
       Sources!Idle, So!Idle
  <1>6. \A c : Sources!PolicyRead(c) <=> So!PolicyRead(c)
    BY DEF Sources!PolicyRead, So!PolicyRead, Sources!Idle, So!Idle
  <1>7. \A c, sc : Sources!PolicySave(c, sc) <=> So!PolicySave(c, sc)
    BY DEF Sources!PolicySave, So!PolicySave
  <1>8. \A c : Sources!PolicyConflict(c) <=> So!PolicyConflict(c)
    BY DEF Sources!PolicyConflict, So!PolicyConflict, Sources!Idle, So!Idle
  <1>9. \A c : Sources!PolicyReread(c) <=> So!PolicyReread(c)
    BY DEF Sources!PolicyReread, So!PolicyReread, Sources!Idle, So!Idle
  <1>10. \A c : Sources!PolicyApply(c) <=> So!PolicyApply(c)
    BY DEF Sources!PolicyApply, So!PolicyApply, Sources!Unique, So!Unique, Sources!Reapplied,
       So!Reapplied, Sources!Affected, So!Affected, Sources!Live, So!Live, Sources!Exists,
       So!Exists, Sources!Withdrawn, So!Withdrawn, Sources!Reclassified, So!Reclassified,
       Sources!Idle, So!Idle
  <1>11. \A s, on, rev : Sources!Subscribe(s, on, rev) <=> So!Subscribe(s, on, rev)
    BY DEF Sources!Subscribe, So!Subscribe, Sources!Invalidated, So!Invalidated,
       Sources!Withdraw, So!Withdraw, Sources!Of, So!Of, Sources!Exists, So!Exists, Sources!Open,
       So!Open, Sources!RUNNABLE, So!RUNNABLE, Sources!InFlight, So!InFlight, Sources!Live,
       So!Live, Sources!Withdrawn, So!Withdrawn
  <1>12. \A s, delete : Sources!Cancel(s, delete) <=> So!Cancel(s, delete)
    BY DEF Sources!Cancel, So!Cancel, Sources!Of, So!Of, Sources!Exists, So!Exists,
       Sources!NoRow, So!NoRow, Sources!Invalidated, So!Invalidated, Sources!Withdraw,
       So!Withdraw, Sources!Open, So!Open, Sources!RUNNABLE, So!RUNNABLE, Sources!InFlight,
       So!InFlight, Sources!Live, So!Live, Sources!Withdrawn, So!Withdrawn
  <1>13. \A s, present, g : Sources!Sync(s, present, g) <=> So!Sync(s, present, g)
    BY DEF Sources!Sync, So!Sync, Sources!Withdraw, So!Withdraw, Sources!Of, So!Of,
       Sources!Exists, So!Exists, Sources!Live, So!Live, Sources!Withdrawn, So!Withdrawn
  <1>14. Sources!TickRaises <=> So!TickRaises
    BY DEF Sources!TickRaises, So!TickRaises, Sources!Marked, So!Marked, Sources!Watched,
       So!Watched, Sources!Open, So!Open, Sources!RUNNABLE, So!RUNNABLE, Sources!InFlight,
       So!InFlight
  <1>15. \A m, due : Sources!TickPlan(m, due) <=> So!TickPlan(m, due)
    <2>1. Sources!Marked = So!Marked
      BY DEF Sources!Marked, So!Marked, Sources!Watched, So!Watched, Sources!Open, So!Open,
         Sources!RUNNABLE, So!RUNNABLE, Sources!InFlight, So!InFlight
    <2>2. \A due : Sources!Available(due) = So!Available(due)
      BY DEF Sources!Available, So!Available, Sources!RUNNABLE, So!RUNNABLE, Sources!Delayed,
         So!Delayed
    <2>3. \A t, s, m : /\ Sources!Candidates(t, s, m) = So!Candidates(t, s, m)
                     /\ Sources!Held(t, s, m) = So!Held(t, s, m)
      BY DEF Sources!Candidates, So!Candidates, Sources!FilterCandidates, So!FilterCandidates,
         Sources!Prefer, So!Prefer, Sources!PriorityCandidates, So!PriorityCandidates,
         Sources!SharedCandidates, So!SharedCandidates, Sources!Main, So!Main, Sources!Held,
         So!Held
    <2>4. \A m : Sources!ModeAllowed(m) <=> So!ModeAllowed(m)
      BY DEF Sources!ModeAllowed, So!ModeAllowed, Sources!Urgent, So!Urgent, Sources!Open,
         So!Open, Sources!RUNNABLE, So!RUNNABLE, Sources!InFlight, So!InFlight
    <2>5. /\ Sources!NoTick = So!NoTick /\ Sources!NoCopy = So!NoCopy
          /\ \A s : Sources!Busy(s) <=> So!Busy(s)
          /\ \A r : Sources!CopyOf(r) = So!CopyOf(r)
      BY DEF Sources!NoTick, So!NoTick, Sources!NoCopy, So!NoCopy, Sources!CopyOf, So!CopyOf,
         Sources!NoRow, So!NoRow, Sources!Busy, So!Busy
    <2>6. TAKE m, due
    <2> QED
      BY <2>1, <2>2, <2>3, <2>4, <2>5 DEF Sources!TickPlan, So!TickPlan
  <1>16. \A s : Sources!Miss(s) <=> So!Miss(s)
    BY DEF Sources!Miss, So!Miss, Sources!Visits, So!Visits, Sources!Rank, So!Rank,
       Sources!Candidates, So!Candidates, Sources!FilterCandidates, So!FilterCandidates,
       Sources!Prefer, So!Prefer, Sources!PriorityCandidates, So!PriorityCandidates,
       Sources!SharedCandidates, So!SharedCandidates, Sources!Main, So!Main, Sources!Claimable,
       So!Claimable, Sources!RUNNABLE, So!RUNNABLE, Sources!Resting, So!Resting, Sources!Held,
       So!Held, Sources!Visited, So!Visited, Sources!NoTick, So!NoTick, Sources!NoCopy,
       So!NoCopy, Sources!CopyOf, So!CopyOf, Sources!NoRow, So!NoRow
  <1>17. \A s, i, t : Sources!Claim(s, i, t) <=> So!Claim(s, i, t)
    BY DEF Sources!Claim, So!Claim, Sources!Visits, So!Visits, Sources!Rank, So!Rank,
       Sources!Candidates, So!Candidates, Sources!FilterCandidates, So!FilterCandidates,
       Sources!Prefer, So!Prefer, Sources!PriorityCandidates, So!PriorityCandidates,
       Sources!SharedCandidates, So!SharedCandidates, Sources!Main, So!Main, Sources!Claimable,
       So!Claimable, Sources!RUNNABLE, So!RUNNABLE, Sources!UsedTokens, So!UsedTokens,
       Sources!Resting, So!Resting, Sources!Held, So!Held, Sources!Visited, So!Visited,
       Sources!NoTick, So!NoTick, Sources!NoCopy, So!NoCopy, Sources!CopyOf, So!CopyOf,
       Sources!NoRow, So!NoRow
  <1>18. \A s : Sources!Begin(s) <=> So!Begin(s)
    BY DEF Sources!Begin, So!Begin, Sources!Reread, So!Reread, Sources!CopyOf, So!CopyOf,
       Sources!Checks, So!Checks, Sources!Owns, So!Owns, Sources!Decide, So!Decide
  <1>19. \A s : Sources!Return(s) <=> So!Return(s)
    BY DEF Sources!Return, So!Return, Sources!Decide, So!Decide, Sources!Answers, So!Answers,
       Sources!Checks, So!Checks, Sources!Owns, So!Owns
  <1>20. \A s : Sources!Commit(s) <=> So!Commit(s)
    BY DEF Sources!Commit, So!Commit, Sources!Owns, So!Owns, Sources!Outcome, So!Outcome,
       Sources!Classified, So!Classified, Sources!Completed, So!Completed, Sources!MissedAtEnd,
       So!MissedAtEnd, Sources!Failed, So!Failed, Sources!FreeWorker, So!FreeWorker,
       Sources!NoCopy, So!NoCopy, Sources!CopyOf, So!CopyOf, Sources!NoRow, So!NoRow,
       Sources!Released, So!Released
  <1>21. \A s : Sources!WorkerRaises(s) <=> So!WorkerRaises(s)
    BY DEF Sources!WorkerRaises, So!WorkerRaises, Sources!Released, So!Released
  <1>22. \A i : Sources!DeadlinePasses(i) <=> So!DeadlinePasses(i)
    BY DEF Sources!DeadlinePasses, So!DeadlinePasses, Sources!Exists, So!Exists
  <1>23. Sources!Restart <=> So!Restart
    BY DEF Sources!Restart, So!Restart, Sources!Recovered, So!Recovered, Sources!InFlight,
       So!InFlight, Sources!FreeWorker, So!FreeWorker, Sources!NoCopy, So!NoCopy, Sources!CopyOf,
       So!CopyOf, Sources!NoRow, So!NoRow, Sources!NoTick, So!NoTick, Sources!Idle, So!Idle
  <1> QED
    BY <1>1, <1>2, <1>3, <1>4, <1>5, <1>6, <1>7, <1>8, <1>9, <1>10, <1>11, <1>12, <1>13, <1>14,
       <1>15, <1>16, <1>17, <1>18, <1>19, <1>20, <1>21, <1>22, <1>23 DEF Sources!Next, So!Next,
       Sources!ApiStep, So!ApiStep, Sources!SessionStep, So!SessionStep, Sources!TickStep,
       So!TickStep, Sources!VisitStep, So!VisitStep, Sources!WorkerStep, So!WorkerStep,
       Sources!Delayed, So!Delayed

\* The scenario promises what its proofs promise.
LEMMA SourcePromises ==
  /\ Sources!OneAnalysisPerUtterance <=> So!OneAnalysisPerUtterance
  /\ Sources!ReplacesOlder <=> So!ReplacesOlder
  BY DEF Sources!OneAnalysisPerUtterance, So!OneAnalysisPerUtterance, Sources!ReplacesOlder,
     So!ReplacesOlder, Sources!Live, So!Live, Sources!Exists, So!Exists, Sources!Withdrawn,
     So!Withdrawn

\* A step of the run in this scenario is one its proofs are about, and the scenario stays.
LEMMA SourceRun ==
  ASSUME [SafetyNext]_scenarioVars
  PROVE  scenario' = scenario /\ (scenario = "sources" => [So!Next]_So!vars)
  <1>1. scenario' = scenario /\ (scenario = "sources" => (So!Next \/ UNCHANGED vars))
    BY SourceSteps DEF SafetyNext, scenarioVars
  <1> QED
    BY <1>1 DEF So!vars, vars

\* What the scenario keeps at every step: nobody retries, so an utterance has one analysis.
SourcesInv == scenario = "sources" =>
                So!QueueInv /\ So!NoRetry /\ So!OneAnalysisPerUtterance

\* The scenario keeps it, step by step.
LEMMA SourcesKeep ==
  /\ SafetyInit => SourcesInv
  /\ SourcesInv /\ [SafetyNext]_scenarioVars => SourcesInv'
  <1>0. "retry" \notin {"enqueue", "direct", "resend", "grant", "sync"}
    OBVIOUS
  <1>1. SafetyInit => SourcesInv
    <2>1. So!Init => So!NoRetry /\ So!OneAnalysisPerUtterance
      BY DEF So!Init, So!NoRetry, So!Idle, So!OneAnalysisPerUtterance, So!Live, So!Exists, So!NoRow
    <2> QED
      BY <2>1, SourceConstants, SourceInit, So!InitTypeInv, So!InitLease, So!InitKeys, So!InitCurrent
         DEF SafetyInit, SourcesInv, So!QueueInv
  <1>2. ASSUME SourcesInv, [SafetyNext]_scenarioVars PROVE SourcesInv'
    <2>1. scenario' = scenario /\ (scenario = "sources" => [So!Next]_So!vars)
      BY <1>2, SourceRun
    <2>2. SUFFICES ASSUME scenario = "sources"
                   PROVE  (So!QueueInv /\ So!NoRetry /\ So!OneAnalysisPerUtterance)'
      BY <2>1 DEF SourcesInv
    <2>3. So!QueueInv'
      BY <1>2, <2>1, <2>2, SourceConstants, So!StepTypeInv, So!StepLease, So!StepKeys, So!StepCurrent
         DEF SourcesInv, So!QueueInv
    <2>4. So!NoRetry' /\ \A c \in {"c1", "c2"} : ~So!RetryCommit(c)
      BY <1>0, <1>2, <2>1, <2>2, SourceConstants, So!NoRetryStep DEF SourcesInv, So!QueueInv
    <2> QED
      BY <1>2, <2>1, <2>2, <2>3, <2>4, SourceConstants, So!OneAnalysisStep DEF SourcesInv, So!QueueInv
  <1> QED
    BY <1>1, <1>2

\* With two clients that deliver two revisions of one utterance while sources advance, at most
\* one of its rows counts.
THEOREM SourcesHaveOneAnalysis == SafetySpec => []SourcesOneAnalysis
  <1>1. SourcesInv => SourcesOneAnalysis
    BY SourcePromises DEF SourcesInv, SourcesOneAnalysis
  <1> QED
    BY <1>1, SourcesKeep, PTL DEF SafetySpec

\* And the row that counts is never replaced by an older revision or an older source.
THEOREM SourcesKeepNewest == SafetySpec => SourcesNewerStays
  <1>1. ASSUME SourcesInv, [SafetyNext]_scenarioVars
        PROVE  [scenario = "sources" => Sources!ReplacesOlder]_scenarioVars
    <2> SUFFICES ASSUME scenario = "sources", ~UNCHANGED scenarioVars PROVE So!ReplacesOlder
      BY SourcePromises
    <2>1. [So!ReplacesOlder]_So!vars
      BY <1>1, SourceRun, SourceConstants, So!NewestStep DEF SourcesInv
    <2>2. scenario' = scenario
      BY <1>1, SourceRun
    <2> QED
      BY <2>1, <2>2 DEF So!vars, vars, scenarioVars
  <1> QED
    BY <1>1, SourcesKeep, PTL DEF SafetySpec, SourcesNewerStays
=============================================================================
