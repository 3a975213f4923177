---------------------- MODULE SubscriptionDeliveryScenarios ----------------------
(***************************************************************************)
(* Several instances of SubscriptionDelivery in one run.  The scenario is  *)
(* chosen by the initial state and never changes, so the state space is    *)
(* the sum of theirs.  The constants of a cfg are those of its first       *)
(* scenario: "speech" in the safety run, "analysed" in the liveness run.   *)
(***************************************************************************)
EXTENDS SubscriptionDeliveryMC

VARIABLE scenario

scenarioVars == <<vars, scenario>>

-----------------------------------------------------------------------------
(* Safety: one utterance rewritten while calls fail, or the subscription   *)
(* moved between two workspaces, on, off, pinned and current revisions.    *)

Switching == INSTANCE SubscriptionDelivery WITH
    Workspaces <- {w1, w2}, Utts <- {1}, Texts <- {t1}, MaxRev <- 2, Batch <- 1, MaxGen <- 2,
    MaxGrants <- 3, MaxLost <- 0, MaxCrashes <- 0,
    Ops <- {"save", "enable", "disable", "pin", "index", "failures"}

SafetyInit == \/ scenario = "speech" /\ Init
              \/ scenario = "switch" /\ Switching!Init
SafetyNext == \/ scenario = "speech" /\ Next /\ UNCHANGED scenario
              \/ scenario = "switch" /\ Switching!Next /\ UNCHANGED scenario
SafetySpec == SafetyInit /\ [][SafetyNext]_scenarioVars

\* A permutation acts on the values a scenario uses and leaves the others alone.
ScenarioSymmetry == Permutations({w1, w2}) \cup Permutations({t1, t2})

\* While one utterance is rewritten, withdrawn and put back: an acknowledged delivery has its
\* row in RAG, an announced snapshot leaves no row of a withdrawn utterance, and a text that
\* returns is offered under a new key.
SpeechHolds == scenario = "speech" => ReceiptHasRow /\ AnnouncedIsClean /\ ReturnsUnderNewKey
\* While the subscription is switched: acknowledged deliveries keep their rows across grants,
\* the enabled grant stands upstream, and every former one is on its way to be cancelled.
SwitchHolds ==
    scenario = "switch" => /\ Switching!ReceiptHasRow /\ Switching!ActiveGrantStands
                           /\ Switching!FormerGrantsAreCancelled

-----------------------------------------------------------------------------
(* Liveness: two utterances and lost calls, or the deletion of the session *)
(* at any await.                                                           *)

Deleting == INSTANCE SubscriptionDelivery WITH
    Workspaces <- {w1, w2}, Utts <- {1}, Texts <- {t1}, MaxRev <- 1, Batch <- 1, MaxGen <- 2,
    MaxGrants <- 2, MaxLost <- 0, MaxCrashes <- 1,
    Ops <- {"save", "enable", "delete", "failures"}

\* None is no workspace, no text, and no row of the scenarios either.
ASSUME ScenarioAssumption ==
    /\ None \notin {w1, w2, t1, t2} \cup Nat
    /\ None \notin Switching!Subscription \cup [key : Switching!Key, active : BOOLEAN]
                   \cup [key : Switching!Key, gen : 1..2]
    /\ None \notin Deleting!Subscription \cup [key : Deleting!Key, active : BOOLEAN]
                   \cup [key : Deleting!Key, gen : 1..2]

LivenessInit == \/ scenario = "analysed" /\ Init
                \/ scenario = "deletion" /\ Deleting!Init
Analysing(A) == scenario = "analysed" /\ A /\ UNCHANGED scenario
Tombstone(A) == scenario = "deletion" /\ A /\ UNCHANGED scenario
LivenessNext == Analysing(Next) \/ Tombstone(Deleting!Next)

\* FairSpec of SubscriptionDelivery in each scenario.
LivenessSpec ==
    /\ LivenessInit /\ [][LivenessNext]_scenarioVars
    /\ WF_scenarioVars(Analysing(Continue) \/ Tombstone(Deleting!Continue))
    /\ WF_scenarioVars(Analysing(Defer) \/ Tombstone(Deleting!Defer))
    /\ SF_scenarioVars(Analysing(Start) \/ Tombstone(Deleting!Start))
    /\ WF_scenarioVars(Analysing(Subscribe) \/ Tombstone(Deleting!Subscribe))
    /\ SF_scenarioVars(Analysing(Disable) \/ Tombstone(Deleting!Disable))
    /\ SF_scenarioVars(Analysing(Register) \/ Tombstone(Deleting!Register))
    /\ WF_scenarioVars(Analysing(ServeApi) \/ Tombstone(Deleting!ServeApi))
    /\ \A w \in {w1, w2} :
         SF_scenarioVars(\/ Analysing(Awaits("cancel") /\ task.call.ws = w /\ Serve)
                         \/ Tombstone(Awaits("cancel") /\ task.call.ws = w /\ Deleting!Serve))
    /\ SF_scenarioVars(\/ Analysing(Awaits("sync") /\ Serve)
                       \/ Tombstone(Awaits("sync") /\ Deleting!Serve))
    /\ \A u \in {1, 2} :
         SF_scenarioVars(\/ Analysing(Awaits("enqueue") /\ task.call.key.utt = u /\ Serve)
                         \/ Tombstone(Awaits("enqueue") /\ task.call.key.utt = u /\ Deleting!Serve))

\* TypeOK when the session may be deleted at any await.
DeletionTypeOK == scenario = "deletion" => Deleting!TypeOK
\* TombstoneKept at any await of a round or of a subscribe request.
DeletionTombstoneKept == [][scenario = "deletion" => KeepsTombstone]_scenarioVars
\* DeletedIsForgotten at any await of a round or of a subscribe request.
DeletionForgotten ==
    (scenario = "deletion" /\ ~session.exists /\ sub # None) ~> (sub = None)
\* SpeechIsAnalysed with two utterances and one delivery per round.
SpeechAnalysed ==
    \A u \in Utts : (scenario = "analysed" /\ Said(u)) ~> (scenario # "analysed" \/ Settled(u))
=============================================================================
