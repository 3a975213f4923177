-------------------------------- MODULE RagProofs --------------------------------
(***************************************************************************)
(* What the RAG service does for many users at once, for any number of     *)
(* questions, threads, utterances, administrators and accounts: the queue  *)
(* of questions (names with Qq), the answer to an utterance (Ma), the      *)
(* connection to the provider (Ps) and the account of the proxy (Pa); and  *)
(* what it keeps: the builds, revisions and documents of a workspace (Kb)  *)
(* and its folder uploads (Fu).                                            *)
(*                                                                         *)
(* Each part has its inductive invariant, which TLC checked on small       *)
(* instances, and a theorem about the component alone; the theorems about  *)
(* RagServices follow, whose scenarios only restrict the steps of a        *)
(* component.                                                              *)
(***************************************************************************)
EXTENDS RagServices, Sequences, TLAPS, FiniteSetTheorems

\* None is no record of settings, and the local server is one of the addresses.
LEMMA LocalIsSetting ==
    /\ Local \in URLs /\ MaxVersion \in Nat
    /\ None \notin [url : URLs, model : {None} \cup [home : URLs, name : Models]]
BY SettingsAssumption

-----------------------------------------------------------------------------
(* The queue of questions                                                 *)

\* An instance has its own copy of what a library module defines; the copies agree.
LEMMA QqCardinality == ASSUME NEW S PROVE Qq!Cardinality(S) = Cardinality(S)
  BY DEF Qq!Cardinality, Cardinality

\* The rows and the threads, in the form the prover works with.
QqRow == [status : {"absent", "gone", "queued", "processing"} \cup Qq!Ended, due : BOOLEAN,
          born : 0..Cardinality(Questions)]
QqThread == [pc : Qq!Steps, q : Questions \cup {None}, config : Providers \cup {None}, version : 0..MaxSaves]
QqType ==
    /\ question \in [Questions -> QqRow] /\ consumer \in [Consumers -> QqThread]
    /\ searcher \in Consumers \cup {None, "other"}
    /\ provider \in Providers \cup {None} /\ consent \in Providers \cup {None} /\ version \in 0..MaxSaves
    /\ expired \in BOOLEAN /\ deleted \in BOOLEAN /\ approved \in [Questions -> SUBSET Providers]
    /\ gate \in Nat /\ calls \in Nat

\* A thread past the gate has a question, whose row waits for it unless the workspace is deleted.
QqClaimed ==
    /\ deleted => \A q \in Questions : question[q].status \in {"absent", "gone"}
    /\ \A t \in Consumers :
        /\ consumer[t].q = None <=> consumer[t].pc \in {"idle", "gated"}
        /\ consumer[t].q # None =>
              question[consumer[t].q].status = IF deleted THEN "gone" ELSE "processing"

\* Where a request is made, the provider that was captured has been consented to.
QqGranted ==
    \A t \in Consumers : LET c == consumer[t] IN
        /\ c.pc \in {"context", "check", "send"} => c.config # None
        /\ c.pc = "check" /\ ~deleted => consent \in approved[c.q] \cup {None}
        /\ c.pc = "send" => c.config \in approved[c.q]

QqInv == QqType /\ QqClaimed /\ QqGranted /\ Qq!OneConsumerEach /\ Qq!PermitsConserved

\* The rows born so far, and that there is room for another as long as one is absent.
LEMMA QqBorn ==
  ASSUME QqType, NEW q \in Questions, question[q] = Qq!Absent
  PROVE  Qq!Born + 1 \in 0..Cardinality(Questions)
  <1> DEFINE born == {p \in Questions : question[p].born > 0}
  <1>1. born \subseteq Questions \ {q} /\ q \in Questions
    BY DEF Qq!Absent
  <1>2. Cardinality(Questions \ {q}) = Cardinality(Questions) - 1 /\ IsFiniteSet(Questions \ {q})
    BY FS_RemoveElement, QueueAssumption
  <1>3. Cardinality(born) \in Nat /\ Cardinality(born) <= Cardinality(Questions \ {q})
    BY <1>1, <1>2, FS_Subset, FS_CardinalityType
  <1>4. Cardinality(Questions) \in Nat
    BY FS_CardinalityType, QueueAssumption
  <1> QED
    BY <1>2, <1>3, <1>4, QqCardinality DEF Qq!Born

\* The steps of a thread, and the values they put into its record.
LEMMA QqWords ==
    /\ Qq!Ended = {"answered", "unavailable", "failed"} /\ Qq!Outcomes = Qq!Ended \cup {"queued"}
    /\ Qq!Steps = {"idle", "gated", "begin", "searching", "snapshot", "approve", "context", "check", "send"}
                  \cup Qq!Outcomes
  BY DEF Qq!Ended, Qq!Outcomes, Qq!Steps

\* Moving on leaves every thread a record of the model.
LEMMA QqMoves ==
  ASSUME QqType, NEW t \in Consumers, NEW pc \in Qq!Steps, Qq!Move(t, pc)
  PROVE  consumer' \in [Consumers -> QqThread]
  <1>1. [consumer[t] EXCEPT !.pc = pc] \in QqThread
    BY DEF QqType, QqThread
  <1> QED
    BY <1>1 DEF QqType, Qq!Move

\* A thread between two questions is one.
LEMMA QqRestingThread == Qq!Resting \in QqThread
  BY QueueAssumption DEF Qq!Resting, Qq!Steps, QqThread

\* Every step keeps the types.
LEMMA QqTypeStep == ASSUME QqType, QqClaimed, Qq!Next PROVE QqType'
  <1>1. ASSUME NEW t \in Consumers, Qq!Acquire(t) PROVE QqType'
    <2>1. consumer' \in [Consumers -> QqThread]
      BY <1>1, QqMoves, QqWords DEF Qq!Acquire
    <2> QED
      BY <1>1, <2>1 DEF Qq!Acquire, QqType
  <1>2. ASSUME NEW t \in Consumers, Qq!Claim(t) PROVE QqType'
    <2>1. PICK q \in Questions : /\ question' = Qq!Marked(q)
                                 /\ consumer' = [consumer EXCEPT ![t] = [Qq!Resting EXCEPT !.pc = "begin", !.q = q]]
      BY <1>2 DEF Qq!Claim
    <2>2. [Qq!Resting EXCEPT !.pc = "begin", !.q = q] \in QqThread
      BY QqRestingThread, QqWords DEF QqThread
    <2>3. [question[q] EXCEPT !.status = "processing"] \in QqRow
      BY DEF QqType, QqRow
    <2> QED
      BY <1>2, <2>1, <2>2, <2>3 DEF Qq!Claim, Qq!Marked, QqType
  <1>3. ASSUME NEW t \in Consumers, Qq!NothingToClaim(t) PROVE QqType'
    <2>1. consumer' \in [Consumers -> QqThread]
      BY <1>3, QqMoves, QqWords DEF Qq!NothingToClaim
    <2> QED
      BY <1>3, <2>1 DEF Qq!NothingToClaim, QqType
  <1>4. ASSUME NEW t \in Consumers, Qq!Begin(t) PROVE QqType'
    <2>1. consumer' \in [Consumers -> QqThread]
      BY <1>4, QqMoves, QqWords DEF Qq!Begin
    <2> QED
      BY <1>4, <2>1 DEF Qq!Begin, QqType
  <1>5. ASSUME NEW t \in Consumers, Qq!BeginRefused(t) PROVE QqType'
    <2>1. consumer' \in [Consumers -> QqThread]
      BY <1>5, QqMoves, QqWords DEF Qq!BeginRefused
    <2> QED
      BY <1>5, <2>1 DEF Qq!BeginRefused, Qq!OnlyMoves, QqType
  <1>6. ASSUME NEW t \in Consumers, Qq!Searched(t) PROVE QqType'
    <2>1. consumer' \in [Consumers -> QqThread]
      BY <1>6, QqMoves, QqWords DEF Qq!Searched
    <2> QED
      BY <1>6, <2>1 DEF Qq!Searched, QqType
  <1>7. ASSUME NEW t \in Consumers, Qq!Snapshot(t) PROVE QqType'
    <2>1. [consumer[t] EXCEPT !.pc = "approve", !.config = provider, !.version = version] \in QqThread
      <3>1. /\ consumer[t] \in QqThread /\ "approve" \in Qq!Steps
            /\ provider \in Providers \cup {None} /\ version \in 0..MaxSaves
        BY QqWords DEF QqType
      <3> QED
        BY <3>1 DEF QqThread
    <2> QED
      BY <1>7, <2>1 DEF Qq!Snapshot, Qq!OnlyMoves, QqType
  <1>8. ASSUME NEW t \in Consumers, Qq!Approve(t) PROVE QqType'
    <2>1. consumer' \in [Consumers -> QqThread]
      BY <1>8, QqMoves, QqWords DEF Qq!Approve
    <2> QED
      BY <1>8, <2>1 DEF Qq!Approve, Qq!OnlyMoves, QqType
  <1>9. ASSUME NEW t \in Consumers, Qq!Context(t) PROVE QqType'
    <2>1. consumer' \in [Consumers -> QqThread]
      BY <1>9, QqMoves, QqWords DEF Qq!Context
    <2> QED
      BY <1>9, <2>1 DEF Qq!Context, QqType
  <1>10. ASSUME NEW t \in Consumers, Qq!Check(t) PROVE QqType'
    <2>1. consumer' \in [Consumers -> QqThread]
      BY <1>10, QqMoves, QqWords DEF Qq!Check
    <2> QED
      BY <1>10, <2>1 DEF Qq!Check, Qq!OnlyMoves, QqType
  <1>11. ASSUME NEW t \in Consumers, Qq!Send(t) PROVE QqType'
    <2>1. consumer' \in [Consumers -> QqThread]
      BY <1>11, QqMoves, QqWords DEF Qq!Send
    <2> QED
      BY <1>11, <2>1 DEF Qq!Send, QqType
  <1>12. ASSUME NEW t \in Consumers, Qq!Store(t) PROVE QqType'
    <2> DEFINE q == consumer[t].q  s == consumer[t].pc
    <2>1. q \in Questions /\ s \in Qq!Outcomes
      BY <1>12, QqWords DEF Qq!Store, QqClaimed, QqType, QqThread
    <2>2. [status |-> s, due |-> s # "queued", born |-> question[q].born] \in QqRow
      BY <2>1, QqWords DEF QqType, QqRow
    <2>3. question' = [question EXCEPT ![q] = [status |-> s, due |-> s # "queued", born |-> question[q].born]]
          \/ question' = question
      BY <1>12 DEF Qq!Store, Qq!Rewritten
    <2>4. question' \in [Questions -> QqRow]
      BY <2>1, <2>2, <2>3 DEF QqType
    <2> QED
      BY <1>12, <2>4, QqRestingThread DEF Qq!Store, QqType
  <1>13. ASSUME NEW t \in Consumers, Qq!StoreFails(t) PROVE QqType'
    <2> DEFINE q == consumer[t].q
    <2>1. q \in Questions
      BY <1>13, QqWords DEF Qq!StoreFails, QqClaimed, QqType, QqThread
    <2>2. [question[q] EXCEPT !.status = "queued", !.due = FALSE] \in QqRow
      BY <2>1 DEF QqType, QqRow
    <2>3. question' = [question EXCEPT ![q] = [question[q] EXCEPT !.status = "queued", !.due = FALSE]]
          \/ question' = question
      BY <1>13, <2>1 DEF Qq!StoreFails, Qq!Requeued, QqType
    <2>4. question' \in [Questions -> QqRow]
      BY <2>1, <2>2, <2>3 DEF QqType
    <2> QED
      BY <1>13, <2>4, QqRestingThread DEF Qq!StoreFails, QqType
  <1>14. ASSUME NEW q \in Questions, Qq!Enqueue(q) PROVE QqType'
    <2>1. [status |-> "queued", due |-> TRUE, born |-> Qq!Born + 1] \in QqRow
      BY <1>14, QqBorn DEF Qq!Enqueue, QqRow
    <2> QED
      BY <1>14, <2>1 DEF Qq!Enqueue, QqType
  <1>15. ASSUME NEW q \in Questions, Qq!Due(q) PROVE QqType'
    <2>1. [question[q] EXCEPT !.due = TRUE] \in QqRow
      BY DEF QqType, QqRow
    <2> QED
      BY <1>15, <2>1 DEF Qq!Due, QqType
  <1>16. CASE Qq!OtherCall
    BY <1>16 DEF Qq!OtherCall, QqType
  <1>17. CASE Qq!OtherSearch
    BY <1>17 DEF Qq!OtherSearch, QqType
  <1>18. ASSUME NEW p \in Providers \cup {None}, Qq!SaveSettings(p) PROVE QqType'
    BY <1>18, QueueAssumption DEF Qq!SaveSettings, QqType
  <1>19. ASSUME NEW given \in BOOLEAN, Qq!SetConsent(given) PROVE QqType'
    BY <1>19 DEF Qq!SetConsent, QqType
  <1>20. CASE Qq!Expire
    BY <1>20 DEF Qq!Expire, QqType
  <1>21. CASE Qq!Delete
    <2>1. ASSUME NEW q \in Questions
          PROVE  [question[q] EXCEPT !.status = IF @ = "absent" THEN @ ELSE "gone"] \in QqRow
      BY DEF QqType, QqRow
    <2> QED
      BY <1>21, <2>1 DEF Qq!Delete, QqType
  <1>22. CASE Qq!Restart
    <2>1. ASSUME NEW q \in Questions PROVE Qq!Reopened(q) \in QqRow
      BY DEF Qq!Reopened, QqType, QqRow
    <2> QED
      BY <1>22, <2>1, QqRestingThread, QueueAssumption DEF Qq!Restart, QqType
  <1> QED
    BY <1>1, <1>2, <1>3, <1>4, <1>5, <1>6, <1>7, <1>8, <1>9, <1>10, <1>11, <1>12, <1>13, <1>14, <1>15,
       <1>16, <1>17, <1>18, <1>19, <1>20, <1>21, <1>22 DEF Qq!Next, Qq!Consume
\* The queue starts empty, its threads at rest and its permits free.
LEMMA QqInit == Qq!Init => QqInv
  <1> SUFFICES ASSUME Qq!Init PROVE QqInv
    OBVIOUS
  <1>1. Qq!Absent \in QqRow
    <2>1. 0 \in 0..Cardinality(Questions)
      BY FS_CardinalityType, QueueAssumption
    <2> QED
      BY <2>1 DEF Qq!Absent, QqRow
  <1>2. QqType
    <2>1. question \in [Questions -> QqRow] /\ consumer \in [Consumers -> QqThread]
      BY <1>1, QqRestingThread DEF Qq!Init
    <2>2. 0 \in 0..MaxSaves /\ LLM_CONCURRENCY \in Nat
      BY QueueAssumption
    <2> QED
      BY <2>1, <2>2 DEF Qq!Init, QqType
  <1>3. QqClaimed /\ QqGranted /\ Qq!OneConsumerEach
    BY DEF Qq!Init, Qq!Resting, QqClaimed, QqGranted, Qq!OneConsumerEach
  <1>4. Qq!PermitsConserved
    <2>1. {t \in Consumers : consumer[t].pc # "idle"} = {}
      BY DEF Qq!Init, Qq!Resting
    <2>2. Qq!Cardinality({t \in Consumers : consumer[t].pc # "idle"}) = 0
      BY <2>1, QqCardinality, FS_EmptySet
    <2>3. gate = LLM_CONCURRENCY /\ calls = 0 /\ LLM_CONCURRENCY \in Nat
      BY QueueAssumption DEF Qq!Init
    <2> QED
      BY <2>2, <2>3 DEF Qq!PermitsConserved
  <1> QED
    BY <1>2, <1>3, <1>4 DEF QqInv

\* A thread gets a question only by a claim, and the row is marked in the same step.
LEMMA QqClaimedStep ==
  ASSUME QqType, QqClaimed, Qq!OneConsumerEach, Qq!Next PROVE QqClaimed' /\ Qq!OneConsumerEach'
  <1> USE DEF QqClaimed, Qq!OneConsumerEach
  <1>0. consumer \in [Consumers -> QqThread] /\ question \in [Questions -> QqRow] /\ deleted \in BOOLEAN
    BY DEF QqType
  <1>a. \A t \in Consumers : consumer[t].q # None => consumer[t].q \in Questions
    BY <1>0 DEF QqThread
  <1>1. ASSUME NEW t \in Consumers, Qq!Acquire(t) PROVE QqClaimed' /\ Qq!OneConsumerEach'
    BY <1>0, <1>1 DEF Qq!Acquire, Qq!Move, QqThread
  <1>2. ASSUME NEW t \in Consumers, Qq!Claim(t) PROVE QqClaimed' /\ Qq!OneConsumerEach'
    <2>1. PICK q \in Questions :
                /\ question[q].status = "queued" /\ question' = [question EXCEPT ![q].status = "processing"]
                /\ consumer' = [consumer EXCEPT ![t] = [Qq!Resting EXCEPT !.pc = "begin", !.q = q]]
      BY <1>2 DEF Qq!Claim, Qq!Marked, Qq!Oldest, Qq!IsDue
    <2>2. \A u \in Consumers : consumer[u].q # q
      BY <2>1, QueueAssumption
    <2>3. /\ consumer'[t].q = q /\ consumer'[t].pc = "begin" /\ question'[q].status = "processing"
          /\ \A u \in Consumers \ {t} : consumer'[u] = consumer[u]
          /\ \A p \in Questions \ {q} : question'[p] = question[p]
      BY <1>0, <2>1 DEF Qq!Resting, QqRow
    <2>4. ~deleted /\ deleted' = deleted
      BY <1>2, <2>1 DEF Qq!Claim
    <2> QED
      BY <1>a, <2>2, <2>3, <2>4, QueueAssumption
  <1>3. ASSUME NEW t \in Consumers, Qq!NothingToClaim(t) PROVE QqClaimed' /\ Qq!OneConsumerEach'
    BY <1>0, <1>3 DEF Qq!NothingToClaim, Qq!Move, QqThread
  <1>4. ASSUME NEW t \in Consumers, Qq!Begin(t) PROVE QqClaimed' /\ Qq!OneConsumerEach'
    BY <1>0, <1>4 DEF Qq!Begin, Qq!Move, QqThread
  <1>5. ASSUME NEW t \in Consumers, Qq!BeginRefused(t) PROVE QqClaimed' /\ Qq!OneConsumerEach'
    BY <1>0, <1>5 DEF Qq!BeginRefused, Qq!Move, Qq!OnlyMoves, QqThread
  <1>6. ASSUME NEW t \in Consumers, Qq!Searched(t) PROVE QqClaimed' /\ Qq!OneConsumerEach'
    BY <1>0, <1>6 DEF Qq!Searched, Qq!Move, QqThread
  <1>7. ASSUME NEW t \in Consumers, Qq!Snapshot(t) PROVE QqClaimed' /\ Qq!OneConsumerEach'
    BY <1>0, <1>7 DEF Qq!Snapshot, Qq!OnlyMoves, QqThread
  <1>8. ASSUME NEW t \in Consumers, Qq!Approve(t) PROVE QqClaimed' /\ Qq!OneConsumerEach'
    BY <1>0, <1>8 DEF Qq!Approve, Qq!Move, Qq!OnlyMoves, QqThread
  <1>9. ASSUME NEW t \in Consumers, Qq!Context(t) PROVE QqClaimed' /\ Qq!OneConsumerEach'
    BY <1>0, <1>9 DEF Qq!Context, Qq!Move, QqThread
  <1>10. ASSUME NEW t \in Consumers, Qq!Check(t) PROVE QqClaimed' /\ Qq!OneConsumerEach'
    BY <1>0, <1>10 DEF Qq!Check, Qq!Move, Qq!OnlyMoves, QqThread
  <1>11. ASSUME NEW t \in Consumers, Qq!Send(t) PROVE QqClaimed' /\ Qq!OneConsumerEach'
    BY <1>0, <1>11 DEF Qq!Send, Qq!Move, QqThread
  <1>12. ASSUME NEW t \in Consumers, Qq!Store(t) PROVE QqClaimed' /\ Qq!OneConsumerEach'
    BY <1>0, <1>a, <1>12 DEF Qq!Store, Qq!Rewritten, Qq!Resting, QqThread, QqRow
  <1>13. ASSUME NEW t \in Consumers, Qq!StoreFails(t) PROVE QqClaimed' /\ Qq!OneConsumerEach'
    BY <1>0, <1>a, <1>13 DEF Qq!StoreFails, Qq!Requeued, Qq!Resting, QqThread, QqRow
  <1>14. ASSUME NEW q \in Questions, Qq!Enqueue(q) PROVE QqClaimed' /\ Qq!OneConsumerEach'
    BY <1>0, <1>a, <1>14 DEF Qq!Enqueue, Qq!Absent
  <1>15. ASSUME NEW q \in Questions, Qq!Due(q) PROVE QqClaimed' /\ Qq!OneConsumerEach'
    BY <1>0, <1>a, <1>15 DEF Qq!Due, QqRow
  <1>16. CASE Qq!OtherCall
    BY <1>16 DEF Qq!OtherCall
  <1>17. CASE Qq!OtherSearch
    BY <1>17 DEF Qq!OtherSearch
  <1>18. ASSUME NEW p \in Providers \cup {None}, Qq!SaveSettings(p) PROVE QqClaimed' /\ Qq!OneConsumerEach'
    BY <1>18 DEF Qq!SaveSettings
  <1>19. ASSUME NEW given \in BOOLEAN, Qq!SetConsent(given) PROVE QqClaimed' /\ Qq!OneConsumerEach'
    BY <1>19 DEF Qq!SetConsent
  <1>20. CASE Qq!Expire
    BY <1>20 DEF Qq!Expire
  <1>21. CASE Qq!Delete
    BY <1>0, <1>a, <1>21 DEF Qq!Delete, QqRow
  <1>22. CASE Qq!Restart
    BY <1>0, <1>22 DEF Qq!Restart, Qq!Reopened, Qq!Resting, QqRow
  <1> QED
    BY <1>1, <1>2, <1>3, <1>4, <1>5, <1>6, <1>7, <1>8, <1>9, <1>10, <1>11, <1>12, <1>13, <1>14, <1>15,
       <1>16, <1>17, <1>18, <1>19, <1>20, <1>21, <1>22 DEF Qq!Next, Qq!Consume

\* Threads with a permit: counting them after a step of one of them.
QqBusy == {t \in Consumers : consumer[t].pc # "idle"}
\* Finitely many threads hold a permit.
LEMMA QqBusyFinite == IsFiniteSet(QqBusy) /\ Cardinality(QqBusy) \in Nat
  BY QueueAssumption, FS_Subset, FS_CardinalityType DEF QqBusy

\* The conservation of permits, with the holders as a set that has a name.
LEMMA QqPermits == Qq!PermitsConserved <=> gate + calls + Cardinality(QqBusy) = LLM_CONCURRENCY
  BY QqCardinality DEF Qq!PermitsConserved, QqBusy

\* A thread that takes a permit is counted once more.
LEMMA QqEnters ==
  ASSUME NEW t \in Consumers, t \notin QqBusy, QqBusy' = QqBusy \cup {t}
  PROVE  Cardinality(QqBusy') = Cardinality(QqBusy) + 1
  BY QqBusyFinite, FS_AddElement

\* A thread that gives its permit back is no longer counted.
LEMMA QqLeaves ==
  ASSUME NEW t \in Consumers, t \in QqBusy, QqBusy' = QqBusy \ {t}
  PROVE  Cardinality(QqBusy') = Cardinality(QqBusy) - 1
  BY QqBusyFinite, FS_RemoveElement

\* The permits: a thread takes one with the gate and gives it back however its round ends.
LEMMA QqPermitsStep ==
  ASSUME QqType, Qq!PermitsConserved, Qq!Next PROVE Qq!PermitsConserved'
  <1>0. consumer \in [Consumers -> QqThread] /\ gate \in Nat /\ calls \in Nat
    BY DEF QqType
  <1>a. gate + calls + Cardinality(QqBusy) = LLM_CONCURRENCY /\ Cardinality(QqBusy) \in Nat
    BY QqPermits, QqBusyFinite
  <1> SUFFICES gate' + calls' + Cardinality(QqBusy') = LLM_CONCURRENCY
    BY QqCardinality DEF Qq!PermitsConserved, QqBusy
  <1>b. ASSUME QqBusy' = QqBusy, gate' = gate, calls' = calls
        PROVE  gate' + calls' + Cardinality(QqBusy') = LLM_CONCURRENCY
    BY <1>a, <1>b
  <1>1. ASSUME NEW t \in Consumers, Qq!Acquire(t)
        PROVE  gate' + calls' + Cardinality(QqBusy') = LLM_CONCURRENCY
    <2>1. t \notin QqBusy /\ QqBusy' = QqBusy \cup {t}
      BY <1>0, <1>1 DEF Qq!Acquire, Qq!Move, QqBusy, QqThread
    <2>2. gate' = gate - 1 /\ calls' = calls
      BY <1>1 DEF Qq!Acquire
    <2>3. Cardinality(QqBusy') = Cardinality(QqBusy) + 1
      BY <2>1, QqEnters
    <2> QED
      BY <1>0, <1>a, <2>2, <2>3
  <1>2. ASSUME NEW t \in Consumers, Qq!NothingToClaim(t) \/ Qq!Store(t) \/ Qq!StoreFails(t)
        PROVE  gate' + calls' + Cardinality(QqBusy') = LLM_CONCURRENCY
    <2>1. t \in QqBusy /\ QqBusy' = QqBusy \ {t}
      <3>1. CASE Qq!NothingToClaim(t)
        BY <1>0, <3>1 DEF Qq!NothingToClaim, Qq!Move, QqBusy, QqThread
      <3>2. CASE Qq!Store(t) \/ Qq!StoreFails(t)
        BY <1>0, <3>2 DEF Qq!Store, Qq!StoreFails, Qq!Outcomes, Qq!Ended, Qq!Resting, QqBusy, QqThread
      <3> QED
        BY <1>2, <3>1, <3>2
    <2>2. gate' = gate + 1 /\ calls' = calls
      BY <1>2 DEF Qq!NothingToClaim, Qq!Store, Qq!StoreFails
    <2>3. Cardinality(QqBusy') = Cardinality(QqBusy) - 1
      BY <2>1, QqLeaves
    <2> QED
      BY <1>0, <1>a, <2>2, <2>3
  <1>3. ASSUME NEW t \in Consumers,
               \/ Qq!Claim(t) \/ Qq!Begin(t) \/ Qq!BeginRefused(t) \/ Qq!Searched(t) \/ Qq!Snapshot(t)
               \/ Qq!Approve(t) \/ Qq!Context(t) \/ Qq!Check(t) \/ Qq!Send(t)
        PROVE  gate' + calls' + Cardinality(QqBusy') = LLM_CONCURRENCY
    <2>1. gate' = gate /\ calls' = calls
      BY <1>3 DEF Qq!Claim, Qq!Begin, Qq!BeginRefused, Qq!Searched, Qq!Snapshot, Qq!Approve, Qq!Context, Qq!Check,
                  Qq!Send, Qq!OnlyMoves
    <2>2. t \in QqBusy /\ consumer'[t].pc # "idle" /\ \A u \in Consumers \ {t} : consumer'[u].pc = consumer[u].pc
      <3>1. ASSUME NEW pc, Qq!Move(t, pc), pc # "idle", consumer[t].pc # "idle"
            PROVE  t \in QqBusy /\ consumer'[t].pc # "idle" /\ \A u \in Consumers \ {t} : consumer'[u].pc = consumer[u].pc
        BY <1>0, <3>1 DEF Qq!Move, QqBusy, QqThread
      <3>2. CASE Qq!Claim(t)
        BY <1>0, <3>2 DEF Qq!Claim, Qq!Resting, QqBusy, QqThread
      <3>3. CASE Qq!Snapshot(t)
        BY <1>0, <3>3 DEF Qq!Snapshot, QqBusy, QqThread
      <3>4. CASE Qq!Begin(t) \/ Qq!BeginRefused(t)
        BY <3>1, <3>4 DEF Qq!Begin, Qq!BeginRefused
      <3>5. CASE Qq!Searched(t) \/ Qq!Context(t) \/ Qq!Send(t)
        BY <3>1, <3>5 DEF Qq!Searched, Qq!Context, Qq!Send
      <3>6. CASE Qq!Approve(t) \/ Qq!Check(t)
        BY <3>1, <3>6 DEF Qq!Approve, Qq!Check
      <3> QED
        BY <1>3, <3>2, <3>3, <3>4, <3>5, <3>6
    <2>3. QqBusy' = QqBusy
      BY <2>2 DEF QqBusy
    <2> QED
      BY <1>b, <2>1, <2>3
  <1>4. CASE Qq!OtherCall
    <2>1. QqBusy' = QqBusy
      BY <1>4 DEF Qq!OtherCall, QqBusy
    <2> QED
      BY <1>0, <1>a, <1>4, <2>1 DEF Qq!OtherCall
  <1>5. CASE Qq!Restart
    <2>1. QqBusy' = {}
      BY <1>5 DEF Qq!Restart, Qq!Resting, QqBusy
    <2> QED
      BY <1>5, <2>1, FS_EmptySet, QueueAssumption DEF Qq!Restart
  <1>6. CASE UNCHANGED <<consumer, gate, calls>>
    BY <1>b, <1>6 DEF QqBusy
  <1>7. ASSUME NEW q \in Questions, Qq!Enqueue(q) \/ Qq!Due(q) PROVE UNCHANGED <<consumer, gate, calls>>
    BY <1>7 DEF Qq!Enqueue, Qq!Due
  <1>8. ASSUME \/ Qq!OtherSearch \/ (\E p \in Providers \cup {None} : Qq!SaveSettings(p))
               \/ (\E given \in BOOLEAN : Qq!SetConsent(given)) \/ Qq!Expire \/ Qq!Delete
        PROVE  UNCHANGED <<consumer, gate, calls>>
    BY <1>8 DEF Qq!OtherSearch, Qq!SaveSettings, Qq!SetConsent, Qq!Expire, Qq!Delete
  <1> QED
    BY <1>1, <1>2, <1>3, <1>4, <1>5, <1>6, <1>7, <1>8 DEF Qq!Next, Qq!Consume

\* What is approved grows while a thread is past its evidence, except by its own next evidence; a
\* consent that is given reaches every question that is being worked on.
LEMMA QqGrantedStep ==
  ASSUME QqType, QqClaimed, Qq!OneConsumerEach, QqGranted, Qq!Next PROVE QqGranted'
  <1>0. consumer \in [Consumers -> QqThread] /\ approved \in [Questions -> SUBSET Providers] /\ deleted \in BOOLEAN
    BY DEF QqType
  <1>a. \A t \in Consumers : consumer[t].pc \in {"context", "check", "send"} => consumer[t].q \in Questions
    BY <1>0 DEF QqClaimed, QqThread
  <1> SUFFICES ASSUME NEW u \in Consumers
               PROVE  LET c == consumer'[u] IN
                        /\ c.pc \in {"context", "check", "send"} => c.config # None
                        /\ c.pc = "check" /\ ~deleted' => consent' \in approved'[c.q] \cup {None}
                        /\ c.pc = "send" => c.config \in approved'[c.q]
    BY DEF QqGranted
  <1> DEFINE Goal == LET c == consumer'[u] IN
                        /\ c.pc \in {"context", "check", "send"} => c.config # None
                        /\ c.pc = "check" /\ ~deleted' => consent' \in approved'[c.q] \cup {None}
                        /\ c.pc = "send" => c.config \in approved'[c.q]
  <1>b. ASSUME NEW t \in Consumers, NEW pc, Qq!Move(t, pc), pc \notin {"context", "check", "send"},
               UNCHANGED <<consent, deleted, approved>>
        PROVE  Goal
    BY <1>0, <1>b DEF Qq!Move, QqThread, QqGranted
  <1>c. ASSUME NEW t \in Consumers, NEW c, consumer' = [consumer EXCEPT ![t] = c],
               c.pc \notin {"context", "check", "send"}, UNCHANGED <<consent, deleted, approved>>
        PROVE  Goal
    BY <1>0, <1>c DEF QqGranted
  <1>1. ASSUME NEW t \in Consumers, Qq!Acquire(t) \/ Qq!NothingToClaim(t) \/ Qq!Begin(t) PROVE Goal
    BY <1>1, <1>b DEF Qq!Acquire, Qq!NothingToClaim, Qq!Begin
  <1>2. ASSUME NEW t \in Consumers, Qq!BeginRefused(t) \/ Qq!Searched(t) \/ Qq!Send(t) PROVE Goal
    BY <1>2, <1>b DEF Qq!BeginRefused, Qq!Searched, Qq!Send, Qq!OnlyMoves
  <1>3. ASSUME NEW t \in Consumers, Qq!Claim(t) \/ Qq!Snapshot(t) PROVE Goal
    <2>1. CASE Qq!Claim(t)
      BY <2>1, <1>c DEF Qq!Claim, Qq!Resting
    <2>2. CASE Qq!Snapshot(t)
      BY <1>0, <2>2 DEF Qq!Snapshot, Qq!OnlyMoves, QqThread, QqGranted
    <2> QED
      BY <1>3, <2>1, <2>2
  <1>4. ASSUME NEW t \in Consumers, Qq!Store(t) \/ Qq!StoreFails(t) PROVE Goal
    BY <1>4, <1>c DEF Qq!Store, Qq!StoreFails, Qq!Resting
  <1>5. ASSUME NEW t \in Consumers, Qq!Approve(t) PROVE Goal
    BY <1>0, <1>5 DEF Qq!Approve, Qq!Move, Qq!OnlyMoves, QqThread, QqGranted
  <1>6. ASSUME NEW t \in Consumers, Qq!Context(t) PROVE Goal
    <2>1. consumer[t].q \in Questions /\ consent \in Providers \cup {None}
      BY <1>a, <1>6 DEF Qq!Context, QqType
    <2>2. CASE u = t
      BY <1>0, <1>6, <2>1, <2>2 DEF Qq!Context, Qq!Move, QqThread, QqGranted
    <2>3. CASE u # t
      <3>1. consumer'[u] = consumer[u] /\ consent' = consent /\ deleted' = deleted
        BY <1>0, <1>6, <2>3 DEF Qq!Context, Qq!Move
      <3>2. consumer[u].pc \in {"check", "send"} => approved'[consumer[u].q] = approved[consumer[u].q]
        BY <1>0, <1>a, <1>6, <2>1, <2>3, QueueAssumption DEF Qq!Context, Qq!OneConsumerEach
      <3> QED
        BY <3>1, <3>2 DEF QqGranted
    <2> QED
      BY <2>2, <2>3
  <1>7. ASSUME NEW t \in Consumers, Qq!Check(t) PROVE Goal
    BY <1>0, <1>7 DEF Qq!Check, Qq!Permits, Qq!Move, Qq!OnlyMoves, QqThread, QqGranted
  <1>8. CASE UNCHANGED <<consumer, consent, deleted, approved>>
    BY <1>8 DEF QqGranted
  <1>9. ASSUME \/ \E q \in Questions : Qq!Enqueue(q) \/ Qq!Due(q)
               \/ Qq!OtherCall \/ Qq!OtherSearch \/ Qq!Expire
        PROVE  UNCHANGED <<consumer, consent, deleted, approved>>
    BY <1>9 DEF Qq!Enqueue, Qq!Due, Qq!OtherCall, Qq!OtherSearch, Qq!Expire
  <1>10. ASSUME NEW p \in Providers \cup {None}, Qq!SaveSettings(p) PROVE Goal
    BY <1>10 DEF Qq!SaveSettings, QqGranted
  <1>11. ASSUME NEW given \in BOOLEAN, Qq!SetConsent(given) PROVE Goal
    <2>1. /\ consumer' = consumer /\ ~deleted /\ deleted' = deleted
          /\ \A q \in Questions : approved[q] \subseteq approved'[q]
          /\ \A q \in Questions : question[q].status = "processing" => consent' \in approved'[q] \cup {None}
      BY <1>0, <1>11 DEF Qq!SetConsent
    <2>2. consumer[u].pc = "check" => question[consumer[u].q].status = "processing"
      BY <2>1 DEF QqClaimed
    <2> QED
      BY <1>a, <2>1, <2>2 DEF QqGranted
  <1>12. CASE Qq!Delete
    BY <1>12 DEF Qq!Delete, QqGranted
  <1>13. CASE Qq!Restart
    BY <1>13 DEF Qq!Restart, Qq!Resting
  <1> QED
    BY <1>1, <1>2, <1>3, <1>4, <1>5, <1>6, <1>7, <1>8, <1>9, <1>10, <1>11, <1>12, <1>13 DEF Qq!Next, Qq!Consume

\* Every step of the queue keeps the invariant.
LEMMA QqStep == ASSUME QqInv, [Qq!Next]_(Qq!qqVars) PROVE QqInv'
  <1>1. CASE Qq!Next
    BY <1>1, QqTypeStep, QqClaimedStep, QqGrantedStep, QqPermitsStep DEF QqInv
  <1>2. CASE UNCHANGED Qq!qqVars
    BY <1>2, QqCardinality DEF Qq!qqVars, QqInv, QqType, QqRow, QqThread, QqClaimed, QqGranted,
                Qq!OneConsumerEach, Qq!PermitsConserved
  <1> QED
    BY <1>1, <1>2

\* The type invariant of the queue, from the one the proof works with.
LEMMA QqTypes == QqInv => Qq!TypeOK
  <1> SUFFICES ASSUME QqInv PROVE Qq!TypeOK
    OBVIOUS
  <1>1. /\ question \in [Questions -> [status : {"absent", "gone", "queued", "processing"} \cup Qq!Ended,
                                       due : BOOLEAN, born : 0..Qq!Cardinality(Questions)]]
    BY QqCardinality DEF QqInv, QqType, QqRow
  <1>2. \A t \in Consumers : consumer[t].pc \in Qq!Steps /\ consumer[t].q \in Questions \cup {None}
    BY DEF QqInv, QqType, QqThread
  <1>3. gate \in 0..LLM_CONCURRENCY /\ calls \in 0..LLM_CONCURRENCY
    BY QqPermits, QqBusyFinite, QueueAssumption DEF QqInv, QqType
  <1> QED
    BY <1>1, <1>2, <1>3 DEF Qq!TypeOK, QqInv, QqType

\* A request goes out only from "send", where the provider of the snapshot is approved.
LEMMA QqSends ==
  ASSUME QqInv, [Qq!Next]_(Qq!qqVars) PROVE \A m \in sent' \ sent : m.provider \in approved[m.q]
  <1>1. ASSUME NEW t \in Consumers, Qq!Send(t) PROVE \A m \in sent' \ sent : m.provider \in approved[m.q]
    BY <1>1 DEF Qq!Send, QqInv, QqGranted
  <1>2. ASSUME NEW t \in Consumers, Qq!Consume(t) \/ Qq!StoreFails(t), ~Qq!Send(t) PROVE sent' = sent
    BY <1>2 DEF Qq!Consume, Qq!Acquire, Qq!Claim, Qq!NothingToClaim, Qq!Begin, Qq!BeginRefused, Qq!Searched,
        Qq!Snapshot, Qq!Approve, Qq!Context, Qq!Check, Qq!Store, Qq!StoreFails, Qq!OnlyMoves
  <1>3. ASSUME \/ \E q \in Questions : Qq!Enqueue(q) \/ Qq!Due(q)
               \/ Qq!OtherCall \/ Qq!OtherSearch \/ (\E p \in Providers \cup {None} : Qq!SaveSettings(p))
               \/ (\E given \in BOOLEAN : Qq!SetConsent(given)) \/ Qq!Expire \/ Qq!Delete \/ Qq!Restart
               \/ UNCHANGED Qq!qqVars
        PROVE  sent' = sent
    BY <1>3 DEF Qq!Enqueue, Qq!Due, Qq!OtherCall, Qq!OtherSearch, Qq!SaveSettings, Qq!SetConsent, Qq!Expire,
        Qq!Delete, Qq!Restart, Qq!qqVars
  <1> QED
    BY <1>1, <1>2, <1>3 DEF Qq!Next

\* A row that is marked belongs to a thread; only those rows, absent ones and queued ones change.
LEMMA QqResults ==
  ASSUME QqInv, [Qq!Next]_(Qq!qqVars)
  PROVE  \A q \in Questions : question[q].status \in Qq!Ended \cup {"gone"} =>
             question'[q].status \in {question[q].status, "gone"}
  <1> SUFFICES ASSUME NEW q \in Questions, question[q].status \in Qq!Ended \cup {"gone"}
               PROVE  question'[q].status \in {question[q].status, "gone"}
    OBVIOUS
  <1> USE DEF Qq!Ended
  <1>0. question \in [Questions -> QqRow]
    BY DEF QqInv, QqType
  <1>1. ASSUME NEW t \in Consumers, Qq!Consume(t) \/ Qq!StoreFails(t)
        PROVE  question'[q].status \in {question[q].status, "gone"}
    <2>1. CASE Qq!Store(t)
      <3>1. consumer[t].q # None
        BY <2>1 DEF Qq!Store, Qq!Outcomes, QqInv, QqClaimed
      <3>2. question[consumer[t].q].status \in {"processing", "gone"}
        BY <3>1 DEF QqInv, QqClaimed
      <3> QED
        BY <1>0, <2>1, <3>2 DEF Qq!Store, Qq!Rewritten, QqRow
    <2>2. CASE Qq!StoreFails(t)
      BY <1>0, <2>2 DEF Qq!StoreFails, Qq!Requeued, QqRow
    <2>3. CASE Qq!Claim(t)
      BY <1>0, <2>3 DEF Qq!Claim, Qq!Oldest, Qq!IsDue, Qq!Marked, QqRow
    <2>4. ASSUME Qq!Consume(t), ~Qq!Store(t), ~Qq!Claim(t) PROVE question' = question
      BY <2>4 DEF Qq!Consume, Qq!Acquire, Qq!NothingToClaim, Qq!Begin, Qq!BeginRefused, Qq!Searched,
        Qq!Snapshot, Qq!Approve, Qq!Context, Qq!Check, Qq!Send, Qq!OnlyMoves
    <2> QED
      BY <1>1, <2>1, <2>2, <2>3, <2>4
  <1>2. ASSUME NEW p \in Questions, Qq!Enqueue(p) \/ Qq!Due(p)
        PROVE  question'[q].status \in {question[q].status, "gone"}
    BY <1>0, <1>2 DEF Qq!Enqueue, Qq!Due, Qq!Absent, QqRow
  <1>3. CASE Qq!Delete
    BY <1>0, <1>3 DEF Qq!Delete, QqRow
  <1>4. CASE Qq!Restart
    BY <1>0, <1>4 DEF Qq!Restart, Qq!Reopened, QqRow
  <1>5. ASSUME \/ Qq!OtherCall \/ Qq!OtherSearch \/ (\E p \in Providers \cup {None} : Qq!SaveSettings(p))
               \/ (\E given \in BOOLEAN : Qq!SetConsent(given)) \/ Qq!Expire \/ UNCHANGED Qq!qqVars
        PROVE  question' = question
    BY <1>5 DEF Qq!OtherCall, Qq!OtherSearch, Qq!SaveSettings, Qq!SetConsent, Qq!Expire, Qq!qqVars
  <1> QED
    BY <1>1, <1>2, <1>3, <1>4, <1>5 DEF Qq!Next

\* The queue for itself, without the scenarios that bound what the runs look at.
THEOREM QueueIsSafe ==
  Qq!Init /\ [][Qq!Next]_(Qq!qqVars) =>
      /\ [](Qq!TypeOK /\ Qq!OneConsumerEach /\ Qq!PermitsConserved)
      /\ Qq!SentOnlyWhereApproved /\ Qq!ResultsStay
  <1>1. Qq!Init => QqInv
    BY QqInit
  <1>2. QqInv /\ [Qq!Next]_(Qq!qqVars) => QqInv'
    BY QqStep
  <1>3. QqInv => Qq!TypeOK /\ Qq!OneConsumerEach /\ Qq!PermitsConserved
    BY QqTypes DEF QqInv
  <1>4. QqInv /\ [Qq!Next]_(Qq!qqVars) => [\A m \in sent' \ sent : m.provider \in approved[m.q]]_(Qq!qqVars)
    BY QqSends
  <1>5. QqInv /\ [Qq!Next]_(Qq!qqVars) =>
          [\A q \in Questions : question[q].status \in Qq!Ended \cup {"gone"} =>
             question'[q].status \in {question[q].status, "gone"}]_(Qq!qqVars)
    BY QqResults
  <1> QED
    BY <1>1, <1>2, <1>3, <1>4, <1>5, PTL DEF Qq!SentOnlyWhereApproved, Qq!ResultsStay

-----------------------------------------------------------------------------
(* The answer to an utterance                                              *)

\* The instance counts as the library does.
LEMMA MaCardinality == ASSUME NEW S PROVE Ma!Cardinality(S) = Cardinality(S)
  BY DEF Ma!Cardinality, Cardinality

MaWorld == [vendor : Vendors \cup {None}, version : 0..MaxChanges, consent : Vendors \cup {None},
            scope : 0..MaxChanges, open : BOOLEAN]
MaCall == [pc : {"idle", "resolve", "gate", "ask", "extract", "again", "search", "searched", "prepared",
                 "compare", "draft", "write", "final", "confirm", "done"},
           expected : Ma!Config \cup {None}, checkpoint : [scope : 0..MaxChanges] \cup {None},
           evidence : BOOLEAN, status : Ma!Finals \cup {"none"}]
MaType == world \in MaWorld /\ call \in [Ma!Calls -> MaCall] /\ doubt \subseteq Ma!Calls /\ free \in Nat

\* From its search on a job carries the scope it was searched in, which only grows; only a job
\* rests at a checkpoint.
MaScopedAt(c) ==
    /\ c \in Inquiries => call[c].pc \notin {"searched", "prepared", "compare"}
    /\ call[c].pc \in {"gate", "ask", "extract"} => c \in Inquiries
    /\ c \in Jobs /\ (\/ call[c].pc \in {"searched", "prepared", "compare", "draft", "write", "final", "confirm"}
                      \/ call[c].pc = "again" /\ c \notin Inquiries)
          => call[c].checkpoint \in [scope : 0..world.scope]

\* Where a doubted call can be, and why its next look refuses it; what it ends as.
MaDoubtedAt(c) ==
    /\ call[c].pc \in {"prepared", "compare", "write", "final", "confirm", "done"}
    /\ Ma!At(c, "prepared") => Ma!Stale(c, world)
    /\ Ma!At(c, "compare") => c \in Jobs /\ call[c].checkpoint.scope # world.scope
    /\ call[c].pc \in {"write", "final"} => Ma!Uncovered(c, world)
    /\ Ma!At(c, "confirm") => ~Ma!Stands(c)
    /\ Ma!At(c, "done") => call[c].status = "unavailable" /\ ~call[c].evidence

MaInv ==
    /\ MaType /\ (\A c \in Ma!Calls : MaScopedAt(c)) /\ (\A c \in doubt : MaDoubtedAt(c))
    /\ Ma!StaleCheckpointRests /\ Ma!PermitsReturn

\* What a step of call c does to the record of c and to the permits.
MaOnly(c) == call' \in [Ma!Calls -> MaCall] /\ \A d \in Ma!Calls \ {c} : call'[d] = call[d]
MaTakes(c) == ~Ma!Holds(c) /\ Ma!Holds(c)' /\ free > 0 /\ free' = free - 1
MaGives(c) == Ma!Holds(c) /\ ~Ma!Holds(c)' /\ free' = free + 1
MaKeeps(c) == (Ma!Holds(c)' <=> Ma!Holds(c)) /\ free' = free
MaBalanced(c) == MaTakes(c) \/ MaGives(c) \/ MaKeeps(c)

MaPlaces == {"idle", "resolve", "gate", "ask", "extract", "again", "search", "searched", "prepared",
             "compare", "draft", "write", "final", "confirm", "done"}

\* Going on to the next place moves one call and nothing else of it.
LEMMA MaGoes ==
  ASSUME MaType, NEW c \in Ma!Calls, NEW pc \in MaPlaces, Ma!Go(c, pc)
  PROVE  MaOnly(c) /\ call'[c] = [call[c] EXCEPT !.pc = pc] /\ call'[c].pc = pc
  <1>1. [call[c] EXCEPT !.pc = pc] \in MaCall
    BY DEF MaType, MaCall, MaPlaces
  <1>2. [call[c] EXCEPT !.pc = pc].pc = pc
    BY DEF MaType, MaCall
  <1> QED
    BY <1>1, <1>2 DEF MaType, MaOnly, Ma!Go

\* Finishing a call sets its result and gives its permit back.
LEMMA MaFinishes ==
  ASSUME MaType, NEW c \in Ma!Calls, NEW st \in Ma!Finals, NEW ev \in BOOLEAN, Ma!Finish(c, st, ev)
  PROVE  /\ MaOnly(c) /\ MaBalanced(c)
         /\ call'[c].pc = "done" /\ call'[c].status = st /\ call'[c].evidence = ev
  <1> DEFINE new == [call[c] EXCEPT !.pc = "done", !.status = st, !.evidence = ev]
  <1>1. new \in MaCall /\ new.pc = "done" /\ new.status = st /\ new.evidence = ev
    BY DEF MaType, MaCall
  <1>2. call' = [call EXCEPT ![c] = new]
    BY DEF Ma!Finish
  <1>3. MaOnly(c) /\ call'[c] = new
    BY <1>1, <1>2 DEF MaType, MaOnly
  <1>4. ~Ma!Holds(c)'
    BY <1>1, <1>3 DEF Ma!Holds
  <1>5. MaBalanced(c)
    BY <1>4 DEF Ma!Finish, Ma!Released, MaBalanced, MaGives, MaKeeps
  <1> QED
    BY <1>1, <1>3, <1>5

\* A refused call ends unavailable and without evidence.
LEMMA MaRefuses ==
  ASSUME MaType, NEW c \in Ma!Calls, Ma!Refused(c)
  PROVE  /\ MaOnly(c) /\ MaBalanced(c)
         /\ call'[c].pc = "done" /\ call'[c].status = "unavailable" /\ call'[c].evidence = FALSE
  BY MaFinishes DEF Ma!Refused, Ma!Finals

\* Step: on to the next place with what the call holds, or refused.
LEMMA MaSteps ==
  ASSUME MaType, NEW c \in Ma!Calls, NEW from, NEW holds, NEW to \in MaPlaces, Ma!Step(c, from, holds, to),
         c \in Inquiries => (to \in {"ask", "extract", "again", "search", "draft", "write", "final", "confirm"} <=>
                             from \in {"ask", "extract", "again", "search", "draft", "write", "final", "confirm"})
  PROVE  /\ MaOnly(c) /\ MaBalanced(c) /\ UNCHANGED <<world, doubt, told>> /\ call[c].pc = from
         /\ \/ holds /\ call'[c] = [call[c] EXCEPT !.pc = to] /\ call'[c].pc = to
            \/ call'[c].pc = "done" /\ call'[c].status = "unavailable" /\ call'[c].evidence = FALSE
  <1>1. CASE Ma!Refused(c)
    BY <1>1, MaRefuses DEF Ma!Step, Ma!At
  <1>2. CASE holds /\ Ma!Go(c, to) /\ UNCHANGED free
    <2>1. MaOnly(c) /\ call'[c] = [call[c] EXCEPT !.pc = to] /\ call'[c].pc = to
      BY <1>2, MaGoes
    <2>2. MaKeeps(c)
      BY <1>2, <2>1 DEF MaKeeps, Ma!Holds, Ma!Step, Ma!At
    <2> QED
      BY <1>2, <2>1, <2>2 DEF Ma!Step, Ma!At, MaBalanced
  <1> QED
    BY <1>1, <1>2 DEF Ma!Step

\* What holds after a step of call c; nothing else has changed.
MaAfter(c) ==
    /\ MaOnly(c) /\ MaBalanced(c) /\ world' = world /\ doubt' \subseteq doubt /\ Ma!StaleCheckpointRests'
    /\ MaScopedAt(c)' /\ (c \in doubt' => MaDoubtedAt(c)')

\* A call that ends while nothing else changes keeps the invariant if a doubted one ends refused.
LEMMA MaEnds ==
  ASSUME MaInv, NEW c \in Ma!Calls, MaOnly(c), MaBalanced(c), UNCHANGED <<world, doubt, told>>,
         call'[c].pc = "done", c \in doubt => call'[c].status = "unavailable" /\ call'[c].evidence = FALSE
  PROVE  MaAfter(c)
  BY DEF MaInv, MaAfter, MaScopedAt, MaDoubtedAt, Ma!StaleCheckpointRests, Ma!At

\* A call that goes on keeps the invariant: one case for each place it can be at.
LEMMA MaForwardStep == ASSUME MaInv, NEW c \in Ma!Calls, Ma!Forward(c) PROVE MaAfter(c)
  <1>0. MaType /\ MaScopedAt(c) /\ (c \in doubt => MaDoubtedAt(c)) /\ call[c] \in MaCall /\ world \in MaWorld
    BY DEF MaInv, MaType
  <1>a. ASSUME Ma!Refused(c), UNCHANGED <<world, doubt, told>> PROVE MaAfter(c)
    BY <1>0, <1>a, MaRefuses, MaEnds
  <1>b. ASSUME NEW st \in Ma!Finals, NEW ev \in BOOLEAN, Ma!Finish(c, st, ev), c \notin doubt,
               UNCHANGED <<world, doubt, told>>
        PROVE  MaAfter(c)
    <2>1. MaOnly(c) /\ MaBalanced(c) /\ call'[c].pc = "done"
      BY <1>0, <1>b, MaFinishes
    <2> QED
      BY <1>b, <2>1, MaEnds
  <1>1. CASE Ma!Start(c)
    <2>1. CASE Ma!Refused(c)
      BY <1>1, <1>a, <2>1 DEF Ma!Start
    <2>2. CASE call' = [call EXCEPT ![c].pc = "resolve", ![c].expected = Ma!Saved] /\ UNCHANGED free
      <3>1. Ma!Saved \in Ma!Config
        BY <1>0 DEF Ma!Saved, Ma!Config, MaWorld
      <3>2. [call[c] EXCEPT !.pc = "resolve", !.expected = Ma!Saved] \in MaCall
        BY <1>0, <3>1 DEF MaCall
      <3>3. MaOnly(c) /\ call'[c].pc = "resolve"
        BY <1>0, <2>2, <3>2 DEF MaOnly, MaType, MaCall
      <3>4. MaKeeps(c)
        BY <1>1, <2>2, <3>3 DEF Ma!Start, Ma!At, MaKeeps, Ma!Holds
      <3> QED
        BY <1>0, <1>1, <3>3, <3>4 DEF Ma!Start, Ma!At, MaInv, MaAfter, MaBalanced, MaScopedAt, MaDoubtedAt, Ma!StaleCheckpointRests
    <2> QED
      BY <1>1, <2>1, <2>2 DEF Ma!Start
  <1>2. CASE Ma!Resolve(c)
    <2>1. /\ MaOnly(c) /\ MaBalanced(c) /\ UNCHANGED <<world, doubt, told>> /\ call[c].pc = "resolve"
          /\ \/ world.open /\ call'[c] = [call[c] EXCEPT !.pc = (IF c \in Inquiries THEN "gate" ELSE "search")] /\ call'[c].pc = (IF c \in Inquiries THEN "gate" ELSE "search")
             \/ call'[c].pc = "done" /\ call'[c].status = "unavailable" /\ call'[c].evidence = FALSE
      BY <1>0, <1>2, MaSteps DEF Ma!Resolve, MaPlaces
    <2>2. CASE world.open /\ call'[c] = [call[c] EXCEPT !.pc = (IF c \in Inquiries THEN "gate" ELSE "search")] /\ call'[c].pc = (IF c \in Inquiries THEN "gate" ELSE "search")
      BY <1>0, <2>1, <2>2 DEF MaInv, MaAfter, MaScopedAt, MaDoubtedAt, MaCall, Ma!StaleCheckpointRests, Ma!At
    <2> QED
      BY <2>1, <2>2, MaEnds
  <1>3. CASE Ma!Gate(c)
    <2>1. CASE Ma!Refused(c)
      BY <1>3, <1>a, <2>1 DEF Ma!Gate
    <2>2. CASE free > 0 /\ Ma!Go(c, "ask") /\ free' = free - 1
      <3>1. MaOnly(c) /\ call'[c].pc = "ask"
        BY <1>0, <2>2, MaGoes DEF MaPlaces
      <3>2. c \in Inquiries
        BY <1>0, <1>3 DEF Ma!Gate, Ma!At, MaScopedAt
      <3>3. MaTakes(c)
        BY <1>3, <2>2, <3>1, <3>2 DEF Ma!Gate, Ma!At, Ma!Holds, MaTakes
      <3> QED
        BY <1>0, <1>3, <3>1, <3>2, <3>3
        DEF Ma!Gate, Ma!At, MaInv, MaAfter, MaBalanced, MaScopedAt, MaDoubtedAt, Ma!StaleCheckpointRests
    <2> QED
      BY <1>3, <2>1, <2>2 DEF Ma!Gate
  <1>4. CASE Ma!Ask(c)
    <2>1. /\ MaOnly(c) /\ MaBalanced(c) /\ UNCHANGED <<world, doubt, told>> /\ call[c].pc = "ask"
          /\ \/ Ma!Approved(call[c].expected) /\ call'[c] = [call[c] EXCEPT !.pc = "extract"] /\ call'[c].pc = "extract"
             \/ call'[c].pc = "done" /\ call'[c].status = "unavailable" /\ call'[c].evidence = FALSE
      BY <1>0, <1>4, MaSteps DEF Ma!Ask, MaPlaces
    <2>2. CASE Ma!Approved(call[c].expected) /\ call'[c] = [call[c] EXCEPT !.pc = "extract"] /\ call'[c].pc = "extract"
      BY <1>0, <2>1, <2>2 DEF MaInv, MaAfter, MaScopedAt, MaDoubtedAt, MaCall, Ma!StaleCheckpointRests, Ma!At
    <2> QED
      BY <2>1, <2>2, MaEnds
  <1>5. CASE Ma!Extract(c)
    <2>1. CASE Ma!Go(c, "again") /\ UNCHANGED free
      <3>1. MaOnly(c) /\ call'[c].pc = "again"
        BY <1>0, <2>1, MaGoes DEF MaPlaces
      <3>2. c \in Inquiries
        BY <1>0, <1>5 DEF Ma!Extract, Ma!At, MaScopedAt
      <3>3. MaKeeps(c)
        BY <1>5, <2>1, <3>1, <3>2 DEF Ma!Extract, Ma!At, Ma!Holds, MaKeeps
      <3> QED
        BY <1>0, <1>5, <3>1, <3>2, <3>3
        DEF Ma!Extract, Ma!At, MaInv, MaAfter, MaBalanced, MaScopedAt, MaDoubtedAt, Ma!StaleCheckpointRests
    <2>2. CASE Ma!Finish(c, "suppressed", FALSE)
      BY <1>0, <1>5, <1>b, <2>2 DEF Ma!Extract, Ma!At, Ma!Finals, MaDoubtedAt
    <2> QED
      BY <1>5, <1>a, <2>1, <2>2 DEF Ma!Extract
  <1>6. CASE Ma!Again(c)
    <2>1. /\ MaOnly(c) /\ MaBalanced(c) /\ UNCHANGED <<world, doubt, told>> /\ call[c].pc = "again"
          /\ \/ Ma!Approved(call[c].expected) /\ call'[c] = [call[c] EXCEPT !.pc = (IF c \in Inquiries THEN "search" ELSE "searched")] /\ call'[c].pc = (IF c \in Inquiries THEN "search" ELSE "searched")
             \/ call'[c].pc = "done" /\ call'[c].status = "unavailable" /\ call'[c].evidence = FALSE
      BY <1>0, <1>6, MaSteps DEF Ma!Again, MaPlaces, MaScopedAt, Ma!Step, Ma!At
    <2>2. CASE Ma!Approved(call[c].expected) /\ call'[c] = [call[c] EXCEPT !.pc = (IF c \in Inquiries THEN "search" ELSE "searched")] /\ call'[c].pc = (IF c \in Inquiries THEN "search" ELSE "searched")
      BY <1>0, <2>1, <2>2 DEF MaInv, MaAfter, MaScopedAt, MaDoubtedAt, MaCall, Ma!StaleCheckpointRests, Ma!At
    <2> QED
      BY <2>1, <2>2, MaEnds
  <1>7. CASE Ma!Irrelevant(c)
    BY <1>0, <1>7, <1>b DEF Ma!Irrelevant, Ma!At, Ma!Finals, MaDoubtedAt
  <1>8. CASE Ma!Search(c)
    <2> DEFINE to == IF c \in Inquiries THEN "draft" ELSE "again"
    <2>1. ASSUME NEW found_ \in BOOLEAN, UNCHANGED free,
                 call' = [call EXCEPT ![c].pc = to, ![c].evidence = found_, ![c].checkpoint = [scope |-> world.scope]]
          PROVE  MaAfter(c)
      <3> DEFINE new == [call[c] EXCEPT !.pc = to, !.evidence = found_, !.checkpoint = [scope |-> world.scope]]
      <3>1. new \in MaCall /\ new.pc = to /\ new.checkpoint = [scope |-> world.scope]
        BY <1>0 DEF MaCall, MaWorld
      <3>2. call' = [call EXCEPT ![c] = new]
        BY <2>1
      <3>3. MaOnly(c) /\ call'[c].pc = to /\ call'[c].checkpoint = [scope |-> world.scope]
        BY <1>0, <3>1, <3>2 DEF MaType, MaOnly
      <3>4. MaKeeps(c)
        BY <1>8, <2>1, <3>3 DEF Ma!Search, Ma!At, Ma!Holds, MaKeeps
      <3>5. world.scope \in 0..world.scope /\ c \notin doubt
        <4>1. world.scope \in 0..MaxChanges
          BY <1>0 DEF MaWorld
        <4>2. c \notin doubt
          BY <1>0, <1>8 DEF Ma!Search, Ma!At, MaDoubtedAt
        <4> QED
          BY <4>1, <4>2, AnswerAssumption
      <3>6. call'[c].checkpoint \in [scope : 0..world.scope] /\ c \notin doubt'
        <4>1. doubt' = doubt
          BY <1>8 DEF Ma!Search
        <4>2. [scope |-> world.scope] \in [scope : 0..world.scope]
          BY <3>5
        <4> QED
          BY <3>3, <3>5, <4>1, <4>2
      <3> HIDE DEF to
      <3>7. to = IF c \in Inquiries THEN "draft" ELSE "again"
        BY DEF to
      <3> QED
        BY <1>0, <1>8, <3>3, <3>4, <3>6, <3>7
        DEF Ma!Search, Ma!At, MaInv, MaAfter, MaBalanced, MaScopedAt, Ma!StaleCheckpointRests
    <2>2. CASE Ma!Finish(c, "insufficient_evidence", FALSE)
      BY <1>0, <1>8, <1>b, <2>2 DEF Ma!Search, Ma!At, Ma!Finals, MaDoubtedAt
    <2> QED
      BY <1>8, <1>a, <2>1, <2>2 DEF Ma!Search
  <1>9. CASE Ma!Searched(c)
    <2>1. CASE Ma!Go(c, "prepared") /\ UNCHANGED free
      <3>1. MaOnly(c) /\ call'[c].pc = "prepared" /\ call'[c].checkpoint = call[c].checkpoint
        BY <1>0, <2>1, MaGoes DEF MaPlaces, MaCall
      <3>2. c \notin Inquiries /\ c \notin doubt
        BY <1>0, <1>9 DEF Ma!Searched, Ma!At, MaScopedAt, MaDoubtedAt
      <3>3. MaKeeps(c)
        BY <2>1, <3>1, <3>2 DEF Ma!Holds, MaKeeps
      <3> QED
        BY <1>0, <1>9, <3>1, <3>2, <3>3
        DEF Ma!Searched, Ma!At, MaInv, MaAfter, MaBalanced, MaScopedAt, Ma!StaleCheckpointRests
    <2>2. CASE Ma!Finish(c, "insufficient_evidence", FALSE)
      BY <1>0, <1>9, <1>b, <2>2 DEF Ma!Searched, Ma!At, Ma!Finals, MaDoubtedAt
    <2> QED
      BY <1>9, <1>a, <2>1, <2>2 DEF Ma!Searched
  <1>10. CASE Ma!Resume(c)
    <2>1. CASE Ma!Approved(Ma!Saved) /\ Ma!Matches(c) /\ UNCHANGED free
               /\ call' = [call EXCEPT ![c].pc = "compare", ![c].expected = Ma!Saved]
      <3> DEFINE new == [call[c] EXCEPT !.pc = "compare", !.expected = Ma!Saved]
      <3>1. Ma!Saved \in Ma!Config
        BY <1>0 DEF Ma!Saved, Ma!Config, MaWorld
      <3>2. new \in MaCall /\ new.pc = "compare" /\ new.checkpoint = call[c].checkpoint
        BY <1>0, <3>1 DEF MaCall
      <3>3. call' = [call EXCEPT ![c] = new]
        BY <2>1
      <3>4. MaOnly(c) /\ call'[c].pc = "compare" /\ call'[c].checkpoint = call[c].checkpoint
        BY <1>0, <3>2, <3>3 DEF MaType, MaOnly
      <3>5. c \notin Inquiries /\ call[c].pc = "prepared"
        BY <1>0, <1>10 DEF Ma!Resume, Ma!At, MaScopedAt
      <3>6. c \in doubt => c \in Jobs /\ call[c].checkpoint.scope # world.scope
        BY <1>0, <2>1, <3>5 DEF Ma!Matches, Ma!Saved, MaDoubtedAt, Ma!At, Ma!Stale
      <3>7. MaKeeps(c)
        BY <2>1, <3>4, <3>5 DEF Ma!Holds, MaKeeps
      <3> QED
        BY <1>0, <1>10, <3>4, <3>5, <3>6, <3>7
        DEF Ma!Resume, Ma!At, MaInv, MaAfter, MaBalanced, MaScopedAt, MaDoubtedAt, Ma!StaleCheckpointRests
    <2> QED
      BY <1>10, <1>a, <2>1 DEF Ma!Resume
  <1>11. CASE Ma!Compare(c)
    <2>1. /\ MaOnly(c) /\ MaBalanced(c) /\ UNCHANGED <<world, doubt, told>> /\ call[c].pc = "compare"
          /\ \/ world.open /\ Ma!InScope(c) /\ call'[c] = [call[c] EXCEPT !.pc = "draft"] /\ call'[c].pc = "draft"
             \/ call'[c].pc = "done" /\ call'[c].status = "unavailable" /\ call'[c].evidence = FALSE
      BY <1>0, <1>11, MaSteps DEF Ma!Compare, MaPlaces, MaScopedAt, Ma!Step, Ma!At
    <2>2. CASE world.open /\ Ma!InScope(c) /\ call'[c] = [call[c] EXCEPT !.pc = "draft"] /\ call'[c].pc = "draft"
      BY <1>0, <2>1, <2>2 DEF MaInv, MaAfter, MaScopedAt, MaDoubtedAt, MaCall, Ma!StaleCheckpointRests, Ma!At, Ma!InScope
    <2> QED
      BY <2>1, <2>2, MaEnds
  <1>12. CASE Ma!Draft(c)
    <2>0. c \notin doubt /\ call[c].pc = "draft"
      BY <1>0, <1>12 DEF Ma!Draft, Ma!At, MaDoubtedAt
    <2>1. CASE Ma!Refused(c) /\ UNCHANGED <<doubt, told>>
      BY <1>12, <1>a, <2>1 DEF Ma!Draft
    <2>2. CASE /\ Ma!Go(c, "write") /\ doubt' = doubt \ {c} /\ UNCHANGED free
               /\ told' = told \cup {[call |-> c, doubted |-> c \in doubt]}
      <3>1. MaOnly(c) /\ call'[c].pc = "write" /\ call'[c].checkpoint = call[c].checkpoint
        BY <1>0, <2>2, MaGoes DEF MaPlaces, MaCall
      <3>2. MaKeeps(c)
        BY <2>0, <2>2, <3>1 DEF Ma!Holds, MaKeeps
      <3>3. Ma!StaleCheckpointRests'
        <4>1. (c \in doubt) = FALSE
          BY <2>0
        <4>2. told' = told \cup {[call |-> c, doubted |-> FALSE]}
          BY <2>2, <4>1
        <4> QED
          BY <4>2 DEF MaInv, Ma!StaleCheckpointRests
      <3> QED
        BY <1>0, <1>12, <2>0, <2>2, <3>1, <3>2, <3>3 DEF Ma!Draft, MaAfter, MaBalanced, MaScopedAt
    <2> QED
      BY <1>12, <2>1, <2>2 DEF Ma!Draft
  <1>13. CASE Ma!Write(c)
    <2>1. CASE Ma!Go(c, "final") /\ UNCHANGED free
      <3>1. /\ MaOnly(c) /\ call'[c].pc = "final" /\ call'[c].checkpoint = call[c].checkpoint
            /\ call'[c].expected = call[c].expected
        BY <1>0, <2>1, MaGoes DEF MaPlaces, MaCall
      <3>2. MaKeeps(c)
        BY <1>13, <2>1, <3>1 DEF Ma!Write, Ma!At, Ma!Holds, MaKeeps
      <3> QED
        BY <1>0, <1>13, <3>1, <3>2
        DEF Ma!Write, Ma!At, MaInv, MaAfter, MaBalanced, MaScopedAt, MaDoubtedAt, Ma!StaleCheckpointRests,
            Ma!Uncovered, Ma!Stale
    <2> QED
      BY <1>13, <1>a, <2>1 DEF Ma!Write
  <1>14. CASE Ma!Final(c)
    <2>1. /\ MaOnly(c) /\ MaBalanced(c) /\ UNCHANGED <<world, doubt, told>> /\ call[c].pc = "final"
          /\ \/ Ma!Approved(call[c].expected) /\ call'[c] = [call[c] EXCEPT !.pc = "confirm"] /\ call'[c].pc = "confirm"
             \/ call'[c].pc = "done" /\ call'[c].status = "unavailable" /\ call'[c].evidence = FALSE
      BY <1>0, <1>14, MaSteps DEF Ma!Final, MaPlaces
    <2>2. CASE Ma!Approved(call[c].expected) /\ call'[c] = [call[c] EXCEPT !.pc = "confirm"] /\ call'[c].pc = "confirm"
      BY <1>0, <2>1, <2>2 DEF MaInv, MaAfter, MaScopedAt, MaDoubtedAt, MaCall, Ma!StaleCheckpointRests, Ma!At, Ma!Approved, Ma!Saved, Ma!Uncovered, Ma!Stale, Ma!Stands, Ma!InScope
    <2> QED
      BY <2>1, <2>2, MaEnds
  <1>15. CASE Ma!Confirm(c)
    <2>1. ASSUME Ma!Stands(c), NEW st \in Ma!Finals \ {"unavailable"}, Ma!Finish(c, st, TRUE) PROVE MaAfter(c)
      BY <1>0, <1>15, <1>b, <2>1 DEF Ma!Confirm, Ma!At, MaDoubtedAt
    <2> QED
      BY <1>15, <1>a, <2>1 DEF Ma!Confirm
  <1> QED
    BY <1>1, <1>2, <1>3, <1>4, <1>5, <1>6, <1>7, <1>8, <1>9, <1>10, <1>11, <1>12, <1>13, <1>14, <1>15
    DEF Ma!Forward

\* A change of the world reaches the calls only through what they are doubted for.
LEMMA MaChangeStep ==
  ASSUME MaInv, NEW w \in MaWorld, w.scope >= world.scope, Ma!Change(w)
  PROVE  MaType' /\ (\A c \in Ma!Calls : MaScopedAt(c)') /\ (\A c \in doubt' : MaDoubtedAt(c)')
         /\ Ma!StaleCheckpointRests' /\ Ma!PermitsReturn'
  <1>0. MaType /\ world' = w /\ UNCHANGED <<call, told, free>> /\ doubt' \subseteq Ma!Calls
    BY DEF MaInv, Ma!Change
  <1>1. MaType'
    BY <1>0 DEF MaType
  <1>2. ASSUME NEW c \in Ma!Calls PROVE MaScopedAt(c)'
    <2>1. MaScopedAt(c) /\ call'[c] = call[c]
      BY <1>0 DEF MaInv
    <2>2. \A k : k \in [scope : 0..world.scope] => k \in [scope : 0..w.scope]
      BY <1>0 DEF MaType, MaWorld
    <2> QED
      BY <1>0, <2>1, <2>2 DEF MaScopedAt
  <1>3. ASSUME NEW c \in doubt' PROVE MaDoubtedAt(c)'
    <2>1. c \in Ma!Calls /\ call'[c] = call[c]
      BY <1>0
    <2>2. CASE Ma!At(c, "prepared")
      BY <1>0, <2>1, <2>2 DEF Ma!Change, Ma!At, Ma!Stale, MaDoubtedAt
    <2>3. CASE Ma!At(c, "write")
      BY <1>0, <2>1, <2>3 DEF Ma!Change, Ma!At, Ma!Stale, Ma!Uncovered, MaDoubtedAt
    <2>4. CASE Ma!At(c, "final")
      BY <1>0, <2>1, <2>4 DEF Ma!Change, Ma!At, Ma!Stale, Ma!Uncovered, MaDoubtedAt
    <2>5. CASE Ma!At(c, "confirm")
      BY <1>0, <2>1, <2>5 DEF Ma!Change, Ma!At, Ma!Stands, MaDoubtedAt
    <2>6. CASE call[c].pc \notin {"prepared", "write", "final", "confirm"}
      <3>1. c \in doubt
        BY <2>1, <2>6 DEF Ma!Change, Ma!At
      <3>2. MaDoubtedAt(c) /\ MaScopedAt(c) /\ w.scope \in Nat /\ world.scope \in Nat
        BY <1>0, <2>1, <3>1 DEF MaInv, MaType, MaWorld
      <3>3. CASE call[c].pc = "compare"
        BY <1>0, <2>1, <3>2, <3>3 DEF MaDoubtedAt, MaScopedAt, Ma!At
      <3>4. CASE call[c].pc = "done"
        BY <1>0, <2>1, <3>2, <3>4 DEF MaDoubtedAt, Ma!At
      <3> QED
        BY <2>6, <3>2, <3>3, <3>4 DEF MaDoubtedAt
    <2> QED
      BY <2>2, <2>3, <2>4, <2>5, <2>6 DEF Ma!At
  <1>4. Ma!StaleCheckpointRests'
    BY <1>0 DEF MaInv, Ma!StaleCheckpointRests
  <1>5. Ma!PermitsReturn'
    BY <1>0 DEF MaInv, Ma!PermitsReturn, Ma!Holds
  <1> QED
    BY <1>1, <1>2, <1>3, <1>4, <1>5

MaHolders == {c \in Ma!Calls : Ma!Holds(c)}
\* Finitely many calls hold a permit.
LEMMA MaHoldersFinite == IsFiniteSet(MaHolders) /\ Cardinality(MaHolders) \in Nat
  <1>1. IsFiniteSet(Ma!Calls) /\ MaHolders \subseteq Ma!Calls
    BY AnswerAssumption DEF Ma!Calls, MaHolders
  <1> QED
    BY <1>1, FS_Subset, FS_CardinalityType

\* The permits over all calls follow from the balance of the one that steps.
LEMMA MaPermitsStep ==
  ASSUME MaInv, NEW c \in Ma!Calls, MaAfter(c) PROVE Ma!PermitsReturn' /\ free' \in Nat
  <1>0. /\ free \in Nat /\ free + Cardinality(MaHolders) = PERMITS /\ Cardinality(MaHolders) \in Nat
        /\ IsFiniteSet(MaHolders) /\ \A d \in Ma!Calls \ {c} : Ma!Holds(d)' <=> Ma!Holds(d)
    BY MaHoldersFinite, MaCardinality DEF MaInv, MaType, Ma!PermitsReturn, MaHolders, MaAfter, MaOnly, Ma!Holds
  <1> SUFFICES free' + Cardinality(MaHolders') = PERMITS /\ free' \in Nat
    BY MaCardinality DEF Ma!PermitsReturn, MaHolders
  <1>1. CASE MaTakes(c)
    <2>1. c \notin MaHolders /\ MaHolders' = MaHolders \cup {c}
      BY <1>0, <1>1 DEF MaTakes, MaHolders
    <2>2. Cardinality(MaHolders') = Cardinality(MaHolders) + 1
      BY <1>0, <2>1, FS_AddElement
    <2> QED
      BY <1>0, <1>1, <2>2 DEF MaTakes
  <1>2. CASE MaGives(c)
    <2>1. c \in MaHolders /\ MaHolders' = MaHolders \ {c}
      BY <1>0, <1>2 DEF MaGives, MaHolders
    <2>2. Cardinality(MaHolders') = Cardinality(MaHolders) - 1
      BY <1>0, <2>1, FS_RemoveElement
    <2> QED
      BY <1>0, <1>2, <2>2 DEF MaGives
  <1>3. CASE MaKeeps(c)
    <2>1. MaHolders' = MaHolders
      BY <1>0, <1>3 DEF MaKeeps, MaHolders
    <2> QED
      BY <1>0, <1>3, <2>1 DEF MaKeeps
  <1> QED
    BY <1>1, <1>2, <1>3 DEF MaAfter, MaBalanced

\* No call has been made and all permits are free.
LEMMA MaInit == Ma!Init => MaInv
  <1> SUFFICES ASSUME Ma!Init PROVE MaInv
    OBVIOUS
  <1>1. PICK v \in Vendors : world = [vendor |-> v, version |-> 0, consent |-> v, scope |-> 0, open |-> TRUE]
    BY DEF Ma!Init
  <1>2. world \in MaWorld
    BY <1>1, AnswerAssumption DEF MaWorld
  <1>3. Ma!Idle \in MaCall
    BY DEF Ma!Idle, MaCall, Ma!Finals
  <1>4. MaType
    BY <1>2, <1>3, AnswerAssumption DEF Ma!Init, MaType
  <1>5. \A c \in Ma!Calls : MaScopedAt(c)
    BY DEF Ma!Init, Ma!Idle, MaScopedAt
  <1>6. Ma!PermitsReturn
    <2>1. {c \in Ma!Calls : Ma!Holds(c)} = {}
      BY DEF Ma!Init, Ma!Idle, Ma!Holds
    <2> QED
      BY <2>1, MaCardinality, FS_EmptySet, AnswerAssumption DEF Ma!Init, Ma!PermitsReturn
  <1> QED
    BY <1>4, <1>5, <1>6 DEF Ma!Init, MaInv, Ma!StaleCheckpointRests

\* Every step of the answers keeps the invariant.
LEMMA MaStep == ASSUME MaInv, [Ma!Next]_(Ma!maVars) PROVE MaInv'
  <1>0. world \in MaWorld
    BY DEF MaInv, MaType
  <1>1. ASSUME NEW c \in Ma!Calls, Ma!Forward(c) PROVE MaInv'
    <2>1. MaAfter(c)
      BY <1>1, MaForwardStep
    <2>2. Ma!PermitsReturn' /\ free' \in Nat
      BY <2>1, MaPermitsStep
    <2>3. MaType'
      BY <1>0, <2>1, <2>2 DEF MaInv, MaType, MaAfter, MaOnly
    <2>4. ASSUME NEW d \in Ma!Calls, d # c PROVE MaScopedAt(d)' /\ (d \in doubt' => MaDoubtedAt(d)')
      BY <2>1, <2>4 DEF MaInv, MaAfter, MaOnly, MaScopedAt, MaDoubtedAt, Ma!At, Ma!Stale, Ma!Uncovered, Ma!Stands,
         Ma!InScope
    <2> QED
      BY <2>1, <2>2, <2>3, <2>4 DEF MaInv, MaAfter, MaType
  <1>2. ASSUME NEW w \in MaWorld, w.scope >= world.scope, Ma!Change(w) PROVE MaInv'
    BY <1>2, MaChangeStep DEF MaInv
  <1>3. ASSUME NEW v \in Vendors \cup {None}, Ma!SaveSettings(v) PROVE MaInv'
    <2> DEFINE w == [world EXCEPT !.vendor = v, !.version = @ + 1,
                                  !.consent = IF v = world.vendor THEN @ ELSE None]
    <2>1. w \in MaWorld /\ w.scope >= world.scope
      <3> DEFINE n == world.version + 1
                 x == IF v = world.vendor THEN world.consent ELSE None
      <3>1. n \in 0..MaxChanges
        <4>1. world.version \in 0..MaxChanges /\ world.version < MaxChanges
          BY <1>0, <1>3 DEF MaWorld, Ma!SaveSettings
        <4> QED
          BY <4>1, AnswerAssumption
      <3>2. x \in Vendors \cup {None} /\ world.scope \in 0..MaxChanges
        BY <1>0 DEF MaWorld
      <3> DEFINE a == [world EXCEPT !.vendor = v]
                 b == [a EXCEPT !.version = n]
      <3>3. w = [b EXCEPT !.consent = x]
        OBVIOUS
      <3>4. a \in MaWorld /\ a.scope = world.scope
        BY <1>0 DEF MaWorld
      <3> HIDE DEF n, x, w, a
      <3>5. b \in MaWorld /\ b.scope = world.scope
        BY <3>1, <3>4 DEF MaWorld
      <3> HIDE DEF b
      <3>6. w \in MaWorld /\ w.scope = world.scope
        BY <3>2, <3>3, <3>5 DEF MaWorld
      <3> QED
        BY <3>2, <3>6, AnswerAssumption
    <2> QED
      BY <1>2, <1>3, <2>1 DEF Ma!SaveSettings
  <1>4. ASSUME NEW given \in BOOLEAN, Ma!SetConsent(given) PROVE MaInv'
    <2> DEFINE w == [world EXCEPT !.consent = IF given THEN world.vendor ELSE None]
    <2>1. w \in MaWorld /\ w.scope >= world.scope
      BY <1>0 DEF MaWorld
    <2> QED
      BY <1>2, <1>4, <2>1 DEF Ma!SetConsent
  <1>5. CASE Ma!EditScope
    <2> DEFINE w == [world EXCEPT !.scope = @ + 1]
    <2>1. w \in MaWorld /\ w.scope >= world.scope
      BY <1>0, <1>5, AnswerAssumption DEF MaWorld, Ma!EditScope
    <2> QED
      BY <1>2, <1>5, <2>1 DEF Ma!EditScope
  <1>6. CASE Ma!Revoke
    <2> DEFINE w == [world EXCEPT !.open = ~@]
    <2>1. w = [vendor |-> world.vendor, version |-> world.version, consent |-> world.consent,
               scope |-> world.scope, open |-> ~world.open]
      BY <1>0 DEF MaWorld
    <2>2. w \in MaWorld /\ w.scope >= world.scope
      <3> HIDE DEF w
      <3>1. (~world.open) \in BOOLEAN
        OBVIOUS
      <3> QED
        BY <1>0, <2>1, <3>1 DEF MaWorld
    <2> QED
      BY <1>2, <1>6, <2>2 DEF Ma!Revoke
  <1>7. CASE UNCHANGED Ma!maVars
    BY <1>7 DEF Ma!maVars, MaInv, MaType, MaScopedAt, MaDoubtedAt, Ma!At, Ma!Stale, Ma!Uncovered, Ma!Stands,
       Ma!InScope, Ma!StaleCheckpointRests, Ma!PermitsReturn, Ma!Holds
  <1> QED
    BY <1>1, <1>3, <1>4, <1>5, <1>6, <1>7 DEF Ma!Next

\* The invariant implies what the runs check of the answers.
LEMMA MaHolds == MaInv => Ma!TypeOK /\ Ma!NoLatePopup /\ Ma!StaleCheckpointRests /\ Ma!PermitsReturn
  <1> SUFFICES ASSUME MaInv PROVE Ma!TypeOK /\ Ma!NoLatePopup
    BY DEF MaInv
  <1>1. free \in 0..PERMITS
    <2>1. free \in Nat /\ free + Cardinality(MaHolders) = PERMITS
      BY MaCardinality DEF MaInv, MaType, Ma!PermitsReturn, MaHolders
    <2> QED
      BY <2>1, MaHoldersFinite, AnswerAssumption
  <1>2. Ma!TypeOK
    BY <1>1 DEF MaInv, MaType, MaWorld, MaCall, Ma!TypeOK
  <1>3. Ma!NoLatePopup
    BY DEF MaInv, MaDoubtedAt, Ma!NoLatePopup
  <1> QED
    BY <1>2, <1>3

\* The answers for themselves, without the scenario that bounds what the runs look at.
THEOREM AnswersAreSafe ==
  Ma!Init /\ [][Ma!Next]_(Ma!maVars) =>
      [](Ma!TypeOK /\ Ma!NoLatePopup /\ Ma!StaleCheckpointRests /\ Ma!PermitsReturn)
  BY MaInit, MaStep, MaHolds, PTL

-----------------------------------------------------------------------------
(* The connection to the provider, and the documents saved under a version *)

PsText == [version : 0..MaxVersion, text : Nat, onto : Nat]
PsType ==
    /\ settings \in Ps!Settings /\ form \in [Users -> Ps!Settings] /\ taking \in [Users -> Ps!Settings \cup {None}]
    /\ standing \in BOOLEAN /\ (grant = None \/ grant.url \in URLs) /\ (request = None \/ request \in Ps!Settings)
    /\ document \in [Prompts -> PsText] /\ page \in [Users -> [Prompts -> PsText]]

\* A key is at home in every copy of the settings that a request can be made with.
PsAtHome(s) == s.key # None => s.key.home = s.url
PsInv ==
    /\ PsType
    /\ PsAtHome(settings) /\ (request # None => PsAtHome(request) /\ request.key # None)
    /\ \A m \in keysSent : m.key.home = m.url
    /\ grant # None => standing
    /\ \A d \in Prompts : /\ document[d].text = document[d].version
                          /\ document[d].version > 0 => document[d].onto = document[d].text - 1
                          /\ \A x \in Users : page[x][d].text = page[x][d].version

\* What a save writes is a provider with its own key and model.
LEMMA PsSaved ==
  ASSUME NEW old_ \in Ps!Settings, PsAtHome(old_), NEW url \in URLs, NEW key, NEW model \in Models \cup {None},
         old_.version < MaxVersion
  PROVE  LET new == [url |-> url, key |-> Ps!KeyAfter(old_, url, key), model |-> Ps!ModelAfter(old_, url, model),
                     version |-> old_.version + 1]
         IN  new \in Ps!Settings /\ PsAtHome(new)
  <1> DEFINE k == Ps!KeyAfter(old_, url, key)  m == Ps!ModelAfter(old_, url, model)
  <1>1. old_.version + 1 \in 0..MaxVersion
    BY LocalIsSetting DEF Ps!Settings
  <1>2. k \in Ps!Secrets /\ (k # None => k.home = url)
    BY DEF Ps!KeyAfter, Ps!Settings, Ps!Secrets, PsAtHome
  <1>3. m \in {None} \cup {Ps!Named(u, n) : u \in URLs, n \in Models}
    BY DEF Ps!ModelAfter, Ps!Settings
  <1> HIDE DEF k, m
  <1>4. [url |-> url, key |-> k, model |-> m, version |-> old_.version + 1] \in Ps!Settings
    BY <1>1, <1>2, <1>3 DEF Ps!Settings
  <1>5. PsAtHome([url |-> url, key |-> k, model |-> m, version |-> old_.version + 1])
    BY <1>2 DEF PsAtHome
  <1> QED
    BY <1>4, <1>5 DEF k, m

\* Saving the settings keeps the key and the model with the address they are for, and withdraws a
\* consent that no longer fits.
LEMMA PsSave ==
  ASSUME PsInv, NEW expected, NEW url \in URLs, NEW key, NEW model \in Models \cup {None},
         Ps!Save(expected, url, key, model)
  PROVE  /\ settings' \in Ps!Settings /\ PsAtHome(settings)' /\ standing' \in BOOLEAN
         /\ (grant = None \/ grant.url \in URLs)' /\ (grant # None => standing)'
  <1>1. settings' \in Ps!Settings /\ PsAtHome(settings)'
    <2> DEFINE new == [url |-> url, key |-> Ps!KeyAfter(settings, url, key),
                       model |-> Ps!ModelAfter(settings, url, model), version |-> settings.version + 1]
    <2>1. settings \in Ps!Settings /\ PsAtHome(settings) /\ settings.version < MaxVersion /\ settings' = new
      BY DEF Ps!Save, PsInv, PsType
    <2>2. new \in Ps!Settings /\ PsAtHome(new)
      BY <2>1, PsSaved
    <2> HIDE DEF new
    <2> QED
      BY <2>1, <2>2 DEF PsAtHome
  <1>2. /\ standing' \in BOOLEAN /\ (grant = None \/ grant.url \in URLs)' /\ (grant # None => standing)'
    BY DEF Ps!Save, Ps!Withdrawn, PsInv, PsType
  <1> QED
    BY <1>1, <1>2

\* A provider is a value of its own, at the address of the settings.
LEMMA PsProvider == ASSUME NEW s \in Ps!Settings PROVE Ps!Provider(s) # None /\ Ps!Provider(s).url \in URLs
  <1>1. s.url \in URLs /\ s.model \in {None} \cup [home : URLs, name : Models]
    BY DEF Ps!Settings, Ps!Named
  <1> QED
    BY <1>1, LocalIsSetting DEF Ps!Provider

\* The first settings are settings, with no key.
LEMMA PsInitial == ASSUME NEW u \in URLs PROVE Ps!Initial(u) \in Ps!Settings /\ PsAtHome(Ps!Initial(u))
  <1>1. 0 \in 0..MaxVersion
    BY LocalIsSetting
  <1> QED
    BY <1>1 DEF Ps!Initial, Ps!Settings, Ps!Secrets, PsAtHome

\* The first settings satisfy the invariant.
LEMMA PsInit == Ps!Init => PsInv
  <1> SUFFICES ASSUME Ps!Init PROVE PsInv
    OBVIOUS
  <1>1. settings \in Ps!Settings /\ PsAtHome(settings)
    BY PsInitial DEF Ps!Init
  <1>2. Ps!Blank \in PsText
    BY LocalIsSetting DEF Ps!Blank, PsText
  <1>3. PsType
    BY <1>1, <1>2 DEF Ps!Init, PsType
  <1>4. \A d \in Prompts : document[d].text = 0 /\ document[d].version = 0 /\ \A x \in Users : page[x][d] = document[d]
    BY DEF Ps!Init, Ps!Blank
  <1> QED
    BY <1>1, <1>3, <1>4 DEF Ps!Init, PsInv

\* Every step of the settings keeps the invariant.
LEMMA PsStep == ASSUME PsInv, [Ps!Next]_(Ps!psVars) PROVE PsInv'
  <1>0. PsType
    BY DEF PsInv
  <1>1. ASSUME NEW x \in Users, Ps!Load(x) PROVE PsInv'
    BY <1>1 DEF Ps!Load, Ps!others, PsInv, PsType, PsAtHome
  <1>2. ASSUME NEW x \in Users, Ps!SaveForm(x) PROVE PsInv'
    <2>1. PICK url \in URLs, key \in {"keep", "new", "clear"}, model \in Models \cup {None} :
                  Ps!Save(form[x].version, url, key, model)
      BY <1>2 DEF Ps!SaveForm
    <2>2. /\ settings' \in Ps!Settings /\ PsAtHome(settings)' /\ standing' \in BOOLEAN
          /\ (grant = None \/ grant.url \in URLs)' /\ (grant # None => standing)'
      BY <2>1, PsSave
    <2> QED
      BY <1>2, <2>2 DEF Ps!SaveForm, Ps!others, PsInv, PsType, PsAtHome
  <1>3. ASSUME NEW x \in Users, Ps!UseReads(x) PROVE PsInv'
    BY <1>3 DEF Ps!UseReads, Ps!others, PsInv, PsType, PsAtHome
  <1>4. ASSUME NEW x \in Users, Ps!UseSaves(x) PROVE PsInv'
    <2> DEFINE model == IF taking[x].url = Local /\ taking[x].model # None THEN taking[x].model.name ELSE None
    <2>1. taking[x] \in Ps!Settings
      BY <1>0, <1>4 DEF Ps!UseSaves, PsType
    <2>2. model \in Models \cup {None}
      BY <2>1 DEF Ps!Settings, Ps!Named
    <2>3. taking' \in [Users -> Ps!Settings \cup {None}]
      BY <1>0, <1>4 DEF Ps!UseSaves, PsType
    <2>4. CASE Ps!Save(form[x].version, Local, "new", model)
      <3>1. /\ settings' \in Ps!Settings /\ PsAtHome(settings)' /\ standing' \in BOOLEAN
            /\ (grant = None \/ grant.url \in URLs)' /\ (grant # None => standing)'
        BY <2>2, <2>4, PsSave, LocalIsSetting
      <3> QED
        BY <1>4, <2>3, <3>1 DEF Ps!UseSaves, Ps!others, PsInv, PsType, PsAtHome
    <2>5. CASE UNCHANGED <<settings, grant, standing>>
      BY <1>4, <2>3, <2>5 DEF Ps!UseSaves, Ps!others, PsInv, PsType, PsAtHome
    <2> QED
      BY <1>4, <2>4, <2>5 DEF Ps!UseSaves
  <1>5. ASSUME NEW x \in Users, Ps!Approve(x) PROVE PsInv'
    <2>1. grant'.url \in URLs /\ standing' = TRUE
      BY <1>0, <1>5, PsProvider DEF Ps!Approve, Ps!AsShown, PsType
    <2> QED
      BY <1>5, <2>1 DEF Ps!Approve, Ps!others, PsInv, PsType, PsAtHome
  <1>6. ASSUME NEW x \in Users, NEW d \in Prompts, Ps!Open(x, d) PROVE PsInv'
    <2>1. page' \in [Users -> [Prompts -> PsText]]
      BY <1>0, <1>6 DEF Ps!Open, PsType
    <2>2. \A y \in Users, e \in Prompts : page'[y][e].text = page'[y][e].version
      BY <1>0, <1>6 DEF Ps!Open, PsType, PsInv
    <2> QED
      BY <1>6, <2>1, <2>2 DEF Ps!Open, PsInv, PsType, PsAtHome
  <1>7. ASSUME NEW x \in Users, NEW d \in Prompts, Ps!SaveDocument(x, d) PROVE PsInv'
    <2> DEFINE new == [version |-> document[d].version + 1, text |-> document[d].text + 1, onto |-> page[x][d].text]
    <2>1. /\ document' = [document EXCEPT ![d] = new] /\ page[x][d].version = document[d].version
          /\ document[d].version < MaxVersion
      BY <1>7 DEF Ps!SaveDocument, Ps!SaveDocumentIf, Ps!Current
    <2>2. document[d] \in PsText /\ page[x][d] \in PsText
      BY <1>0 DEF PsType
    <2>3. new \in PsText /\ new.text = new.version /\ new.onto = new.text - 1
      BY <2>1, <2>2, LocalIsSetting DEF PsInv, PsText
    <2> HIDE DEF new
    <2>4. /\ document' \in [Prompts -> PsText]
          /\ \A e \in Prompts : /\ document'[e].text = document'[e].version
                                /\ document'[e].version > 0 => document'[e].onto = document'[e].text - 1
      BY <1>0, <2>1, <2>3 DEF PsInv, PsType
    <2> QED
      BY <1>7, <2>4 DEF Ps!SaveDocument, Ps!SaveDocumentIf, PsInv, PsType, PsAtHome
  <1>8. ASSUME NEW u \in URLs, Ps!Environment(u) PROVE PsInv'
    <2>1. settings' \in Ps!Settings /\ PsAtHome(settings)'
      BY <1>8, PsInitial DEF Ps!Environment, PsAtHome
    <2> QED
      BY <1>8, <2>1 DEF Ps!Environment, Ps!others, PsInv, PsType
  <1>9. CASE Ps!Revoke
    BY <1>9 DEF Ps!Revoke, Ps!others, PsInv, PsType, PsAtHome
  <1>10. CASE Ps!Capture
    BY <1>10 DEF Ps!Capture, Ps!others, PsInv, PsType, PsAtHome
  <1>11. CASE Ps!Answer
    BY <1>11 DEF Ps!Answer, Ps!others, PsInv, PsType, PsAtHome
  <1>12. CASE UNCHANGED Ps!psVars
    BY <1>12 DEF Ps!psVars, PsInv, PsType, PsAtHome
  <1> QED
    BY <1>1, <1>2, <1>3, <1>4, <1>5, <1>6, <1>7, <1>8, <1>9, <1>10, <1>11, <1>12 DEF Ps!Next

\* The invariant implies what the runs check of the settings.
LEMMA PsHolds == PsInv => Ps!TypeOK /\ Ps!KeyStaysHome /\ Ps!ConsentIsInformed /\ Ps!NoLostSave
  <1> SUFFICES ASSUME PsInv PROVE Ps!TypeOK /\ Ps!KeyStaysHome /\ Ps!ConsentIsInformed /\ Ps!NoLostSave
    OBVIOUS
  <1>1. Ps!TypeOK
    BY DEF PsInv, PsType, PsText, Ps!TypeOK
  <1>2. Ps!KeyStaysHome /\ Ps!NoLostSave
    BY DEF PsInv, PsAtHome, Ps!KeyStaysHome, Ps!NoLostSave
  <1>3. Ps!ConsentIsInformed
    BY PsProvider DEF PsInv, PsType, Ps!ConsentIsInformed
  <1> QED
    BY <1>1, <1>2, <1>3

\* The settings for themselves.
THEOREM SettingsAreSafe ==
  Ps!Init /\ [][Ps!Next]_(Ps!psVars) =>
      [](Ps!TypeOK /\ Ps!KeyStaysHome /\ Ps!ConsentIsInformed /\ Ps!NoLostSave)
  BY PsInit, PsStep, PsHolds, PTL

-----------------------------------------------------------------------------
(* The account of the proxy *)

\* The instance counts as the library does.
LEMMA PaCardinality == ASSUME NEW S PROVE Pa!Cardinality(S) = Cardinality(S)
  BY DEF Pa!Cardinality, Cardinality

\* A sequence that lists a finite set lists each of its members.
PaElems(s) == {s[i] : i \in 1..Len(s)}
\* A finite set written as a sequence has its elements and no others.
LEMMA PaListed ==
  ASSUME NEW S, IsFiniteSet(S) PROVE Pa!SetToSeq(S) \in Seq(S) /\ PaElems(Pa!SetToSeq(S)) = S
  <1> DEFINE n == Cardinality(S)
             s == Pa!SetToSeq(S)
  <1>1. n \in Nat /\ ExistsBijection(1..n, S)
    BY FS_CardinalityType
  <1>2. PICK b : b \in Bijection(1..n, S)
    BY <1>1 DEF ExistsBijection
  <1>3. b \in [1..n -> S] /\ Pa!IsInjective(b)
    BY <1>2 DEF Bijection, Injection, IsInjective, Pa!IsInjective
  <1>4. s = CHOOSE f \in [1..n -> S] : Pa!IsInjective(f)
    BY PaCardinality DEF Pa!SetToSeq
  <1> HIDE DEF s
  <1>5. s \in [1..n -> S] /\ Pa!IsInjective(s)
    BY <1>3, <1>4
  <1>6. s \in Injection(1..n, S)
    BY <1>5 DEF Injection, IsInjective, Pa!IsInjective
  <1>7. Cardinality(1..n) = Cardinality(S)
    BY <1>1, FS_Interval
  <1>8. s \in Surjection(1..n, S)
    BY <1>6, <1>7, FS_Injection
  <1>9. s \in Seq(S) /\ Len(s) = n
    BY <1>1, <1>5
  <1> QED
    BY <1>5, <1>8, <1>9 DEF PaElems, Surjection, s

\* A reversed sequence has the same elements.
LEMMA PaReversed ==
  ASSUME NEW s \in Seq(Accounts) PROVE Pa!Reverse(s) \in Seq(Accounts) /\ PaElems(Pa!Reverse(s)) = PaElems(s)
  <1> DEFINE r == Pa!Reverse(s)
  <1>1. r = [i \in 1..Len(s) |-> s[Len(s) - i + 1]]
    BY DEF Pa!Reverse
  <1>2. \A i \in 1..Len(s) : Len(s) - i + 1 \in 1..Len(s)
    OBVIOUS
  <1> HIDE DEF r
  <1>3. r \in Seq(Accounts) /\ Len(r) = Len(s)
    BY <1>1, <1>2
  <1>4. \A i \in 1..Len(s) : r[i] = s[Len(s) - i + 1] /\ s[i] = r[Len(s) - i + 1]
    BY <1>1, <1>2
  <1>5. PaElems(r) = PaElems(s)
    <2>1. \A i \in 1..Len(s) : s[i] \in PaElems(r) /\ r[i] \in PaElems(s)
      BY <1>2, <1>3, <1>4 DEF PaElems
    <2> QED
      BY <1>3, <2>1 DEF PaElems
  <1> QED
    BY <1>3, <1>5 DEF r

\* Appending adds one element.
LEMMA PaAppended ==
  ASSUME NEW s \in Seq(Accounts), NEW a \in Accounts
  PROVE  Append(s, a) \in Seq(Accounts) /\ PaElems(Append(s, a)) = PaElems(s) \cup {a}
  <1>1. Append(s, a) \in Seq(Accounts) /\ Len(Append(s, a)) = Len(s) + 1
    OBVIOUS
  <1>2. (\A i \in 1..Len(s) : Append(s, a)[i] = s[i]) /\ Append(s, a)[Len(s) + 1] = a
    OBVIOUS
  <1> QED
    BY <1>1, <1>2 DEF PaElems

\* A sequence with something in it is its first element and the rest.
LEMMA PaSplit ==
  ASSUME NEW s \in Seq(Accounts), s # <<>>
  PROVE  /\ Head(s) \in Accounts /\ Tail(s) \in Seq(Accounts) /\ Len(Tail(s)) = Len(s) - 1 /\ Len(s) \in Nat \ {0}
         /\ Head(s) = s[1] /\ \A i \in 1..Len(s) - 1 : Tail(s)[i] = s[i + 1]
         /\ PaElems(s) = {Head(s)} \cup PaElems(Tail(s))
  <1>1. /\ Head(s) \in Accounts /\ Tail(s) \in Seq(Accounts) /\ Len(Tail(s)) = Len(s) - 1 /\ Len(s) \in Nat \ {0}
        /\ Head(s) = s[1] /\ \A i \in 1..Len(s) - 1 : Tail(s)[i] = s[i + 1]
    OBVIOUS
  <1>2. \A i \in 1..Len(s) : i = 1 \/ (i - 1 \in 1..Len(s) - 1 /\ s[i] = Tail(s)[i - 1])
    BY <1>1
  <1>3. 1 \in 1..Len(s) /\ \A i \in 1..Len(s) - 1 : i + 1 \in 1..Len(s)
    BY <1>1
  <1>4. PaElems(Tail(s)) = {Tail(s)[i] : i \in 1..Len(s) - 1}
    BY <1>1 DEF PaElems
  <1>5. ASSUME NEW a \in PaElems(s) PROVE a \in {Head(s)} \cup PaElems(Tail(s))
    BY <1>1, <1>2, <1>4 DEF PaElems
  <1>6. ASSUME NEW a \in {Head(s)} \cup PaElems(Tail(s)) PROVE a \in PaElems(s)
    BY <1>1, <1>3, <1>4 DEF PaElems
  <1> QED
    BY <1>1, <1>5, <1>6

\* The empty sequence has no elements.
LEMMA PaEmpty == PaElems(<<>>) = {}
  BY DEF PaElems

\* Shapes that every state has.
PaOp == [pc : {"idle", "forward", "rollback", "delete", "deleted"}, target : Accounts \cup {None},
         todo : Seq(Accounts), changed : Seq(Accounts), before : SUBSET Accounts, restored : BOOLEAN]
PaType ==
    /\ enabled \subseteq known /\ known \subseteq Accounts /\ login \in {"none", "wait", "submitted"}
    /\ logins \in 0..MaxLogins /\ failures \in 0..MaxFailures /\ meddled \in BOOLEAN /\ accountOp \in PaOp

\* An account that was not noted, or has been given back, is as it was.
PaUntouched == LET open == IF accountOp.pc = "forward" THEN accountOp.changed ELSE accountOp.todo IN
    /\ accountOp.pc = "forward" => accountOp.restored
    /\ accountOp.pc \in {"forward", "rollback"} /\ accountOp.restored /\ ~meddled =>
          \A a \in Accounts \ PaElems(open) : a \in enabled <=> a \in accountOp.before

\* An account that is to be switched on comes last: until then it is off, and what is still on
\* waits to be switched off.
PaLast(s) == s # <<>> /\ s[Len(s)] = accountOp.target /\ \A i \in 1..Len(s) - 1 : s[i] # accountOp.target
PaOthersFirst ==
    accountOp.pc = "forward" =>
        /\ accountOp.target \in known
        /\ accountOp.target \notin accountOp.before /\ ~meddled =>
              \/ accountOp.todo = <<>> /\ enabled = {accountOp.target}
              \/ /\ PaLast(accountOp.todo) /\ accountOp.target \notin enabled
                 /\ \A a \in enabled : \E i \in 1..Len(accountOp.todo) - 1 : accountOp.todo[i] = a

PaInv == PaType /\ PaUntouched /\ PaOthersFirst

\* The list of a selection: what is on, without the target, and the target at the end.
LEMMA PaTodo ==
  ASSUME NEW a \in Accounts, enabled \subseteq Accounts
  PROVE  /\ Pa!Todo(a) \in Seq(Accounts)
         /\ a \notin enabled =>
              LET s == Pa!Todo(a) IN
              /\ s # <<>> /\ s[Len(s)] = a /\ \A i \in 1..Len(s) - 1 : s[i] # a
              /\ \A b \in enabled : \E i \in 1..Len(s) - 1 : s[i] = b
  <1> DEFINE off == Pa!SetToSeq(enabled \ {a})
  <1>1. IsFiniteSet(enabled \ {a})
    BY FS_Subset, AccountsAssumption
  <1>2. off \in Seq(enabled \ {a}) /\ PaElems(off) = enabled \ {a}
    BY <1>1, PaListed
  <1> HIDE DEF off
  <1>3. off \in Seq(Accounts)
    BY <1>2
  <1>4. Pa!Todo(a) = off \o (IF a \in enabled THEN <<>> ELSE <<a>>)
    BY DEF Pa!Todo, off
  <1>5. Pa!Todo(a) \in Seq(Accounts)
    BY <1>3, <1>4
  <1>6. CASE a \notin enabled
    <2>1. Pa!Todo(a) = off \o <<a>>
      BY <1>4, <1>6
    <2>2. /\ Len(off \o <<a>>) = Len(off) + 1 /\ (off \o <<a>>)[Len(off) + 1] = a
          /\ \A i \in 1..Len(off) : (off \o <<a>>)[i] = off[i]
      BY <1>3
    <2>3. \A i \in 1..Len(off) : off[i] \in enabled \ {a}
      BY <1>2
    <2>4. \A b \in enabled : \E i \in 1..Len(off) : off[i] = b
      BY <1>2, <1>6 DEF PaElems
    <2> QED
      BY <1>3, <1>5, <2>1, <2>2, <2>3, <2>4
  <1> QED
    BY <1>5, <1>6

\* No operation is one of the operations.
LEMMA PaNoOp == Pa!NoOp \in PaOp
  BY DEF Pa!NoOp, PaOp

\* No account is known, and no operation runs.
LEMMA PaInit == Pa!Init => PaInv
  <1> SUFFICES ASSUME Pa!Init PROVE PaInv
    OBVIOUS
  <1>1. 0 \in 0..MaxLogins /\ 0 \in 0..MaxFailures
    BY AccountsAssumption
  <1>2. PaType
    BY <1>1, PaNoOp DEF Pa!Init, PaType
  <1> QED
    BY <1>2 DEF Pa!Init, Pa!NoOp, PaInv, PaUntouched, PaOthersFirst

\* A step that leaves the operation and the accounts alone.
LEMMA PaIdles ==
  ASSUME PaInv, UNCHANGED <<enabled, known, accountOp, meddled>>, login' \in {"none", "wait", "submitted"},
         logins' \in 0..MaxLogins, failures' \in 0..MaxFailures
  PROVE  PaInv'
  BY DEF PaInv, PaType, PaUntouched, PaOthersFirst, PaLast

\* An operation that is over, or of another kind, has nothing to keep.
LEMMA PaOver ==
  ASSUME PaType', accountOp'.pc \notin {"forward", "rollback"} PROVE PaInv'
  BY DEF PaInv, PaUntouched, PaOthersFirst

\* Switching one account leaves the others as they are.
LEMMA PaPatch ==
  ASSUME PaType, NEW a \in Accounts, NEW on \in BOOLEAN
  PROVE  /\ Pa!Patched(a, on) \subseteq known
         /\ \A b \in Accounts \ {a} : b \in Pa!Patched(a, on) <=> b \in enabled
         /\ a \in known => (a \in Pa!Patched(a, on) <=> on)
  BY DEF PaType, Pa!Patched

\* A step forward through the accounts keeps the invariant: the others are switched off before the
\* chosen one is on.
LEMMA PaForward == ASSUME PaInv, Pa!Forward PROVE PaInv'
  <1> DEFINE h == Head(accountOp.todo)  rest == Tail(accountOp.todo)  seen == Append(accountOp.changed, h)
             p == Pa!Patched(h, h = accountOp.target)
  <1>1. /\ PaType /\ accountOp \in PaOp /\ accountOp.pc = "forward" /\ accountOp.todo # <<>>
        /\ accountOp.todo \in Seq(Accounts) /\ accountOp.changed \in Seq(Accounts)
        /\ UNCHANGED <<known, login, logins, meddled>>
    BY DEF PaInv, PaType, PaOp, Pa!Forward
  <1>2. /\ h \in Accounts /\ rest \in Seq(Accounts) /\ Len(rest) = Len(accountOp.todo) - 1
        /\ Len(accountOp.todo) \in Nat \ {0} /\ h = accountOp.todo[1]
        /\ \A i \in 1..Len(accountOp.todo) - 1 : rest[i] = accountOp.todo[i + 1]
    BY <1>1, PaSplit
  <1>3. seen \in Seq(Accounts) /\ PaElems(seen) = PaElems(accountOp.changed) \cup {h}
    BY <1>1, <1>2, PaAppended
  <1>4. /\ p \subseteq known /\ \A b \in Accounts \ {h} : b \in p <=> b \in enabled
        /\ h \in known => (h \in p <=> h = accountOp.target)
    BY <1>1, <1>2, PaPatch
  <1>5. CASE enabled' = p /\ UNCHANGED failures /\ accountOp' = [accountOp EXCEPT !.todo = rest, !.changed = seen]
    <2>1. /\ accountOp' \in PaOp /\ accountOp'.pc = "forward" /\ accountOp'.todo = rest /\ accountOp'.changed = seen
          /\ accountOp'.before = accountOp.before /\ accountOp'.target = accountOp.target
          /\ accountOp'.restored = accountOp.restored
      BY <1>1, <1>2, <1>3, <1>5 DEF PaOp
    <2> HIDE DEF h, rest, seen, p
    <2>2. PaType'
      BY <1>1, <1>4, <1>5, <2>1 DEF PaType
    <2>3. PaUntouched'
      BY <1>1, <1>3, <1>4, <1>5, <2>1 DEF PaInv, PaUntouched
    <2>4. PaOthersFirst'
      <3>1. accountOp'.target \in known'
        BY <1>1, <2>1 DEF PaInv, PaOthersFirst
      <3>2. ASSUME accountOp.target \notin accountOp.before, ~meddled
            PROVE  \/ rest = <<>> /\ enabled' = {accountOp.target}
                   \/ /\ rest # <<>> /\ rest[Len(rest)] = accountOp.target
                      /\ (\A i \in 1..Len(rest) - 1 : rest[i] # accountOp.target) /\ accountOp.target \notin enabled'
                      /\ \A a \in enabled' : \E i \in 1..Len(rest) - 1 : rest[i] = a
        <4>1. /\ accountOp.todo[Len(accountOp.todo)] = accountOp.target /\ accountOp.target \notin enabled
              /\ \A i \in 1..Len(accountOp.todo) - 1 : accountOp.todo[i] # accountOp.target
              /\ \A a \in enabled : \E i \in 1..Len(accountOp.todo) - 1 : accountOp.todo[i] = a
          BY <1>1, <3>2 DEF PaInv, PaOthersFirst, PaLast
        <4>2. CASE Len(accountOp.todo) = 1
          <5>1. h = accountOp.target /\ h \in known /\ enabled = {}
            BY <1>1, <1>2, <3>1, <2>1, <4>1, <4>2
          <5>2. enabled' = {accountOp.target}
            BY <1>1, <1>4, <1>5, <5>1 DEF PaType
          <5>3. rest = <<>>
            BY <1>2, <4>2
          <5> QED
            BY <5>2, <5>3
        <4>3. CASE Len(accountOp.todo) > 1
          <5>1. h # accountOp.target /\ rest # <<>> /\ rest[Len(rest)] = accountOp.target
            BY <1>2, <4>1, <4>3
          <5>2. \A i \in 1..Len(rest) - 1 : rest[i] # accountOp.target
            BY <1>2, <4>1, <4>3
          <5>3. enabled' = enabled \ {h}
            BY <1>1, <1>2, <1>4, <1>5, <5>1 DEF PaType
          <5>4. ASSUME NEW a \in enabled' PROVE \E i \in 1..Len(rest) - 1 : rest[i] = a
            <6>1. PICK i \in 1..Len(accountOp.todo) - 1 : accountOp.todo[i] = a
              BY <4>1, <5>3
            <6>2. i # 1 /\ i - 1 \in 1..Len(rest) - 1
              BY <1>2, <5>3, <6>1
            <6>3. i - 1 \in 1..Len(accountOp.todo) - 1 /\ (i - 1) + 1 = i
              BY <1>2, <6>1, <6>2
            <6>4. rest[i - 1] = accountOp.todo[i]
              BY <1>2, <6>3
            <6> QED
              BY <6>1, <6>2, <6>4
          <5> QED
            BY <4>1, <5>1, <5>2, <5>3, <5>4
        <4>4. Len(accountOp.todo) = 1 \/ Len(accountOp.todo) > 1
          <5>1. Len(accountOp.todo) \in Nat /\ Len(accountOp.todo) # 0
            BY <1>2
          <5> DEFINE n == Len(accountOp.todo)
          <5> HIDE DEF n
          <5>2. n \in Nat /\ n # 0
            BY <5>1 DEF n
          <5>3. n = 1 \/ n > 1
            BY <5>2
          <5> QED
            BY <5>3 DEF n
        <4> QED
          BY <4>2, <4>3, <4>4
      <3> QED
        BY <1>1, <2>1, <3>1, <3>2 DEF PaOthersFirst, PaLast
    <2> QED
      BY <2>2, <2>3, <2>4 DEF PaInv
  <1>6. CASE /\ failures < MaxFailures /\ failures' = failures + 1 /\ enabled' \in {enabled, p}
             /\ accountOp' = [accountOp EXCEPT !.pc = "rollback", !.todo = Pa!Reverse(seen)]
    <2> DEFINE back == Pa!Reverse(seen)
    <2>1. back \in Seq(Accounts) /\ PaElems(back) = PaElems(seen)
      BY <1>3, PaReversed
    <2>2. /\ accountOp' \in PaOp /\ accountOp'.pc = "rollback" /\ accountOp'.todo = back
          /\ accountOp'.before = accountOp.before /\ accountOp'.restored = accountOp.restored
      BY <1>1, <1>6, <2>1 DEF PaOp
    <2> HIDE DEF h, rest, seen, p, back
    <2>3. PaType'
      BY <1>1, <1>4, <1>6, <2>2, AccountsAssumption DEF PaType
    <2>4. PaUntouched'
      BY <1>1, <1>3, <1>4, <1>6, <2>1, <2>2 DEF PaInv, PaUntouched
    <2> QED
      BY <2>2, <2>3, <2>4 DEF PaInv, PaOthersFirst
  <1> QED
    BY <1>5, <1>6 DEF Pa!Forward, Pa!Answered, Pa!Failed, Pa!Noted

\* The verification at the end keeps the invariant, whether it succeeds or starts the way back.
LEMMA PaVerify == ASSUME PaInv, Pa!Verify PROVE PaInv'
  <1>1. /\ PaType /\ accountOp \in PaOp /\ accountOp.pc = "forward" /\ accountOp.changed \in Seq(Accounts)
        /\ UNCHANGED <<enabled, known, login, logins, meddled>>
    BY DEF PaInv, PaType, PaOp, Pa!Verify
  <1>2. ASSUME Pa!Tell("select", "selected"), UNCHANGED failures PROVE PaInv'
    <2>1. accountOp' = Pa!NoOp
      BY <1>2 DEF Pa!Tell
    <2> QED
      BY <1>1, <1>2, <2>1, PaNoOp, PaOver DEF PaType, Pa!NoOp
  <1>3. ASSUME accountOp' = [accountOp EXCEPT !.pc = "rollback", !.todo = Pa!Reverse(accountOp.changed)],
               failures' \in 0..MaxFailures
        PROVE  PaInv'
    <2> DEFINE back == Pa!Reverse(accountOp.changed)
    <2>1. back \in Seq(Accounts) /\ PaElems(back) = PaElems(accountOp.changed)
      BY <1>1, PaReversed
    <2>2. /\ accountOp' \in PaOp /\ accountOp'.pc = "rollback" /\ accountOp'.todo = back
          /\ accountOp'.before = accountOp.before /\ accountOp'.restored = accountOp.restored
      BY <1>1, <1>3, <2>1 DEF PaOp
    <2> HIDE DEF back
    <2>3. PaType'
      BY <1>1, <1>3, <2>2 DEF PaType
    <2>4. PaUntouched'
      BY <1>1, <2>1, <2>2 DEF PaInv, PaUntouched
    <2> QED
      BY <2>2, <2>3, <2>4 DEF PaInv, PaOthersFirst
  <1>4. failures' \in 0..MaxFailures
    BY <1>1, AccountsAssumption DEF Pa!Verify, PaType
  <1> QED
    BY <1>2, <1>3, <1>4 DEF Pa!Verify

\* A step back keeps the invariant: what has been restored is as it was.
LEMMA PaRollback == ASSUME PaInv, Pa!Rollback PROVE PaInv'
  <1> DEFINE h == Head(accountOp.todo)  rest == Tail(accountOp.todo)
             was == Pa!Patched(h, h \in accountOp.before)
  <1>1. /\ PaType /\ accountOp \in PaOp /\ accountOp.pc = "rollback" /\ accountOp.todo # <<>>
        /\ accountOp.todo \in Seq(Accounts) /\ UNCHANGED <<known, login, logins, meddled>>
    BY DEF PaInv, PaType, PaOp, Pa!Rollback
  <1>2. h \in Accounts /\ rest \in Seq(Accounts) /\ PaElems(accountOp.todo) = {h} \cup PaElems(rest)
    BY <1>1, PaSplit
  <1>3. /\ was \subseteq known /\ \A b \in Accounts \ {h} : b \in was <=> b \in enabled
        /\ h \in known => (h \in was <=> h \in accountOp.before)
    <2> DEFINE on == h \in accountOp.before
    <2>1. on \in BOOLEAN
      OBVIOUS
    <2>2. was = Pa!Patched(h, on)
      OBVIOUS
    <2> HIDE DEF on, was
    <2>3. /\ was \subseteq known /\ \A b \in Accounts \ {h} : b \in was <=> b \in enabled
          /\ h \in known => (h \in was <=> on)
      BY <1>1, <1>2, <2>1, <2>2, PaPatch
    <2> QED
      BY <2>3 DEF on
  <1>4. CASE h \in known /\ enabled' = was /\ accountOp' = [accountOp EXCEPT !.todo = rest] /\ UNCHANGED failures
    <2>1. /\ accountOp' \in PaOp /\ accountOp'.pc = "rollback" /\ accountOp'.todo = rest
          /\ accountOp'.before = accountOp.before /\ accountOp'.restored = accountOp.restored
      BY <1>1, <1>2, <1>4 DEF PaOp
    <2> HIDE DEF h, rest, was
    <2>2. PaType'
      BY <1>1, <1>3, <1>4, <2>1 DEF PaType
    <2>3. PaUntouched'
      BY <1>1, <1>2, <1>3, <1>4, <2>1 DEF PaInv, PaUntouched
    <2> QED
      BY <2>1, <2>2, <2>3 DEF PaInv, PaOthersFirst
  <1>5. CASE /\ failures < MaxFailures /\ failures' = failures + 1 /\ enabled' \in {enabled, was}
             /\ accountOp' = [accountOp EXCEPT !.todo = rest, !.restored = FALSE]
    <2>1. /\ accountOp' \in PaOp /\ accountOp'.pc = "rollback" /\ accountOp'.restored = FALSE
      BY <1>1, <1>2, <1>5 DEF PaOp
    <2> HIDE DEF h, rest, was
    <2>2. PaType'
      BY <1>1, <1>3, <1>5, <2>1, AccountsAssumption DEF PaType
    <2> QED
      BY <2>1, <2>2 DEF PaInv, PaUntouched, PaOthersFirst
  <1> QED
    BY <1>4, <1>5 DEF Pa!Rollback

\* Every step of the accounts keeps the invariant.
LEMMA PaStep == ASSUME PaInv, [Pa!Next]_(Pa!paVars) PROVE PaInv'
  <1>0. PaType
    BY DEF PaInv
  <1>1. ASSUME NEW a \in Accounts, Pa!Select(a) PROVE PaInv'
    <2> DEFINE s == Pa!Todo(a)
    <2>1. /\ s \in Seq(Accounts)
          /\ a \notin enabled =>
              /\ s # <<>> /\ s[Len(s)] = a /\ \A i \in 1..Len(s) - 1 : s[i] # a
              /\ \A b \in enabled : \E i \in 1..Len(s) - 1 : s[i] = b
      BY <1>0, PaTodo DEF PaType
    <2>2. /\ accountOp' \in PaOp /\ accountOp'.pc = "forward" /\ accountOp'.target = a /\ accountOp'.todo = s
          /\ accountOp'.changed = <<>> /\ accountOp'.before = enabled /\ accountOp'.restored = TRUE
      <3>1. accountOp' = [pc |-> "forward", target |-> a, todo |-> s, changed |-> <<>>, before |-> enabled,
                          restored |-> TRUE]
        BY <1>1 DEF Pa!Select, Pa!NoOp
      <3> HIDE DEF s
      <3> QED
        BY <1>0, <2>1, <3>1 DEF PaOp, PaType
    <2> HIDE DEF s
    <2>3. PaType'
      BY <1>0, <1>1, <2>2 DEF Pa!Select, PaType
    <2>4. PaUntouched'
      BY <1>1, <2>2, PaEmpty DEF Pa!Select, PaUntouched
    <2>5. PaOthersFirst'
      BY <1>1, <2>1, <2>2 DEF Pa!Select, PaOthersFirst, PaLast
    <2> QED
      BY <2>3, <2>4, <2>5 DEF PaInv
  <1>2. ASSUME NEW a \in Accounts, Pa!Delete(a) PROVE PaInv'
    <2>1. accountOp' \in PaOp /\ accountOp'.pc = "delete"
      <3>1. accountOp' = [pc |-> "delete", target |-> a, todo |-> <<>>, changed |-> <<>>, before |-> enabled,
                          restored |-> TRUE]
        BY <1>2 DEF Pa!Delete, Pa!NoOp
      <3> QED
        BY <1>0, <3>1 DEF PaOp, PaType
    <2> QED
      BY <1>0, <1>2, <2>1, PaOver DEF Pa!Delete, PaType
  <1>3. ASSUME NEW a \in Accounts, Pa!LoggedIn(a) PROVE PaInv'
    <2>1. PaType'
      BY <1>0, <1>3 DEF Pa!LoggedIn, PaType
    <2>2. accountOp' = accountOp /\ known \subseteq known' /\ (accountOp.pc # "idle" => meddled')
      BY <1>3 DEF Pa!LoggedIn
    <2> QED
      BY <2>1, <2>2 DEF PaInv, PaUntouched, PaOthersFirst
  <1>4. CASE Pa!RolledBack
    <2>1. accountOp' = Pa!NoOp
      BY <1>4 DEF Pa!RolledBack, Pa!Tell
    <2> QED
      BY <1>0, <1>4, <2>1, PaNoOp, PaOver DEF Pa!RolledBack, Pa!NoOp, PaType
  <1>5. CASE Pa!DeleteRequest
    <2>1. accountOp' \in PaOp /\ accountOp'.pc \notin {"forward", "rollback"}
      <3>1. CASE accountOp' = [accountOp EXCEPT !.pc = "deleted"]
        BY <1>0, <3>1 DEF PaType, PaOp
      <3>2. CASE accountOp' = Pa!NoOp
        BY <3>2, PaNoOp DEF Pa!NoOp
      <3> QED
        BY <1>5, <3>1, <3>2 DEF Pa!DeleteRequest, Pa!Tell
    <2>2. failures' \in 0..MaxFailures
      BY <1>0, <1>5, AccountsAssumption DEF Pa!DeleteRequest, PaType
    <2>3. known' \subseteq Accounts /\ enabled' \subseteq known'
      BY <1>0, <1>5 DEF Pa!DeleteRequest, PaType
    <2> QED
      BY <1>0, <1>5, <2>1, <2>2, <2>3, PaOver DEF Pa!DeleteRequest, PaType
  <1>6. CASE Pa!DeleteVerified
    <2>1. accountOp' = Pa!NoOp
      BY <1>6 DEF Pa!DeleteVerified, Pa!Tell
    <2> QED
      BY <1>0, <1>6, <2>1, PaNoOp, PaOver DEF Pa!DeleteVerified, Pa!NoOp, PaType
  <1>7. CASE Pa!StartLogin \/ Pa!Callback \/ UNCHANGED Pa!paVars
    BY <1>0, <1>7, PaIdles, AccountsAssumption DEF Pa!StartLogin, Pa!Callback, Pa!paVars, PaType
  <1> QED
    BY <1>1, <1>2, <1>3, <1>4, <1>5, <1>6, <1>7, PaForward, PaVerify, PaRollback DEF Pa!Next

\* The invariant implies what the runs check of the accounts.
LEMMA PaHolds == PaInv => Pa!TypeOK /\ Pa!NeverBeside
  <1> SUFFICES ASSUME PaInv PROVE Pa!TypeOK /\ Pa!NeverBeside
    OBVIOUS
  <1>1. Pa!TypeOK
    BY DEF PaInv, PaType, PaOp, Pa!TypeOK
  <1>2. Pa!NeverBeside
    BY DEF PaInv, PaOthersFirst, Pa!NeverBeside
  <1> QED
    BY <1>1, <1>2

\* Success is told by the one step that has seen the target alone.
LEMMA PaSelected ==
  ASSUME [Pa!Next]_(Pa!paVars), report' # report, report'.outcome = "selected" PROVE enabled' = {report'.target}
  <1>1. CASE Pa!Verify
    BY <1>1 DEF Pa!Verify, Pa!Verified, Pa!Tell
  <1>2. ASSUME Pa!RolledBack \/ Pa!DeleteRequest \/ Pa!DeleteVerified PROVE FALSE
    BY <1>2 DEF Pa!RolledBack, Pa!DeleteRequest, Pa!DeleteVerified, Pa!Tell
  <1>3. ASSUME \/ \E a \in Accounts : Pa!Select(a) \/ Pa!Delete(a) \/ Pa!LoggedIn(a)
               \/ Pa!Forward \/ Pa!Rollback \/ Pa!StartLogin \/ Pa!Callback \/ UNCHANGED Pa!paVars
        PROVE  FALSE
    BY <1>3 DEF Pa!Select, Pa!Delete, Pa!LoggedIn, Pa!Forward, Pa!Rollback, Pa!StartLogin, Pa!Callback, Pa!paVars
  <1> QED
    BY <1>1, <1>2, <1>3 DEF Pa!Next

\* A rollback ends with nothing left to give back.
LEMMA PaRestored ==
  ASSUME PaInv, [Pa!Next]_(Pa!paVars), accountOp.pc = "rollback", accountOp'.pc = "idle",
         report'.outcome = "failed", ~meddled
  PROVE  enabled' = report'.before
  <1>0. accountOp \in PaOp /\ enabled \subseteq Accounts /\ accountOp.before \subseteq Accounts
    BY DEF PaInv, PaType, PaOp
  <1>1. CASE Pa!RolledBack
    <2>1. accountOp.restored /\ accountOp.todo = <<>> /\ report'.before = accountOp.before /\ enabled' = enabled
      BY <1>1 DEF Pa!RolledBack, Pa!Tell
    <2>2. \A a \in Accounts : a \in enabled <=> a \in accountOp.before
      BY <2>1, PaEmpty DEF PaInv, PaUntouched
    <2> QED
      BY <1>0, <2>1, <2>2
  <1>2. ASSUME Pa!Rollback PROVE FALSE
    BY <1>0, <1>2 DEF Pa!Rollback, PaOp
  <1>3. ASSUME \/ \E a \in Accounts : Pa!Select(a) \/ Pa!Delete(a) \/ Pa!LoggedIn(a)
               \/ Pa!Forward \/ Pa!Verify \/ Pa!DeleteRequest \/ Pa!DeleteVerified \/ Pa!StartLogin \/ Pa!Callback
               \/ UNCHANGED Pa!paVars
        PROVE  FALSE
    BY <1>3 DEF Pa!Select, Pa!Delete, Pa!LoggedIn, Pa!Forward, Pa!Verify, Pa!DeleteRequest, Pa!DeleteVerified,
       Pa!StartLogin, Pa!Callback, Pa!paVars
  <1> QED
    BY <1>1, <1>2, <1>3 DEF Pa!Next

\* The accounts for themselves.
THEOREM AccountsAreSafe ==
  Pa!Init /\ [][Pa!Next]_(Pa!paVars) =>
      [](Pa!TypeOK /\ Pa!NeverBeside) /\ Pa!SelectedIsAlone /\ Pa!FailedIsRestored
  <1>1. Pa!Init => PaInv
    BY PaInit
  <1>2. PaInv /\ [Pa!Next]_(Pa!paVars) => PaInv'
    BY PaStep
  <1>3. PaInv => Pa!TypeOK /\ Pa!NeverBeside
    BY PaHolds
  <1>4. [Pa!Next]_(Pa!paVars) =>
          [report' # report /\ report'.outcome = "selected" => enabled' = {report'.target}]_(Pa!paVars)
    BY PaSelected
  <1>5. PaInv /\ [Pa!Next]_(Pa!paVars) =>
          [accountOp.pc = "rollback" /\ accountOp'.pc = "idle" /\ report'.outcome = "failed" /\ ~meddled
             => enabled' = report'.before]_(Pa!paVars)
    BY PaRestored
  <1> QED
    BY <1>1, <1>2, <1>3, <1>4, <1>5, PTL DEF Pa!SelectedIsAlone, Pa!FailedIsRestored

-----------------------------------------------------------------------------

(* The service                                                             *)

\* A step of the service is a step of one component, within its scenario, while the others rest.
LEMMA WorkSteps ==
  ASSUME [Next]_all
  PROVE  /\ [Qq!Next]_(Qq!qqVars) /\ [Ma!Next]_(Ma!maVars) /\ [Ps!Next]_(Ps!psVars) /\ [Pa!Next]_(Pa!paVars)
  <1> USE DEF Rest, KbRests, QqRests, all, qq, ma, ps, pa, Qq!qqVars, Ma!maVars, Ps!psVars, Ps!others, Pa!paVars
  <1>1. [Qq!Next]_(Qq!qqVars)
    BY DEF Next
  <1>2. [Ma!Next]_(Ma!maVars)
    BY DEF Next
  <1>3. [Ps!Next]_(Ps!psVars)
    BY DEF Next
  <1>4. [Pa!Next]_(Pa!paVars)
    BY DEF Next
  <1> QED
    BY <1>1, <1>2, <1>3, <1>4

\* A question or an utterance is worked on once and under a permit that comes back; what is shown
\* belongs to the circumstances it was asked in; keys, approvals and edits stay with the connection
\* and the page they were made for; the account that is switched on answers alone.
THEOREM WorkIsSafe == Spec => []WorkHolds
  <1> DEFINE Inv == QqInv /\ MaInv /\ PsInv /\ PaInv
  <1>1. Init => Inv
    BY QqInit, MaInit, PsInit, PaInit DEF Init
  <1>2. Inv /\ [Next]_all => Inv'
    BY WorkSteps, QqStep, MaStep, PsStep, PaStep
  <1>3. Inv => WorkHolds
    BY QqTypes, MaHolds, PsHolds, PaHolds DEF WorkHolds, QqInv
  <1> QED
    BY <1>1, <1>2, <1>3, PTL DEF Spec

\* A question leaves the machine only for a provider the workspace has consented to since its
\* evidence was assembled.
THEOREM SendsWhereApproved == Spec => SentOnlyWhereApproved
  <1>1. Init => QqInv
    BY QqInit DEF Init
  <1>2. QqInv /\ [Next]_all => QqInv'
    BY WorkSteps, QqStep
  <1>3. QqInv /\ [Next]_all => [\A m \in sent' \ sent : m.provider \in approved[m.q]]_(Qq!qqVars)
    BY WorkSteps, QqSends
  <1> QED
    BY <1>1, <1>2, <1>3, PTL DEF Spec, SentOnlyWhereApproved, Qq!SentOnlyWhereApproved

-----------------------------------------------------------------------------
\* None is no revision, no set of file names and no name of a task.
LEMMA NoneIsNoVersion ==
    None \notin Revs /\ None \notin SUBSET Files /\ None \notin {"worker", "remove", "delete"}
BY KnowledgeAssumption

\* None is no set of folder parts.
LEMMA NoneIsNoFolder == None \notin SUBSET Parts /\ MaxCrashes \in Nat /\ MaxBreaks \in Nat
BY FolderAssumption

-----------------------------------------------------------------------------
(* KnowledgeBase                                                           *)

KbRow == [job : {"none", "queued", "running", "ready", "partial", "failed", "cancelled"},
          rev : Kb!Unfinished \cup {"none", "ready", "partial", "failed", "cancelled"},
          cancel : BOOLEAN, pinned : BOOLEAN, review : BOOLEAN, manifest : SUBSET Kb!Version]
KbThread == [pc : {"idle", "scan", "make", "file", "parse", "store", "index", "publish"},
             rev : Revs \cup {None}, left : SUBSET Files, file : Kb!Version \cup {None},
             done : SUBSET Kb!Version, failed : BOOLEAN]
KbIndex == (SUBSET Files) \cup {None}
KbType ==
    /\ workspace \in {"live", "marked", "gone"} /\ active \in Revs \cup {None}
    /\ build \in [Revs -> KbRow]
    /\ versions \subseteq Kb!Version /\ snapshots \subseteq Kb!Version
    /\ vectors \in [Revs -> KbIndex] /\ keyword \in [Revs -> KbIndex]
    /\ folder \in [Files -> Contents] /\ locked \in {None, "worker", "remove", "delete"}
    /\ worker \in KbThread
    /\ removing \in [pc : {"idle", "dropped", "cleared", "unlinked", "marked", "wiped"}, rev : Revs \cup {None}]
    /\ asked \in Revs \cup {None}
    /\ reader \in [pc : {"idle", "search", "validate", "found"}, rev : Revs \cup {None}, whole : BOOLEAN]

\* A revision without a job has no row; a READY revision has a READY job.
KbRows == \A r \in Revs :
    /\ build[r].rev = "ready" => build[r].job = "ready"
    /\ build[r].job = "none" \/ build[r].rev = "none" => build[r] = Kb!NoBuild

\* Who holds the lock over several steps is at one of these steps; a deletion finds it free.
KbLocks ==
    /\ (locked = "worker") <=> (worker.pc = "publish")
    /\ (locked = "remove") <=> (removing.pc \in {"dropped", "cleared", "unlinked"})
    /\ (locked = "delete") <=> (removing.pc \in {"marked", "wiped"})
    /\ workspace # "live" => worker.pc # "publish" /\ locked # "remove"
    /\ workspace = "live" => locked # "delete"

KbFiles(docs) == {v.file : v \in docs}
\* The documents of the build so far, with the one in hand.
KbTaken == worker.done \cup IF worker.pc \in {"parse", "store", "index"} THEN {worker.file} ELSE {}

\* A build under way, in a workspace that stands, has a running job and its collections, every
\* file is left, taken or failed, and what it publishes was compared with the indexes.
KbBuilding ==
    /\ worker.pc # "idle" => worker.rev \in Revs /\ build[worker.rev].job \in {"running", "none"}
    /\ worker.pc \in {"parse", "store", "index"} => worker.file \in Kb!Version
    /\ worker.pc \in {"scan", "make"} => worker.done = {}
    /\ worker.pc # "idle" /\ workspace = "live" =>
        /\ build[worker.rev].job = "running"
        /\ worker.pc \notin {"scan", "make"} => vectors[worker.rev] # None /\ keyword[worker.rev] # None
        /\ \A v \in KbTaken : v.review = build[worker.rev].review
        /\ worker.failed \/ worker.pc = "scan" \/ Files = worker.left \cup KbFiles(KbTaken)
    /\ worker.pc = "publish" =>
        /\ vectors[worker.rev] = KbFiles(worker.done) /\ keyword[worker.rev] = vectors[worker.rev]
        /\ worker.done \subseteq versions /\ worker.done \subseteq snapshots
        /\ worker.done # {} /\ worker.left = {} /\ (worker.failed => build[worker.rev].review)

\* A revision being removed is not active, asked about or built, and has lost its vectors; before
\* its rows go, a deleted workspace has lost every file.
KbRemovals ==
    /\ locked = "remove" =>
        /\ removing.rev \in Revs /\ removing.rev \notin {active, asked} /\ vectors[removing.rev] = None
        /\ build[removing.rev].job \notin {"none", "queued", "running"}
        /\ worker.pc \in {"idle", "scan", "make"}
    /\ removing.pc = "wiped" => snapshots = {} /\ \A r \in Revs : vectors[r] = None /\ keyword[r] = None

KbInv == /\ KbType /\ KbRows /\ KbLocks /\ KbBuilding /\ KbRemovals
         /\ Kb!ActiveIsWhole /\ Kb!KeptKeepDocuments /\ Kb!StrictBuildIsComplete
         /\ Kb!QuestionKeepsRevision /\ Kb!NothingOfDeleted

\* A step of the readers or of the folder keeps the invariant: it speaks of neither.
LEMMA KbQuiet ==
  ASSUME KbInv, UNCHANGED <<workspace, active, build, versions, snapshots, vectors, keyword, worker, locked, removing>>,
         folder' \in [Files -> Contents], asked' \in {asked, None},
         reader' \in [pc : {"idle", "search", "validate", "found"}, rev : Revs \cup {None}, whole : BOOLEAN]
  PROVE  KbInv'
  <1> USE DEF KbInv
  <1>1. KbType' BY DEF KbType
  <1>2. KbRows' /\ KbLocks' /\ KbBuilding' BY DEF KbRows, KbLocks, KbBuilding, KbTaken
  <1>3. KbRemovals' BY NoneIsNoVersion DEF KbRemovals
  <1>4. Kb!ActiveIsWhole' /\ Kb!KeptKeepDocuments' /\ Kb!StrictBuildIsComplete'
    BY DEF Kb!ActiveIsWhole, Kb!KeptKeepDocuments, Kb!StrictBuildIsComplete
  <1>5. Kb!QuestionKeepsRevision' BY DEF Kb!QuestionKeepsRevision
  <1>6. Kb!NothingOfDeleted' BY DEF Kb!NothingOfDeleted
  <1> QED BY <1>1, <1>2, <1>3, <1>4, <1>5, <1>6

\* Questions and edits are such steps.
LEMMA KbOutside ==
  ASSUME KbInv,
         \/ Kb!Answered \/ Kb!Search \/ Kb!Validated \/ Kb!Seen
         \/ \E r \in Revs : Kb!Ask(r) \/ Kb!Resolve(r)
         \/ \E f \in Files, c \in Contents : Kb!Edit(f, c)
  PROVE  KbInv'
  <1> USE DEF KbInv
  <1>1. ASSUME NEW r \in Revs, Kb!Ask(r) PROVE KbInv'
    <2> USE <1>1 DEF Kb!Ask
    <2>1. KbType' BY DEF KbType
    <2>2. KbRows' /\ KbLocks' /\ KbBuilding' BY DEF KbRows, KbLocks, KbBuilding, KbTaken
    <2>3. KbRemovals' BY NoneIsNoVersion DEF KbRemovals
    <2>4. Kb!ActiveIsWhole' /\ Kb!KeptKeepDocuments' /\ Kb!StrictBuildIsComplete'
      BY DEF Kb!ActiveIsWhole, Kb!KeptKeepDocuments, Kb!StrictBuildIsComplete
    <2>5. Kb!QuestionKeepsRevision' BY DEF Kb!QuestionKeepsRevision
    <2>6. Kb!NothingOfDeleted' BY DEF Kb!NothingOfDeleted
    <2> QED BY <2>1, <2>2, <2>3, <2>4, <2>5, <2>6
  <1>2. CASE Kb!Answered
    BY <1>2, KbQuiet DEF Kb!Answered, KbType
  <1>3. CASE Kb!Search
    BY <1>3, KbQuiet DEF Kb!Search, KbType
  <1>4. CASE Kb!Validated
    BY <1>4, KbQuiet DEF Kb!Validated, KbType, Kb!NoReader
  <1>5. CASE Kb!Seen
    BY <1>5, KbQuiet DEF Kb!Seen, KbType, Kb!NoReader
  <1>6. ASSUME NEW r \in Revs, Kb!Resolve(r) PROVE KbInv'
    BY <1>6, KbQuiet DEF Kb!Resolve, KbType
  <1>7. ASSUME NEW f \in Files, NEW c \in Contents, Kb!Edit(f, c) PROVE KbInv'
    BY <1>7, KbQuiet DEF Kb!Edit, KbType
  <1> QED BY <1>1, <1>2, <1>3, <1>4, <1>5, <1>6, <1>7

\* A step that only changes the thread of a build that stands, and does not end it.
LEMMA KbMoves ==
  ASSUME KbInv, workspace = "live", worker.pc \notin {"idle", "publish"}, worker' \in KbThread,
         UNCHANGED <<workspace, active, build, versions, snapshots, vectors, keyword, folder, locked, removing,
                     asked, reader>>,
         worker'.pc \notin {"idle", "publish", "scan"}, worker'.rev = worker.rev,
         locked = "remove" => worker'.pc = "make",
         worker'.pc \in {"parse", "store", "index"} => worker'.file \in Kb!Version,
         worker'.pc = "make" => worker.pc = "scan",
         worker.pc \in {"scan", "make"} => worker'.pc = "make",
         worker'.done = worker.done,
         \A v \in KbTaken' : v.review = build[worker.rev].review,
         worker'.failed \/ Files = worker'.left \cup KbFiles(KbTaken')
  PROVE  KbInv'
  <1> USE DEF KbInv
  <1>1. KbType'
    BY DEF KbType
  <1>2. KbRows' /\ KbLocks'
    BY DEF KbRows, KbLocks
  <1>3. KbBuilding'
    BY DEF KbBuilding, KbType, KbThread
  <1>4. KbRemovals'
    BY DEF KbRemovals
  <1>5. Kb!ActiveIsWhole' /\ Kb!KeptKeepDocuments' /\ Kb!StrictBuildIsComplete'
    BY DEF Kb!ActiveIsWhole, Kb!KeptKeepDocuments, Kb!StrictBuildIsComplete
  <1>6. Kb!QuestionKeepsRevision' /\ Kb!NothingOfDeleted'
    BY DEF Kb!QuestionKeepsRevision, Kb!NothingOfDeleted
  <1> QED
    BY <1>1, <1>2, <1>3, <1>4, <1>5, <1>6

\* The scan keeps the invariant: what it notes down is what is left to take.
LEMMA KbScan == ASSUME KbInv, NEW oversize \in SUBSET Files, Kb!Scan(oversize) PROVE KbInv'
  <1> USE DEF KbInv
  <1> DEFINE failed == oversize # {}
             new == [pc |-> "make", rev |-> worker.rev, left |-> Files \ oversize, file |-> worker.file,
                     done |-> worker.done, failed |-> failed]
  <1>1. failed \in BOOLEAN
    OBVIOUS
  <1>2. worker' = new
    <2> HIDE DEF failed
    <2>1. worker' = [worker EXCEPT !.pc = "make", !.left = Files \ oversize, !.failed = failed]
      BY DEF Kb!Scan, failed
    <2>2. worker \in KbThread
      BY DEF KbType
    <2> QED
      BY <2>1, <2>2 DEF KbThread
  <1>3. new \in KbThread
    <2> HIDE DEF failed
    <2> QED BY <1>1 DEF KbType, KbThread
  <1>4. worker.done = {} /\ KbTaken' = {} /\ KbFiles({}) = {}
    BY <1>2 DEF KbBuilding, Kb!Scan, KbTaken, KbFiles
  <1>5. new.failed \/ Files = new.left
    OBVIOUS
  <1>6. worker'.failed \/ Files = worker'.left \cup KbFiles(KbTaken')
    BY <1>2, <1>4, <1>5
  <1>7. /\ worker'.pc = "make" /\ worker'.rev = worker.rev /\ worker'.done = worker.done
        /\ worker' \in KbThread
    BY <1>2, <1>3
  <1>8. workspace = "live" /\ worker.pc = "scan"
    BY DEF Kb!Scan, Kb!Checked
  <1> QED
    BY <1>4, <1>6, <1>7, <1>8, KbMoves DEF Kb!Scan, KbBuilding

\* Taking a file keeps the invariant.
LEMMA KbTake == ASSUME KbInv, NEW f \in Files, Kb!Take(f) PROVE KbInv'
  <1> USE DEF KbInv
  <1> DEFINE r == worker.rev
  <1>1. /\ worker.pc = "file" /\ workspace = "live" /\ locked = None /\ f \in worker.left
        /\ r \in Revs /\ worker \in KbThread /\ build[r] \in KbRow
    BY DEF Kb!Take, Kb!Checked, KbBuilding, KbType
  <1>2. KbTaken = worker.done
    BY <1>1 DEF KbTaken
  <1>7. locked # "remove"
    BY <1>1, NoneIsNoVersion
  <1>3. ASSUME NEW v \in Kb!Version, v.file = f, v.review = build[r].review, NEW pc \in {"parse", "index"},
               worker' = [worker EXCEPT !.pc = pc, !.file = v, !.left = @ \ {f}]
        PROVE  KbInv'
    <2> DEFINE new == [pc |-> pc, rev |-> r, left |-> worker.left \ {f}, file |-> v, done |-> worker.done,
                       failed |-> worker.failed]
    <2>1. worker' = new /\ new \in KbThread
      BY <1>1, <1>3 DEF KbThread
    <2>2. KbTaken' = worker.done \cup {v}
      BY <2>1 DEF KbTaken
    <2>3. \A d \in KbTaken' : d.review = build[r].review
      BY <1>1, <1>2, <1>3, <2>2 DEF KbBuilding
    <2>4. KbFiles(KbTaken') = KbFiles(worker.done) \cup {f}
      BY <1>3, <2>2 DEF KbFiles
    <2>5. worker.failed \/ Files = (worker.left \ {f}) \cup KbFiles(KbTaken')
      BY <1>1, <1>2, <2>4 DEF KbBuilding
    <2>6. /\ worker' \in KbThread /\ worker'.pc = pc /\ worker'.rev = r /\ worker'.file = v
          /\ worker'.done = worker.done
          /\ worker'.failed \/ Files = worker'.left \cup KbFiles(KbTaken')
      BY <2>1, <2>5
    <2> HIDE DEF new
    <2> QED
      BY <1>1, <1>3, <1>7, <2>3, <2>6, KbMoves DEF Kb!Take
  <1>4. CASE \E v \in {v \in versions : Kb!Same(v, f, r)} :
               worker' = [worker EXCEPT !.pc = "index", !.file = v, !.left = @ \ {f}]
    BY <1>3, <1>4 DEF Kb!Same, KbType
  <1>5. CASE worker' = [worker EXCEPT !.pc = "parse", !.left = @ \ {f},
                          !.file = [file |-> f, content |-> folder[f], review |-> build[r].review]]
    <2> DEFINE v == [file |-> f, content |-> folder[f], review |-> build[r].review]
    <2>1. v \in Kb!Version /\ v.file = f /\ v.review = build[r].review
      BY <1>1 DEF KbType, KbRow, Kb!Version
    <2>2. worker' = [worker EXCEPT !.pc = "parse", !.left = @ \ {f}, !.file = v]
      BY <1>5
    <2> HIDE DEF v
    <2>3. worker' = [worker EXCEPT !.pc = "parse", !.file = v, !.left = @ \ {f}]
      BY <1>1, <2>2 DEF KbThread
    <2> QED
      BY <1>3, <2>1, <2>3
  <1>6. CASE worker' = [worker EXCEPT !.failed = TRUE, !.left = @ \ {f}]
    <2> DEFINE new == [pc |-> "file", rev |-> r, left |-> worker.left \ {f}, file |-> worker.file,
                       done |-> worker.done, failed |-> TRUE]
    <2>1. worker' = new /\ new \in KbThread
      BY <1>1, <1>6 DEF KbThread
    <2>2. KbTaken' = worker.done
      BY <2>1 DEF KbTaken
    <2>3. \A d \in KbTaken' : d.review = build[r].review
      BY <1>1, <1>2, <2>2 DEF KbBuilding
    <2>4. /\ worker' \in KbThread /\ worker'.pc = "file" /\ worker'.rev = r
          /\ worker'.done = worker.done /\ worker'.failed
      BY <2>1
    <2> HIDE DEF new
    <2> QED
      BY <1>1, <1>7, <2>3, <2>4, KbMoves DEF Kb!Take
  <1> QED
    BY <1>4, <1>5, <1>6 DEF Kb!Take

\* Parsing a file keeps the invariant.
LEMMA KbParse == ASSUME KbInv, Kb!Parse PROVE KbInv'
  <1> USE DEF KbInv
  <1> DEFINE r == worker.rev
  <1>1. /\ worker.pc = "parse" /\ workspace = "live" /\ locked # "remove"
        /\ r \in Revs /\ worker \in KbThread /\ worker.file \in Kb!Version
    BY DEF Kb!Parse, Kb!Checked, KbBuilding, KbType, KbRemovals
  <1>2. CASE worker' = [worker EXCEPT !.pc = "store"]
    <2>1. KbTaken' = KbTaken /\ worker' \in KbThread
      BY <1>1, <1>2 DEF KbTaken, KbThread
    <2> QED
      BY <1>1, <1>2, <2>1, KbMoves DEF Kb!Parse, KbBuilding, KbThread
  <1>3. CASE worker' = [worker EXCEPT !.pc = "file", !.file = None, !.failed = TRUE]
    <2> DEFINE new == [pc |-> "file", rev |-> r, left |-> worker.left, file |-> None,
                       done |-> worker.done, failed |-> TRUE]
    <2>1. worker' = new /\ new \in KbThread
      BY <1>1, <1>3 DEF KbThread
    <2>2. KbTaken' = worker.done /\ worker.done \subseteq KbTaken
      BY <2>1 DEF KbTaken
    <2>3. \A d \in KbTaken' : d.review = build[r].review
      BY <1>1, <2>2 DEF KbBuilding
    <2> QED
      BY <1>1, <2>1, <2>3, KbMoves DEF Kb!Parse
  <1> QED
    BY <1>2, <1>3 DEF Kb!Parse

\* Rows with several fields rewritten.
LEMMA KbRewritten ==
  ASSUME NEW b \in KbRow, NEW job, NEW rev
  PROVE  [b EXCEPT !.job = job, !.rev = rev] =
            [job |-> job, rev |-> rev, cancel |-> b.cancel, pinned |-> b.pinned, review |-> b.review,
             manifest |-> b.manifest]
  <1> DEFINE first == [job |-> job, rev |-> b.rev, cancel |-> b.cancel, pinned |-> b.pinned,
                       review |-> b.review, manifest |-> b.manifest]
  <1>1. [b EXCEPT !.job = job] = first
    BY DEF KbRow
  <1>2. [first EXCEPT !.rev = rev] =
            [job |-> job, rev |-> rev, cancel |-> b.cancel, pinned |-> b.pinned, review |-> b.review,
             manifest |-> b.manifest]
    OBVIOUS
  <1> QED
    BY <1>1, <1>2

\* A row registered once more, as one record.
LEMMA KbRegistered ==
  ASSUME NEW b \in KbRow, NEW job, NEW rev, NEW review
  PROVE  [b EXCEPT !.job = job, !.rev = rev, !.review = review] =
            [job |-> job, rev |-> rev, cancel |-> b.cancel, pinned |-> b.pinned, review |-> review,
             manifest |-> b.manifest]
  <1> DEFINE both == [job |-> job, rev |-> rev, cancel |-> b.cancel, pinned |-> b.pinned,
                      review |-> b.review, manifest |-> b.manifest]
  <1>1. [b EXCEPT !.job = job, !.rev = rev] = both
    BY KbRewritten
  <1>2. [both EXCEPT !.review = review] =
            [job |-> job, rev |-> rev, cancel |-> b.cancel, pinned |-> b.pinned, review |-> review,
             manifest |-> b.manifest]
    OBVIOUS
  <1> QED
    BY <1>1, <1>2

\* A row ended with the documents it has, as one record.
LEMMA KbEnded ==
  ASSUME NEW b \in KbRow, NEW job, NEW rev, NEW docs
  PROVE  [b EXCEPT !.rev = rev, !.job = job, !.manifest = docs] =
            [job |-> job, rev |-> rev, cancel |-> b.cancel, pinned |-> b.pinned, review |-> b.review,
             manifest |-> docs]
  <1> DEFINE first == [job |-> b.job, rev |-> rev, cancel |-> b.cancel, pinned |-> b.pinned,
                       review |-> b.review, manifest |-> b.manifest]
             both == [job |-> job, rev |-> rev, cancel |-> b.cancel, pinned |-> b.pinned,
                      review |-> b.review, manifest |-> b.manifest]
  <1>1. [b EXCEPT !.rev = rev] = first
    BY DEF KbRow
  <1>2. [first EXCEPT !.job = job] = both
    OBVIOUS
  <1>3. [both EXCEPT !.manifest = docs] =
            [job |-> job, rev |-> rev, cancel |-> b.cancel, pinned |-> b.pinned, review |-> b.review,
             manifest |-> docs]
    OBVIOUS
  <1> QED
    BY <1>1, <1>2, <1>3

\* What a step that finishes or flags builds, and publishes none, does to a row.
KbSettles(before, after) ==
    /\ after \in KbRow /\ after.review = before.review /\ after.manifest = before.manifest
    /\ (after.rev = "ready") <=> (before.rev = "ready")
    /\ before.job = "none" => after = before
    /\ before.job # "none" => after.job # "none"
    /\ before.rev # "none" => after.rev # "none"
    /\ before.job = "ready" => after.job = "ready"
    /\ after.job \in {"queued", "running"} => after.job = before.job

\* A step that only settles rows keeps the invariant when the worker stays or is done.
LEMMA KbSettled ==
  ASSUME KbInv, build' \in [Revs -> KbRow], \A r \in Revs : KbSettles(build[r], build'[r]),
         UNCHANGED <<active, versions, snapshots, vectors, keyword, folder, asked>>,
         workspace' = workspace \/ workspace' = "marked",
         reader' \in [pc : {"idle", "search", "validate", "found"}, rev : Revs \cup {None}, whole : BOOLEAN],
         removing' \in [pc : {"idle", "dropped", "cleared", "unlinked", "marked", "wiped"}, rev : Revs \cup {None}],
         locked' \in {None, "worker", "remove", "delete"}, KbLocks', worker' \in KbThread,
         \/ worker'.pc = "idle"
         \/ worker' = worker /\ build'[worker.rev].job = build[worker.rev].job,
         locked' = "remove" => locked = "remove" /\ removing' = removing,
         removing'.pc = "wiped" => removing.pc = "wiped"
  PROVE  KbInv'
  <1> USE DEF KbInv
  <1>1. KbType'
    BY DEF KbType
  <1>2. KbRows'
    <2> SUFFICES ASSUME NEW r \in Revs
                 PROVE  /\ build'[r].rev = "ready" => build'[r].job = "ready"
                        /\ build'[r].job = "none" \/ build'[r].rev = "none" => build'[r] = Kb!NoBuild
      BY DEF KbRows
    <2>1. KbSettles(build[r], build'[r])
      OBVIOUS
    <2>2. /\ build[r].rev = "ready" => build[r].job = "ready"
          /\ build[r].job = "none" \/ build[r].rev = "none" => build[r] = Kb!NoBuild
      BY DEF KbRows
    <2> QED
      BY <2>1, <2>2 DEF KbSettles, Kb!NoBuild
  <1>3. KbBuilding'
    <2>1. CASE worker'.pc = "idle"
      BY <2>1 DEF KbBuilding
    <2>2. CASE worker' = worker /\ worker.pc # "idle" /\ build'[worker.rev].job = build[worker.rev].job
      <3>1. worker.rev \in Revs /\ KbTaken' = KbTaken
        BY <2>2 DEF KbBuilding, KbTaken
      <3>2. build'[worker.rev].review = build[worker.rev].review
        BY <3>1 DEF KbSettles
      <3>3. workspace' = "live" => workspace = "live"
        OBVIOUS
      <3> QED
        BY <2>2, <3>1, <3>2, <3>3 DEF KbBuilding
    <2> QED
      BY <2>1, <2>2
  <1>4. KbRemovals'
    BY DEF KbRemovals, KbSettles
  <1>5. Kb!ActiveIsWhole'
    BY DEF Kb!ActiveIsWhole, KbSettles, KbType
  <1>6. Kb!KeptKeepDocuments' /\ Kb!StrictBuildIsComplete'
    BY DEF Kb!KeptKeepDocuments, Kb!StrictBuildIsComplete, KbSettles
  <1>7. Kb!QuestionKeepsRevision'
    BY DEF Kb!QuestionKeepsRevision, KbSettles, KbType
  <1>8. Kb!NothingOfDeleted'
    BY DEF Kb!NothingOfDeleted, KbSettles, Kb!NoBuild
  <1> QED
    BY <1>1, <1>2, <1>3, <1>4, <1>5, <1>6, <1>7, <1>8

\* The end of a build as failed or cancelled.
LEMMA KbFails ==
  ASSUME KbType, KbRows, NEW r \in Revs, NEW state \in {"cancelled", "failed"}, build' = Kb!Failed(r, state)
  PROVE  build' \in [Revs -> KbRow] /\ \A q \in Revs : KbSettles(build[q], build'[q])
  <1>1. CASE build[r].job = "none"
    BY <1>1 DEF Kb!Failed, KbType, KbSettles
  <1>2. CASE build[r].job # "none"
    <2> DEFINE b == build[r]
               new == [job |-> IF b.job = "ready" THEN b.job ELSE state,
                       rev |-> IF b.rev = "ready" THEN b.rev ELSE state,
                       cancel |-> b.cancel, pinned |-> b.pinned, review |-> b.review, manifest |-> b.manifest]
    <2>1. b \in KbRow
      BY DEF KbType
    <2>2. build' = [build EXCEPT ![r] = new]
      <3>1. build' = [build EXCEPT ![r].job = IF @ = "ready" THEN @ ELSE state,
                                   ![r].rev = IF @ = "ready" THEN @ ELSE state]
        BY <1>2 DEF Kb!Failed
      <3> DEFINE job == IF b.job = "ready" THEN b.job ELSE state
                 rev == IF b.rev = "ready" THEN b.rev ELSE state
      <3>2. build' = [build EXCEPT ![r] = [[b EXCEPT !.job = job] EXCEPT !.rev = rev]]
        BY <2>1, <3>1 DEF KbType, KbRow
      <3>3. new = [[b EXCEPT !.job = job] EXCEPT !.rev = rev]
        BY <2>1, KbRewritten
      <3> QED
        BY <3>2, <3>3
    <2>3. new \in KbRow
      BY <2>1 DEF KbRow
    <2>4. KbSettles(b, new)
      BY <1>2, <2>1, <2>3 DEF KbSettles, KbRows
    <2>5. ASSUME NEW q \in Revs, q # r PROVE KbSettles(build[q], build[q])
      BY DEF KbSettles, KbType
    <2> HIDE DEF new
    <2> QED
      BY <2>2, <2>3, <2>4, <2>5 DEF KbType
  <1> QED
    BY <1>1, <1>2

\* A worker between two builds is idle.
LEMMA KbAsleep == Kb!Asleep \in KbThread /\ Kb!Asleep.pc = "idle"
  BY DEF Kb!Asleep, KbThread

\* A worker that gives up its build settles the row and keeps the invariant.
LEMMA KbLeaves ==
  ASSUME KbInv, worker.pc # "idle", NEW state \in {"cancelled", "failed"}, Kb!Leave(worker.rev, state),
         UNCHANGED <<workspace, active, versions, snapshots, vectors, keyword, folder, removing, asked, reader>>
  PROVE  KbInv'
  <1>1. worker.rev \in Revs
    BY DEF KbInv, KbBuilding
  <1>2. build' \in [Revs -> KbRow] /\ \A q \in Revs : KbSettles(build[q], build'[q])
    BY <1>1, KbFails DEF KbInv, Kb!Leave
  <1>3. worker' \in KbThread /\ worker'.pc = "idle"
    BY KbAsleep DEF Kb!Leave
  <1>4. locked' = IF locked = "worker" THEN None ELSE locked
    BY DEF Kb!Leave
  <1>5. KbLocks' /\ locked' \in {None, "worker", "remove", "delete"}
    BY <1>3, <1>4, NoneIsNoVersion DEF KbInv, KbLocks, KbType
  <1>6. locked' = "remove" => locked = "remove"
    BY <1>4, NoneIsNoVersion
  <1> QED
    BY <1>2, <1>3, <1>5, <1>6, KbSettled DEF KbInv, KbType

\* A build that is cancelled, fails or finds nothing keeps the invariant.
LEMMA KbStops == ASSUME KbInv, Kb!WorkerStops \/ Kb!WorkerFails \/ Kb!Empty PROVE KbInv'
  BY KbLeaves DEF Kb!WorkerStops, Kb!WorkerFails, Kb!Empty

\* A step on a build that is not READY leaves every promise to the others alone.
LEMMA KbApart ==
  ASSUME KbInv, workspace = "live", UNCHANGED <<workspace, active, asked>>, NEW r \in Revs,
         build[r].rev # "ready", build'[r].rev # "ready",
         \A q \in Revs : q # r => build'[q] = build[q] /\ vectors'[q] = vectors[q] /\ keyword'[q] = keyword[q],
         versions \subseteq versions', snapshots \subseteq snapshots'
  PROVE  /\ Kb!ActiveIsWhole' /\ Kb!KeptKeepDocuments' /\ Kb!StrictBuildIsComplete'
         /\ Kb!QuestionKeepsRevision' /\ Kb!NothingOfDeleted'
  <1> USE DEF KbInv
  <1>1. Kb!ActiveIsWhole'
    BY DEF Kb!ActiveIsWhole, KbType
  <1>2. Kb!KeptKeepDocuments'
    BY DEF Kb!KeptKeepDocuments
  <1>3. Kb!StrictBuildIsComplete'
    BY DEF Kb!StrictBuildIsComplete
  <1>4. Kb!QuestionKeepsRevision'
    BY DEF Kb!QuestionKeepsRevision, KbType
  <1>5. Kb!NothingOfDeleted'
    BY DEF Kb!NothingOfDeleted
  <1> QED
    BY <1>1, <1>2, <1>3, <1>4, <1>5

\* One row is rewritten.
LEMMA KbOneRow ==
  ASSUME KbType, KbRows, NEW r \in Revs, NEW new \in KbRow, build' = [build EXCEPT ![r] = new],
         new.rev = "ready" => new.job = "ready", new.job # "none", new.rev # "none"
  PROVE  /\ build' \in [Revs -> KbRow] /\ build'[r] = new /\ KbRows'
         /\ \A q \in Revs : q # r => build'[q] = build[q]
  BY DEF KbType, KbRows

\* The row of the build the thread works on.
LEMMA KbWorking ==
  ASSUME KbInv, workspace = "live", worker.pc # "idle"
  PROVE  /\ worker.rev \in Revs /\ build[worker.rev] \in KbRow /\ build[worker.rev].job = "running"
         /\ build[worker.rev].rev \notin {"ready", "none"} /\ worker \in KbThread
         /\ locked = "remove" => removing.rev # worker.rev
  BY DEF KbInv, KbBuilding, KbRows, KbType, KbRemovals, Kb!NoBuild

\* Creating a revision keeps the invariant: its row lists nothing yet.
LEMMA KbCreate ==
  ASSUME KbInv, NEW r \in Revs, NEW review \in BOOLEAN, Kb!Create(r, review) PROVE KbInv'
  <1> USE DEF KbInv
  <1> DEFINE new == [job |-> "queued", rev |-> "registered", cancel |-> FALSE, pinned |-> FALSE,
                     review |-> review, manifest |-> {}]
  <1>1. new \in KbRow
    BY DEF KbRow, Kb!Unfinished
  <1>2. build' = [build EXCEPT ![r] = new]
    <2>1. Kb!NoBuild \in KbRow
      BY DEF Kb!NoBuild, KbRow
    <2>2. [Kb!NoBuild EXCEPT !.job = "queued", !.rev = "registered", !.review = review] =
            [job |-> "queued", rev |-> "registered", cancel |-> Kb!NoBuild.cancel,
             pinned |-> Kb!NoBuild.pinned, review |-> review, manifest |-> Kb!NoBuild.manifest]
      BY <2>1, KbRegistered
    <2>3. Kb!NoBuild.cancel = FALSE /\ Kb!NoBuild.pinned = FALSE /\ Kb!NoBuild.manifest = {}
      BY DEF Kb!NoBuild
    <2> QED
      BY <2>2, <2>3 DEF Kb!Create
  <1>3. /\ build[r] = Kb!NoBuild /\ workspace = "live" /\ worker.pc = "idle"
        /\ UNCHANGED <<workspace, active, versions, snapshots, vectors, keyword, folder, worker, locked, removing,
                       asked, reader>>
    BY DEF Kb!Create, Kb!Pending, KbBuilding
  <1>4. new.job = "queued" /\ new.rev = "registered"
    OBVIOUS
  <1> HIDE DEF new
  <1>5. /\ build' \in [Revs -> KbRow] /\ build'[r] = new /\ KbRows'
        /\ \A q \in Revs : q # r => build'[q] = build[q]
    BY <1>1, <1>2, <1>4, KbOneRow
  <1>6. KbType'
    BY <1>3, <1>5 DEF KbType
  <1>7. KbLocks' /\ KbBuilding'
    BY <1>3 DEF KbLocks, KbBuilding
  <1>8. KbRemovals'
    BY <1>3, <1>5 DEF KbRemovals, Kb!NoBuild
  <1> QED
    BY <1>3, <1>4, <1>5, <1>6, <1>7, <1>8, KbApart DEF Kb!NoBuild

\* Starting a build keeps the invariant.
LEMMA KbStart == ASSUME KbInv, NEW r \in Revs, Kb!Start(r) PROVE KbInv'
  <1> USE DEF KbInv
  <1>1. /\ worker.pc = "idle" /\ build[r].job = "queued" /\ build[r] \in KbRow
        /\ UNCHANGED <<workspace, active, versions, snapshots, vectors, keyword, folder, locked, removing,
                       asked, reader>>
    BY DEF Kb!Start, KbType
  <1>2. CASE Kb!Checked(r)
    <2> DEFINE new == [job |-> "running", rev |-> "scanning", cancel |-> build[r].cancel,
                       pinned |-> build[r].pinned, review |-> build[r].review, manifest |-> build[r].manifest]
               thread == [pc |-> "scan", rev |-> r, left |-> {}, file |-> None, done |-> {}, failed |-> FALSE]
    <2>1. new \in KbRow
      BY <1>1 DEF KbRow, Kb!Unfinished
    <2>2. build' = [build EXCEPT ![r] = new]
      <3>1. build' = [build EXCEPT ![r].job = "running", ![r].rev = "scanning"]
        BY <1>2 DEF Kb!Start
      <3>2. build' = [build EXCEPT ![r] = [build[r] EXCEPT !.job = "running", !.rev = "scanning"]]
        BY <3>1 DEF KbType, KbRow
      <3>3. [build[r] EXCEPT !.job = "running", !.rev = "scanning"] = new
        BY <1>1, KbRewritten
      <3> QED
        BY <3>2, <3>3
    <2>3. worker' = thread /\ thread \in KbThread
      BY <1>2 DEF Kb!Start, Kb!Asleep, KbThread
    <2>4. new.job = "running" /\ new.rev = "scanning" /\ build[r].rev # "ready" /\ workspace = "live"
      BY <1>1, <1>2 DEF KbRows, Kb!Checked
    <2> HIDE DEF new
    <2>5. /\ build' \in [Revs -> KbRow] /\ build'[r] = new /\ KbRows'
          /\ \A q \in Revs : q # r => build'[q] = build[q]
      BY <2>1, <2>2, <2>4, KbOneRow
    <2>6. KbType'
      BY <1>1, <2>3, <2>5 DEF KbType
    <2>7. KbLocks'
      BY <1>1, <2>3 DEF KbLocks
    <2>8. KbTaken' = {}
      BY <2>3 DEF KbTaken
    <2>9. KbBuilding'
      BY <2>3, <2>4, <2>5, <2>8 DEF KbBuilding
    <2>10. KbRemovals'
      BY <1>1, <2>3, <2>5 DEF KbRemovals
    <2> QED
      BY <1>1, <2>4, <2>5, <2>6, <2>7, <2>9, <2>10, KbApart
  <1>3. CASE ~Kb!Checked(r)
    <2>1. build' = Kb!Failed(r, "cancelled") /\ worker' = worker
      BY <1>3 DEF Kb!Start
    <2>2. build' \in [Revs -> KbRow] /\ \A q \in Revs : KbSettles(build[q], build'[q])
      BY <2>1, KbFails
    <2>3. KbLocks'
      BY <1>1, <2>1 DEF KbLocks
    <2> QED
      BY <1>1, <2>1, <2>2, <2>3, KbSettled DEF KbType
  <1> QED
    BY <1>2, <1>3

\* Making the stores of a revision keeps the invariant.
LEMMA KbMake == ASSUME KbInv, Kb!Make PROVE KbInv'
  <1> USE DEF KbInv
  <1> DEFINE r == worker.rev
  <1>1. worker.pc = "make" /\ workspace = "live" /\ locked = None
        /\ UNCHANGED <<workspace, active, versions, snapshots, folder, locked, removing, asked, reader>>
    BY DEF Kb!Make, Kb!Checked
  <1>2. /\ r \in Revs /\ build[r] \in KbRow /\ build[r].job = "running"
        /\ build[r].rev \notin {"ready", "none"} /\ worker \in KbThread
    BY <1>1, KbWorking
  <1> DEFINE new == [build[r] EXCEPT !.rev = "building"]
  <1>3. build' = [build EXCEPT ![r] = new] /\ new \in KbRow /\ new.job = "running" /\ new.rev = "building"
        /\ new.review = build[r].review
    BY <1>2 DEF Kb!Make, KbRow, Kb!Unfinished
  <1> HIDE DEF new
  <1>4. /\ build' \in [Revs -> KbRow] /\ build'[r] = new /\ KbRows'
        /\ \A q \in Revs : q # r => build'[q] = build[q]
    BY <1>2, <1>3, KbOneRow
  <1>5. /\ worker' \in KbThread /\ worker'.pc = "file" /\ worker'.rev = r /\ worker'.left = worker.left
        /\ worker'.done = worker.done /\ worker'.failed = worker.failed
    BY <1>2 DEF Kb!Make, KbThread
  <1>6. /\ vectors' = [vectors EXCEPT ![r] = {}] /\ keyword' = [keyword EXCEPT ![r] = {}]
        /\ {} \in KbIndex /\ {} # None
    BY NoneIsNoVersion DEF Kb!Make, KbIndex
  <1>7. /\ vectors' \in [Revs -> KbIndex] /\ keyword' \in [Revs -> KbIndex]
        /\ vectors'[r] # None /\ keyword'[r] # None
        /\ \A q \in Revs : q # r => vectors'[q] = vectors[q] /\ keyword'[q] = keyword[q]
    BY <1>2, <1>6 DEF KbType
  <1>8. KbType'
    BY <1>1, <1>4, <1>5, <1>7 DEF KbType
  <1>9. KbLocks'
    BY <1>1, <1>5, NoneIsNoVersion DEF KbLocks
  <1>10. KbTaken' = KbTaken
    BY <1>1, <1>5 DEF KbTaken
  <1>11. KbBuilding'
    BY <1>1, <1>2, <1>3, <1>4, <1>5, <1>7, <1>10 DEF KbBuilding
  <1>12. KbRemovals'
    BY <1>1, NoneIsNoVersion DEF KbRemovals, KbLocks
  <1> QED
    BY <1>1, <1>2, <1>3, <1>4, <1>7, <1>8, <1>9, <1>11, <1>12, KbApart

\* Storing a document keeps the invariant: a listed version stays stored.
LEMMA KbStore == ASSUME KbInv, Kb!Store PROVE KbInv'
  <1> USE DEF KbInv
  <1>1. /\ worker.pc = "store" /\ workspace = "live" /\ locked = None
        /\ UNCHANGED <<workspace, active, build, vectors, keyword, folder, locked, removing, asked, reader>>
        /\ snapshots' = snapshots \cup {worker.file} /\ versions' = versions \cup {worker.file}
        /\ worker' = [worker EXCEPT !.pc = "index"]
    BY DEF Kb!Store, Kb!StoreUnchecked, Kb!Checked
  <1>2. /\ worker.rev \in Revs /\ build[worker.rev].rev # "ready" /\ worker \in KbThread
        /\ worker.file \in Kb!Version
    BY <1>1, KbWorking DEF KbBuilding
  <1>3. /\ worker' \in KbThread /\ worker'.pc = "index" /\ worker'.rev = worker.rev
        /\ worker'.left = worker.left /\ worker'.file = worker.file /\ worker'.done = worker.done
        /\ worker'.failed = worker.failed
    BY <1>1, <1>2 DEF KbThread
  <1>4. KbType'
    BY <1>1, <1>2, <1>3 DEF KbType
  <1>5. KbRows' /\ KbLocks'
    BY <1>1, <1>3, NoneIsNoVersion DEF KbRows, KbLocks
  <1>6. KbTaken' = KbTaken
    BY <1>1, <1>3 DEF KbTaken
  <1>7. KbBuilding'
    BY <1>1, <1>2, <1>3, <1>6 DEF KbBuilding
  <1>8. KbRemovals'
    BY <1>1, NoneIsNoVersion DEF KbRemovals, KbLocks
  <1> QED
    BY <1>1, <1>2, <1>4, <1>5, <1>7, <1>8, KbApart

\* Indexing keeps the invariant: the index holds what the build took.
LEMMA KbIndexed == ASSUME KbInv, Kb!Index PROVE KbInv'
  <1> USE DEF KbInv
  <1> DEFINE r == worker.rev  f == worker.file
  <1>1. /\ worker.pc = "index" /\ workspace = "live" /\ locked = None
        /\ UNCHANGED <<workspace, active, build, versions, snapshots, folder, locked, removing, asked, reader>>
        /\ worker' = [worker EXCEPT !.pc = "file", !.file = None, !.done = @ \cup {f}]
    BY DEF Kb!Index, Kb!Checked
  <1>2. /\ r \in Revs /\ build[r].rev # "ready" /\ worker \in KbThread /\ f \in Kb!Version /\ f.file \in Files
    BY <1>1, KbWorking DEF KbBuilding, Kb!Version
  <1> DEFINE new == [pc |-> "file", rev |-> r, left |-> worker.left, file |-> None,
                     done |-> worker.done \cup {f}, failed |-> worker.failed]
  <1>3. worker' = new /\ new \in KbThread
    BY <1>1, <1>2 DEF KbThread
  <1>4. /\ worker' \in KbThread /\ worker'.pc = "file" /\ worker'.rev = r /\ worker'.left = worker.left
        /\ worker'.done = worker.done \cup {f} /\ worker'.failed = worker.failed
    BY <1>3
  <1> HIDE DEF new
  <1>5. vectors[r] \in SUBSET Files /\ keyword[r] \in SUBSET Files
    BY <1>1, <1>2 DEF KbBuilding, KbType, KbIndex
  <1>6. /\ vectors' = [vectors EXCEPT ![r] = vectors[r] \cup {f.file}]
        /\ keyword' = [keyword EXCEPT ![r] = keyword[r] \cup {f.file}]
        /\ vectors[r] \cup {f.file} \in SUBSET Files /\ keyword[r] \cup {f.file} \in SUBSET Files
    BY <1>2, <1>5 DEF Kb!Index
  <1>7. /\ vectors' \in [Revs -> KbIndex] /\ keyword' \in [Revs -> KbIndex]
        /\ vectors'[r] # None /\ keyword'[r] # None
        /\ \A q \in Revs : q # r => vectors'[q] = vectors[q] /\ keyword'[q] = keyword[q]
    BY <1>2, <1>6, NoneIsNoVersion DEF KbType, KbIndex
  <1>8. KbType'
    BY <1>1, <1>4, <1>7 DEF KbType
  <1>9. KbRows' /\ KbLocks'
    BY <1>1, <1>4, NoneIsNoVersion DEF KbRows, KbLocks
  <1>10. KbTaken' = KbTaken
    BY <1>1, <1>4 DEF KbTaken
  <1>11. KbBuilding'
    BY <1>1, <1>2, <1>4, <1>7, <1>10 DEF KbBuilding
  <1>12. KbRemovals'
    BY <1>1, NoneIsNoVersion DEF KbRemovals, KbLocks
  <1> QED
    BY <1>1, <1>2, <1>7, <1>8, <1>9, <1>11, <1>12, KbApart

\* A build left for review keeps the invariant.
LEMMA KbPartial == ASSUME KbInv, Kb!Partial PROVE KbInv'
  <1> USE DEF KbInv
  <1> DEFINE r == worker.rev
             new == [job |-> "partial", rev |-> "partial", cancel |-> build[r].cancel,
                     pinned |-> build[r].pinned, review |-> build[r].review, manifest |-> worker.done]
  <1>1. /\ worker.pc = "file" /\ workspace = "live" /\ worker' = Kb!Asleep
        /\ UNCHANGED <<workspace, active, versions, snapshots, vectors, keyword, folder, locked, removing,
                       asked, reader>>
    BY DEF Kb!Partial, Kb!Checked
  <1>2. r \in Revs /\ build[r].rev # "ready" /\ build[r] \in KbRow /\ worker \in KbThread
    BY <1>1, KbWorking
  <1>3. new \in KbRow
    BY <1>2 DEF KbRow, KbThread
  <1>4. build' = [build EXCEPT ![r] = new]
    <2>1. build' = [build EXCEPT ![r] = [build[r] EXCEPT !.rev = "partial", !.job = "partial",
                                                         !.manifest = worker.done]]
      BY <1>2 DEF Kb!Partial, KbType, KbRow
    <2>2. [build[r] EXCEPT !.rev = "partial", !.job = "partial", !.manifest = worker.done] = new
      BY <1>2, KbEnded
    <2> QED
      BY <2>1, <2>2
  <1>5. new.job = "partial" /\ new.rev = "partial"
    OBVIOUS
  <1> HIDE DEF new
  <1>6. /\ build' \in [Revs -> KbRow] /\ build'[r] = new /\ KbRows'
        /\ \A q \in Revs : q # r => build'[q] = build[q]
    BY <1>2, <1>3, <1>4, <1>5, KbOneRow
  <1>7. KbType'
    BY <1>1, <1>6, KbAsleep DEF KbType
  <1>8. KbLocks' /\ KbBuilding'
    BY <1>1, KbAsleep DEF KbLocks, KbBuilding
  <1>9. KbRemovals'
    BY <1>1 DEF KbRemovals
  <1> QED
    BY <1>1, <1>2, <1>5, <1>6, <1>7, <1>8, <1>9, KbApart

\* Validation keeps the invariant.
LEMMA KbValidate == ASSUME KbInv, Kb!Validate PROVE KbInv'
  <1> USE DEF KbInv
  <1> DEFINE r == worker.rev
  <1>1. /\ worker.pc = "file" /\ workspace = "live" /\ locked = None /\ worker.left = {} /\ worker.done # {}
        /\ (worker.failed => build[r].review)
        /\ UNCHANGED <<workspace, active, versions, snapshots, vectors, keyword, folder, removing, asked, reader>>
    BY DEF Kb!Validate, Kb!Checked, Kb!Tolerates
  <1>2. /\ r \in Revs /\ build[r] \in KbRow /\ build[r].job = "running"
        /\ build[r].rev \notin {"ready", "none"} /\ worker \in KbThread
    BY <1>1, KbWorking
  <1>3. CASE Kb!Whole(r)
    <2> DEFINE new == [build[r] EXCEPT !.rev = "validating"]
    <2>1. build' = [build EXCEPT ![r] = new] /\ new \in KbRow /\ new.job = "running" /\ new.rev = "validating"
          /\ new.review = build[r].review
      BY <1>2, <1>3 DEF Kb!Validate, KbRow, Kb!Unfinished
    <2> HIDE DEF new
    <2>2. /\ build' \in [Revs -> KbRow] /\ build'[r] = new /\ KbRows'
          /\ \A q \in Revs : q # r => build'[q] = build[q]
      BY <1>2, <2>1, KbOneRow
    <2>3. locked' = "worker" /\ worker' = [worker EXCEPT !.pc = "publish"]
      BY <1>3 DEF Kb!Validate
    <2>4. /\ worker' \in KbThread /\ worker'.pc = "publish" /\ worker'.rev = r /\ worker'.left = worker.left
          /\ worker'.done = worker.done /\ worker'.failed = worker.failed
      BY <1>2, <2>3 DEF KbThread
    <2>5. KbType'
      BY <1>1, <2>2, <2>3, <2>4 DEF KbType
    <2>6. KbLocks'
      BY <1>1, <2>3, <2>4, NoneIsNoVersion DEF KbLocks
    <2>7. KbTaken' = KbTaken
      BY <1>1, <2>4 DEF KbTaken
    <2>8. KbBuilding'
      BY <1>1, <1>2, <1>3, <2>1, <2>2, <2>4, <2>7 DEF KbBuilding, Kb!Whole, KbFiles
    <2>9. KbRemovals'
      BY <1>1, <2>3, NoneIsNoVersion DEF KbRemovals, KbLocks
    <2> QED
      BY <1>1, <1>2, <2>1, <2>2, <2>5, <2>6, <2>8, <2>9, KbApart
  <1>4. CASE ~Kb!Whole(r)
    BY <1>1, <1>4, KbLeaves DEF Kb!Validate
  <1> QED
    BY <1>3, <1>4

\* Publishing keeps the invariant: the revision that becomes active is whole.
LEMMA KbPublish == ASSUME KbInv, Kb!Publish PROVE KbInv'
  <1> USE DEF KbInv
  <1> DEFINE r == worker.rev
             new == [job |-> "ready", rev |-> "ready", cancel |-> build[r].cancel,
                     pinned |-> build[r].pinned, review |-> build[r].review, manifest |-> worker.done]
  <1>1. /\ worker.pc = "publish" /\ workspace = "live" /\ worker' = Kb!Asleep /\ locked' = None /\ active' = r
        /\ UNCHANGED <<workspace, versions, snapshots, vectors, keyword, folder, removing, asked, reader>>
    BY DEF Kb!Publish, Kb!PublishUnchecked, Kb!Checked
  <1>2. r \in Revs /\ build[r].rev # "ready" /\ build[r] \in KbRow /\ worker \in KbThread /\ locked = "worker"
    BY <1>1, KbWorking DEF KbLocks
  <1>3. new \in KbRow
    BY <1>2 DEF KbRow, KbThread
  <1>4. build' = [build EXCEPT ![r] = new]
    <2>1. build' = [build EXCEPT ![r] = [build[r] EXCEPT !.rev = "ready", !.job = "ready",
                                                         !.manifest = worker.done]]
      BY <1>2 DEF Kb!Publish, Kb!PublishUnchecked, KbType, KbRow
    <2>2. [build[r] EXCEPT !.rev = "ready", !.job = "ready", !.manifest = worker.done] = new
      BY <1>2, KbEnded
    <2> QED
      BY <2>1, <2>2
  <1>5. new.job = "ready" /\ new.rev = "ready" /\ new.review = build[r].review /\ new.manifest = worker.done
    OBVIOUS
  <1> HIDE DEF new
  <1>6. /\ build' \in [Revs -> KbRow] /\ build'[r] = new /\ KbRows'
        /\ \A q \in Revs : q # r => build'[q] = build[q]
    BY <1>2, <1>3, <1>4, <1>5, KbOneRow
  <1>7. KbType'
    BY <1>1, <1>2, <1>6, KbAsleep DEF KbType
  <1>8. KbLocks' /\ KbBuilding'
    BY <1>1, <1>2, KbAsleep, NoneIsNoVersion DEF KbLocks, KbBuilding
  <1>9. KbRemovals'
    BY <1>1, <1>2, NoneIsNoVersion DEF KbRemovals, KbLocks
  <1>10. /\ vectors[r] = {v.file : v \in worker.done} /\ keyword[r] = vectors[r]
         /\ worker.done \subseteq versions /\ worker.done \subseteq snapshots /\ worker.done # {}
         /\ worker.left = {} /\ (worker.failed => build[r].review)
    BY <1>1 DEF KbBuilding, KbFiles
  <1>11. Kb!ActiveIsWhole'
    BY <1>1, <1>5, <1>6, <1>10 DEF Kb!ActiveIsWhole
  <1>12. Kb!KeptKeepDocuments'
    BY <1>1, <1>5, <1>6, <1>10 DEF Kb!KeptKeepDocuments
  <1>13. KbTaken = worker.done
    BY <1>1 DEF KbTaken
  <1>14. ~build[r].review => {v.file : v \in worker.done} = Files /\ \A v \in worker.done : ~v.review
    <2>1. \A v \in worker.done : v.review = build[r].review
      BY <1>1, <1>13 DEF KbBuilding
    <2>2. ~build[r].review => Files = worker.left \cup KbFiles(worker.done)
      BY <1>1, <1>10, <1>13 DEF KbBuilding
    <2> QED
      BY <1>10, <2>1, <2>2 DEF KbFiles
  <1>15. Kb!StrictBuildIsComplete'
    BY <1>5, <1>6, <1>14 DEF Kb!StrictBuildIsComplete
  <1>16. Kb!QuestionKeepsRevision'
    BY <1>1, <1>5, <1>6 DEF Kb!QuestionKeepsRevision, KbType
  <1>17. Kb!NothingOfDeleted'
    BY <1>1 DEF Kb!NothingOfDeleted
  <1> QED
    BY <1>6, <1>7, <1>8, <1>9, <1>11, <1>12, <1>15, <1>16, <1>17

\* A request to cancel, and a pin, touch one field of a row that exists.
LEMMA KbFlags == ASSUME KbInv, NEW r \in Revs, Kb!Cancel(r) \/ Kb!Pin(r) PROVE KbInv'
  <1> USE DEF KbInv
  <1>1. PICK new \in KbRow : build' = [build EXCEPT ![r] = new] /\ KbSettles(build[r], new)
                             /\ new.job = build[r].job
    <2>1. build[r] \in KbRow /\ build[r].job # "none"
      BY DEF Kb!Cancel, Kb!Pin, Kb!Pending, KbType, KbRows, Kb!NoBuild
    <2>2. CASE Kb!Cancel(r)
      <3> DEFINE new == [build[r] EXCEPT !.cancel = TRUE]
      <3>1. build' = [build EXCEPT ![r] = new] /\ new \in KbRow
        BY <2>1, <2>2 DEF Kb!Cancel, KbRow
      <3>2. KbSettles(build[r], new) /\ new.job = build[r].job
        BY <2>1, <3>1 DEF KbSettles, KbRow
      <3> QED
        BY <3>1, <3>2
    <2>3. CASE Kb!Pin(r)
      <3> DEFINE pinned == ~build[r].pinned
                 new == [build[r] EXCEPT !.pinned = pinned]
      <3>1. pinned \in BOOLEAN
        OBVIOUS
      <3>2. build' = [build EXCEPT ![r] = new]
        <4> HIDE DEF pinned
        <4>1. build' = [build EXCEPT ![r].pinned = pinned]
          BY <2>3 DEF Kb!Pin, pinned
        <4> QED
          BY <4>1 DEF KbType
      <3> HIDE DEF pinned
      <3>3. new \in KbRow
        BY <2>1, <3>1 DEF KbRow
      <3>4. KbSettles(build[r], new) /\ new.job = build[r].job
        BY <2>1, <3>3 DEF KbSettles, KbRow
      <3> QED
        BY <3>2, <3>3, <3>4
    <2> QED
      BY <2>2, <2>3
  <1>2. UNCHANGED <<workspace, active, versions, snapshots, vectors, keyword, folder, worker, locked, removing,
                    asked, reader>>
    BY DEF Kb!Cancel, Kb!Pin
  <1>3. ASSUME NEW q \in Revs PROVE KbSettles(build[q], build[q])
    BY DEF KbSettles, KbType
  <1>4. build' \in [Revs -> KbRow] /\ \A q \in Revs : KbSettles(build[q], build'[q]) /\ build'[q].job = build[q].job
    BY <1>1, <1>3 DEF KbType
  <1>5. worker'.pc = "idle" \/ (worker' = worker /\ build'[worker.rev].job = build[worker.rev].job)
    <2>1. worker' = worker /\ (worker.pc = "idle" \/ worker.rev \in Revs)
      BY <1>2 DEF KbBuilding
    <2>2. \A q \in Revs : build'[q].job = build[q].job
      BY <1>4
    <2> QED
      BY <2>1, <2>2
  <1>6. KbLocks'
    BY <1>2 DEF KbLocks
  <1> QED
    BY <1>2, <1>4, <1>5, <1>6, KbSettled DEF KbType

\* Marking the workspace deleted keeps the invariant.
LEMMA KbDelete == ASSUME KbInv, Kb!Delete PROVE KbInv'
  <1> USE DEF KbInv
  <1>1. /\ workspace = "live" /\ locked = None /\ workspace' = "marked" /\ locked' = "delete"
        /\ removing' = [pc |-> "marked", rev |-> None]
        /\ UNCHANGED <<active, versions, snapshots, vectors, keyword, folder, worker, asked, reader>>
    BY DEF Kb!Delete
  <1>2. ASSUME NEW r \in Revs
        PROVE  build'[r] \in KbRow /\ KbSettles(build[r], build'[r]) /\ build'[r].job = build[r].job
    <2>1. build[r] \in KbRow /\ KbSettles(build[r], build[r])
      BY DEF KbType, KbSettles
    <2>2. CASE build[r] = Kb!NoBuild
      BY <2>1, <2>2 DEF Kb!Delete
    <2>3. CASE build[r] # Kb!NoBuild
      <3> DEFINE new == [build[r] EXCEPT !.cancel = TRUE]
      <3>1. build'[r] = new /\ new \in KbRow
        BY <2>1, <2>3 DEF Kb!Delete, KbRow
      <3>2. KbSettles(build[r], new) /\ new.job = build[r].job
        BY <2>1, <2>3, <3>1 DEF KbSettles, KbRow, KbRows
      <3> QED
        BY <3>1, <3>2
    <2> QED
      BY <2>2, <2>3
  <1>3. build' \in [Revs -> KbRow]
    BY <1>2 DEF Kb!Delete
  <1>4. worker'.pc = "idle" \/ (worker' = worker /\ build'[worker.rev].job = build[worker.rev].job)
    <2>1. worker' = worker /\ (worker.pc = "idle" \/ worker.rev \in Revs)
      BY <1>1 DEF KbBuilding
    <2>2. \A q \in Revs : build'[q].job = build[q].job
      BY <1>2
    <2> QED
      BY <2>1, <2>2
  <1>5. KbLocks'
    BY <1>1, NoneIsNoVersion DEF KbLocks
  <1> QED
    BY <1>1, <1>2, <1>3, <1>4, <1>5, KbSettled DEF KbType

\* A restart keeps the invariant: builds cut off have failed and keep what they list.
LEMMA KbRestart == ASSUME KbInv, Kb!Restart PROVE KbInv'
  <1> USE DEF KbInv
  <1>1. /\ worker' = Kb!Asleep /\ locked' = None /\ removing' = [pc |-> "idle", rev |-> None]
        /\ reader' = Kb!NoReader
        /\ UNCHANGED <<workspace, active, versions, snapshots, vectors, keyword, folder, asked>>
    BY DEF Kb!Restart
  <1>2. ASSUME NEW r \in Revs
        PROVE  build'[r] \in KbRow /\ KbSettles(build[r], build'[r])
    <2> DEFINE b == build[r]
               job == IF b.job \in {"queued", "running"} THEN "failed" ELSE b.job
               rev == IF b.rev \in Kb!Unfinished THEN "failed" ELSE b.rev
               new == [job |-> job, rev |-> rev, cancel |-> b.cancel, pinned |-> b.pinned,
                       review |-> b.review, manifest |-> b.manifest]
    <2>1. b \in KbRow
      BY DEF KbType
    <2>2. [b EXCEPT !.job = job, !.rev = rev] = new
      <3> HIDE DEF job, rev, b
      <3> QED
        BY <2>1, KbRewritten
    <2>3. build'[r] = [b EXCEPT !.job = job, !.rev = rev]
      BY DEF Kb!Restart, Kb!Recovered
    <2>4. new \in KbRow
      BY <2>1 DEF KbRow
    <2>5. (rev = "ready") <=> (b.rev = "ready")
      BY DEF Kb!Unfinished
    <2>6. b.job = "none" => new = b
      <3>1. b.job = "none" => b = Kb!NoBuild
        BY DEF KbRows
      <3>2. b = Kb!NoBuild => job = b.job /\ rev = b.rev
        BY DEF Kb!NoBuild, Kb!Unfinished
      <3>3. job = b.job /\ rev = b.rev => new = b
        BY <2>1 DEF KbRow
      <3> QED
        BY <3>1, <3>2, <3>3
    <2>7. KbSettles(b, new)
      BY <2>1, <2>4, <2>5, <2>6 DEF KbSettles
    <2> QED
      BY <2>2, <2>3, <2>4, <2>7
  <1>3. build' \in [Revs -> KbRow]
    BY <1>2 DEF Kb!Restart, Kb!Recovered
  <1>4. KbLocks'
    BY <1>1, KbAsleep, NoneIsNoVersion DEF KbLocks
  <1>5. reader' \in [pc : {"idle", "search", "validate", "found"}, rev : Revs \cup {None}, whole : BOOLEAN]
    BY <1>1 DEF Kb!NoReader
  <1> QED
    BY <1>1, <1>2, <1>3, <1>4, <1>5, KbAsleep, NoneIsNoVersion, KbSettled

\* The start of a removal keeps the invariant: the active revision is not removed.
LEMMA KbRemove == ASSUME KbInv, NEW r \in Revs, Kb!Remove(r) PROVE KbInv'
  <1> USE DEF KbInv
  <1>1. /\ workspace = "live" /\ locked = None /\ build[r].rev # "none" /\ r # active /\ asked # r
        /\ locked' = "remove" /\ removing' = [pc |-> "dropped", rev |-> r] /\ vectors' = [vectors EXCEPT ![r] = None]
        /\ UNCHANGED <<workspace, active, build, versions, snapshots, keyword, folder, worker, asked, reader>>
    BY DEF Kb!Remove, Kb!Removable
  <1>2. \A q \in Revs : build[q].job \notin {"queued", "running"}
    BY DEF Kb!Remove, Kb!Removable, Kb!Pending
  <1>3. worker.pc = "idle" /\ build[r].job # "none"
    BY <1>1, <1>2 DEF KbBuilding, KbRows, Kb!NoBuild
  <1>4. /\ vectors' \in [Revs -> KbIndex] /\ vectors'[r] = None
        /\ \A q \in Revs : q # r => vectors'[q] = vectors[q]
    BY <1>1 DEF KbType, KbIndex
  <1>5. KbType'
    BY <1>1, <1>4 DEF KbType
  <1>6. KbRows' /\ KbLocks' /\ KbBuilding'
    BY <1>1, <1>3, NoneIsNoVersion DEF KbRows, KbLocks, KbBuilding
  <1>7. KbRemovals'
    BY <1>1, <1>2, <1>3, <1>4 DEF KbRemovals
  <1>8. Kb!ActiveIsWhole' /\ Kb!KeptKeepDocuments' /\ Kb!StrictBuildIsComplete'
    BY <1>1, <1>4 DEF Kb!ActiveIsWhole, Kb!KeptKeepDocuments, Kb!StrictBuildIsComplete, KbType
  <1>9. Kb!QuestionKeepsRevision' /\ Kb!NothingOfDeleted'
    BY <1>1 DEF Kb!QuestionKeepsRevision, Kb!NothingOfDeleted
  <1> QED
    BY <1>5, <1>6, <1>7, <1>8, <1>9

\* Removing the index of a revision keeps the invariant.
LEMMA KbRemoveDir == ASSUME KbInv, Kb!RemoveDir PROVE KbInv'
  <1> USE DEF KbInv
  <1> DEFINE r == removing.rev
  <1>1. /\ removing.pc = "dropped" /\ removing' = [removing EXCEPT !.pc = "cleared"]
        /\ keyword' = [keyword EXCEPT ![r] = None]
        /\ UNCHANGED <<workspace, active, build, versions, snapshots, vectors, folder, worker, locked, asked, reader>>
    BY DEF Kb!RemoveDir
  <1>2. locked = "remove" /\ r \in Revs /\ r # active /\ worker.pc \in {"idle", "scan", "make"} /\ workspace = "live"
    BY <1>1 DEF KbLocks, KbRemovals, KbType
  <1>3. /\ removing' \in [pc : {"idle", "dropped", "cleared", "unlinked", "marked", "wiped"}, rev : Revs \cup {None}]
        /\ removing'.pc = "cleared" /\ removing'.rev = r
    BY <1>1 DEF KbType
  <1>4. keyword' \in [Revs -> KbIndex] /\ \A q \in Revs : q # r => keyword'[q] = keyword[q]
    BY <1>1 DEF KbType, KbIndex
  <1>5. KbType'
    BY <1>1, <1>3, <1>4 DEF KbType
  <1>6. KbRows' /\ KbLocks'
    BY <1>1, <1>2, <1>3 DEF KbRows, KbLocks
  <1>7. KbTaken' = KbTaken
    BY <1>1 DEF KbTaken
  <1>8. KbBuilding'
    BY <1>1, <1>2, <1>7 DEF KbBuilding
  <1>9. KbRemovals'
    BY <1>1, <1>2, <1>3 DEF KbRemovals
  <1>10. Kb!ActiveIsWhole' /\ Kb!KeptKeepDocuments' /\ Kb!StrictBuildIsComplete'
    BY <1>1, <1>2, <1>4 DEF Kb!ActiveIsWhole, Kb!KeptKeepDocuments, Kb!StrictBuildIsComplete, KbType
  <1>11. Kb!QuestionKeepsRevision' /\ Kb!NothingOfDeleted'
    BY <1>1, <1>2 DEF Kb!QuestionKeepsRevision, Kb!NothingOfDeleted
  <1> QED
    BY <1>5, <1>6, <1>8, <1>9, <1>10, <1>11

\* Unlinking documents keeps the invariant: those another revision lists stay.
LEMMA KbUnlink == ASSUME KbInv, Kb!Unlink PROVE KbInv'
  <1> USE DEF KbInv
  <1> DEFINE r == removing.rev
  <1>1. /\ removing.pc = "cleared" /\ removing' = [removing EXCEPT !.pc = "unlinked"]
        /\ snapshots' = snapshots \ (versions \ Kb!Referenced(r))
        /\ UNCHANGED <<workspace, active, build, versions, vectors, keyword, folder, worker, locked, asked, reader>>
    BY DEF Kb!Unlink
  <1>2. /\ locked = "remove" /\ r \in Revs /\ r # active /\ worker.pc \in {"idle", "scan", "make"}
        /\ workspace = "live" /\ vectors[r] = None
    BY <1>1 DEF KbLocks, KbRemovals, KbType
  <1>3. /\ removing' \in [pc : {"idle", "dropped", "cleared", "unlinked", "marked", "wiped"}, rev : Revs \cup {None}]
        /\ removing'.pc = "unlinked" /\ removing'.rev = r
    BY <1>1 DEF KbType
  <1>4. \A q \in Revs : q # r => build[q].manifest \subseteq Kb!Referenced(r)
    BY DEF Kb!Referenced
  <1>5. KbType'
    BY <1>1, <1>3 DEF KbType
  <1>6. KbRows' /\ KbLocks'
    BY <1>1, <1>2, <1>3 DEF KbRows, KbLocks
  <1>7. KbTaken' = KbTaken
    BY <1>1 DEF KbTaken
  <1>8. KbBuilding'
    BY <1>1, <1>2, <1>7 DEF KbBuilding
  <1>9. KbRemovals'
    BY <1>1, <1>2, <1>3 DEF KbRemovals
  <1>10. Kb!ActiveIsWhole' /\ Kb!KeptKeepDocuments'
    BY <1>1, <1>2, <1>4 DEF Kb!ActiveIsWhole, Kb!KeptKeepDocuments, KbType
  <1>11. Kb!StrictBuildIsComplete' /\ Kb!QuestionKeepsRevision' /\ Kb!NothingOfDeleted'
    BY <1>1, <1>2 DEF Kb!StrictBuildIsComplete, Kb!QuestionKeepsRevision, Kb!NothingOfDeleted
  <1> QED
    BY <1>5, <1>6, <1>8, <1>9, <1>10, <1>11

\* The end of a removal keeps the invariant: the row goes last.
LEMMA KbRemoveCommits == ASSUME KbInv, Kb!RemoveCommits PROVE KbInv'
  <1> USE DEF KbInv
  <1> DEFINE r == removing.rev
  <1>1. /\ removing.pc = "unlinked" /\ versions' = versions \cap Kb!Referenced(r) /\ locked' = None
        /\ build' = [build EXCEPT ![r] = Kb!NoBuild] /\ removing' = [pc |-> "idle", rev |-> None]
        /\ UNCHANGED <<workspace, active, snapshots, vectors, keyword, folder, worker, asked, reader>>
    BY DEF Kb!RemoveCommits
  <1>2. /\ locked = "remove" /\ r \in Revs /\ r \notin {active, asked} /\ worker.pc \in {"idle", "scan", "make"}
        /\ workspace = "live" /\ vectors[r] = None /\ build[r].job # "running"
    BY <1>1 DEF KbLocks, KbRemovals, KbType
  <1>3. Kb!NoBuild \in KbRow /\ Kb!NoBuild.rev = "none"
    BY DEF Kb!NoBuild, KbRow
  <1>4. /\ build' \in [Revs -> KbRow] /\ build'[r] = Kb!NoBuild
        /\ \A q \in Revs : q # r => build'[q] = build[q]
    BY <1>1, <1>2, <1>3 DEF KbType
  <1>5. \A q \in Revs : q # r => build[q].manifest \subseteq Kb!Referenced(r)
    BY DEF Kb!Referenced
  <1>6. KbType'
    BY <1>1, <1>4 DEF KbType
  <1>7. KbRows'
    BY <1>3, <1>4 DEF KbRows
  <1>8. KbLocks'
    BY <1>1, <1>2, NoneIsNoVersion DEF KbLocks
  <1>9. KbTaken' = KbTaken
    BY <1>1 DEF KbTaken
  <1>10. worker.pc # "idle" => worker.rev \in Revs /\ worker.rev # r
    BY <1>2, KbWorking
  <1>11. KbBuilding'
    BY <1>1, <1>2, <1>4, <1>9, <1>10 DEF KbBuilding
  <1>12. KbRemovals'
    BY <1>1, NoneIsNoVersion DEF KbRemovals
  <1>13. Kb!ActiveIsWhole' /\ Kb!KeptKeepDocuments' /\ Kb!StrictBuildIsComplete'
    BY <1>1, <1>2, <1>3, <1>4, <1>5 DEF Kb!ActiveIsWhole, Kb!KeptKeepDocuments, Kb!StrictBuildIsComplete, KbType
  <1>14. Kb!QuestionKeepsRevision' /\ Kb!NothingOfDeleted'
    BY <1>1, <1>2, <1>4 DEF Kb!QuestionKeepsRevision, Kb!NothingOfDeleted, KbType
  <1> QED
    BY <1>6, <1>7, <1>8, <1>11, <1>12, <1>13, <1>14

\* A removal or deletion that breaks off only gives the lock back.
LEMMA KbRemoveFails == ASSUME KbInv, Kb!RemoveFails PROVE KbInv'
  <1> USE DEF KbInv
  <1>1. /\ removing.pc \in {"dropped", "marked"} /\ removing' = [pc |-> "idle", rev |-> None] /\ locked' = None
        /\ UNCHANGED <<workspace, active, build, versions, snapshots, vectors, keyword, folder, worker, asked, reader>>
    BY DEF Kb!RemoveFails
  <1>2. worker.pc # "publish"
    BY <1>1 DEF KbLocks
  <1>3. ASSUME NEW q \in Revs PROVE KbSettles(build[q], build'[q]) /\ build'[q].job = build[q].job
    BY <1>1 DEF KbSettles, KbType
  <1>4. KbLocks'
    BY <1>1, <1>2, NoneIsNoVersion DEF KbLocks
  <1>5. worker' = worker /\ build' = build
    BY <1>1
  <1> QED
    BY <1>1, <1>3, <1>4, <1>5, KbSettled, NoneIsNoVersion DEF KbType

\* Deleting the files of a deleted workspace keeps the invariant.
LEMMA KbDeleteFiles == ASSUME KbInv, Kb!DeleteFiles PROVE KbInv'
  <1> USE DEF KbInv
  <1>1. /\ removing.pc = "marked" /\ removing' = [removing EXCEPT !.pc = "wiped"] /\ snapshots' = {}
        /\ vectors' = [r \in Revs |-> None] /\ keyword' = [r \in Revs |-> None]
        /\ UNCHANGED <<workspace, active, build, versions, folder, worker, locked, asked, reader>>
    BY DEF Kb!DeleteFiles
  <1>2. locked = "delete" /\ workspace # "live" /\ worker.pc # "publish"
    BY <1>1 DEF KbLocks
  <1>3. /\ removing' \in [pc : {"idle", "dropped", "cleared", "unlinked", "marked", "wiped"}, rev : Revs \cup {None}]
        /\ removing'.pc = "wiped"
    BY <1>1 DEF KbType
  <1>4. KbType'
    BY <1>1, <1>3 DEF KbType, KbIndex
  <1>5. KbRows' /\ KbLocks' /\ KbBuilding'
    BY <1>1, <1>2, <1>3 DEF KbRows, KbLocks, KbBuilding
  <1>6. KbRemovals'
    BY <1>1, <1>2 DEF KbRemovals
  <1>7. Kb!ActiveIsWhole' /\ Kb!KeptKeepDocuments' /\ Kb!StrictBuildIsComplete' /\ Kb!QuestionKeepsRevision'
    BY <1>1, <1>2 DEF Kb!ActiveIsWhole, Kb!KeptKeepDocuments, Kb!StrictBuildIsComplete, Kb!QuestionKeepsRevision
  <1>8. Kb!NothingOfDeleted'
    BY <1>1 DEF Kb!NothingOfDeleted
  <1> QED
    BY <1>4, <1>5, <1>6, <1>7, <1>8

\* The end of a deletion keeps the invariant: nothing is listed any more.
LEMMA KbDeleteCommits == ASSUME KbInv, Kb!DeleteCommits PROVE KbInv'
  <1> USE DEF KbInv
  <1>1. /\ removing.pc = "wiped" /\ workspace' = "gone" /\ active' = None /\ asked' = None /\ versions' = {}
        /\ build' = [r \in Revs |-> Kb!NoBuild] /\ removing' = [pc |-> "idle", rev |-> None] /\ locked' = None
        /\ UNCHANGED <<snapshots, vectors, keyword, folder, worker, reader>>
    BY DEF Kb!DeleteCommits
  <1>2. locked = "delete" /\ worker.pc # "publish"
    BY <1>1 DEF KbLocks
  <1>3. snapshots = {} /\ \A r \in Revs : vectors[r] = None /\ keyword[r] = None
    BY <1>1 DEF KbRemovals
  <1>4. Kb!NoBuild \in KbRow /\ Kb!NoBuild.rev = "none" /\ Kb!NoBuild.job = "none"
    BY DEF Kb!NoBuild, KbRow
  <1>5. KbType'
    BY <1>1, <1>4 DEF KbType
  <1>6. KbRows'
    BY <1>1, <1>4 DEF KbRows
  <1>7. KbLocks'
    BY <1>1, <1>2, NoneIsNoVersion DEF KbLocks
  <1>8. KbBuilding'
    BY <1>1, <1>2, <1>4 DEF KbBuilding
  <1>9. KbRemovals'
    BY <1>1, NoneIsNoVersion DEF KbRemovals
  <1>10. Kb!ActiveIsWhole' /\ Kb!KeptKeepDocuments' /\ Kb!StrictBuildIsComplete' /\ Kb!QuestionKeepsRevision'
    BY <1>1, <1>4 DEF Kb!ActiveIsWhole, Kb!KeptKeepDocuments, Kb!StrictBuildIsComplete, Kb!QuestionKeepsRevision
  <1>11. Kb!NothingOfDeleted'
    BY <1>1, <1>3 DEF Kb!NothingOfDeleted
  <1> QED
    BY <1>5, <1>6, <1>7, <1>8, <1>9, <1>10, <1>11

\* A new workspace lists nothing.
LEMMA KbInit == Kb!Init => KbInv
  <1> SUFFICES ASSUME Kb!Init PROVE KbInv
    OBVIOUS
  <1> USE DEF Kb!Init
  <1>1. Kb!NoBuild \in KbRow /\ Kb!NoBuild.rev = "none" /\ Kb!NoBuild.job = "none"
    BY DEF Kb!NoBuild, KbRow
  <1>2. Kb!NoReader.pc = "idle" /\ Kb!NoReader \in
          [pc : {"idle", "search", "validate", "found"}, rev : Revs \cup {None}, whole : BOOLEAN]
    BY DEF Kb!NoReader
  <1>3. KbType
    BY <1>1, <1>2, KbAsleep DEF KbType, KbIndex
  <1>4. KbRows
    BY <1>1 DEF KbRows
  <1>5. KbLocks /\ KbBuilding /\ KbRemovals
    BY KbAsleep, NoneIsNoVersion DEF KbLocks, KbBuilding, KbRemovals
  <1>6. Kb!ActiveIsWhole /\ Kb!KeptKeepDocuments /\ Kb!StrictBuildIsComplete
    BY <1>1 DEF Kb!ActiveIsWhole, Kb!KeptKeepDocuments, Kb!StrictBuildIsComplete
  <1>7. Kb!QuestionKeepsRevision /\ Kb!NothingOfDeleted
    BY DEF Kb!QuestionKeepsRevision, Kb!NothingOfDeleted
  <1> QED
    BY <1>3, <1>4, <1>5, <1>6, <1>7 DEF KbInv

\* A step of another module keeps the invariant.
LEMMA KbStutter == ASSUME KbInv, UNCHANGED Kb!kbVars PROVE KbInv'
  <1>1. /\ UNCHANGED <<workspace, active, build, versions, snapshots, vectors, keyword, worker, locked, removing>>
        /\ folder' = folder /\ asked' = asked /\ reader' = reader
    BY DEF Kb!kbVars
  <1>2. /\ folder \in [Files -> Contents]
        /\ reader \in [pc : {"idle", "search", "validate", "found"}, rev : Revs \cup {None}, whole : BOOLEAN]
    BY DEF KbInv, KbType
  <1> QED
    BY <1>1, <1>2, KbQuiet

\* The invariant is inductive.
LEMMA KbStep == KbInv /\ [Kb!Next]_Kb!kbVars => KbInv'
  <1> SUFFICES ASSUME KbInv, Kb!Next PROVE KbInv'
    BY KbStutter
  <1>1. CASE Kb!RemoveCommits
    BY <1>1, KbRemoveCommits
  <1>2. CASE Kb!Restart
    BY <1>2, KbRestart
  <1>3. CASE Kb!Worker
    <2>1. ASSUME NEW r \in Revs, Kb!Start(r) PROVE KbInv'
      BY <2>1, KbStart
    <2>2. ASSUME NEW o \in SUBSET Files, Kb!Scan(o) PROVE KbInv'
      BY <2>2, KbScan
    <2>3. ASSUME NEW f \in Files, Kb!Take(f) PROVE KbInv'
      BY <2>3, KbTake
    <2>4. CASE Kb!Make \/ Kb!Parse \/ Kb!Store \/ Kb!Index \/ Kb!Partial \/ Kb!Empty \/ Kb!Validate
               \/ Kb!Publish \/ Kb!WorkerStops
      BY <2>4, KbMake, KbParse, KbStore, KbIndexed, KbPartial, KbStops, KbValidate, KbPublish
    <2> QED
      BY <1>3, <2>1, <2>2, <2>3, <2>4 DEF Kb!Worker
  <1>4. CASE Kb!WorkerFails
    BY <1>4, KbStops
  <1>5. CASE Kb!Removing
    BY <1>5, KbRemoveDir, KbUnlink, KbRemoveCommits, KbDeleteFiles, KbDeleteCommits DEF Kb!Removing
  <1>6. CASE Kb!RemoveFails
    BY <1>6, KbRemoveFails
  <1>7. CASE Kb!Delete
    BY <1>7, KbDelete
  <1>8. ASSUME NEW r \in Revs, \/ (\E review \in BOOLEAN : Kb!Create(r, review))
                               \/ Kb!Cancel(r) \/ Kb!Pin(r) \/ Kb!Remove(r) \/ Kb!Ask(r) \/ Kb!Resolve(r)
        PROVE  KbInv'
    <2>1. ASSUME NEW review \in BOOLEAN, Kb!Create(r, review) PROVE KbInv'
      BY <2>1, KbCreate
    <2>2. CASE Kb!Cancel(r) \/ Kb!Pin(r)
      BY <2>2, KbFlags
    <2>3. CASE Kb!Remove(r)
      BY <2>3, KbRemove
    <2>4. CASE Kb!Ask(r) \/ Kb!Resolve(r)
      BY <2>4, KbOutside
    <2> QED
      BY <1>8, <2>1, <2>2, <2>3, <2>4
  <1>9. CASE Kb!Answered \/ Kb!Search \/ Kb!Validated \/ Kb!Seen
    BY <1>9, KbOutside
  <1>10. ASSUME NEW f \in Files, NEW c \in Contents, Kb!Edit(f, c) PROVE KbInv'
    BY <1>10, KbOutside
  <1> QED
    BY <1>1, <1>2, <1>3, <1>4, <1>5, <1>6, <1>7, <1>8, <1>9, <1>10 DEF Kb!Next

\* The type invariant of the component, from the one the proof works with.
LEMMA KbTypeOK == KbInv => Kb!TypeOK
  <1> SUFFICES ASSUME KbInv PROVE Kb!TypeOK
    OBVIOUS
  <1>1. \A r \in Revs : {vectors[r], keyword[r]} \subseteq (SUBSET Files) \cup {None}
    BY DEF KbInv, KbType, KbIndex
  <1>2. worker.pc \in {"idle", "scan", "make", "file", "parse", "store", "index", "publish"}
    BY DEF KbInv, KbType, KbThread
  <1>3. removing.pc \in {"idle", "dropped", "cleared", "unlinked", "marked", "wiped"}
    BY DEF KbInv, KbType
  <1> QED
    BY <1>1, <1>2, <1>3 DEF KbInv, KbType, KbRow, Kb!TypeOK

\* Evidence is found only by _validate_snapshot, while the revision stands.
LEMMA KbEvidence ==
  ASSUME KbInv, [Kb!Next]_Kb!kbVars
  PROVE  [reader.pc # "found" /\ reader'.pc = "found" =>
            workspace = "live" /\ build[reader.rev].rev = "ready"]_Kb!kbVars
  <1> SUFFICES ASSUME Kb!Next, reader.pc # "found", reader'.pc = "found"
               PROVE  workspace = "live" /\ build[reader.rev].rev = "ready"
    OBVIOUS
  <1>1. reader' # reader /\ Kb!NoReader.pc = "idle"
    BY DEF Kb!NoReader
  <1>2. CASE Kb!Worker
    BY <1>1, <1>2 DEF Kb!Worker, Kb!Start, Kb!Scan, Kb!Make, Kb!Take, Kb!Parse, Kb!Store, Kb!StoreUnchecked,
         Kb!Index, Kb!Partial, Kb!Empty, Kb!Validate, Kb!Publish, Kb!PublishUnchecked, Kb!WorkerStops
  <1>3. CASE Kb!WorkerFails \/ Kb!Removing \/ Kb!RemoveCommits \/ Kb!RemoveFails \/ Kb!Delete \/ Kb!Answered
    BY <1>1, <1>3 DEF Kb!WorkerFails, Kb!Removing, Kb!RemoveDir, Kb!Unlink, Kb!RemoveCommits, Kb!DeleteFiles,
         Kb!DeleteCommits, Kb!RemoveFails, Kb!Delete, Kb!Answered
  <1>4. CASE \E r \in Revs : \/ (\E review \in BOOLEAN : Kb!Create(r, review))
                             \/ Kb!Cancel(r) \/ Kb!Pin(r) \/ Kb!Remove(r) \/ Kb!Ask(r)
    BY <1>1, <1>4 DEF Kb!Create, Kb!Cancel, Kb!Pin, Kb!Remove, Kb!Ask
  <1>5. CASE \E f \in Files, c \in Contents : Kb!Edit(f, c)
    BY <1>1, <1>5 DEF Kb!Edit
  <1>6. CASE Kb!Restart \/ Kb!Seen
    BY <1>1, <1>6 DEF Kb!Restart, Kb!Seen
  <1>7. CASE \E r \in Revs : Kb!Resolve(r)
    BY <1>7 DEF Kb!Resolve
  <1>8. CASE Kb!Search
    BY <1>8 DEF Kb!Search, KbInv, KbType
  <1>9. CASE Kb!Validated
    BY <1>1, <1>9 DEF Kb!Validated, Kb!Stands
  <1> QED
    BY <1>2, <1>3, <1>4, <1>5, <1>6, <1>7, <1>8, <1>9 DEF Kb!Next, Kb!Removing

\* Only Publish changes the active revision, and it has checked the job.
LEMMA KbCancelled ==
  ASSUME KbInv, [Kb!Next]_Kb!kbVars
  PROVE  [\A r \in Revs : build[r].cancel /\ active # r => active' # r]_Kb!kbVars
  <1> SUFFICES ASSUME Kb!Next, NEW r \in Revs, build[r].cancel, active # r PROVE active' # r
    OBVIOUS
  <1>1. CASE Kb!Publish
    BY <1>1 DEF Kb!Publish, Kb!PublishUnchecked, Kb!Checked
  <1>2. CASE Kb!DeleteCommits
    BY <1>2, NoneIsNoVersion DEF Kb!DeleteCommits
  <1>3. CASE Kb!Worker /\ ~Kb!Publish
    BY <1>3 DEF Kb!Worker, Kb!Start, Kb!Scan, Kb!Make, Kb!Take, Kb!Parse, Kb!Store, Kb!StoreUnchecked,
         Kb!Index, Kb!Partial, Kb!Empty, Kb!Validate, Kb!WorkerStops
  <1>4. CASE Kb!WorkerFails \/ Kb!RemoveDir \/ Kb!Unlink \/ Kb!RemoveCommits \/ Kb!DeleteFiles \/ Kb!RemoveFails
             \/ Kb!Delete \/ Kb!Answered \/ Kb!Restart \/ Kb!Seen \/ Kb!Search \/ Kb!Validated
    BY <1>4 DEF Kb!WorkerFails, Kb!RemoveDir, Kb!Unlink, Kb!RemoveCommits, Kb!DeleteFiles, Kb!RemoveFails,
         Kb!Delete, Kb!Answered, Kb!Restart, Kb!Seen, Kb!Search, Kb!Validated
  <1>5. CASE \E q \in Revs : \/ (\E review \in BOOLEAN : Kb!Create(q, review))
                             \/ Kb!Cancel(q) \/ Kb!Pin(q) \/ Kb!Remove(q) \/ Kb!Ask(q) \/ Kb!Resolve(q)
    BY <1>5 DEF Kb!Create, Kb!Cancel, Kb!Pin, Kb!Remove, Kb!Ask, Kb!Resolve
  <1>6. CASE \E f \in Files, c \in Contents : Kb!Edit(f, c)
    BY <1>6 DEF Kb!Edit
  <1> QED
    BY <1>1, <1>2, <1>3, <1>4, <1>5, <1>6 DEF Kb!Next, Kb!Removing

\* The workspace alone: what it lists is there, and evidence and cancellation keep their promises.
THEOREM WorkspaceIsSafe ==
  Kb!Init /\ [][Kb!Next]_Kb!kbVars =>
    /\ [](Kb!TypeOK /\ Kb!ActiveIsWhole /\ Kb!KeptKeepDocuments /\ Kb!StrictBuildIsComplete
          /\ Kb!QuestionKeepsRevision /\ Kb!NothingOfDeleted)
    /\ Kb!EvidenceStands /\ Kb!CancelledStaysOut
  <1>1. KbInv => /\ Kb!TypeOK /\ Kb!ActiveIsWhole /\ Kb!KeptKeepDocuments /\ Kb!StrictBuildIsComplete
                 /\ Kb!QuestionKeepsRevision /\ Kb!NothingOfDeleted
    BY KbTypeOK DEF KbInv
  <1>2. KbInv /\ [Kb!Next]_Kb!kbVars =>
          /\ [reader.pc # "found" /\ reader'.pc = "found" =>
                workspace = "live" /\ build[reader.rev].rev = "ready"]_Kb!kbVars
          /\ [\A r \in Revs : build[r].cancel /\ active # r => active' # r]_Kb!kbVars
    BY KbEvidence, KbCancelled
  <1> QED
    BY <1>1, <1>2, KbInit, KbStep, PTL DEF Kb!EvidenceStands, Kb!CancelledStaysOut

-----------------------------------------------------------------------------
(* FolderUpload                                                            *)

FuType ==
    /\ row \in [Uploads -> {"none", "UPLOADING", "COMMITTED", "gone"}]
    /\ stored \in [Uploads -> SUBSET Parts] /\ partial \in [Uploads -> SUBSET Parts]
    /\ staging \in [Uploads -> (SUBSET Parts) \cup {None}]
    /\ published \in [Uploads -> (SUBSET Parts) \cup {None}]
    /\ space \in [Uploads -> 0..1] /\ alive \in [Uploads -> {"none", "live", "marked", "gone"}]
    /\ old \in [Uploads -> BOOLEAN]
    /\ op \in [name : {"none", "insert", "stream", "record", "transaction", "unstage", "forget"},
               s : Uploads \cup {None}, f : Parts \cup {None}]
    /\ deleting \in [pc : {"none", "marked", "wiped"}, s : Uploads \cup {None}]
    /\ crashes \in 0..MaxCrashes /\ breaks \in 0..MaxBreaks

\* The workspace of a session is made with its commit, and a folder is published before it only
\* by the commit under way; what is over has nothing on disk.
FuRows == \A s \in Uploads :
    /\ row[s] \in {"none", "UPLOADING"} => space[s] = 0 /\ alive[s] = "none"
    /\ row[s] = "COMMITTED" => /\ alive[s] \in {"live", "marked"}
                               /\ alive[s] = "live" => published[s] = Parts
    /\ row[s] = "gone" => alive[s] \in {"none", "gone"} /\ staging[s] = None /\ published[s] = None
    /\ published[s] # None => row[s] = "COMMITTED" \/ (op.name = "transaction" /\ op.s = s)

\* What the operation under the lock has found, and nobody else takes away meanwhile.
FuOperation ==
    /\ op.name # "none" => op.s \in Uploads
    /\ op.name = "insert" => row[op.s] = "none"
    /\ op.name \in {"stream", "record"} => row[op.s] = "UPLOADING" /\ op.f \in Parts /\ staging[op.s] # None
    /\ op.name = "transaction" => row[op.s] = "UPLOADING" /\ published[op.s] = Parts
    /\ op.name = "unstage" => row[op.s] \in {"COMMITTED", "gone"}
    /\ op.name = "forget" => row[op.s] = "UPLOADING" /\ staging[op.s] = None /\ published[op.s] = None

\* A workspace being deleted was committed; before its row goes, its directories are gone.
FuDeleting ==
    /\ deleting.pc # "none" =>
        deleting.s \in Uploads /\ row[deleting.s] = "COMMITTED" /\ alive[deleting.s] = "marked"
    /\ deleting.pc = "wiped" => staging[deleting.s] = None /\ published[deleting.s] = None

FuInv == FuType /\ FuRows /\ FuOperation /\ FuDeleting

\* There is no upload and no operation at first.
LEMMA FuInit == Fu!Init => FuInv
  <1> SUFFICES ASSUME Fu!Init PROVE FuInv
    OBVIOUS
  <1> USE DEF Fu!Init, Fu!NoOp, Fu!NoDelete
  <1>1. FuType
    BY NoneIsNoFolder DEF FuType
  <1>2. FuRows /\ FuOperation /\ FuDeleting
    BY DEF FuRows, FuOperation, FuDeleting
  <1> QED
    BY <1>1, <1>2 DEF FuInv

\* The store at rest is at no operation and at no deletion.
LEMMA FuRests ==
    /\ Fu!NoOp.name = "none" /\ Fu!NoOp.s = None /\ Fu!NoDelete.pc = "none"
    /\ Fu!NoOp \in [name : {"none", "insert", "stream", "record", "transaction", "unstage", "forget"},
                    s : Uploads \cup {None}, f : Parts \cup {None}]
    /\ Fu!NoDelete \in [pc : {"none", "marked", "wiped"}, s : Uploads \cup {None}]
  BY DEF Fu!NoOp, Fu!NoDelete

\* One operation follows another under the lock.
LEMMA FuDoes ==
  ASSUME NEW name \in {"insert", "stream", "record", "transaction", "unstage", "forget"},
         NEW s \in Uploads, NEW f \in Parts \cup {None}, Fu!Do(name, s, f)
  PROVE  /\ op' \in [name : {"none", "insert", "stream", "record", "transaction", "unstage", "forget"},
                     s : Uploads \cup {None}, f : Parts \cup {None}]
         /\ op'.name = name /\ op'.s = s /\ op'.f = f
  BY DEF Fu!Do

\* Every step keeps the invariant.
LEMMA FuStep == ASSUME FuInv, [Fu!Next]_Fu!fuVars PROVE FuInv'
  <1> USE DEF FuInv
  <1>1. ASSUME NEW s \in Uploads, Fu!Create(s) PROVE FuInv'
    <2>1. FuType'
      BY <1>1, FuDoes DEF Fu!Create, FuType
    <2>2. FuRows'
      BY <1>1, FuRests DEF Fu!Create, Fu!Free, FuRows
    <2>3. FuOperation'
      BY <1>1, FuDoes DEF Fu!Create, FuOperation
    <2>4. FuDeleting'
      BY <1>1 DEF Fu!Create, FuDeleting
    <2> QED
      BY <2>1, <2>2, <2>3, <2>4
  <1>2. CASE Fu!Insert
    <2>1. FuType'
      BY <1>2, FuRests, NoneIsNoFolder DEF Fu!Insert, FuType
    <2>2. FuRows'
      BY <1>2 DEF Fu!Insert, FuType, FuRows, FuOperation
    <2>3. FuOperation'
      BY <1>2, FuRests DEF Fu!Insert, FuOperation
    <2>4. FuDeleting'
      BY <1>2 DEF Fu!Insert, FuType, FuOperation, FuDeleting
    <2> QED
      BY <2>1, <2>2, <2>3, <2>4
  <1>3. ASSUME NEW s \in Uploads, NEW f \in Parts, Fu!Receive(s, f) PROVE FuInv'
    <2>1. FuType'
      BY <1>3, FuDoes DEF Fu!Receive, FuType
    <2>2. FuRows'
      BY <1>3, FuRests DEF Fu!Receive, Fu!Free, FuRows
    <2>3. FuOperation'
      BY <1>3, FuDoes DEF Fu!Receive, Fu!Usable, FuOperation
    <2>4. FuDeleting'
      BY <1>3 DEF Fu!Receive, FuDeleting
    <2> QED
      BY <2>1, <2>2, <2>3, <2>4
  <1>4. CASE Fu!Interrupted
    <2>1. FuType'
      BY <1>4, FuRests DEF Fu!Interrupted, FuType
    <2>2. FuRows'
      BY <1>4 DEF Fu!Interrupted, FuRows
    <2>3. FuOperation'
      BY <1>4, FuRests DEF Fu!Interrupted, FuOperation
    <2>4. FuDeleting'
      BY <1>4 DEF Fu!Interrupted, FuDeleting
    <2> QED
      BY <2>1, <2>2, <2>3, <2>4
  <1>5. CASE Fu!Replace
    <2>1. FuType'
      BY <1>5, FuDoes DEF Fu!Replace, FuType, FuOperation
    <2>2. FuRows'
      BY <1>5 DEF Fu!Replace, FuRows, FuOperation
    <2>3. FuOperation'
      BY <1>5, FuDoes, NoneIsNoFolder DEF Fu!Replace, FuType, FuOperation
    <2>4. FuDeleting'
      BY <1>5 DEF Fu!Replace, FuOperation, FuDeleting
    <2> QED
      BY <2>1, <2>2, <2>3, <2>4
  <1>6. CASE Fu!Record
    <2>1. FuType'
      BY <1>6, FuRests, NoneIsNoFolder DEF Fu!Record, FuType, FuOperation
    <2>2. FuRows'
      BY <1>6 DEF Fu!Record, FuRows
    <2>3. FuOperation'
      BY <1>6, FuRests DEF Fu!Record, FuOperation
    <2>4. FuDeleting'
      BY <1>6 DEF Fu!Record, FuDeleting
    <2> QED
      BY <2>1, <2>2, <2>3, <2>4
  <1>7. ASSUME NEW s \in Uploads, Fu!Commit(s) PROVE FuInv'
    <2>1. FuType'
      BY <1>7, FuDoes DEF Fu!Commit, FuType
    <2>2. FuRows'
      BY <1>7, FuRests, FuDoes DEF Fu!Commit, Fu!Free, FuRows
    <2>3. FuOperation'
      BY <1>7, FuDoes DEF Fu!Commit, Fu!Usable, FuType, FuOperation
    <2>4. FuDeleting'
      BY <1>7 DEF Fu!Commit, FuDeleting
    <2> QED
      BY <2>1, <2>2, <2>3, <2>4
  <1>8. CASE Fu!Transaction
    <2>1. FuType'
      BY <1>8, FuDoes DEF Fu!Transaction, Fu!Rows, FuType, FuRows, FuOperation
    <2>2. FuRows'
      BY <1>8 DEF Fu!Transaction, Fu!Rows, FuType, FuRows, FuOperation
    <2>3. FuOperation'
      BY <1>8, FuDoes DEF Fu!Transaction, Fu!Rows, FuType, FuOperation
    <2>4. FuDeleting'
      BY <1>8 DEF Fu!Transaction, Fu!Rows, FuOperation, FuDeleting
    <2> QED
      BY <2>1, <2>2, <2>3, <2>4
  <1>9. CASE Fu!TransactionFails
    <2>1. FuType'
      BY <1>9, FuRests, NoneIsNoFolder DEF Fu!TransactionFails, Fu!Withdrawn, FuType, FuOperation
    <2>2. FuRows'
      BY <1>9 DEF Fu!TransactionFails, Fu!Withdrawn, FuType, FuRows, FuOperation
    <2>3. FuOperation'
      BY <1>9, FuRests DEF Fu!TransactionFails, FuOperation
    <2>4. FuDeleting'
      BY <1>9 DEF Fu!TransactionFails, Fu!Withdrawn, FuDeleting
    <2> QED
      BY <2>1, <2>2, <2>3, <2>4
  <1>10. CASE Fu!Unstage
    <2>1. FuType'
      BY <1>10, FuRests, NoneIsNoFolder DEF Fu!Unstage, FuType
    <2>2. FuRows'
      BY <1>10 DEF Fu!Unstage, FuType, FuRows
    <2>3. FuOperation'
      BY <1>10, FuRests DEF Fu!Unstage, FuOperation
    <2>4. FuDeleting'
      BY <1>10 DEF Fu!Unstage, FuType, FuDeleting
    <2> QED
      BY <2>1, <2>2, <2>3, <2>4
  <1>11. ASSUME NEW s \in Uploads, Fu!Discard(s) PROVE FuInv'
    <2>1. FuType'
      BY <1>11, FuDoes DEF Fu!Discard, FuType
    <2>2. FuRows'
      BY <1>11, FuRests DEF Fu!Discard, Fu!Free, FuRows
    <2>3. FuOperation'
      BY <1>11, FuDoes DEF Fu!Discard, FuType, FuOperation
    <2>4. FuDeleting'
      BY <1>11 DEF Fu!Discard, FuDeleting
    <2> QED
      BY <2>1, <2>2, <2>3, <2>4
  <1>12. CASE Fu!Forget
    <2>1. FuType'
      BY <1>12, FuRests DEF Fu!Forget, FuType
    <2>2. FuRows'
      BY <1>12 DEF Fu!Forget, FuRows, FuOperation
    <2>3. FuOperation'
      BY <1>12, FuRests DEF Fu!Forget, FuOperation
    <2>4. FuDeleting'
      BY <1>12 DEF Fu!Forget, FuOperation, FuDeleting
    <2> QED
      BY <2>1, <2>2, <2>3, <2>4
  <1>13. ASSUME NEW s \in Uploads, Fu!Elapse(s) PROVE FuInv'
    <2>1. FuType'
      BY <1>13 DEF Fu!Elapse, FuType
    <2>2. FuRows'
      BY <1>13 DEF Fu!Elapse, FuRows
    <2>3. FuOperation'
      BY <1>13 DEF Fu!Elapse, FuOperation
    <2>4. FuDeleting'
      BY <1>13 DEF Fu!Elapse, FuDeleting
    <2> QED
      BY <2>1, <2>2, <2>3, <2>4
  <1>14. ASSUME NEW s \in Uploads, Fu!Delete(s) PROVE FuInv'
    <2>1. FuType'
      BY <1>14 DEF Fu!Delete, FuType
    <2>2. FuRows'
      BY <1>14 DEF Fu!Delete, FuRows
    <2>3. FuOperation'
      BY <1>14 DEF Fu!Delete, FuOperation
    <2>4. FuDeleting'
      BY <1>14 DEF Fu!Delete, FuType, FuRows, FuDeleting
    <2> QED
      BY <2>1, <2>2, <2>3, <2>4
  <1>15. CASE Fu!Wipe
    <2>1. FuType'
      BY <1>15 DEF Fu!Wipe, FuType
    <2>2. FuRows'
      BY <1>15 DEF Fu!Wipe, FuRows, FuDeleting
    <2>3. FuOperation'
      BY <1>15 DEF Fu!Wipe, FuOperation, FuDeleting
    <2>4. FuDeleting'
      BY <1>15 DEF Fu!Wipe, FuType, FuDeleting
    <2> QED
      BY <2>1, <2>2, <2>3, <2>4
  <1>16. CASE Fu!Deleted
    <2>1. FuType'
      BY <1>16, FuRests DEF Fu!Deleted, FuType
    <2>2. FuRows'
      BY <1>16 DEF Fu!Deleted, FuType, FuRows, FuDeleting
    <2>3. FuOperation'
      BY <1>16 DEF Fu!Deleted, FuOperation, FuDeleting
    <2>4. FuDeleting'
      BY <1>16, FuRests DEF Fu!Deleted, FuDeleting
    <2> QED
      BY <2>1, <2>2, <2>3, <2>4
  <1>17. CASE Fu!Restart
    <2>1. FuType'
      BY <1>17, FuRests, NoneIsNoFolder DEF Fu!Restart, FuType
    <2>2. FuRows'
      BY <1>17 DEF Fu!Restart, Fu!Dropped, Fu!Unpublished, FuRows, FuOperation
    <2>3. FuOperation'
      BY <1>17, FuRests DEF Fu!Restart, FuOperation
    <2>4. FuDeleting'
      BY <1>17, FuRests DEF Fu!Restart, FuDeleting
    <2> QED
      BY <2>1, <2>2, <2>3, <2>4
  <1>18. CASE UNCHANGED Fu!fuVars
    BY <1>18 DEF Fu!fuVars, FuType, FuRows, FuOperation, FuDeleting
  <1> QED
    BY <1>1, <1>2, <1>3, <1>4, <1>5, <1>6, <1>7, <1>8, <1>9, <1>10, <1>11, <1>12, <1>13, <1>14, <1>15, <1>16, <1>17, <1>18
    DEF Fu!Next, Fu!Serve, Fu!Cancel, Fu!Expire, Fu!CommitAgain

\* The invariant implies what the runs check of the uploads.
LEMMA FuHolds ==
  FuInv => Fu!TypeOK /\ Fu!PublishedIsCommitted /\ Fu!OneWorkspace /\ Fu!NoFilesWithoutRow
  <1> SUFFICES ASSUME FuInv
               PROVE  Fu!TypeOK /\ Fu!PublishedIsCommitted /\ Fu!OneWorkspace /\ Fu!NoFilesWithoutRow
    OBVIOUS
  <1> USE DEF FuInv
  <1>1. Fu!TypeOK
    BY DEF FuType, Fu!TypeOK
  <1>2. Fu!PublishedIsCommitted /\ Fu!NoFilesWithoutRow
    BY DEF Fu!PublishedIsCommitted, Fu!NoFilesWithoutRow, FuRows, Fu!Free, Fu!NoOp
  <1>3. Fu!OneWorkspace
    BY DEF FuType, Fu!OneWorkspace
  <1> QED
    BY <1>1, <1>2, <1>3

\* Whatever operation of an upload fails, is retried, expires or is cut off by a crash, a folder
\* is published for the committed sessions only and whole, makes one workspace and leaves nothing.
THEOREM UploadsAreSafe ==
  Fu!Init /\ [][Fu!Next]_Fu!fuVars =>
    [](Fu!TypeOK /\ Fu!PublishedIsCommitted /\ Fu!OneWorkspace /\ Fu!NoFilesWithoutRow)
  <1>1. Fu!Init => FuInv
    BY FuInit
  <1>2. FuInv /\ [Fu!Next]_Fu!fuVars => FuInv'
    BY FuStep
  <1> QED
    BY <1>1, <1>2, FuHolds, PTL

-----------------------------------------------------------------------------
(* The service                                                             *)

\* A step of the service is a step of each of these modules, or leaves it alone.
LEMMA KnowledgeSteps == ASSUME [Next]_all PROVE [Kb!Next]_(Kb!kbVars) /\ [Fu!Next]_(Fu!fuVars)
  <1> USE DEF Rest, KbRests, QqRests, all, kb, fu, Kb!kbVars, Fu!fuVars
  <1>1. [Kb!Next]_(Kb!kbVars)
    BY DEF Next
  <1>2. [Fu!Next]_(Fu!fuVars)
    BY DEF Next
  <1> QED
    BY <1>1, <1>2

\* What a workspace says it has is there (KnowledgeHolds): for every number of revisions, files,
\* contents, uploads and parts, through faults, cancellations, removals, crashes and restarts.
THEOREM KnowledgeIsSafe == Spec => []KnowledgeHolds
  <1>1. Init => KbInv /\ FuInv
    BY KbInit, FuInit DEF Init
  <1>2. KbInv /\ FuInv /\ [Next]_all => (KbInv /\ FuInv)'
    BY KnowledgeSteps, KbStep, FuStep
  <1>3. KbInv /\ FuInv => KnowledgeHolds
    BY KbTypeOK, FuHolds DEF KnowledgeHolds, KbInv
  <1> QED
    BY <1>1, <1>2, <1>3, PTL DEF Spec

\* What a step of the service never does (StepsHold): return evidence of what is going, activate
\* a cancelled build, take a result back, or leave a selection of an account half done.
THEOREM StepsAreSafe == Spec => StepsHold
  <1> DEFINE Inv == KbInv /\ QqInv /\ PaInv
  <1>1. Init => Inv
    BY KbInit, QqInit, PaInit DEF Init
  <1>2. Inv /\ [Next]_all => Inv'
    BY KnowledgeSteps, WorkSteps, KbStep, QqStep, PaStep
  <1>3. Inv /\ [Next]_all =>
          /\ [reader.pc # "found" /\ reader'.pc = "found" =>
                workspace = "live" /\ build[reader.rev].rev = "ready"]_(Kb!kbVars)
          /\ [\A r \in Revs : build[r].cancel /\ active # r => active' # r]_(Kb!kbVars)
    BY KnowledgeSteps, KbEvidence, KbCancelled
  <1>4. Inv /\ [Next]_all =>
          [\A q \in Questions : question[q].status \in Qq!Ended \cup {"gone"} =>
             question'[q].status \in {question[q].status, "gone"}]_(Qq!qqVars)
    BY WorkSteps, QqResults
  <1>5. Inv /\ [Next]_all =>
          /\ [report' # report /\ report'.outcome = "selected" => enabled' = {report'.target}]_(Pa!paVars)
          /\ [accountOp.pc = "rollback" /\ accountOp'.pc = "idle" /\ report'.outcome = "failed" /\ ~meddled
                => enabled' = report'.before]_(Pa!paVars)
    BY WorkSteps, PaSelected, PaRestored
  <1> QED
    BY <1>1, <1>2, <1>3, <1>4, <1>5, PTL
    DEF Spec, StepsHold, Kb!EvidenceStands, Kb!CancelledStaysOut, Qq!ResultsStay, Pa!SelectedIsAlone,
        Pa!FailedIsRestored
=============================================================================
