--------------------------- MODULE MeetingJobsProofs ---------------------------
(***************************************************************************)
(* What MeetingJobs guarantees for every number of rows, slots, clients,   *)
(* sessions and keys: its types and permits, the fencing by leases, what   *)
(* rows say when threads, requests and restarts interleave (an analysis    *)
(* belongs to the scope of its row, a missed deadline stays recorded), and *)
(* what those who deliver utterances can rely on (a lane kept for live     *)
(* questions, one analysis per utterance, of its newest source).           *)
(***************************************************************************)
EXTENDS MeetingJobs, FiniteSetTheorems, TLAPS

-----------------------------------------------------------------------------
(* Types of the helpers *)

\* The absent row is a row.
LEMMA NoRowType == NoRow \in Row
  BY ConstantsAssumption DEF NoRow, Row, States, Stages, Classes

\* Reading a row into a thread keeps its columns.
LEMMA CopyType == ASSUME NEW r \in Row PROVE CopyOf(r) \in Copy
  BY DEF Row, Copy, CopyOf

\* A thread that has read nothing has an empty copy.
LEMMA NoCopyType == NoCopy \in Copy
  BY NoRowType, CopyType DEF NoCopy

\* A free slot is one.
LEMMA FreeWorkerType == FreeWorker \in Worker
  BY NoCopyType DEF FreeWorker, Worker

\* Between ticks there is no snapshot.
LEMMA NoTickType == NoTick \in [todo : SUBSET Slots, avail : SUBSET Ids, rows : [Ids -> Copy]]
  BY NoCopyType DEF NoTick

\* Withdrawing rows keeps their columns.
LEMMA WithdrawType ==
  ASSUME jobs \in [Ids -> Row], NEW S, NEW how \in Withdrawn
  PROVE  Withdraw(S, how) \in [Ids -> Row]
  <1>1. how \in States
    BY DEF Withdrawn, States, TERMINAL
  <1>2. ASSUME NEW i \in Ids
        PROVE  [jobs[i] EXCEPT !.state = how, !.lease = None, !.result = None,
                               !.checkpoint = None] \in Row
    <2>1. jobs[i] \in Row
      OBVIOUS
    <2> QED
      BY <1>1, <2>1 DEF Row
  <1> QED
    BY <1>2 DEF Withdraw

\* So does withdrawing the open rows of a session.
LEMMA InvalidatedType ==
  ASSUME jobs \in [Ids -> Row], NEW s, NEW how \in Withdrawn
  PROVE  Invalidated(s, how) \in [Ids -> Row]
  BY WithdrawType DEF Invalidated

\* And sending a row back to the classifier.
LEMMA ReclassifiedType ==
  ASSUME NEW r \in Row, NEW v \in 0..MaxVersion, NEW sc \in Scopes
  PROVE  Reclassified(r, v, sc) \in Row
  <1>1. "QUEUED" \in States /\ "classify" \in Stages /\ "none" \in Classes
    BY DEF States, RUNNABLE, Stages, Classes
  <1> QED
    BY <1>1 DEF Reclassified, Row

\* And the watchdog.
LEMMA MarkedType == ASSUME jobs \in [Ids -> Row] PROVE Marked \in [Ids -> Row]
  <1>1. ASSUME NEW r \in Row, NEW b \in BOOLEAN PROVE [r EXCEPT !.missed = b] \in Row
    BY DEF Row
  <1> QED
    BY <1>1 DEF Marked

\* And pausing the rows a slot is held back from.
LEMMA RestingType ==
  ASSUME jobs \in [Ids -> Row], NEW s PROVE Resting(s) \in [Ids -> Row]
  BY DEF Resting, Row, States, RUNNABLE

\* Lateness at the end is a truth value.
LEMMA MissedType ==
  ASSUME NEW w \in Worker, w.id \in Ids, jobs \in [Ids -> Row], NEW class
  PROVE  MissedAtEnd(w, class) \in BOOLEAN
  BY DEF MissedAtEnd, Worker, Copy, Row

\* A classified row is a row.
LEMMA ClassifiedType ==
  ASSUME NEW w \in Worker, w.id \in Ids, jobs \in [Ids -> Row], NEW class \in Classes
  PROVE  Classified(w, class) \in Row
  <1>1. w.row.scope \in Scopes \cup {None} /\ jobs[w.id] \in Row
    BY DEF Worker, Copy
  <1> QED
    BY <1>1 DEF Classified, Row

\* A completed row is a row.
LEMMA CompletedType ==
  ASSUME NEW w \in Worker, w.id \in Ids, jobs \in [Ids -> Row], NEW r \in Row,
         NEW basis \in Scopes \cup {None}
  PROVE  Completed(r, w, basis) \in Row
  <1>1. /\ MissedAtEnd(w, r.class) \in BOOLEAN
        /\ "COMPLETED" \in States /\ "done" \in Stages
    BY MissedType DEF States, TERMINAL, Stages
  <1> QED
    BY <1>1 DEF Completed, Row

\* A row that is tried again, or given up, is a row.
LEMMA FailedType ==
  ASSUME NEW w \in Worker, w.id \in Ids, jobs \in [Ids -> Row]
  PROVE  Failed(w) \in Row
  <1> DEFINE n == w.row.attempts + 1
             r == [jobs[w.id] EXCEPT !.attempts = n, !.lease = None]
  <1>1. n \in Nat /\ jobs[w.id] \in Row
    BY DEF Worker, Copy
  <1>2. r \in Row
    <2> HIDE DEF n
    <2> QED
      BY <1>1 DEF Row
  <1>3. [r EXCEPT !.state = "RETRY_WAIT"] \in Row
    BY <1>2 DEF Row, States, RUNNABLE
  <1>4. [r EXCEPT !.state = "FAILED", !.missed = MissedAtEnd(w, w.row.class)] \in Row
    <2>1. MissedAtEnd(w, w.row.class) \in BOOLEAN /\ "FAILED" \in States
      BY MissedType DEF States, TERMINAL
    <2> QED
      BY <1>2, <2>1 DEF Row
  <1> QED
    BY <1>3, <1>4 DEF Failed

\* Whatever the outcome of a thread, the UPDATE writes a row of the table.
LEMMA OutcomeType ==
  ASSUME NEW w \in Worker, w.id \in Ids, jobs \in [Ids -> Row]
  PROVE  Outcome(w) \in Row
  <1> DEFINE r == jobs[w.id]
  <1>0. /\ r \in Row
        /\ {"none", "PQ", "SQ"} \subseteq Classes
        /\ w.row.scope \in Scopes \cup {None}
        /\ w.row.classification \in Scopes \cup {None}
    BY DEF Classes, Worker, Copy
  <1>1. [r EXCEPT !.state = "QUEUED", !.lease = None] \in Row
    BY <1>0 DEF Row, States, RUNNABLE
  <1>2. [Classified(w, "none") EXCEPT !.stage = "context", !.state = "AWAITING_CONTEXT"] \in Row
    <2>1. Classified(w, "none") \in Row
      BY <1>0, ClassifiedType
    <2> QED
      BY <2>1 DEF Row, States, Stages, RUNNABLE
  <1>3. /\ Completed(Classified(w, "none"), w, w.row.scope) \in Row
        /\ Completed(Classified(w, "PQ"), w, w.row.scope) \in Row
    BY <1>0, ClassifiedType, CompletedType
  <1>4. ASSUME NEW class \in {"PQ", "SQ"}
        PROVE  [Classified(w, class) EXCEPT !.stage = "retrieve", !.state = "QUEUED"] \in Row
    <2>1. Classified(w, class) \in Row
      BY <1>0, ClassifiedType
    <2> QED
      BY <2>1 DEF Row, States, Stages, RUNNABLE
  <1>5. Completed(r, w, w.row.classification) \in Row
    BY <1>0, CompletedType
  <1>6. [r EXCEPT !.stage = "generate", !.state = "QUEUED", !.attempts = 0,
                  !.checkpoint = w.row.classification, !.lease = None] \in Row
    BY <1>0 DEF Row, States, Stages, RUNNABLE
  <1>7. Completed([r EXCEPT !.attempts = 0], w, w.row.classification) \in Row
    <2>1. [r EXCEPT !.attempts = 0] \in Row
      BY <1>0 DEF Row
    <2> QED
      BY <1>0, <2>1, CompletedType
  <1>8. [r EXCEPT !.state = "CANCELLED", !.lease = None,
                  !.result = None, !.checkpoint = None] \in Row
    BY <1>0 DEF Row, States, TERMINAL
  <1>9. Failed(w) \in Row
    BY FailedType
  <1> QED
    BY <1>1, <1>2, <1>3, <1>4, <1>5, <1>6, <1>7, <1>8, <1>9 DEF Outcome

-----------------------------------------------------------------------------
(* Types, and the permits of the LLM gate *)

\* A busy thread was given a row; permits are held from the start of a call to
\* its commit; slots to visit were free when the tick began and stay free.
PoolOK ==
    \A s \in Slots :
        /\ Busy(s) => worker[s].id \in Ids
        /\ worker[s].gate => worker[s].pc \in {"calling", "commit"}
        /\ s \in tick.todo => ~Busy(s)

\* TypeOK alone is not inductive: gate + 1 stays a number of permits only
\* because permits are conserved, which needs to know who holds them.
TypeInv == TypeOK /\ PoolOK /\ GateConserved

\* To begin with all slots are free and all permits there.
LEMMA InitTypeInv == Init => TypeInv
  <1> SUFFICES ASSUME Init PROVE TypeInv
    OBVIOUS
  <1>1. TypeOK
    <2>1. jobs \in [Ids -> Row]
      BY NoRowType DEF Init
    <2>2. worker \in [Slots -> Worker]
      BY FreeWorkerType DEF Init
    <2>3. tick \in [todo : SUBSET Slots, avail : SUBSET Ids, rows : [Ids -> Copy]]
      BY NoTickType DEF Init
    <2>4. client \in [Clients -> Request]
      BY DEF Init, Request
    <2>5. gate \in 0..GateSize /\ faults \in 0..MaxFaults
      BY ConstantsAssumption DEF Init
    <2>6. sub \in [Sessions -> [exists : BOOLEAN, enabled : BOOLEAN,
                                revision : Revisions \cup {None}, gen : 0..MaxGen]]
      BY ConstantsAssumption DEF Init
    <2>7. policy \in [ver : 0..MaxVersion, scope : Scopes]
      BY ConstantsAssumption DEF Init
    <2> QED
      BY <2>1, <2>2, <2>3, <2>4, <2>5, <2>6, <2>7 DEF Init, TypeOK
  <1>2. PoolOK
    BY DEF Init, PoolOK, Busy, FreeWorker
  <1>3. GateConserved
    <2>1. {s \in Slots : worker[s].gate} = {}
      BY DEF Init, FreeWorker
    <2>2. Cardinality({}) = 0
      BY FS_EmptySet
    <2>3. gate = GateSize /\ GateSize \in Nat
      BY ConstantsAssumption DEF Init
    <2> QED
      BY <2>1, <2>2, <2>3 DEF GateConserved
  <1> QED
    BY <1>1, <1>2, <1>3 DEF TypeInv

\* A step that leaves the pool and the gate alone keeps what is said of them.
LEMMA PoolFrame ==
  ASSUME TypeInv, TypeOK', UNCHANGED <<worker, gate>>,
         \A s \in tick'.todo : ~Busy(s)
  PROVE  TypeInv'
  BY DEF TypeInv, PoolOK, Busy, GateConserved

\* Nor does a step that leaves the scheduler alone as well disturb it.
LEMMA Frame ==
  ASSUME TypeInv, TypeOK', UNCHANGED <<worker, gate, tick>>
  PROVE  TypeInv'
  BY DEF TypeInv, PoolOK, Busy, GateConserved

SubType == [Sessions -> [exists : BOOLEAN, enabled : BOOLEAN,
                         revision : Revisions \cup {None}, gen : 0..MaxGen]]

\* Subscribing, cancelling and syncing keep the types.
LEMMA SubscriptionTypes ==
  ASSUME TypeInv, NEW s \in Sessions, SessionStep(s)
  PROVE  TypeInv'
  <1>0. jobs \in [Ids -> Row] /\ {"CANCELLED", "SUPERSEDED"} = Withdrawn
    BY DEF TypeInv, TypeOK, Withdrawn
  <1>1. ASSUME NEW on \in BOOLEAN, NEW rev \in Revisions \cup {None}, Subscribe(s, on, rev)
        PROVE  TypeOK'
    <2>1. jobs' \in [Ids -> Row]
      BY <1>0, <1>1, InvalidatedType DEF Subscribe
    <2>2. sub' \in SubType
      <3>1. sub \in SubType
        BY DEF TypeInv, TypeOK, SubType
      <3>2. sub' = [sub EXCEPT ![s] = [[[sub[s] EXCEPT !.exists = TRUE] EXCEPT !.enabled = on]
                                          EXCEPT !.revision = rev]]
        BY <1>1, <3>1 DEF Subscribe, SubType
      <3> QED
        BY <3>1, <3>2 DEF SubType
    <2> QED
      BY <1>1, <2>1, <2>2 DEF Subscribe, TypeInv, TypeOK, SubType
  <1>2. ASSUME NEW delete \in BOOLEAN, Cancel(s, delete)
        PROVE  TypeOK'
    <2>1. jobs' \in [Ids -> Row]
      BY <1>0, <1>2, InvalidatedType, NoRowType DEF Cancel
    <2> QED
      BY <1>2, <2>1 DEF Cancel, TypeInv, TypeOK
  <1>3. ASSUME NEW present \in SUBSET Utterances, NEW g \in 0..MaxGen, Sync(s, present, g)
        PROVE  TypeOK'
    <2>1. jobs' \in [Ids -> Row]
      BY <1>0, <1>3, WithdrawType DEF Sync
    <2>2. sub' \in SubType
      BY <1>3 DEF Sync, TypeInv, TypeOK, SubType
    <2> QED
      BY <1>3, <2>1, <2>2 DEF Sync, TypeInv, TypeOK, SubType
  <1>4. UNCHANGED <<worker, gate, tick>>
    BY DEF SessionStep, Subscribe, Cancel, Sync
  <1> QED
    BY <1>1, <1>2, <1>3, <1>4, Frame DEF SessionStep

\* The requests of TypeOK are told apart by op.
LEMMA RequestFields ==
  ASSUME NEW b \in Request
  PROVE  /\ b.op = "enqueue" => /\ b.key \in Keys /\ b.gen \in 0..MaxGen
                                /\ b.revision \in Revisions \cup {None}
                                /\ b.ver \in 0..MaxVersion /\ b.scope \in Scopes
         /\ b.op = "retry" => b.id \in Ids /\ b.ver \in 0..MaxVersion /\ b.scope \in Scopes
         /\ b.op \in {"save", "reread"} => b.before \in Scopes
         /\ b.op = "apply" => b.ver \in 0..MaxVersion /\ b.scope \in Scopes
  BY DEF Request, Idle

\* A client without a request is idle.
LEMMA IdleType == Idle \in Request
  BY DEF Request

\* Admitting a delivery keeps the types.
LEMMA EnqueueTypes ==
  ASSUME TypeInv, NEW c \in Clients,
         \/ \E k \in Keys, g \in 0..MaxGen : EnqueueRead(c, k, g)
         \/ EnqueueAnswer(c)
         \/ \E j \in Ids : EnqueueInsert(c, j)
  PROVE  TypeInv'
  <1>1. ASSUME NEW k \in Keys, NEW g \in 0..MaxGen, EnqueueRead(c, k, g)
        PROVE  TypeOK'
    <2>1. sub[SessionOf[k]].revision \in Revisions \cup {None}
      BY ConstantsAssumption DEF TypeInv, TypeOK
    <2>2. [op |-> "enqueue", key |-> k, gen |-> g, revision |-> sub[SessionOf[k]].revision,
           ver |-> policy.ver, scope |-> policy.scope] \in Request
      <3>1. policy.ver \in 0..MaxVersion /\ policy.scope \in Scopes
        BY DEF TypeInv, TypeOK
      <3> QED
        BY <2>1, <3>1 DEF Request
    <2>3. client' \in [Clients -> Request]
      BY <1>1, <2>2 DEF EnqueueRead, TypeInv, TypeOK
    <2> QED
      BY <1>1, <2>3 DEF EnqueueRead, TypeInv, TypeOK
  <1>2. CASE EnqueueAnswer(c)
    <2>1. TypeOK'
      BY <1>2, IdleType DEF EnqueueAnswer, TypeInv, TypeOK
    <2> QED
      BY <1>2, <2>1, Frame DEF EnqueueAnswer
  <1>3. ASSUME NEW j \in Ids, EnqueueInsert(c, j)
        PROVE  TypeOK'
    <2> DEFINE b == client[c]
               new == [NoRow EXCEPT !.key = b.key, !.gen = b.gen, !.revision = b.revision,
                                    !.ver = b.ver, !.scope = b.scope, !.state = "QUEUED"]
               rest == Withdraw(Superseding(b.key), "SUPERSEDED")
    <2>1. b \in Request /\ b.op = "enqueue"
      BY <1>3 DEF EnqueueInsert, TypeInv, TypeOK
    <2>2. new \in Row
      <3>1. /\ b.key \in Keys /\ b.gen \in 0..MaxGen /\ b.revision \in Revisions \cup {None}
            /\ b.ver \in 0..MaxVersion /\ b.scope \in Scopes
        BY <2>1, RequestFields
      <3>2. "QUEUED" \in States
        BY DEF States, RUNNABLE
      <3> HIDE DEF b
      <3> QED
        BY <3>1, <3>2, NoRowType DEF Row
    <2>3. rest \in [Ids -> Row]
      BY WithdrawType DEF TypeInv, TypeOK, Withdrawn
    <2>4. jobs' = [i \in Ids |-> IF i = j THEN new ELSE IF i \in Old(b) THEN NoRow ELSE rest[i]]
      BY <1>3 DEF EnqueueInsert
    <2>5. jobs' \in [Ids -> Row]
      <3> HIDE DEF new, rest
      <3> QED
        BY <2>2, <2>3, <2>4, NoRowType
    <2>6. late' \subseteq Ids /\ client' \in [Clients -> Request]
      BY <1>3, IdleType DEF EnqueueInsert, TypeInv, TypeOK
    <2> QED
      BY <1>3, <2>5, <2>6 DEF EnqueueInsert, TypeInv, TypeOK
  <1>4. UNCHANGED <<worker, gate, tick>>
    BY DEF EnqueueRead, EnqueueAnswer, EnqueueInsert
  <1> QED
    BY <1>1, <1>2, <1>3, <1>4, Frame

\* Retrying a row keeps the types.
LEMMA RetryTypes ==
  ASSUME TypeInv, NEW c \in Clients, (\E i \in Ids : RetryRead(c, i)) \/ RetryCommit(c)
  PROVE  TypeInv'
  <1>1. ASSUME NEW i \in Ids, RetryRead(c, i)
        PROVE  TypeOK'
    <2>1. policy.ver \in 0..MaxVersion /\ policy.scope \in Scopes
      BY DEF TypeInv, TypeOK
    <2>2. [op |-> "retry", id |-> i, ver |-> policy.ver, scope |-> policy.scope] \in Request
      BY <2>1 DEF Request
    <2>3. client' \in [Clients -> Request]
      BY <1>1, <2>2 DEF RetryRead, TypeInv, TypeOK
    <2> QED
      BY <1>1, <2>3 DEF RetryRead, TypeInv, TypeOK
  <1>2. CASE RetryCommit(c)
    <2> DEFINE b == client[c]
    <2>1. b \in Request /\ b.op = "retry"
      BY <1>2 DEF RetryCommit, TypeInv, TypeOK
    <2>2. b.ver \in 0..MaxVersion /\ b.scope \in Scopes
      BY <2>1, RequestFields
    <2>3. Retried(b) \in [Ids -> Row]
      BY <2>2, ReclassifiedType DEF Retried, TypeInv, TypeOK
    <2>4. jobs' \in [Ids -> Row] /\ client' \in [Clients -> Request]
      BY <1>2, <2>3, IdleType DEF RetryCommit, TypeInv, TypeOK
    <2>5. TypeOK'
      BY <1>2, <2>4 DEF RetryCommit, TypeInv, TypeOK
    <2> QED
      BY <1>2, <2>5, Frame DEF RetryCommit
  <1>3. ASSUME NEW i \in Ids, RetryRead(c, i)
        PROVE  UNCHANGED <<worker, gate, tick>>
    BY <1>3 DEF RetryRead
  <1> QED
    BY <1>1, <1>2, <1>3, Frame

\* Saving and applying a policy keep the types.
LEMMA PolicyTypes ==
  ASSUME TypeInv, NEW c \in Clients,
         \/ PolicyRead(c)
         \/ \E sc \in Scopes : PolicySave(c, sc)
         \/ PolicyConflict(c)
         \/ PolicyReread(c)
         \/ PolicyApply(c)
  PROVE  TypeInv'
  <1>0. /\ client[c] \in Request /\ policy.ver \in 0..MaxVersion /\ policy.scope \in Scopes
        /\ client \in [Clients -> Request]
    BY DEF TypeInv, TypeOK
  <1>1. CASE PolicyRead(c)
    <2>1. [op |-> "save", before |-> policy.scope] \in Request
      BY <1>0 DEF Request
    <2>2. client' \in [Clients -> Request]
      BY <1>0, <1>1, <2>1 DEF PolicyRead
    <2>3. TypeOK'
      BY <1>1, <2>2 DEF PolicyRead, TypeInv, TypeOK
    <2> QED
      BY <1>1, <2>3, Frame DEF PolicyRead
  <1>2. ASSUME NEW sc \in Scopes, PolicySave(c, sc)
        PROVE  TypeInv'
    <2>1. client[c].before \in Scopes
      BY <1>0, <1>2, RequestFields DEF PolicySave
    <2>2. [op |-> "reread", before |-> client[c].before] \in Request
      BY <2>1 DEF Request
    <2>3. client' \in [Clients -> Request]
      BY <1>0, <1>2, <2>2 DEF PolicySave
    <2>4. policy' \in [ver : 0..MaxVersion, scope : Scopes]
      BY <1>0, <1>2, ConstantsAssumption DEF PolicySave
    <2>5. TypeOK'
      BY <1>2, <2>3, <2>4 DEF PolicySave, TypeInv, TypeOK
    <2> QED
      BY <1>2, <2>5, Frame DEF PolicySave
  <1>3. CASE PolicyConflict(c)
    <2>1. TypeOK'
      BY <1>3, IdleType DEF PolicyConflict, TypeInv, TypeOK
    <2> QED
      BY <1>3, <2>1, Frame DEF PolicyConflict
  <1>4. CASE PolicyReread(c)
    <2>1. [op |-> "apply", ver |-> policy.ver, scope |-> policy.scope] \in Request
      BY <1>0 DEF Request
    <2>2. client' \in [Clients -> Request]
      BY <1>0, <1>4, <2>1, IdleType DEF PolicyReread
    <2>3. TypeOK'
      BY <1>4, <2>2 DEF PolicyReread, TypeInv, TypeOK
    <2> QED
      BY <1>4, <2>3, Frame DEF PolicyReread
  <1>5. CASE PolicyApply(c)
    <2> DEFINE b == client[c]
    <2>1. b.ver \in 0..MaxVersion /\ b.scope \in Scopes
      BY <1>0, <1>5, RequestFields DEF PolicyApply
    <2>2. Reapplied(b) \in [Ids -> Row]
      BY <2>1, ReclassifiedType DEF Reapplied, TypeInv, TypeOK
    <2>3. jobs' \in [Ids -> Row] /\ client' \in [Clients -> Request]
      BY <1>5, <2>2, IdleType DEF PolicyApply, TypeInv, TypeOK
    <2>4. TypeOK'
      BY <1>5, <2>3 DEF PolicyApply, TypeInv, TypeOK
    <2> QED
      BY <1>5, <2>4, Frame DEF PolicyApply
  <1> QED
    BY <1>1, <1>2, <1>3, <1>4, <1>5

\* A tick takes its snapshot from typed rows.
LEMMA TickTypes == ASSUME TypeInv, TickStep PROVE TypeInv'
  <1>1. CASE TickRaises
    <2>1. TypeOK'
      BY <1>1, MarkedType DEF TickRaises, TypeInv, TypeOK
    <2> QED
      BY <1>1, <2>1, Frame DEF TickRaises
  <1>2. ASSUME NEW m \in {"NORMAL", "PRESSURED", "RECOVERY"}, NEW due \in SUBSET Delayed,
               TickPlan(m, due)
        PROVE  TypeInv'
    <2>1. Marked \in [Ids -> Row]
      BY MarkedType DEF TypeInv, TypeOK
    <2> DEFINE avail == Available(due)
               rows == [i \in Ids |-> IF i \in avail THEN CopyOf(Marked[i]) ELSE NoCopy]
    <2>2. avail \in SUBSET Ids /\ rows \in [Ids -> Copy]
      BY <2>1, CopyType, NoCopyType DEF Available
    <2>3. tick' \in [todo : SUBSET Slots, avail : SUBSET Ids, rows : [Ids -> Copy]]
      <3> HIDE DEF avail, rows
      <3>1. \A todo \in SUBSET Slots : [todo |-> todo, avail |-> avail, rows |-> rows]
               \in [todo : SUBSET Slots, avail : SUBSET Ids, rows : [Ids -> Copy]]
        BY <2>2
      <3>2. \E todo \in SUBSET Slots :
               tick' = IF todo = {} THEN NoTick ELSE [todo |-> todo, avail |-> avail, rows |-> rows]
        BY <1>2 DEF TickPlan, avail, rows
      <3> QED
        BY <3>1, <3>2, NoTickType
    <2>4. TypeOK'
      BY <1>2, <2>1, <2>3 DEF TickPlan, TypeInv, TypeOK
    <2>5. tick'.todo \subseteq {s \in Slots : ~Busy(s)}
      BY <1>2 DEF TickPlan, NoTick
    <2> QED
      BY <1>2, <2>4, <2>5, PoolFrame DEF TickPlan
  <1> QED
    BY <1>1, <1>2 DEF TickStep

\* Claiming a row, or finding none, keeps the types.
LEMMA VisitTypes == ASSUME TypeInv, VisitStep PROVE TypeInv'
  <1>0. /\ jobs \in [Ids -> Row] /\ worker \in [Slots -> Worker]
        /\ tick \in [todo : SUBSET Slots, avail : SUBSET Ids, rows : [Ids -> Copy]]
    BY DEF TypeInv, TypeOK
  <1>1. ASSUME NEW s \in Slots, NEW i
        PROVE  /\ Visited(s, i) \in [todo : SUBSET Slots, avail : SUBSET Ids, rows : [Ids -> Copy]]
               /\ Visited(s, i).todo \subseteq tick.todo \ {s}
    BY <1>0, NoTickType DEF Visited, NoTick
  <1>2. ASSUME NEW s \in Slots, Miss(s)
        PROVE  TypeInv'
    <2>1. TypeOK'
      BY <1>1, <1>2, RestingType DEF Miss, TypeInv, TypeOK
    <2>2. \A u \in tick'.todo : ~Busy(u)
      BY <1>0, <1>1, <1>2 DEF Miss, TypeInv, PoolOK
    <2> QED
      BY <1>2, <2>1, <2>2, PoolFrame DEF Miss
  <1>3. ASSUME NEW s \in Slots, NEW i \in Ids, NEW t \in Tokens, Claim(s, i, t)
        PROVE  TypeInv'
    <2> DEFINE row == [tick.rows[i] EXCEPT !.lease = t]
               w == [pc |-> "begin", id |-> i, row |-> row, gate |-> FALSE, out |-> "none"]
    <2>1. row \in Copy
      <3>1. tick.rows[i] \in Copy
        BY <1>0
      <3> QED
        BY <3>1 DEF Copy
    <2>2. w \in Worker
      <3> HIDE DEF row
      <3> QED
        BY <2>1 DEF Worker
    <2>3. worker' = [worker EXCEPT ![s] = w] /\ worker' \in [Slots -> Worker]
      BY <1>0, <1>3, <2>2 DEF Claim
    <2>4. jobs' \in [Ids -> Row]
      <3>1. Resting(s) \in [Ids -> Row]
        BY <1>0, RestingType
      <3>2. {"CLASSIFYING", "RUNNING"} \subseteq States
        BY DEF States, InFlight
      <3>3. \A r \in Row : \A st \in States : [[r EXCEPT !.state = st] EXCEPT !.lease = t] \in Row
        BY DEF Row
      <3>4. jobs' = [Resting(s) EXCEPT ![i] = [[Resting(s)[i] EXCEPT
                        !.state = IF s \in FilterSlots THEN "CLASSIFYING" ELSE "RUNNING"]
                        EXCEPT !.lease = t]]
        BY <1>3, <3>1 DEF Claim
      <3> QED
        BY <3>1, <3>2, <3>3, <3>4
    <2>5. TypeOK'
      BY <1>1, <1>3, <2>3, <2>4 DEF Claim, TypeInv, TypeOK
    <2>6. s \in tick.todo /\ tick' = Visited(s, i)
      BY <1>3 DEF Claim, Visits
    <2>7. ~worker[s].gate /\ ~worker'[s].gate
      BY <1>0, <2>3, <2>6 DEF TypeInv, PoolOK, Busy
    <2>8. PoolOK'
      <3>1. worker'[s].id \in Ids /\ ~worker'[s].gate /\ s \notin tick'.todo
        BY <1>0, <1>1, <2>3, <2>6, <2>7
      <3>2. \A u \in Slots \ {s} : worker'[u] = worker[u]
        BY <1>0, <2>3
      <3> QED
        BY <1>0, <1>1, <2>6, <3>1, <3>2 DEF TypeInv, PoolOK, Busy
    <2>9. {u \in Slots : worker'[u].gate} = {u \in Slots : worker[u].gate}
      BY <1>0, <2>3, <2>7
    <2>10. GateConserved'
      BY <1>3, <2>9 DEF Claim, TypeInv, GateConserved
    <2> QED
      BY <2>5, <2>8, <2>10 DEF TypeInv
  <1> QED
    BY <1>2, <1>3 DEF VisitStep

-----------------------------------------------------------------------------
(* Threads *)

\* A permit taken from the gate or given back: the arithmetic of GateConserved.
LEMMA GateArithmetic ==
  ASSUME TypeInv, NEW s \in Slots, NEW w \in Worker, worker' = [worker EXCEPT ![s] = w],
         gate' = gate + (IF worker[s].gate THEN 1 ELSE 0) - (IF w.gate THEN 1 ELSE 0),
         gate' >= 0
  PROVE  gate' \in 0..GateSize /\ GateConserved'
  <1> DEFINE H == {u \in Slots : worker[u].gate}
             K == {u \in Slots : worker'[u].gate}
  <1>0. /\ worker \in [Slots -> Worker] /\ gate \in 0..GateSize /\ GateSize \in Nat
        /\ gate + Cardinality(H) = GateSize
        /\ worker'[s] = w /\ \A u \in Slots \ {s} : worker'[u] = worker[u]
        /\ \A u \in Slots : worker[u].gate \in BOOLEAN
        /\ w.gate \in BOOLEAN
    BY ConstantsAssumption DEF TypeInv, TypeOK, GateConserved, Worker
  <1>1. IsFiniteSet(H) /\ IsFiniteSet(K)
    BY ConstantsAssumption, FS_Subset
  <1>3. Cardinality(H \ {s}) = IF s \in H THEN Cardinality(H) - 1 ELSE Cardinality(H)
    <2> HIDE DEF H
    <2> QED
      BY <1>1, FS_RemoveElement
  <1>4. Cardinality(K \ {s}) = IF s \in K THEN Cardinality(K) - 1 ELSE Cardinality(K)
    <2> HIDE DEF K
    <2> QED
      BY <1>1, FS_RemoveElement
  <1>5. Cardinality(H) \in Nat /\ Cardinality(K) \in Nat
    <2> HIDE DEF H, K
    <2> QED
      BY <1>1, FS_CardinalityType
  <1>6. /\ K \ {s} = H \ {s}
        /\ s \in H <=> worker[s].gate
        /\ s \in K <=> w.gate
    BY <1>0
  <1>7. gate' + Cardinality(K) = GateSize /\ gate' \in 0..GateSize
    <2>1. gate' = gate + (IF s \in H THEN 1 ELSE 0) - (IF s \in K THEN 1 ELSE 0)
      BY <1>6
    <2> DEFINE h == Cardinality(H)
               k == Cardinality(K)
    <2>2. h - (IF s \in H THEN 1 ELSE 0) = k - (IF s \in K THEN 1 ELSE 0)
      <3>1. Cardinality(K \ {s}) = Cardinality(H \ {s})
        BY <1>6
      <3> HIDE DEF H, K
      <3> QED
        BY <1>3, <1>4, <1>5, <3>1
    <2>3. h \in Nat /\ k \in Nat /\ gate \in Nat /\ GateSize \in Nat /\ gate + h = GateSize
      BY <1>0, <1>5
    <2> HIDE DEF H, K, h, k
    <2>4. gate' + k = GateSize
      BY <2>1, <2>2, <2>3
    <2>5. gate' \in 0..GateSize
      BY <2>1, <2>3, <2>4
    <2> QED
      BY <2>4, <2>5 DEF k
  <1> QED
    BY <1>7 DEF GateConserved

\* A step of thread s: its new state is a thread that holds a permit only
\* while it calls, and the gate changes by what that thread took or returned.
LEMMA ThreadStep ==
  ASSUME TypeInv, NEW s \in Slots, NEW w \in Worker, worker' = [worker EXCEPT ![s] = w],
         Busy(s), w.pc # "free" => w.id \in Ids, w.gate => w.pc \in {"calling", "commit"},
         gate' = gate + (IF worker[s].gate THEN 1 ELSE 0) - (IF w.gate THEN 1 ELSE 0),
         gate' >= 0, jobs' \in [Ids -> Row], faults' \in 0..MaxFaults,
         UNCHANGED <<late, sub, policy, tick, mode, client>>
  PROVE  TypeInv'
  <1>1. worker \in [Slots -> Worker] /\ worker' \in [Slots -> Worker]
    BY DEF TypeInv, TypeOK
  <1>2. gate' \in 0..GateSize /\ GateConserved'
    BY GateArithmetic
  <1>3. TypeOK'
    BY <1>1, <1>2 DEF TypeInv, TypeOK
  <1>4. worker'[s] = w /\ \A u \in Slots \ {s} : worker'[u] = worker[u]
    BY <1>1
  <1>5. PoolOK'
    BY <1>4 DEF TypeInv, PoolOK, Busy
  <1> QED
    BY <1>2, <1>3, <1>5 DEF TypeInv

\* Thread s past the decision w.out.
LEMMA DecideStep ==
  ASSUME TypeInv, NEW s \in Slots, NEW w \in Worker, w.id \in Ids, Busy(s),
         w.gate = worker[s].gate, NEW out \in Outcomes, Decide(s, w, out),
         UNCHANGED <<jobs, late, sub, policy, tick, mode, client, gate, faults>>
  PROVE  TypeInv'
  <1> DEFINE v == [[w EXCEPT !.pc = "commit"] EXCEPT !.out = out]
  <1>1. v \in Worker /\ v.id \in Ids /\ v.gate = worker[s].gate /\ v.pc = "commit"
    BY DEF Worker
  <1>2. worker' = [worker EXCEPT ![s] = v]
    BY DEF Decide
  <1>3. gate' = gate + (IF worker[s].gate THEN 1 ELSE 0) - (IF v.gate THEN 1 ELSE 0)
    BY <1>1 DEF TypeInv, TypeOK
  <1>4. gate' >= 0 /\ jobs' \in [Ids -> Row] /\ faults' \in 0..MaxFaults
    BY DEF TypeInv, TypeOK
  <1> HIDE DEF v
  <1> QED
    BY <1>1, <1>2, <1>3, <1>4, ThreadStep

\* A thread that reads its row again keeps row and permit.
LEMMA RereadType ==
  ASSUME TypeInv, NEW w \in Worker, w.id \in Ids
  PROVE  /\ Reread(w) \in Worker
         /\ Reread(w).id = w.id /\ Reread(w).gate = w.gate
         /\ Reread(w).pc = w.pc
  <1>1. CopyOf(jobs[w.id]) \in Copy
    BY CopyType DEF TypeInv, TypeOK
  <1> QED
    BY <1>1 DEF Reread, Worker

\* Starting on a claimed row, with or without a permit, keeps types and permits.
LEMMA BeginTypes == ASSUME TypeInv, NEW s \in Slots, Begin(s) PROVE TypeInv'
  <1> DEFINE w == worker[s]
             fresh == Reread(w)
             called == [[fresh EXCEPT !.pc = "calling"] EXCEPT !.gate = TRUE]
             searching == [fresh EXCEPT !.pc = "calling"]
  <1>1. w \in Worker /\ w.id \in Ids /\ ~w.gate /\ Busy(s) /\ w.pc = "begin"
    BY DEF Begin, TypeInv, TypeOK, PoolOK, Busy
  <1>2. fresh \in Worker /\ fresh.id \in Ids /\ ~fresh.gate
    BY <1>1, RereadType
  <1>3. called \in Worker /\ called.id \in Ids /\ called.gate /\ called.pc = "calling"
    <2> HIDE DEF fresh
    <2> QED
      BY <1>2 DEF Worker
  <1>4. /\ searching \in Worker /\ searching.id \in Ids /\ ~searching.gate
        /\ searching.pc = "calling"
    <2> HIDE DEF fresh
    <2> QED
      BY <1>2 DEF Worker
  <1>5. /\ UNCHANGED <<jobs, late, sub, policy, tick, mode, client, faults>>
        /\ \/ \E a \in {"cancelled", "permanent"} : Decide(s, w, a) /\ UNCHANGED gate
           \/ gate > 0 /\ gate' = gate - 1 /\ worker' = [worker EXCEPT ![s] = called]
           \/ \E a \in {"requeue", "clarify"} : Decide(s, fresh, a) /\ UNCHANGED gate
           \/ worker' = [worker EXCEPT ![s] = searching] /\ UNCHANGED gate
    BY DEF Begin, Checks
  <1>6. gate \in Nat /\ jobs \in [Ids -> Row] /\ faults \in 0..MaxFaults
    BY ConstantsAssumption DEF TypeInv, TypeOK
  <1> HIDE DEF fresh, called, searching
  <1>7. CASE \E a \in {"cancelled", "permanent"} : Decide(s, w, a) /\ UNCHANGED gate
    <2>1. PICK a \in Outcomes : Decide(s, w, a) /\ UNCHANGED gate
      BY <1>7 DEF Outcomes
    <2>2. UNCHANGED <<jobs, late, sub, policy, tick, mode, client, gate, faults>>
      BY <1>5, <2>1
    <2> HIDE DEF w
    <2> QED
      BY <1>1, <2>1, <2>2, DecideStep DEF w
  <1>8. CASE gate > 0 /\ gate' = gate - 1 /\ worker' = [worker EXCEPT ![s] = called]
    <2>1. gate' = gate + (IF worker[s].gate THEN 1 ELSE 0) - (IF called.gate THEN 1 ELSE 0)
          /\ gate' >= 0
      BY <1>1, <1>3, <1>6, <1>8
    <2>2. jobs' \in [Ids -> Row] /\ faults' \in 0..MaxFaults
      BY <1>5, <1>6
    <2> QED
      BY <1>1, <1>3, <1>5, <1>8, <2>1, <2>2, ThreadStep
  <1>9. CASE \E a \in {"requeue", "clarify"} : Decide(s, fresh, a) /\ UNCHANGED gate
    <2>1. PICK a \in Outcomes : Decide(s, fresh, a) /\ UNCHANGED gate
      BY <1>9 DEF Outcomes
    <2>2. UNCHANGED <<jobs, late, sub, policy, tick, mode, client, gate, faults>>
      BY <1>5, <2>1
    <2>3. fresh.gate = worker[s].gate
      BY <1>1, <1>2, RereadType DEF fresh
    <2> QED
      BY <1>1, <1>2, <2>1, <2>2, <2>3, DecideStep
  <1>10. CASE worker' = [worker EXCEPT ![s] = searching] /\ UNCHANGED gate
    <2>1. gate' = gate + (IF worker[s].gate THEN 1 ELSE 0) - (IF searching.gate THEN 1 ELSE 0)
          /\ gate' >= 0
      BY <1>1, <1>4, <1>6, <1>10
    <2>2. jobs' \in [Ids -> Row] /\ faults' \in 0..MaxFaults
      BY <1>5, <1>6
    <2> QED
      BY <1>1, <1>4, <1>5, <1>10, <2>1, <2>2, ThreadStep
  <1> QED
    BY <1>5, <1>7, <1>8, <1>9, <1>10

\* A call that comes back keeps its permit until the commit.
LEMMA ReturnTypes == ASSUME TypeInv, NEW s \in Slots, Return(s) PROVE TypeInv'
  <1> DEFINE w == worker[s]
  <1>1. w \in Worker /\ w.id \in Ids /\ Busy(s)
    BY DEF Return, TypeInv, TypeOK, PoolOK, Busy
  <1>2. \E out \in Outcomes : Decide(s, w, out)
    BY DEF Return, Outcomes, Answers, Checks
  <1>3. UNCHANGED <<jobs, late, sub, policy, tick, mode, client, gate, faults>>
    BY DEF Return
  <1> QED
    BY <1>1, <1>2, <1>3, DecideStep

\* A commit, or an error that escapes it, gives the permit back once.
LEMMA CommitTypes ==
  ASSUME TypeInv, NEW s \in Slots, Commit(s) \/ WorkerRaises(s)
  PROVE  TypeInv'
  <1> DEFINE w == worker[s]
             gone == [[w EXCEPT !.pc = "raised"] EXCEPT !.gate = FALSE]
  <1>1. w \in Worker /\ w.id \in Ids /\ Busy(s) /\ gate \in Nat /\ jobs \in [Ids -> Row]
    BY ConstantsAssumption DEF Commit, WorkerRaises, TypeInv, TypeOK, PoolOK, Busy
  <1>2. Released(w) = gate + (IF w.gate THEN 1 ELSE 0) /\ Released(w) >= 0
    BY <1>1 DEF Released, Worker
  <1>3. CASE Commit(s)
    <2>1. jobs' \in [Ids -> Row]
      BY <1>1, <1>3, OutcomeType DEF Commit
    <2>2. FreeWorker \in Worker /\ FreeWorker.pc = "free" /\ ~FreeWorker.gate
      BY FreeWorkerType DEF FreeWorker
    <2>3. worker' = [worker EXCEPT ![s] = FreeWorker] /\ gate' = Released(w)
          /\ UNCHANGED <<late, sub, policy, tick, mode, client, faults>>
      BY <1>3 DEF Commit
    <2>4. faults' \in 0..MaxFaults
      BY <2>3 DEF TypeInv, TypeOK
    <2>5. gate' = gate + (IF worker[s].gate THEN 1 ELSE 0) - (IF FreeWorker.gate THEN 1 ELSE 0)
      BY <1>1, <1>2, <2>2, <2>3
    <2> QED
      BY <1>1, <1>2, <2>1, <2>2, <2>3, <2>4, <2>5, ThreadStep
  <1>4. CASE WorkerRaises(s)
    <2>1. gone \in Worker /\ gone.id \in Ids /\ ~gone.gate
      BY <1>1 DEF Worker
    <2>2. worker' = [worker EXCEPT ![s] = gone] /\ gate' = Released(w)
          /\ UNCHANGED <<jobs, late, sub, policy, tick, mode, client>>
      BY <1>4 DEF WorkerRaises
    <2>3. faults' \in 0..MaxFaults
      BY <1>4, ConstantsAssumption DEF WorkerRaises, TypeInv, TypeOK
    <2> HIDE DEF gone
    <2>4. gate' = gate + (IF worker[s].gate THEN 1 ELSE 0) - (IF gone.gate THEN 1 ELSE 0)
      BY <1>1, <1>2, <2>1, <2>2
    <2> QED
      BY <1>1, <1>2, <2>1, <2>2, <2>3, <2>4, ThreadStep
  <1> QED
    BY <1>3, <1>4

\* A restart frees every slot and restores every permit.
LEMMA RestartTypes == ASSUME TypeInv, Restart PROVE TypeInv'
  <1>1. Recovered \in [Ids -> Row]
    <2>1. "QUEUED" \in States
      BY DEF States, RUNNABLE
    <2>2. jobs \in [Ids -> Row]
      BY DEF TypeInv, TypeOK
    <2>3. ASSUME NEW i \in Ids
          PROVE  [jobs[i] EXCEPT !.state = "QUEUED", !.lease = None] \in Row
      <3>1. jobs[i] \in Row
        BY <2>2
      <3> QED
        BY <2>1, <3>1 DEF Row
    <2> QED
      BY <2>2, <2>3 DEF Recovered
  <1>2. TypeOK'
    <2>1. /\ worker' \in [Slots -> Worker]
          /\ tick' \in [todo : SUBSET Slots, avail : SUBSET Ids, rows : [Ids -> Copy]]
          /\ client' \in [Clients -> Request] /\ gate' \in 0..GateSize
      BY FreeWorkerType, NoTickType, IdleType, ConstantsAssumption DEF Restart
    <2> QED
      BY <1>1, <2>1 DEF Restart, TypeInv, TypeOK
  <1>3. PoolOK'
    BY DEF Restart, PoolOK, Busy, FreeWorker
  <1>4. GateConserved'
    <2>1. {s \in Slots : worker'[s].gate} = {}
      BY DEF Restart, FreeWorker
    <2>2. Cardinality({}) = 0 /\ gate' = GateSize /\ GateSize \in Nat
      BY FS_EmptySet, ConstantsAssumption DEF Restart
    <2> QED
      BY <2>1, <2>2 DEF GateConserved
  <1> QED
    BY <1>2, <1>3, <1>4 DEF TypeInv

\* Every step keeps types, pool and permits.
LEMMA StepTypeInv == TypeInv /\ [Next]_vars => TypeInv'
  <1> SUFFICES ASSUME TypeInv, [Next]_vars PROVE TypeInv'
    OBVIOUS
  <1>1. ASSUME NEW c \in Clients, ApiStep(c) PROVE TypeInv'
    BY <1>1, EnqueueTypes, RetryTypes, PolicyTypes DEF ApiStep
  <1>2. ASSUME NEW s \in Sessions, SessionStep(s) PROVE TypeInv'
    BY <1>2, SubscriptionTypes
  <1>3. CASE TickStep
    BY <1>3, TickTypes
  <1>4. CASE VisitStep
    BY <1>4, VisitTypes
  <1>5. ASSUME NEW s \in Slots, WorkerStep(s) \/ WorkerRaises(s) PROVE TypeInv'
    BY <1>5, BeginTypes, ReturnTypes, CommitTypes DEF WorkerStep
  <1>6. ASSUME NEW i \in Ids, DeadlinePasses(i) PROVE TypeInv'
    <2>1. TypeOK'
      BY <1>6 DEF DeadlinePasses, TypeInv, TypeOK
    <2> QED
      BY <1>6, <2>1, Frame DEF DeadlinePasses
  <1>7. CASE Restart
    BY <1>7, RestartTypes
  <1>8. CASE UNCHANGED vars
    BY <1>8 DEF vars, TypeInv, TypeOK, PoolOK, Busy, GateConserved
  <1> QED
    BY <1>1, <1>2, <1>3, <1>4, <1>5, <1>6, <1>7, <1>8 DEF Next

\* Every column, request and thread of the queue keeps its type, and the gate
\* its permits, in every behaviour.
THEOREM TypeCorrect == Spec => []TypeOK
  <1>1. TypeInv => TypeOK
    BY DEF TypeInv
  <1> QED
    BY InitTypeInv, StepTypeInv, <1>1, PTL DEF Spec

\* No interleaving of claims, commits, failures and restarts leaks a permit of
\* the LLM gate or gives one back twice.
THEOREM GateIsConserved == Spec => []GateConserved
  <1>1. TypeInv => GateConserved
    BY DEF TypeInv
  <1> QED
    BY InitTypeInv, StepTypeInv, <1>1, PTL DEF Spec

-----------------------------------------------------------------------------
(* Leases *)

\* What a step outside the pool may do to a row: take it out of flight, or
\* leave everything a thread has read of it, except the recorded miss.
Kept(r, q) == /\ r.state \in InFlight <=> q.state \in InFlight
              /\ r.lease = q.lease /\ r.key = q.key /\ r.scope = q.scope
              /\ r.stage = q.stage /\ r.class = q.class /\ r.attempts = q.attempts
              /\ r.classification = q.classification /\ r.result = q.result
Dropped(r) == r.lease = None /\ r.state \notin InFlight
Cleared(r) == Dropped(r) /\ r.result = None
TableStep == /\ UNCHANGED worker
             /\ \A i \in Ids : Cleared(jobs'[i]) \/ Kept(jobs[i], jobs'[i])

\* A withdrawn row has no lease and no result.
LEMMA WithdrawDrops ==
  ASSUME jobs \in [Ids -> Row], NEW S, NEW how \in Withdrawn, NEW i \in Ids
  PROVE  Cleared(Withdraw(S, how)[i]) \/ Withdraw(S, how)[i] = jobs[i]
  <1>1. Withdraw(S, how)[i] = IF i \in S
           THEN [jobs[i] EXCEPT !.state = how, !.lease = None, !.result = None, !.checkpoint = None]
           ELSE jobs[i]
    BY DEF Withdraw
  <1>2. jobs[i] \in Row /\ how \notin InFlight
    BY DEF Withdrawn, InFlight
  <1> QED
    BY <1>1, <1>2 DEF Cleared, Dropped, Row

\* A row sent back has no lease and no result.
LEMMA ReclassifiedDrops ==
  ASSUME NEW r \in Row, NEW v, NEW sc PROVE Cleared(Reclassified(r, v, sc))
  BY DEF Reclassified, Row, Cleared, Dropped, InFlight

\* Neither has a row that is gone.
LEMMA NoRowDrops == Cleared(NoRow)
  BY DEF Cleared, Dropped, NoRow, InFlight

\* Subscribing, cancelling and syncing rewrite a row only together with its lease.
LEMMA SessionTable == ASSUME TypeInv, NEW s \in Sessions, SessionStep(s) PROVE TableStep
  <1>0. jobs \in [Ids -> Row] /\ {"CANCELLED", "SUPERSEDED"} = Withdrawn
    BY DEF TypeInv, TypeOK, Withdrawn
  <1>1. UNCHANGED worker
    BY DEF SessionStep, Subscribe, Cancel, Sync
  <1>2. ASSUME NEW i \in Ids PROVE Cleared(jobs'[i]) \/ jobs'[i] = jobs[i]
    <2>1. ASSUME NEW on \in BOOLEAN, NEW rev, Subscribe(s, on, rev)
          PROVE  Cleared(jobs'[i]) \/ jobs'[i] = jobs[i]
      BY <1>0, <2>1, WithdrawDrops DEF Subscribe, Invalidated
    <2>2. ASSUME NEW delete \in BOOLEAN, Cancel(s, delete)
          PROVE  Cleared(jobs'[i]) \/ jobs'[i] = jobs[i]
      BY <1>0, <2>2, WithdrawDrops, NoRowDrops DEF Cancel, Invalidated
    <2>3. ASSUME NEW present, NEW g, Sync(s, present, g)
          PROVE  Cleared(jobs'[i]) \/ jobs'[i] = jobs[i]
      BY <1>0, <2>3, WithdrawDrops DEF Sync
    <2> QED
      BY <2>1, <2>2, <2>3 DEF SessionStep
  <1> QED
    BY <1>1, <1>2 DEF TableStep, Kept

\* So do the requests of the clients.
LEMMA ApiTable == ASSUME TypeInv, NEW c \in Clients, ApiStep(c) PROVE TableStep
  <1>0. jobs \in [Ids -> Row] /\ {"CANCELLED", "SUPERSEDED"} = Withdrawn
    BY DEF TypeInv, TypeOK, Withdrawn
  <1>1. UNCHANGED worker
    BY DEF ApiStep, EnqueueRead, EnqueueAnswer, EnqueueInsert, RetryRead, RetryCommit,
           PolicyRead, PolicySave, PolicyConflict, PolicyReread, PolicyApply
  <1>2. ASSUME NEW i \in Ids PROVE Cleared(jobs'[i]) \/ jobs'[i] = jobs[i]
    <2>1. CASE UNCHANGED jobs
      BY <2>1
    <2>2. ASSUME NEW j \in Ids, EnqueueInsert(c, j)
          PROVE  Cleared(jobs'[i]) \/ jobs'[i] = jobs[i]
      <3> DEFINE new == [NoRow EXCEPT !.key = client[c].key, !.gen = client[c].gen,
                             !.revision = client[c].revision, !.ver = client[c].ver,
                             !.scope = client[c].scope, !.state = "QUEUED"]
                 rest == Withdraw(Superseding(client[c].key), "SUPERSEDED")
      <3>1. Cleared(new)
        BY DEF Cleared, Dropped, NoRow, InFlight
      <3>2. Cleared(rest[i]) \/ rest[i] = jobs[i]
        BY <1>0, WithdrawDrops
      <3>3. jobs'[i] = IF i = j THEN new ELSE IF i \in Old(client[c]) THEN NoRow ELSE rest[i]
        BY <2>2 DEF EnqueueInsert
      <3> HIDE DEF new, rest
      <3> QED
        BY <3>1, <3>2, <3>3, NoRowDrops
    <2>3. CASE RetryCommit(c)
      BY <1>0, <2>3, ReclassifiedDrops DEF RetryCommit, Retried
    <2>4. CASE PolicyApply(c)
      BY <1>0, <2>4, ReclassifiedDrops DEF PolicyApply, Reapplied
    <2> QED
      BY <2>1, <2>2, <2>3, <2>4 DEF ApiStep, EnqueueRead, EnqueueAnswer, RetryRead,
         PolicyRead, PolicySave, PolicyConflict, PolicyReread
  <1> QED
    BY <1>1, <1>2 DEF TableStep, Kept

\* So does the scheduler, apart from claims.
LEMMA SchedulerTable ==
  ASSUME TypeInv, TickStep \/ (\E s \in Slots : Miss(s)) \/ (\E i \in Ids : DeadlinePasses(i))
  PROVE  TableStep
  <1>0. jobs \in [Ids -> Row]
    BY DEF TypeInv, TypeOK
  <1>1. \A i \in Ids : Kept(jobs[i], Marked[i])
    BY <1>0 DEF Kept, Marked, Row
  <1>2. ASSUME NEW s, NEW i \in Ids PROVE Kept(jobs[i], Resting(s)[i])
    BY <1>0 DEF Kept, Resting, Row, InFlight
  <1>3. \A i \in Ids : Kept(jobs[i], jobs[i])
    BY DEF Kept
  <1>4. CASE TickStep
    BY <1>1, <1>4 DEF TickStep, TickPlan, TickRaises, TableStep
  <1>5. CASE \E s \in Slots : Miss(s)
    BY <1>2, <1>5 DEF Miss, TableStep
  <1>6. CASE \E i \in Ids : DeadlinePasses(i)
    BY <1>3, <1>6 DEF DeadlinePasses, TableStep
  <1> QED
    BY <1>4, <1>5, <1>6

\* EveryLeaseHasOneHolder with the remark that a thread never runs without a
\* lease: otherwise it would own every row that is not in flight.
LeaseInv == /\ EveryLeaseHasOneHolder
            /\ \A s \in Slots : Busy(s) => worker[s].row.lease # None

\* To begin with nothing is leased.
LEMMA InitLease == Init => LeaseInv
  BY DEF Init, LeaseInv, EveryLeaseHasOneHolder, NoRow, Busy, FreeWorker, InFlight

\* Rows that keep or drop their lease with their state keep leases exclusive.
LEMMA TableLease == ASSUME LeaseInv, TableStep PROVE LeaseInv'
  BY DEF LeaseInv, EveryLeaseHasOneHolder, TableStep, Kept, Cleared, Dropped, Busy

\* What a claim does: the slot was free, the row was not in flight, and the
\* token is new to every row and every thread.
LEMMA ClaimFacts ==
  ASSUME TypeInv, LeaseInv, NEW s \in Slots, NEW i \in Ids, NEW t \in Tokens, Claim(s, i, t)
  PROVE  /\ ~Busy(s) /\ jobs[i].lease = None /\ jobs[i].state \notin InFlight /\ t # None
         /\ \A j \in Ids : jobs[j].lease # t
         /\ \A u \in Slots : worker[u].row.lease # t
         /\ jobs'[i].lease = t /\ jobs'[i].state \in InFlight
         /\ \A j \in Ids \ {i} : Kept(jobs[j], jobs'[j])
         /\ worker'[s].pc = "begin" /\ worker'[s].id = i /\ worker'[s].row.lease = t
         /\ \A u \in Slots \ {s} : worker'[u] = worker[u]
  <1>0. /\ jobs \in [Ids -> Row] /\ worker \in [Slots -> Worker]
        /\ tick.rows[i] \in Copy
    BY DEF TypeInv, TypeOK
  <1>1. ~Busy(s)
    BY DEF Claim, Visits, TypeInv, PoolOK
  <1>2. jobs[i].lease = None /\ jobs[i].state \notin InFlight
    <2>1. jobs[i].state \notin InFlight
      BY DEF Claim, Claimable, RUNNABLE, InFlight
    <2> QED
      BY <2>1 DEF LeaseInv, EveryLeaseHasOneHolder
  <1>3. t # None
    BY ConstantsAssumption
  <1>4. (\A j \in Ids : jobs[j].lease # t) /\ (\A u \in Slots : worker[u].row.lease # t)
    BY DEF Claim, UsedTokens
  <1>5. jobs'[i].lease = t /\ jobs'[i].state \in InFlight /\ \A j \in Ids \ {i} : Kept(jobs[j], jobs'[j])
    <2>1. Resting(s) \in [Ids -> Row]
      BY <1>0, RestingType
    <2>2. \A j \in Ids : Kept(jobs[j], Resting(s)[j])
      BY <1>0 DEF Kept, Resting, Row, InFlight
    <2>3. jobs' = [Resting(s) EXCEPT ![i] = [[Resting(s)[i] EXCEPT
                      !.state = IF s \in FilterSlots THEN "CLASSIFYING" ELSE "RUNNING"]
                      EXCEPT !.lease = t]]
      BY <2>1 DEF Claim
    <2>4. (IF s \in FilterSlots THEN "CLASSIFYING" ELSE "RUNNING") \in InFlight
      BY DEF InFlight
    <2>5. \A r \in Row, st \in InFlight :
             LET q == [[r EXCEPT !.state = st] EXCEPT !.lease = t]
             IN  q.lease = t /\ q.state = st
      BY DEF Row
    <2>6. Resting(s)[i] \in Row
      BY <2>1
    <2> QED
      BY <2>1, <2>2, <2>3, <2>4, <2>5, <2>6
  <1>6. worker'[s].pc = "begin" /\ worker'[s].id = i /\ worker'[s].row.lease = t
    <2> DEFINE row == [tick.rows[i] EXCEPT !.lease = t]
    <2>1. row.lease = t
      BY <1>0 DEF Copy
    <2>2. worker'[s] = [pc |-> "begin", id |-> i, row |-> row, gate |-> FALSE, out |-> "none"]
      BY <1>0 DEF Claim
    <2> HIDE DEF row
    <2> QED
      BY <2>1, <2>2
  <1>7. \A u \in Slots \ {s} : worker'[u] = worker[u]
    BY <1>0 DEF Claim
  <1> QED
    BY <1>1, <1>2, <1>3, <1>4, <1>5, <1>6, <1>7

\* A claim takes a lease nothing refers to.
LEMMA ClaimLease ==
  ASSUME TypeInv, LeaseInv, NEW s \in Slots, NEW i \in Ids, NEW t \in Tokens, Claim(s, i, t)
  PROVE  LeaseInv'
  BY ClaimFacts DEF LeaseInv, EveryLeaseHasOneHolder, Kept, Busy

\* Every outcome takes the row out of flight and returns its lease.
LEMMA OutcomeDrops ==
  ASSUME NEW w \in Worker, w.id \in Ids, jobs \in [Ids -> Row]
  PROVE  Dropped(Outcome(w))
  <1> DEFINE r == jobs[w.id]
  <1>0. /\ r \in Row
        /\ \A class \in Classes : Classified(w, class) \in Row /\ Classified(w, class).lease = None
        /\ {"none", "PQ", "SQ"} = Classes
    <2>1. r \in Row /\ {"none", "PQ", "SQ"} = Classes
      BY DEF Classes
    <2>2. ASSUME NEW class \in Classes PROVE Classified(w, class).lease = None
      BY <2>1 DEF Classified, Row
    <2> QED
      BY <2>1, <2>2, ClassifiedType
  <1>1. ASSUME NEW q \in Row, NEW basis PROVE Dropped(Completed(q, w, basis))
    BY DEF Completed, Dropped, Row, InFlight
  <1>2. ASSUME NEW class \in Classes, NEW stage, NEW state \in RUNNABLE
        PROVE  Dropped([Classified(w, class) EXCEPT !.stage = stage, !.state = state])
    BY <1>0 DEF Dropped, Row, InFlight, RUNNABLE
  <1>3. Dropped([r EXCEPT !.state = "QUEUED", !.lease = None])
    BY <1>0 DEF Dropped, Row, InFlight
  <1>4. Dropped([r EXCEPT !.stage = "generate", !.state = "QUEUED", !.attempts = 0,
                          !.checkpoint = w.row.classification, !.lease = None])
    BY <1>0 DEF Dropped, Row, InFlight
  <1>5. Dropped([r EXCEPT !.state = "CANCELLED", !.lease = None, !.result = None, !.checkpoint = None])
    BY <1>0 DEF Dropped, Row, InFlight
  <1>6. Dropped(Failed(w))
    <2> DEFINE Freed == [key : Keys \cup {None}, gen : 0..MaxGen, revision : Revisions \cup {None},
                         ver : 0..MaxVersion, scope : Scopes \cup {None}, state : States,
                         stage : Stages, class : Classes, lease : {None}, attempts : Nat,
                         classification : Scopes \cup {None}, checkpoint : Scopes \cup {None},
                         result : Scopes \cup {None}, missed : BOOLEAN]
    <2>1. [r EXCEPT !.attempts = w.row.attempts + 1, !.lease = None] \in Freed
      <3>1. w.row.attempts + 1 \in Nat
        BY DEF Worker, Copy
      <3>2. \A q \in Row, n \in Nat : [q EXCEPT !.attempts = n, !.lease = None] \in Freed
        BY DEF Row
      <3> HIDE DEF r, Freed
      <3> QED
        BY <1>0, <3>1, <3>2
    <2> QED
      BY <2>1 DEF Failed, Dropped, InFlight
  <1>7. [r EXCEPT !.attempts = 0] \in Row
    BY <1>0 DEF Row
  <1> HIDE DEF r
  <1> QED
    BY <1>0, <1>1, <1>2, <1>3, <1>4, <1>5, <1>6, <1>7 DEF Outcome, r, RUNNABLE

\* A thread keeps the lease it was started with until it is free.
LEMMA ThreadFacts ==
  ASSUME TypeInv, LeaseInv, NEW s \in Slots, WorkerStep(s) \/ WorkerRaises(s)
  PROVE  /\ Busy(s)
         /\ \A u \in Slots \ {s} : worker'[u] = worker[u]
         /\ \/ /\ UNCHANGED jobs
               /\ worker'[s].pc # "free"
               /\ worker'[s].id = worker[s].id
               /\ worker'[s].row.lease = worker[s].row.lease
            \/ /\ worker'[s].pc = "free"
               /\ \A j \in Ids \ {worker[s].id} : jobs'[j] = jobs[j]
               /\ IF Owns(worker[s]) THEN Dropped(jobs'[worker[s].id])
                                     ELSE jobs'[worker[s].id] = jobs[worker[s].id]
  <1> DEFINE w == worker[s]
  <1>0. /\ Busy(s) /\ w \in Worker /\ w.id \in Ids
        /\ jobs \in [Ids -> Row] /\ worker \in [Slots -> Worker]
    BY DEF WorkerStep, Begin, Return, Commit, WorkerRaises, Busy, TypeInv, TypeOK, PoolOK
  <1>1. Owns(w) => Reread(w).row.lease = w.row.lease /\ Reread(w).id = w.id
    BY <1>0 DEF Owns, Reread, CopyOf, Worker
  <1>2. CASE Begin(s)
    <2>1. ASSUME NEW v \in Worker, v.id = w.id, v.row.lease = w.row.lease, NEW out,
                 \/ worker' = [worker EXCEPT ![s] = [v EXCEPT !.pc = "commit", !.out = out]]
                 \/ worker' = [worker EXCEPT ![s] = [v EXCEPT !.pc = "calling", !.gate = TRUE]]
                 \/ worker' = [worker EXCEPT ![s] = [v EXCEPT !.pc = "calling"]]
          PROVE  /\ worker'[s].pc # "free" /\ worker'[s].id = w.id
                 /\ worker'[s].row.lease = w.row.lease
                 /\ \A u \in Slots \ {s} : worker'[u] = worker[u]
      <3>1. CASE worker' = [worker EXCEPT ![s] = [v EXCEPT !.pc = "commit", !.out = out]]
        BY <1>0, <2>1, <3>1 DEF Worker
      <3>2. CASE worker' = [worker EXCEPT ![s] = [v EXCEPT !.pc = "calling", !.gate = TRUE]]
        BY <1>0, <2>1, <3>2 DEF Worker
      <3>3. CASE worker' = [worker EXCEPT ![s] = [v EXCEPT !.pc = "calling"]]
        BY <1>0, <2>1, <3>3 DEF Worker
      <3> QED
        BY <2>1, <3>1, <3>2, <3>3
    <2>2. Owns(w) => /\ Reread(w) \in Worker /\ Reread(w).id = w.id
                     /\ Reread(w).row.lease = w.row.lease
      BY <1>0, <1>1, RereadType
    <2>3. UNCHANGED jobs /\ \E a \in Checks(w) :
             \/ a # "ok" /\ Decide(s, w, a)
             \/ a = "ok" /\ \E out : Decide(s, Reread(w), out)
             \/ a = "ok" /\ worker' = [worker EXCEPT ![s] = [Reread(w) EXCEPT !.pc = "calling", !.gate = TRUE]]
             \/ a = "ok" /\ worker' = [worker EXCEPT ![s] = [Reread(w) EXCEPT !.pc = "calling"]]
      BY <1>2 DEF Begin
    <2>4. "ok" \in Checks(w) => Owns(w)
      BY DEF Checks
    <2>5. \E v \in {w, Reread(w)} : /\ v \in Worker /\ v.id = w.id /\ v.row.lease = w.row.lease
             /\ \E out :
                 \/ worker' = [worker EXCEPT ![s] = [v EXCEPT !.pc = "commit", !.out = out]]
                 \/ worker' = [worker EXCEPT ![s] = [v EXCEPT !.pc = "calling", !.gate = TRUE]]
                 \/ worker' = [worker EXCEPT ![s] = [v EXCEPT !.pc = "calling"]]
      <3> HIDE DEF w
      <3> QED
        BY <1>0, <2>2, <2>3, <2>4 DEF Decide
    <2> QED
      BY <1>0, <2>1, <2>3, <2>5
  <1>3. CASE Return(s)
    <2>1. UNCHANGED jobs /\ \E out : worker' = [worker EXCEPT ![s] = [w EXCEPT !.pc = "commit", !.out = out]]
      BY <1>3 DEF Return, Decide
    <2> QED
      BY <1>0, <2>1 DEF Worker
  <1>4. CASE Commit(s)
    <2>1. worker' = [worker EXCEPT ![s] = FreeWorker] /\ FreeWorker.pc = "free"
      BY <1>4 DEF Commit, FreeWorker
    <2>2. jobs' = IF Owns(w) THEN [jobs EXCEPT ![w.id] = Outcome(w)] ELSE jobs
      BY <1>4 DEF Commit
    <2> HIDE DEF w
    <2> QED
      BY <1>0, <2>1, <2>2, OutcomeDrops DEF w
  <1>5. CASE WorkerRaises(s)
    <2>1. UNCHANGED jobs /\ worker' = [worker EXCEPT ![s] = [w EXCEPT !.pc = "raised", !.gate = FALSE]]
      BY <1>5 DEF WorkerRaises
    <2> QED
      BY <1>0, <2>1 DEF Worker
  <1> QED
    BY <1>0, <1>2, <1>3, <1>4, <1>5 DEF WorkerStep

\* A thread gives up no lease but its own.
LEMMA ThreadLease ==
  ASSUME TypeInv, LeaseInv, NEW s \in Slots, WorkerStep(s) \/ WorkerRaises(s)
  PROVE  LeaseInv'
  BY ThreadFacts DEF LeaseInv, EveryLeaseHasOneHolder, Dropped, Owns, Busy

\* Recovery takes every lease.
LEMMA RestartLease == ASSUME TypeInv, LeaseInv, Restart PROVE LeaseInv'
  <1>1. \A i \in Ids : Dropped(jobs'[i])
    <2> SUFFICES ASSUME NEW i \in Ids PROVE Dropped(jobs'[i])
      OBVIOUS
    <2>1. jobs[i] \in Row /\ (jobs[i].lease # None <=> jobs[i].state \in InFlight)
      BY DEF LeaseInv, EveryLeaseHasOneHolder, TypeInv, TypeOK
    <2>2. jobs'[i] = IF jobs[i].state \in InFlight \cup {"PAUSED"}
                     THEN [jobs[i] EXCEPT !.state = "QUEUED", !.lease = None] ELSE jobs[i]
      BY DEF Restart, Recovered
    <2> QED
      BY <2>1, <2>2 DEF Dropped, InFlight, Row
  <1>2. \A s \in Slots : worker'[s].pc = "free"
    BY DEF Restart, FreeWorker
  <1> QED
    BY <1>1, <1>2 DEF LeaseInv, EveryLeaseHasOneHolder, Dropped, Busy

\* Every step keeps leases exclusive.
LEMMA StepLease == TypeInv /\ LeaseInv /\ [Next]_vars => LeaseInv'
  <1> SUFFICES ASSUME TypeInv, LeaseInv, [Next]_vars PROVE LeaseInv'
    OBVIOUS
  <1>1. ASSUME TableStep PROVE LeaseInv'
    BY <1>1, TableLease
  <1>2. CASE UNCHANGED vars
    BY <1>2 DEF vars, LeaseInv, EveryLeaseHasOneHolder, Busy
  <1>3. CASE VisitStep
    BY <1>1, <1>3, SchedulerTable, ClaimLease DEF VisitStep
  <1> QED
    BY <1>1, <1>2, <1>3, ApiTable, SessionTable, SchedulerTable, ThreadLease, RestartLease DEF Next

\* For every pool, every number of rows and every interleaving: a row is in
\* flight exactly while one running thread holds its lease.
THEOREM LeasesAreExclusive == Spec => []EveryLeaseHasOneHolder
  <1>1. LeaseInv => EveryLeaseHasOneHolder
    BY DEF LeaseInv
  <1> QED
    BY InitTypeInv, StepTypeInv, InitLease, StepLease, <1>1, PTL DEF Spec

-----------------------------------------------------------------------------
(* Keys *)

\* A row of the table belongs to a delivery.
KeyInv == \A i \in Ids : Exists(i) => jobs[i].key \in Keys

\* The ways a row can come to be: it was there with its key, or it is inserted.
KeyStep == \A i \in Ids : jobs'[i].state # "ABSENT" =>
              jobs'[i].key \in Keys \/ (Exists(i) /\ jobs'[i].key = jobs[i].key)

\* Rows that are kept or inserted with their key keep the keys.
LEMMA KeyStepKeeps == ASSUME KeyInv, KeyStep PROVE KeyInv'
  BY DEF KeyInv, KeyStep, Exists

\* A withdrawn row keeps its key.
LEMMA WithdrawKeys ==
  ASSUME jobs \in [Ids -> Row], NEW S, \A i \in S : Exists(i), NEW how, NEW i \in Ids
  PROVE  Withdraw(S, how)[i].state # "ABSENT" =>
            Exists(i) /\ Withdraw(S, how)[i].key = jobs[i].key
  BY DEF Withdraw, Exists, Row

\* Subscribing, cancelling and syncing keep keys.
LEMMA SessionKeys == ASSUME TypeInv, NEW s \in Sessions, SessionStep(s) PROVE KeyStep
  <1> SUFFICES ASSUME NEW i \in Ids, jobs'[i].state # "ABSENT"
               PROVE  Exists(i) /\ jobs'[i].key = jobs[i].key
    BY DEF KeyStep
  <1>0. jobs \in [Ids -> Row] /\ \A j \in Of(s) : Exists(j)
    BY DEF TypeInv, TypeOK, Of
  <1>1. ASSUME NEW how, jobs' = Invalidated(s, how)
        PROVE  Exists(i) /\ jobs'[i].key = jobs[i].key
    BY <1>0, <1>1, WithdrawKeys DEF Invalidated
  <1>2. CASE UNCHANGED jobs
    BY <1>2 DEF Exists
  <1>3. ASSUME NEW delete \in BOOLEAN, Cancel(s, delete)
        PROVE  Exists(i) /\ jobs'[i].key = jobs[i].key
    BY <1>1, <1>3 DEF Cancel, NoRow, Exists
  <1>4. ASSUME NEW present, NEW g, Sync(s, present, g)
        PROVE  Exists(i) /\ jobs'[i].key = jobs[i].key
    BY <1>0, <1>4, WithdrawKeys DEF Sync
  <1> QED
    BY <1>1, <1>2, <1>3, <1>4 DEF SessionStep, Subscribe

\* A row sent back keeps its key.
LEMMA ReclassifiedKey ==
  ASSUME NEW r \in Row, NEW v, NEW sc
  PROVE  Reclassified(r, v, sc).key = r.key
  BY DEF Reclassified, Row

\* The requests of the clients keep keys.
LEMMA ApiKeys == ASSUME TypeInv, NEW c \in Clients, ApiStep(c) PROVE KeyStep
  <1> SUFFICES ASSUME NEW i \in Ids, jobs'[i].state # "ABSENT"
               PROVE  jobs'[i].key \in Keys \/ (Exists(i) /\ jobs'[i].key = jobs[i].key)
    BY DEF KeyStep
  <1>0. jobs \in [Ids -> Row] /\ client[c] \in Request
    BY DEF TypeInv, TypeOK
  <1>1. CASE UNCHANGED jobs
    BY <1>1 DEF Exists
  <1>2. ASSUME NEW j \in Ids, EnqueueInsert(c, j)
        PROVE  jobs'[i].key \in Keys \/ (Exists(i) /\ jobs'[i].key = jobs[i].key)
    <2> DEFINE new == [NoRow EXCEPT !.key = client[c].key, !.gen = client[c].gen,
                           !.revision = client[c].revision, !.ver = client[c].ver,
                           !.scope = client[c].scope, !.state = "QUEUED"]
               rest == Withdraw(Superseding(client[c].key), "SUPERSEDED")
    <2>1. new.key = client[c].key /\ client[c].key \in Keys
      BY <1>0, <1>2, RequestFields DEF NoRow, EnqueueInsert
    <2>2. rest[i].state # "ABSENT" => Exists(i) /\ rest[i].key = jobs[i].key
      <3>1. \A k \in Superseding(client[c].key) : Exists(k)
        BY DEF Superseding, Outdated, Live
      <3> QED
        BY <1>0, <3>1, WithdrawKeys
    <2>3. jobs'[i] = IF i = j THEN new ELSE IF i \in Old(client[c]) THEN NoRow ELSE rest[i]
      BY <1>2 DEF EnqueueInsert
    <2> HIDE DEF new, rest
    <2> QED
      BY <2>1, <2>2, <2>3 DEF NoRow
  <1>3. CASE RetryCommit(c)
    <2>1. Retried(client[c])[i].key = jobs[i].key
      BY <1>0, ReclassifiedKey DEF Retried
    <2>2. Retried(client[c])[i] = jobs[i] \/ Exists(i)
      BY <1>0 DEF Retried
    <2>3. jobs'[i] = Retried(client[c])[i] \/ jobs'[i] = jobs[i]
      BY <1>3 DEF RetryCommit
    <2> QED
      BY <2>1, <2>2, <2>3 DEF Exists
  <1>4. CASE PolicyApply(c)
    <2>1. Reapplied(client[c])[i].key = jobs[i].key
      BY <1>0, ReclassifiedKey DEF Reapplied
    <2>2. Reapplied(client[c])[i] = jobs[i] \/ Exists(i)
      BY <1>0 DEF Reapplied, Affected, Live
    <2>3. jobs'[i] = Reapplied(client[c])[i] \/ jobs'[i] = jobs[i]
      BY <1>4 DEF PolicyApply
    <2> QED
      BY <2>1, <2>2, <2>3 DEF Exists
  <1> QED
    BY <1>1, <1>2, <1>3, <1>4 DEF ApiStep, EnqueueRead, EnqueueAnswer, RetryRead,
       PolicyRead, PolicySave, PolicyConflict, PolicyReread

\* A commit keeps the key of its row.
LEMMA OutcomeKey ==
  ASSUME NEW w \in Worker, w.id \in Ids, jobs \in [Ids -> Row]
  PROVE  Outcome(w).key = jobs[w.id].key
  <1> DEFINE r == jobs[w.id]
  <1>0. r \in Row
    OBVIOUS
  <1>1. \A class : Classified(w, class).key = r.key
    BY <1>0 DEF Classified, Row
  <1>2. ASSUME NEW q, NEW basis PROVE Completed(q, w, basis).key = q.key
    BY DEF Completed
  <1>3. Failed(w).key = r.key
    BY <1>0 DEF Failed, Row
  <1> QED
    BY <1>0, <1>1, <1>2, <1>3 DEF Outcome, Row

\* Every step keeps keys.
LEMMA StepKeys == TypeInv /\ LeaseInv /\ KeyInv /\ [Next]_vars => KeyInv'
  <1> SUFFICES ASSUME TypeInv, LeaseInv, KeyInv, [Next]_vars PROVE KeyInv'
    OBVIOUS
  <1>0. jobs \in [Ids -> Row]
    BY DEF TypeInv, TypeOK
  <1>1. ASSUME \A i \in Ids : jobs'[i].key = jobs[i].key /\ (jobs'[i].state # "ABSENT" => Exists(i))
        PROVE  KeyInv'
    BY <1>1 DEF KeyInv, Exists
  <1>2. CASE TickStep \/ Restart \/ (\E i \in Ids : DeadlinePasses(i)) \/ UNCHANGED vars
    <2>1. \A i \in Ids : Marked[i].key = jobs[i].key /\ Marked[i].state = jobs[i].state
      BY <1>0 DEF Marked, Row
    <2>2. \A i \in Ids : /\ Recovered[i].key = jobs[i].key
                         /\ Recovered[i].state # "ABSENT" => Exists(i)
      <3> SUFFICES ASSUME NEW i \in Ids
                   PROVE  /\ Recovered[i].key = jobs[i].key
                          /\ Recovered[i].state # "ABSENT" => Exists(i)
        OBVIOUS
      <3>1. jobs[i] \in Row
        BY <1>0
      <3>2. CASE jobs[i].state \in InFlight \cup {"PAUSED"}
        BY <3>1, <3>2 DEF Recovered, Row, Exists, InFlight
      <3>3. CASE jobs[i].state \notin InFlight \cup {"PAUSED"}
        BY <3>3 DEF Recovered, Exists
      <3> QED
        BY <3>2, <3>3
    <2>3. jobs' = Marked \/ jobs' = Recovered \/ jobs' = jobs
      BY <1>2 DEF TickStep, TickPlan, TickRaises, Restart, DeadlinePasses, vars
    <2> QED
      BY <1>1, <2>1, <2>2, <2>3 DEF Exists
  <1>3. ASSUME NEW s PROVE \A i \in Ids : /\ Resting(s)[i].key = jobs[i].key
                                          /\ Resting(s)[i].state # "ABSENT" => Exists(i)
    BY <1>0 DEF Resting, Row, Exists
  <1>4. CASE \E s \in Slots : Miss(s)
    BY <1>1, <1>3, <1>4 DEF Miss
  <1>5. ASSUME NEW s \in Slots, NEW i \in Ids, NEW t \in Tokens, Claim(s, i, t) PROVE KeyInv'
    <2>1. Exists(i)
      BY <1>5 DEF Claim, Claimable, RUNNABLE, Exists
    <2>2. Resting(s) \in [Ids -> Row]
      BY <1>0, RestingType
    <2>3. jobs'[i].key = jobs[i].key /\ \A j \in Ids \ {i} : jobs'[j] = Resting(s)[j]
      BY <1>3, <1>5, <2>2 DEF Claim, Row
    <2> QED
      BY <1>1, <1>3, <2>1, <2>3
  <1>6. ASSUME NEW s \in Slots, WorkerStep(s) \/ WorkerRaises(s) PROVE KeyInv'
    <2> DEFINE w == worker[s]
    <2>1. CASE UNCHANGED jobs
      BY <2>1 DEF KeyInv, Exists
    <2>2. CASE Commit(s)
      <3>1. /\ w \in Worker /\ w.id \in Ids /\ w.row.lease # None
            /\ jobs' = IF Owns(w) THEN [jobs EXCEPT ![w.id] = Outcome(w)] ELSE jobs
        BY <2>2 DEF Commit, LeaseInv, TypeInv, TypeOK, PoolOK, Busy
      <3>2. Owns(w) => Exists(w.id)
        BY <3>1 DEF Owns, LeaseInv, EveryLeaseHasOneHolder, Exists, InFlight
      <3>3. Outcome(w).key = jobs[w.id].key
        BY <1>0, <3>1, OutcomeKey
      <3>4. \A i \in Ids : jobs'[i].key = jobs[i].key /\ (jobs'[i].state # "ABSENT" => Exists(i))
        <4> HIDE DEF w
        <4> QED
          BY <1>0, <3>1, <3>2, <3>3 DEF Exists
      <3> QED
        BY <1>1, <3>4
    <2> QED
      BY <1>6, <2>1, <2>2 DEF WorkerStep, Begin, Return, WorkerRaises
  <1>7. ASSUME KeyStep PROVE KeyInv'
    BY <1>7, KeyStepKeeps
  <1> QED
    BY <1>2, <1>4, <1>5, <1>6, <1>7, ApiKeys, SessionKeys DEF Next, VisitStep

\* To begin with there are no rows.
LEMMA InitKeys == Init => KeyInv
  BY DEF Init, KeyInv, Exists, NoRow

-----------------------------------------------------------------------------
(* Publication *)

\* A thread past _active that still owns its row is one whose grant holds:
\* every way to withdraw the grant takes the leases of the session.
Granted == \A s \in Slots : (PastActive(worker[s]) /\ Owns(worker[s]))
              => sub[SessionOf[jobs[worker[s].id].key]].enabled
CurrentInv == LeaseMeansCurrent /\ Granted

\* Nor threads.
LEMMA InitCurrent == Init => CurrentInv
  BY DEF Init, CurrentInv, LeaseMeansCurrent, Granted, PastActive, FreeWorker

\* The columns compared by LeaseMeansCurrent.
LEMMA SameCopy ==
  ASSUME NEW r PROVE Work(CopyOf(r)) = Work(r)
  BY DEF CopyOf, Work

\* Two versions of a row that agree on them.
LEMMA SameWork ==
  ASSUME NEW r, NEW q, Kept(r, q) PROVE Work(r) = Work(q)
  BY DEF Kept, Work

\* A thread comes past _active only through Begin, on the row as it is now.
LEMMA Admission ==
  ASSUME TypeInv, NEW s \in Slots, WorkerStep(s) \/ WorkerRaises(s), PastActive(worker'[s])
  PROVE  /\ UNCHANGED jobs
         /\ worker'[s].id = worker[s].id
         /\ \/ PastActive(worker[s]) /\ worker'[s].row = worker[s].row
            \/ /\ Owns(worker[s]) /\ sub[SessionOf[jobs[worker[s].id].key]].enabled
               /\ worker'[s].row = CopyOf(jobs[worker[s].id])
  <1> DEFINE w == worker[s]
  <1>0. w \in Worker /\ worker \in [Slots -> Worker] /\ (Busy(s) => w.id \in Ids)
    BY DEF TypeInv, TypeOK, PoolOK
  <1>1. CASE Begin(s)
    <2>1. Busy(s) /\ w.id \in Ids
      BY <1>0, <1>1 DEF Begin, Busy
    <2>2. UNCHANGED jobs /\ \E a \in Checks(w) :
             \/ a # "ok" /\ Decide(s, w, a)
             \/ a = "ok" /\ \E out : Decide(s, Reread(w), out)
             \/ a = "ok" /\ worker' = [worker EXCEPT ![s] = [Reread(w) EXCEPT !.pc = "calling", !.gate = TRUE]]
             \/ a = "ok" /\ worker' = [worker EXCEPT ![s] = [Reread(w) EXCEPT !.pc = "calling"]]
      BY <1>1 DEF Begin
    <2>3. \A a \in Checks(w) : \/ a \in {"cancelled", "permanent"}
                               \/ Owns(w) /\ sub[SessionOf[jobs[w.id].key]].enabled
      BY DEF Checks
    <2>4. ASSUME NEW a \in {"cancelled", "permanent"}, Decide(s, w, a)
          PROVE  ~PastActive(worker'[s])
      <3>1. worker'[s] = [w EXCEPT !.pc = "commit", !.out = a]
        BY <1>0, <2>4 DEF Decide
      <3> QED
        BY <1>0, <3>1 DEF PastActive, Worker
    <2>5. Reread(w) \in Worker /\ Reread(w).id = w.id /\ Reread(w).row = CopyOf(jobs[w.id])
      BY <1>0, <2>1, RereadType DEF Reread, Worker
    <2>6. ASSUME NEW v \in Worker, NEW out,
                 \/ worker' = [worker EXCEPT ![s] = [v EXCEPT !.pc = "commit", !.out = out]]
                 \/ worker' = [worker EXCEPT ![s] = [v EXCEPT !.pc = "calling", !.gate = TRUE]]
                 \/ worker' = [worker EXCEPT ![s] = [v EXCEPT !.pc = "calling"]]
          PROVE  worker'[s].id = v.id /\ worker'[s].row = v.row
      <3>1. CASE worker' = [worker EXCEPT ![s] = [v EXCEPT !.pc = "commit", !.out = out]]
        BY <1>0, <3>1 DEF Worker
      <3>2. CASE worker' = [worker EXCEPT ![s] = [v EXCEPT !.pc = "calling", !.gate = TRUE]]
        BY <1>0, <3>2 DEF Worker
      <3>3. CASE worker' = [worker EXCEPT ![s] = [v EXCEPT !.pc = "calling"]]
        BY <1>0, <3>3 DEF Worker
      <3> QED
        BY <2>6, <3>1, <3>2, <3>3
    <2>7. CASE \E a \in Checks(w) : a # "ok" /\ Decide(s, w, a)
      BY <2>4, <2>7 DEF Checks
    <2>8. CASE "ok" \in Checks(w) /\ \E out :
                 \/ worker' = [worker EXCEPT ![s] = [Reread(w) EXCEPT !.pc = "commit", !.out = out]]
                 \/ worker' = [worker EXCEPT ![s] = [Reread(w) EXCEPT !.pc = "calling", !.gate = TRUE]]
                 \/ worker' = [worker EXCEPT ![s] = [Reread(w) EXCEPT !.pc = "calling"]]
      <3>1. worker'[s].id = w.id /\ worker'[s].row = CopyOf(jobs[w.id])
        BY <2>5, <2>6, <2>8
      <3>2. Owns(w) /\ sub[SessionOf[jobs[w.id].key]].enabled
        BY <2>3, <2>8
      <3> QED
        BY <2>2, <3>1, <3>2
    <2> QED
      BY <2>2, <2>7, <2>8 DEF Decide
  <1>2. CASE Return(s)
    <2>1. UNCHANGED jobs /\ w.pc = "calling"
          /\ \E out : worker' = [worker EXCEPT ![s] = [w EXCEPT !.pc = "commit", !.out = out]]
      BY <1>2 DEF Return, Decide
    <2> QED
      BY <1>0, <2>1 DEF Worker, PastActive
  <1>3. CASE Commit(s) \/ WorkerRaises(s)
    <2>1. CASE Commit(s)
      <3>1. worker'[s].pc = "free"
        BY <1>0, <2>1 DEF Commit, FreeWorker
      <3> QED
        BY <3>1 DEF PastActive
    <2>2. CASE WorkerRaises(s)
      <3>1. worker'[s] = [w EXCEPT !.pc = "raised", !.gate = FALSE]
        BY <1>0, <2>2 DEF WorkerRaises
      <3>2. worker'[s].pc = "raised"
        BY <1>0, <3>1 DEF Worker
      <3> QED
        BY <3>2 DEF PastActive
    <2> QED
      BY <1>3, <2>1, <2>2
  <1> QED
    BY <1>1, <1>2, <1>3 DEF WorkerStep

\* A thread keeps the row current for every other.
LEMMA ThreadCurrent ==
  ASSUME TypeInv, LeaseInv, CurrentInv, NEW s \in Slots, WorkerStep(s) \/ WorkerRaises(s)
  PROVE  CurrentInv'
  <1> SUFFICES ASSUME NEW u \in Slots, PastActive(worker'[u]), Owns(worker[u])'
               PROVE  /\ Work(worker'[u].row) = Work(jobs'[worker'[u].id])
                      /\ sub'[SessionOf[jobs'[worker'[u].id].key]].enabled
    BY DEF CurrentInv, LeaseMeansCurrent, Granted
  <1>0. UNCHANGED sub
    BY DEF WorkerStep, Begin, Return, Commit, WorkerRaises
  <1>1. CASE u = s
    <2>1. UNCHANGED jobs /\ worker'[s].id = worker[s].id
      BY <1>1, Admission
    <2>2. CASE PastActive(worker[s]) /\ worker'[s].row = worker[s].row
      BY <1>0, <1>1, <2>1, <2>2 DEF CurrentInv, LeaseMeansCurrent, Granted, Owns
    <2>3. CASE /\ Owns(worker[s]) /\ sub[SessionOf[jobs[worker[s].id].key]].enabled
               /\ worker'[s].row = CopyOf(jobs[worker[s].id])
      BY <1>0, <1>1, <2>1, <2>3, SameCopy
    <2> QED
      BY <1>1, <2>2, <2>3, Admission
  <1>2. CASE u # s
    <2>1. worker'[u] = worker[u] /\ Busy(u) /\ Busy(s)
      BY <1>2, ThreadFacts DEF PastActive, Busy
    <2>2. worker[u].row.lease # None /\ worker[u].row.lease # worker[s].row.lease
      BY <1>2, <2>1 DEF LeaseInv, EveryLeaseHasOneHolder
    <2>3. jobs'[worker[u].id] = jobs[worker[u].id]
      <3>1. worker[u].id \in Ids /\ jobs'[worker[u].id].lease = worker[u].row.lease
        BY <2>1 DEF Owns, TypeInv, PoolOK
      <3> QED
        BY <2>2, <3>1, ThreadFacts DEF Dropped
    <2> QED
      BY <1>0, <2>1, <2>3 DEF Owns, CurrentInv, LeaseMeansCurrent, Granted
  <1> QED
    BY <1>1, <1>2

\* The other steps: they keep the rows in flight, and what they disable they
\* also take out of flight.
LEMMA TableCurrent ==
  ASSUME TypeInv, TypeInv', LeaseInv, CurrentInv, TableStep,
         \A i \in Ids : (jobs'[i].lease # None /\ sub[SessionOf[jobs[i].key]].enabled)
                           => sub'[SessionOf[jobs[i].key]].enabled
  PROVE  CurrentInv'
  <1> SUFFICES ASSUME NEW u \in Slots, PastActive(worker'[u]), Owns(worker[u])'
               PROVE  /\ Work(worker'[u].row) = Work(jobs'[worker'[u].id])
                      /\ sub'[SessionOf[jobs'[worker'[u].id].key]].enabled
    BY DEF CurrentInv, LeaseMeansCurrent, Granted
  <1>1. /\ worker'[u] = worker[u] /\ worker[u].id \in Ids /\ worker[u].row.lease # None
        /\ jobs[worker[u].id] \in Row /\ jobs'[worker[u].id] \in Row
    BY DEF TableStep, PastActive, Busy, LeaseInv, TypeInv, TypeOK, PoolOK
  <1>2. jobs'[worker[u].id].lease # None /\ Kept(jobs[worker[u].id], jobs'[worker[u].id])
    BY <1>1 DEF Owns, TableStep, Cleared, Dropped
  <1>3. Owns(worker[u])
    BY <1>1, <1>2 DEF Owns, Kept
  <1>4. Work(jobs[worker[u].id]) = Work(jobs'[worker[u].id])
    BY <1>2, SameWork
  <1>5. jobs[worker[u].id].key = jobs'[worker[u].id].key
    BY <1>2 DEF Kept
  <1> QED
    BY <1>1, <1>2, <1>3, <1>4, <1>5 DEF CurrentInv, LeaseMeansCurrent, Granted

\* Disabling a subscription takes the lease of every row of its session.
LEMMA DisablingDrops ==
  ASSUME TypeInv, LeaseInv, KeyInv, NEW s \in Sessions, SessionStep(s), NEW i \in Ids,
         jobs'[i].lease # None, sub[SessionOf[jobs[i].key]].enabled
  PROVE  sub'[SessionOf[jobs[i].key]].enabled
  <1> DEFINE k == SessionOf[jobs[i].key]
  <1>0. /\ jobs \in [Ids -> Row] /\ sub \in SubType
        /\ {"CANCELLED", "SUPERSEDED"} = Withdrawn
        /\ "CANCELLED" \notin InFlight
    BY DEF TypeInv, TypeOK, SubType, Withdrawn, InFlight
  <1>1. jobs[i].state \in InFlight
    <2>1. Cleared(jobs'[i]) \/ Kept(jobs[i], jobs'[i])
      BY SessionTable DEF TableStep
    <2> QED
      BY <2>1 DEF Cleared, Dropped, Kept, LeaseInv, EveryLeaseHasOneHolder
  <1>2. Exists(i) /\ Open(i)
    BY <1>1 DEF Exists, Open, InFlight
  <1>3. CASE k # s
    <2>0. k \in Sessions
      BY <1>2, ConstantsAssumption DEF KeyInv
    <2>1. \/ \E on, rev : sub' = [sub EXCEPT ![s].exists = TRUE, ![s].enabled = on, ![s].revision = rev]
          \/ sub' = [sub EXCEPT ![s].enabled = FALSE]
          \/ \E g : sub' = [sub EXCEPT ![s].gen = g]
      BY DEF SessionStep, Subscribe, Cancel, Sync
    <2>2. sub'[k] = sub[k]
      BY <1>0, <1>3, <2>0, <2>1 DEF SubType
    <2> QED
      BY <2>2
  <1>4. CASE k = s
    <2>1. i \in Of(s)
      BY <1>2, <1>4 DEF Of
    <2>2. Invalidated(s, "CANCELLED")[i].lease = None
      BY <1>0, <1>2, <2>1 DEF Invalidated, Withdraw, Row
    <2>3. ASSUME NEW on \in BOOLEAN, NEW rev, Subscribe(s, on, rev)
          PROVE  sub'[s].enabled
      <3>1. on
        BY <2>2, <2>3 DEF Subscribe
      <3> QED
        BY <1>0, <1>4, <2>3, <3>1 DEF Subscribe, SubType
    <2>4. ASSUME NEW delete \in BOOLEAN, Cancel(s, delete)
          PROVE  FALSE
      BY <2>1, <2>2, <2>4 DEF Cancel, NoRow
    <2>5. ASSUME NEW present, NEW g, Sync(s, present, g)
          PROVE  sub'[s].enabled
      BY <1>0, <1>4, <2>5 DEF Sync, SubType
    <2> QED
      BY <1>4, <2>3, <2>4, <2>5 DEF SessionStep
  <1> QED
    BY <1>3, <1>4

\* A claimed row is one no other thread owns.
LEMMA ClaimCurrent ==
  ASSUME TypeInv, LeaseInv, CurrentInv,
         NEW s \in Slots, NEW i \in Ids, NEW t \in Tokens, Claim(s, i, t)
  PROVE  CurrentInv'
  <1> SUFFICES ASSUME NEW u \in Slots, PastActive(worker'[u]), Owns(worker[u])'
               PROVE  /\ Work(worker'[u].row) = Work(jobs'[worker'[u].id])
                      /\ sub'[SessionOf[jobs'[worker'[u].id].key]].enabled
    BY DEF CurrentInv, LeaseMeansCurrent, Granted
  <1>1. u # s
    BY ClaimFacts DEF PastActive
  <1>2. worker'[u] = worker[u] /\ worker[u].id \in Ids /\ UNCHANGED sub
    BY <1>1, ClaimFacts DEF PastActive, Busy, TypeInv, PoolOK, Claim
  <1>3. worker[u].id # i
    BY <1>2, ClaimFacts DEF Owns
  <1>4. Kept(jobs[worker[u].id], jobs'[worker[u].id])
    BY <1>2, <1>3, ClaimFacts
  <1>5. Owns(worker[u]) /\ jobs[worker[u].id].key = jobs'[worker[u].id].key
    BY <1>2, <1>4 DEF Owns, Kept
  <1> QED
    BY <1>2, <1>4, <1>5, SameWork DEF CurrentInv, LeaseMeansCurrent, Granted

\* Every step keeps owned rows current and granted.
LEMMA StepCurrent ==
  TypeInv /\ TypeInv' /\ LeaseInv /\ KeyInv /\ CurrentInv /\ [Next]_vars => CurrentInv'
  <1> SUFFICES ASSUME TypeInv, TypeInv', LeaseInv, KeyInv, CurrentInv, [Next]_vars PROVE CurrentInv'
    OBVIOUS
  <1>1. ASSUME TableStep, \A k \in Sessions : sub'[k].enabled = sub[k].enabled, UNCHANGED sub
        PROVE  CurrentInv'
    BY <1>1, TableCurrent
  <1>2. ASSUME NEW c \in Clients, ApiStep(c) PROVE CurrentInv'
    <2>1. UNCHANGED sub
      BY <1>2 DEF ApiStep, EnqueueRead, EnqueueAnswer, EnqueueInsert, RetryRead, RetryCommit,
                  PolicyRead, PolicySave, PolicyConflict, PolicyReread, PolicyApply
    <2> QED
      BY <1>1, <1>2, <2>1, ApiTable
  <1>3. ASSUME NEW s \in Sessions, SessionStep(s) PROVE CurrentInv'
    BY <1>3, SessionTable, DisablingDrops, TableCurrent
  <1>4. CASE TickStep \/ (\E s \in Slots : Miss(s)) \/ (\E i \in Ids : DeadlinePasses(i))
    <2>1. UNCHANGED sub
      BY <1>4 DEF TickStep, TickPlan, TickRaises, Miss, DeadlinePasses
    <2> QED
      BY <1>1, <1>4, <2>1, SchedulerTable
  <1>5. ASSUME NEW s \in Slots, NEW i \in Ids, NEW t \in Tokens, Claim(s, i, t) PROVE CurrentInv'
    BY <1>5, ClaimCurrent
  <1>6. ASSUME NEW s \in Slots, WorkerStep(s) \/ WorkerRaises(s) PROVE CurrentInv'
    BY <1>6, ThreadCurrent
  <1>7. CASE Restart
    BY <1>7 DEF Restart, FreeWorker, CurrentInv, LeaseMeansCurrent, Granted, PastActive
  <1>8. CASE UNCHANGED vars
    BY <1>8 DEF vars, CurrentInv, LeaseMeansCurrent, Granted, Owns
  <1> QED
    BY <1>2, <1>3, <1>4, <1>5, <1>6, <1>7, <1>8 DEF Next, VisitStep

QueueInv == TypeInv /\ LeaseInv /\ KeyInv /\ CurrentInv

\* Types, leases, keys and currency hold together in every state.
LEMMA QueueInvariant == Spec => []QueueInv
  <1>1. Init => QueueInv
    BY InitTypeInv, InitLease, InitKeys, InitCurrent DEF QueueInv
  <1>2. QueueInv /\ [Next]_vars => QueueInv'
    BY StepTypeInv, StepLease, StepKeys, StepCurrent DEF QueueInv
  <1> QED
    BY <1>1, <1>2, PTL DEF Spec

\* No worker ever commits columns derived from a row that has been rewritten
\* since it read it: holding the lease means working on the current row.
THEOREM FencingIsSound == Spec => []LeaseMeansCurrent
  <1>1. QueueInv => LeaseMeansCurrent
    BY DEF QueueInv, CurrentInv
  <1> QED
    BY QueueInvariant, <1>1, PTL

\* A result other than the one of a thread past _active is never written.
LEMMA OutcomeResult ==
  ASSUME NEW w \in Worker, w.id \in Ids, jobs \in [Ids -> Row], w.pc = "commit",
         Outcome(w).result # None, jobs[w.id].result = None
  PROVE  PastActive(w)
  <1> SUFFICES ASSUME w.out \in {"cancelled", "permanent"} PROVE FALSE
    BY DEF PastActive
  <1>1. jobs[w.id] \in Row
    OBVIOUS
  <1>2. CASE w.out = "cancelled"
    BY <1>1, <1>2 DEF Outcome, Row
  <1>3. CASE w.out = "permanent"
    <2>1. Outcome(w) = Failed(w)
      BY <1>3 DEF Outcome
    <2>2. Failed(w).result = jobs[w.id].result
      BY <1>1 DEF Failed, Row
    <2> QED
      BY <2>1, <2>2
  <1> QED
    BY <1>2, <1>3

\* Whatever the API does between the check of the grant and the commit, a result
\* only ever appears while the subscription of its session is enabled.
THEOREM PublicationNeedsGrant == Spec => PublishedUnderGrant
  <1>1. QueueInv /\ [Next]_vars =>
          [\A i \in Ids : (jobs[i].result = None /\ jobs'[i].result # None)
                            => sub[SessionOf[jobs[i].key]].enabled]_vars
    <2> SUFFICES ASSUME QueueInv, Next, NEW i \in Ids, jobs[i].result = None, jobs'[i].result # None
                 PROVE  sub[SessionOf[jobs[i].key]].enabled
      OBVIOUS
    <2>0. TypeInv /\ LeaseInv /\ CurrentInv /\ jobs \in [Ids -> Row]
      BY DEF QueueInv, TypeInv, TypeOK
    <2>1. ASSUME TableStep PROVE FALSE
      BY <2>1 DEF TableStep, Kept, Cleared
    <2>2. ASSUME NEW s \in Slots, NEW j \in Ids, NEW t \in Tokens, Claim(s, j, t) PROVE FALSE
      <3>1. jobs'[i].result = Resting(s)[i].result
        <4>1. Resting(s) \in [Ids -> Row]
          BY <2>0, RestingType
        <4> QED
          BY <2>2, <4>1 DEF Claim, Row
      <3>2. Resting(s)[i].result = jobs[i].result
        BY <2>0 DEF Resting, Row
      <3> QED
        BY <3>1, <3>2
    <2>3. CASE Restart
      <3>1. jobs'[i].result = jobs[i].result
        <4>1. jobs[i] \in Row /\ jobs'[i] = Recovered[i]
          BY <2>0, <2>3 DEF Restart
        <4> QED
          BY <4>1 DEF Recovered, Row
      <3> QED
        BY <3>1
    <2>4. ASSUME NEW s \in Slots, WorkerStep(s) \/ WorkerRaises(s)
          PROVE  sub[SessionOf[jobs[i].key]].enabled
      <3> DEFINE w == worker[s]
      <3>1. Commit(s)
        BY <2>4 DEF WorkerStep, Begin, Return, WorkerRaises
      <3>2. /\ w \in Worker /\ w.id \in Ids /\ w.pc = "commit"
            /\ jobs' = IF Owns(w) THEN [jobs EXCEPT ![w.id] = Outcome(w)] ELSE jobs
        BY <2>0, <3>1 DEF Commit, TypeInv, TypeOK, PoolOK, Busy
      <3>3. Owns(w) /\ i = w.id /\ Outcome(w).result # None
        <4> HIDE DEF w
        <4> QED
          BY <2>0, <3>2
      <3>4. PastActive(w)
        BY <2>0, <3>2, <3>3, OutcomeResult
      <3> QED
        BY <2>0, <3>3, <3>4 DEF CurrentInv, Granted
    <2> QED
      BY <2>0, <2>1, <2>2, <2>3, <2>4, ApiTable, SessionTable, SchedulerTable DEF Next, VisitStep
  <1> QED
    BY QueueInvariant, <1>1, PTL DEF Spec, PublishedUnderGrant

-----------------------------------------------------------------------------
(* Answers: what a thread writes fits the row it has read                  *)

\* AnalysisMatchesPolicy of one row, and that a row always has a scope.
RowFits(r) ==
    /\ r.state # "ABSENT" => r.scope # None
    /\ r.state \notin Withdrawn \cup {"ABSENT"} =>
        /\ {r.classification, r.checkpoint, r.result} \subseteq {None, r.scope}
        /\ r.stage = "classify" => r.classification = None
        /\ r.stage \in {"context", "retrieve", "generate"} => r.classification # None
        /\ r.stage = "generate" => r.checkpoint # None
        /\ r.state = "COMPLETED" <=> r.result # None
RowsFit == \A i \in Ids : RowFits(jobs[i])

\* An outcome comes from the stage that can have it.
OutFits(w) ==
    /\ w.pc \in {"free", "begin", "calling"} => w.out = "none"
    /\ w.pc = "commit" => w.out # "none"
    /\ w.pc = "calling" => w.row.stage \in {"classify", "retrieve", "generate"}
    /\ w.out = "clarify" => w.row.stage = "context"
    /\ w.out = "ready" => w.row.stage = "retrieve"
    /\ w.out = "answer" => w.row.stage \in {"retrieve", "generate"}
    /\ w.out \in {"unsure", "low", "unsupported", "sub", "priority"} => w.row.stage = "classify"
OutsFit == \A s \in Slots : OutFits(worker[s])

-----------------------------------------------------------------------------
(* Rows *)

\* What the requests and the scheduler make of a row that fits.
LEMMA WithdrawFits ==
  ASSUME jobs \in [Ids -> Row], RowsFit, NEW S, \A i \in S : Exists(i), NEW how \in Withdrawn, NEW i \in Ids
  PROVE  RowFits(Withdraw(S, how)[i])
  <1>1. jobs[i] \in Row /\ RowFits(jobs[i]) /\ how # "ABSENT"
    BY DEF RowsFit, Withdrawn
  <1>2. CASE i \in S
    <2>1. Withdraw(S, how)[i] = [jobs[i] EXCEPT !.state = how, !.lease = None, !.result = None,
                                                !.checkpoint = None]
      BY <1>2 DEF Withdraw
    <2>2. jobs[i].scope # None
      BY <1>1, <1>2 DEF RowFits, Exists
    <2> QED
      BY <1>1, <2>1, <2>2 DEF RowFits, Row
  <1>3. CASE i \notin S
    BY <1>1, <1>3 DEF Withdraw
  <1> QED
    BY <1>2, <1>3

\* _invalidate is a withdrawal, of the rows of one session.
LEMMA InvalidatedFits ==
  ASSUME jobs \in [Ids -> Row], RowsFit, NEW s, NEW how \in Withdrawn, NEW i \in Ids
  PROVE  RowFits(Invalidated(s, how)[i])
  <1>1. \A j \in Of(s) : Exists(j)
    BY DEF Of
  <1> QED
    BY <1>1, WithdrawFits DEF Invalidated

\* A row that starts again from the classifier has nothing of the old scope.
LEMMA ReclassifiedFits ==
  ASSUME NEW r \in Row, r.state # "ABSENT", NEW v, NEW sc \in Scopes
  PROVE  RowFits(Reclassified(r, v, sc))
  <1>1. sc # None
    BY ConstantsAssumption
  <1> QED
    BY <1>1 DEF Reclassified, RowFits, Row

\* A row that is not there holds nothing.
LEMMA NoRowFits == RowFits(NoRow)
  BY DEF RowFits, NoRow

\* Grants, revocations, cancellations and source snapshots only withdraw or delete.
LEMMA SessionFits ==
  ASSUME TypeInv, RowsFit, NEW s \in Sessions, SessionStep(s) PROVE RowsFit'
  <1> SUFFICES ASSUME NEW i \in Ids PROVE RowFits(jobs'[i])
    BY DEF RowsFit
  <1>0. jobs \in [Ids -> Row] /\ {"CANCELLED", "SUPERSEDED"} = Withdrawn /\ RowFits(jobs[i])
    BY DEF TypeInv, TypeOK, Withdrawn, RowsFit
  <1>1. ASSUME NEW on \in BOOLEAN, NEW rev, Subscribe(s, on, rev) PROVE RowFits(jobs'[i])
    BY <1>0, <1>1, InvalidatedFits DEF Subscribe
  <1>2. ASSUME NEW delete \in BOOLEAN, Cancel(s, delete) PROVE RowFits(jobs'[i])
    BY <1>0, <1>2, InvalidatedFits, NoRowFits DEF Cancel
  <1>3. ASSUME NEW present, NEW g, Sync(s, present, g) PROVE RowFits(jobs'[i])
    <2> DEFINE gone == {j \in Of(s) : Live(j) /\ UttOf[jobs[j].key] \notin present}
    <2>1. jobs' = Withdraw(gone, "SUPERSEDED") /\ \A j \in gone : Exists(j)
      BY <1>3 DEF Sync, Of
    <2> QED
      BY <1>0, <2>1, WithdrawFits
  <1> QED
    BY <1>1, <1>2, <1>3 DEF SessionStep

\* An admission, a retry and a policy change start rows from the classifier.
LEMMA ApiFits == ASSUME TypeInv, RowsFit, NEW c \in Clients, ApiStep(c) PROVE RowsFit'
  <1> SUFFICES ASSUME NEW i \in Ids PROVE RowFits(jobs'[i])
    BY DEF RowsFit
  <1>0. /\ jobs \in [Ids -> Row] /\ client[c] \in Request /\ RowFits(jobs[i])
        /\ "SUPERSEDED" \in Withdrawn
    BY DEF TypeInv, TypeOK, RowsFit, Withdrawn
  <1>1. CASE UNCHANGED jobs
    BY <1>0, <1>1
  <1>2. ASSUME NEW j \in Ids, EnqueueInsert(c, j) PROVE RowFits(jobs'[i])
    <2> DEFINE new == [NoRow EXCEPT !.key = client[c].key, !.gen = client[c].gen,
                           !.revision = client[c].revision, !.ver = client[c].ver,
                           !.scope = client[c].scope, !.state = "QUEUED"]
               rest == Withdraw(Superseding(client[c].key), "SUPERSEDED")
    <2>1. RowFits(new)
      <3>1. client[c].scope \in Scopes /\ None \notin Scopes
        BY <1>0, <1>2, RequestFields, ConstantsAssumption DEF EnqueueInsert
      <3> QED
        BY <3>1 DEF NoRow, RowFits
    <2>2. RowFits(rest[i])
      <3>1. \A k \in Superseding(client[c].key) : Exists(k)
        BY DEF Superseding, Outdated, Live
      <3> QED
        BY <1>0, <3>1, WithdrawFits
    <2>3. jobs'[i] = IF i = j THEN new ELSE IF i \in Old(client[c]) THEN NoRow ELSE rest[i]
      BY <1>2 DEF EnqueueInsert
    <2> HIDE DEF new, rest
    <2> QED
      BY <2>1, <2>2, <2>3, NoRowFits
  <1>3. CASE RetryCommit(c)
    <2>1. client[c].scope \in Scopes
      BY <1>0, <1>3, RequestFields DEF RetryCommit
    <2>2. RowFits(Retried(client[c])[i])
      BY <1>0, <2>1, ReclassifiedFits DEF Retried, Exists
    <2> QED
      BY <1>0, <1>3, <2>2 DEF RetryCommit
  <1>4. CASE PolicyApply(c)
    <2>1. client[c].scope \in Scopes
      BY <1>0, <1>4, RequestFields DEF PolicyApply
    <2>2. RowFits(Reapplied(client[c])[i])
      BY <1>0, <2>1, ReclassifiedFits DEF Reapplied, Affected, Live, Exists
    <2> QED
      BY <1>0, <1>4, <2>2 DEF PolicyApply
  <1> QED
    BY <1>1, <1>2, <1>3, <1>4 DEF ApiStep, EnqueueRead, EnqueueAnswer, RetryRead,
       PolicyRead, PolicySave, PolicyConflict, PolicyReread

\* The watchdog, the slots that rest, the claim and the recovery change none of it.
LEMMA SchedulerFits ==
  ASSUME TypeInv, RowsFit, TickStep \/ VisitStep \/ Restart \/ (\E i \in Ids : DeadlinePasses(i))
  PROVE  RowsFit'
  <1> SUFFICES ASSUME NEW i \in Ids PROVE RowFits(jobs'[i])
    BY DEF RowsFit
  <1>0. jobs \in [Ids -> Row] /\ jobs[i] \in Row /\ RowFits(jobs[i])
    BY DEF TypeInv, TypeOK, RowsFit
  <1>1. RowFits(Marked[i])
    BY <1>0 DEF Marked, RowFits, Row
  <1>2. ASSUME NEW s PROVE RowFits(Resting(s)[i]) /\ Resting(s)[i] \in Row
    BY <1>0, RestingType DEF Resting, RowFits, Row, Withdrawn
  <1>3. CASE TickStep
    BY <1>1, <1>3 DEF TickStep, TickRaises, TickPlan
  <1>4. ASSUME NEW s \in Slots, Miss(s) PROVE RowFits(jobs'[i])
    BY <1>2, <1>4 DEF Miss
  <1>5. ASSUME NEW s \in Slots, NEW j \in Ids, NEW t \in Tokens, Claim(s, j, t) PROVE RowFits(jobs'[i])
    <2>1. Resting(s) \in [Ids -> Row]
      BY <1>0, RestingType
    <2>2. CASE i # j
      BY <1>2, <1>5, <2>1, <2>2 DEF Claim
    <2>3. CASE i = j
      <3>1. jobs[i].state \in RUNNABLE
        BY <1>5, <2>3 DEF Claim, Claimable
      <3>2. Resting(s)[i].state \in RUNNABLE
        BY <1>0, <3>1 DEF Resting, Row, RUNNABLE
      <3>3. jobs'[i] = [Resting(s)[i] EXCEPT !.state = IF s \in FilterSlots THEN "CLASSIFYING" ELSE "RUNNING",
                                             !.lease = t]
        BY <1>5, <2>1, <2>3 DEF Claim
      <3> QED
        BY <1>2, <3>2, <3>3 DEF RowFits, Row, RUNNABLE, Withdrawn
    <2> QED
      BY <2>2, <2>3
  <1>6. CASE Restart
    <2>1. jobs'[i] = Recovered[i]
      BY <1>6 DEF Restart
    <2> QED
      BY <1>0, <2>1 DEF Recovered, RowFits, Row, InFlight, Withdrawn
  <1> QED
    BY <1>0, <1>3, <1>4, <1>5, <1>6 DEF VisitStep, DeadlinePasses

-----------------------------------------------------------------------------
(* Threads *)

\* A thread keeps its stage from the reread to the commit, and its outcome is one of it.
LEMMA OutsStep ==
  ASSUME TypeInv, LeaseInv, OutsFit, NEW s \in Slots, WorkerStep(s) \/ WorkerRaises(s)
  PROVE  OutsFit'
  <1> DEFINE w == worker[s]
  <1>0. /\ w \in Worker /\ worker \in [Slots -> Worker] /\ Busy(s) /\ w.id \in Ids
        /\ \A u \in Slots \ {s} : worker'[u] = worker[u]
        /\ jobs[w.id] \in Row
    BY ThreadFacts DEF TypeInv, TypeOK, PoolOK
  <1>1. SUFFICES OutFits(worker'[s])
    BY <1>0, <1>1 DEF OutsFit
  <1>2. CASE Begin(s)
    <2> DEFINE fresh == Reread(w)
    <2>1. /\ fresh \in Worker /\ fresh.row.stage = jobs[w.id].stage /\ fresh.out = w.out
      BY <1>0, RereadType DEF Reread, CopyOf, Worker
    <2>2. \/ \E a \in {"cancelled", "permanent"} : worker'[s] = [w EXCEPT !.pc = "commit", !.out = a]
          \/ worker'[s] = [fresh EXCEPT !.pc = "calling", !.gate = TRUE] /\ jobs[w.id].stage \in {"classify", "generate"}
          \/ worker'[s] = [fresh EXCEPT !.pc = "commit", !.out = "requeue"]
          \/ worker'[s] = [fresh EXCEPT !.pc = "commit", !.out = "clarify"] /\ jobs[w.id].stage = "context"
          \/ worker'[s] = [fresh EXCEPT !.pc = "calling"] /\ jobs[w.id].stage = "retrieve"
      BY <1>0, <1>2 DEF Begin, Checks, Decide
    <2>3. w.out = "none"
      BY <1>2 DEF Begin, OutsFit, OutFits
    <2> HIDE DEF w, fresh
    <2>4. CASE \E a \in {"cancelled", "permanent"} : worker'[s] = [w EXCEPT !.pc = "commit", !.out = a]
      BY <1>0, <2>4 DEF OutFits, Worker
    <2>5. CASE worker'[s] = [fresh EXCEPT !.pc = "commit", !.out = "requeue"]
      BY <2>1, <2>5 DEF OutFits, Worker
    <2>6. CASE worker'[s] = [fresh EXCEPT !.pc = "commit", !.out = "clarify"] /\ jobs[w.id].stage = "context"
      BY <2>1, <2>6 DEF OutFits, Worker
    <2>7. CASE \/ worker'[s] = [fresh EXCEPT !.pc = "calling", !.gate = TRUE] /\ jobs[w.id].stage \in {"classify", "generate"}
               \/ worker'[s] = [fresh EXCEPT !.pc = "calling"] /\ jobs[w.id].stage = "retrieve"
      BY <2>1, <2>3, <2>7 DEF OutFits, Worker
    <2> QED
      BY <2>2, <2>4, <2>5, <2>6, <2>7
  <1>3. CASE Return(s)
    <2>1. w.pc = "calling" /\ OutFits(w)
      BY <1>3 DEF Return, OutsFit
    <2>2. \E o \in Answers(w.row.stage) \cup {"transient", "permanent", "cancelled"} :
             worker'[s] = [w EXCEPT !.pc = "commit", !.out = o]
      BY <1>0, <1>3 DEF Return, Decide, Checks
    <2> HIDE DEF w
    <2> QED
      BY <1>0, <2>1, <2>2 DEF OutFits, Worker, Answers
  <1>4. CASE Commit(s)
    BY <1>0, <1>4 DEF Commit, FreeWorker, OutFits
  <1>5. CASE WorkerRaises(s)
    <2>1. worker'[s] = [w EXCEPT !.pc = "raised", !.gate = FALSE] /\ OutFits(w)
      BY <1>0, <1>5 DEF WorkerRaises, OutsFit
    <2> HIDE DEF w
    <2> QED
      BY <1>0, <2>1 DEF OutFits, Worker
  <1> QED
    BY <1>2, <1>3, <1>4, <1>5 DEF WorkerStep

\* What a thread that is the row's holder writes fits the row.
LEMMA OutcomeFits ==
  ASSUME NEW w \in Worker, w.id \in Ids, jobs \in [Ids -> Row], w.pc = "commit",
         jobs[w.id].state \in InFlight, RowFits(jobs[w.id]), OutFits(w), w.out # "none",
         PastActive(w) => Work(w.row) = Work(jobs[w.id])
  PROVE  RowFits(Outcome(w))
  <1> DEFINE r == jobs[w.id]
             o == Outcome(w)
  <1>0. /\ r \in Row /\ r.state \notin Withdrawn \cup {"ABSENT", "COMPLETED"}
        /\ r.scope # None /\ r.result = None /\ RowFits(r)
    BY DEF InFlight, Withdrawn, RowFits
  <1>1. CASE w.out = "cancelled"
    <2>1. o = [r EXCEPT !.state = "CANCELLED", !.lease = None, !.result = None, !.checkpoint = None]
      BY <1>1 DEF Outcome
    <2> QED
      BY <1>0, <2>1 DEF RowFits, Withdrawn, Row
  <1>2. CASE w.out \in {"transient", "permanent"}
    <2>1. o = Failed(w)
      BY <1>2 DEF Outcome
    <2> QED
      BY <1>0, <2>1 DEF Failed, RowFits, Withdrawn, Row
  <1>3. CASE w.out \notin {"cancelled", "transient", "permanent"}
    <2>0. /\ w.row.scope = r.scope /\ w.row.stage = r.stage
          /\ w.row.classification = r.classification
          /\ w.out \in {"requeue", "unsure", "low", "unsupported", "sub", "priority", "clarify", "ready", "answer"}
      BY <1>3 DEF PastActive, Work, Worker, Outcomes
    <2>1. CASE w.out = "requeue"
      <3>1. o = [r EXCEPT !.state = "QUEUED", !.lease = None]
        BY <2>1 DEF Outcome
      <3> QED
        BY <1>0, <3>1 DEF RowFits, Withdrawn, Row
    <2>2. CASE w.out \in {"unsure", "low", "unsupported", "sub", "priority"}
      <3>1. r.stage = "classify" /\ r.classification = None
        BY <1>0, <2>0, <2>2 DEF OutFits, RowFits
      <3>2. /\ o.scope = r.scope /\ o.classification = r.scope /\ o.checkpoint = r.checkpoint
            /\ \/ /\ o.state \in {"QUEUED", "AWAITING_CONTEXT"}
                  /\ o.result = None /\ o.stage \in {"context", "retrieve"}
               \/ o.state = "COMPLETED" /\ o.result = r.scope /\ o.stage = "done"
        <4> DEFINE q(class) == Classified(w, class)
        <4>1. ASSUME NEW class
              PROVE  q(class) = [r EXCEPT !.classification = r.scope, !.class = class, !.attempts = 0, !.lease = None]
          BY <2>0 DEF Classified
        <4>2. /\ w.out = "unsure" => o = [q("none") EXCEPT !.stage = "context", !.state = "AWAITING_CONTEXT"]
              /\ w.out = "low" => o = Completed(q("none"), w, r.scope)
              /\ w.out = "unsupported" => o = Completed(q("PQ"), w, r.scope)
              /\ w.out = "sub" => o = [q("SQ") EXCEPT !.stage = "retrieve", !.state = "QUEUED"]
              /\ w.out = "priority" => o = [q("PQ") EXCEPT !.stage = "retrieve", !.state = "QUEUED"]
          BY <2>0 DEF Outcome
        <4>3. CASE w.out \in {"unsure", "sub", "priority"}
          <5> HIDE DEF o, q
          <5>1. ASSUME NEW class, NEW stage \in {"context", "retrieve"},
                       NEW state \in {"QUEUED", "AWAITING_CONTEXT"},
                       o = [q(class) EXCEPT !.stage = stage, !.state = state]
                PROVE  /\ o.scope = r.scope /\ o.classification = r.scope /\ o.checkpoint = r.checkpoint
                       /\ o.state = state /\ o.result = None /\ o.stage = stage
            BY <1>0, <4>1, <5>1 DEF Row
          <5> QED
            BY <4>2, <4>3, <5>1
        <4>4. CASE w.out \in {"low", "unsupported"}
          <5>1. PICK class : o = Completed(q(class), w, r.scope)
            BY <4>2, <4>4
          <5> HIDE DEF o, q
          <5> QED
            BY <1>0, <4>1, <5>1 DEF Completed, Row
        <4> QED
          BY <2>2, <4>3, <4>4
      <3>3. RowFits(o)
        <4> HIDE DEF o, r
        <4> QED
          BY <1>0, <3>1, <3>2 DEF RowFits, Withdrawn
      <3> QED
        BY <3>3
    <2>3. CASE w.out \in {"clarify", "answer"}
      <3>1. r.classification # None /\ r.classification = r.scope
        BY <1>0, <2>0, <2>3 DEF OutFits, RowFits
      <3>2. /\ o.scope = r.scope /\ o.classification = r.classification /\ o.checkpoint = r.checkpoint
            /\ o.state = "COMPLETED" /\ o.result = r.classification /\ o.stage = "done"
        BY <1>0, <2>0, <2>3 DEF Outcome, Completed, Row
      <3>3. RowFits(o)
        <4> HIDE DEF o, r
        <4> QED
          BY <1>0, <3>1, <3>2 DEF RowFits, Withdrawn
      <3> QED
        BY <3>3
    <2>4. CASE w.out = "ready"
      <3>1. r.classification # None /\ r.classification = r.scope
        BY <1>0, <2>0, <2>4 DEF OutFits, RowFits
      <3>2. /\ o.scope = r.scope /\ o.classification = r.classification /\ o.checkpoint = r.classification
            /\ o.state = "QUEUED" /\ o.result = None /\ o.stage = "generate"
        BY <1>0, <2>0, <2>4 DEF Outcome, Row
      <3>3. RowFits(o)
        <4> HIDE DEF o, r
        <4> QED
          BY <1>0, <3>1, <3>2 DEF RowFits, Withdrawn
      <3> QED
        BY <3>3
    <2> QED
      BY <2>0, <2>1, <2>2, <2>3, <2>4
  <1> QED
    BY <1>1, <1>2, <1>3

\* A commit that is not fenced off is the commit of the row's holder, which has read the
\* row as it is (LeaseMeansCurrent).
LEMMA ThreadFits ==
  ASSUME TypeInv, LeaseInv, CurrentInv, RowsFit, OutsFit, NEW s \in Slots,
         WorkerStep(s) \/ WorkerRaises(s)
  PROVE  RowsFit'
  <1> DEFINE w == worker[s]
  <1>1. CASE UNCHANGED jobs
    BY <1>1 DEF RowsFit
  <1>2. CASE Commit(s)
    <2>1. /\ w \in Worker /\ w.id \in Ids /\ w.pc = "commit" /\ w.row.lease # None
          /\ jobs \in [Ids -> Row] /\ OutFits(w)
          /\ jobs' = IF Owns(w) THEN [jobs EXCEPT ![w.id] = Outcome(w)] ELSE jobs
      BY <1>2 DEF Commit, LeaseInv, TypeInv, TypeOK, PoolOK, Busy, OutsFit
    <2>2. CASE ~Owns(w)
      BY <1>1, <2>1, <2>2
    <2>3. CASE Owns(w)
      <3>1. jobs[w.id].state \in InFlight
        BY <2>1, <2>3 DEF Owns, LeaseInv, EveryLeaseHasOneHolder
      <3>2. PastActive(w) => Work(w.row) = Work(jobs[w.id])
        BY <2>3 DEF CurrentInv, LeaseMeansCurrent
      <3>3. RowFits(jobs[w.id]) /\ w.out # "none"
        BY <2>1 DEF RowsFit, OutFits
      <3>4. RowFits(Outcome(w))
        BY <2>1, <3>1, <3>2, <3>3, OutcomeFits
      <3> HIDE DEF w
      <3> QED
        BY <2>1, <2>3, <3>4 DEF RowsFit
    <2> QED
      BY <2>2, <2>3
  <1> QED
    BY <1>1, <1>2 DEF WorkerStep, Begin, Return, WorkerRaises

-----------------------------------------------------------------------------
(* The invariant *)

\* Fencing, and that rows and outcomes fit: what makes AnalysisMatchesPolicy inductive.
AnswerInv == QueueInv /\ RowsFit /\ OutsFit

\* The table is empty and no thread runs.
LEMMA AnswerInit == Init => AnswerInv
  <1> SUFFICES ASSUME Init PROVE RowsFit /\ OutsFit
    BY InitTypeInv, InitLease, InitKeys, InitCurrent DEF QueueInv, AnswerInv
  <1>1. RowsFit
    BY NoRowFits DEF Init, RowsFit
  <1> QED
    BY <1>1 DEF Init, OutsFit, OutFits, FreeWorker

\* Each kind of step by the lemma of its kind; the fencing comes from QueueInv.
LEMMA AnswerStep == AnswerInv /\ [Next]_vars => AnswerInv'
  <1> SUFFICES ASSUME AnswerInv, [Next]_vars PROVE AnswerInv'
    OBVIOUS
  <1>0. QueueInv /\ TypeInv /\ LeaseInv /\ KeyInv /\ CurrentInv /\ RowsFit /\ OutsFit
    BY DEF AnswerInv, QueueInv
  <1>1. QueueInv'
    BY <1>0, StepTypeInv, StepLease, StepKeys, StepCurrent DEF QueueInv
  <1>2. ASSUME UNCHANGED worker PROVE OutsFit'
    BY <1>0, <1>2 DEF OutsFit
  <1>3. ASSUME NEW c \in Clients, ApiStep(c) PROVE RowsFit' /\ OutsFit'
    BY <1>0, <1>2, <1>3, ApiFits, ApiTable DEF TableStep
  <1>4. ASSUME NEW s \in Sessions, SessionStep(s) PROVE RowsFit' /\ OutsFit'
    BY <1>0, <1>2, <1>4, SessionFits, SessionTable DEF TableStep
  <1>5. ASSUME NEW s \in Slots, WorkerStep(s) \/ WorkerRaises(s) PROVE RowsFit' /\ OutsFit'
    BY <1>0, <1>5, ThreadFits, OutsStep
  <1>6. ASSUME TickStep \/ VisitStep \/ Restart \/ (\E i \in Ids : DeadlinePasses(i))
        PROVE  RowsFit' /\ OutsFit'
    <2>1. RowsFit'
      BY <1>0, <1>6, SchedulerFits
    <2>2. ASSUME TickStep \/ (\E s \in Slots : Miss(s)) \/ (\E i \in Ids : DeadlinePasses(i))
          PROVE  OutsFit'
      BY <1>0, <1>2, <2>2, SchedulerTable DEF TableStep
    <2>3. ASSUME NEW s \in Slots, NEW i \in Ids, NEW t \in Tokens, Claim(s, i, t) PROVE OutsFit'
      <3>1. worker \in [Slots -> Worker]
        BY <1>0 DEF TypeInv, TypeOK
      <3>2. worker'[s].pc = "begin" /\ worker'[s].out = "none" /\ \A u \in Slots \ {s} : worker'[u] = worker[u]
        BY <2>3, <3>1 DEF Claim
      <3> QED
        BY <1>0, <3>2 DEF OutsFit, OutFits
    <2>4. ASSUME Restart PROVE OutsFit'
      BY <2>4 DEF Restart, FreeWorker, OutsFit, OutFits
    <2>5. CASE VisitStep
      BY <2>1, <2>2, <2>3, <2>5 DEF VisitStep
    <2> QED
      BY <1>6, <2>1, <2>2, <2>4, <2>5
  <1>7. CASE UNCHANGED vars
    BY <1>0, <1>1, <1>7 DEF vars, RowsFit, OutsFit, AnswerInv
  <1> QED
    BY <1>0, <1>1, <1>3, <1>4, <1>5, <1>6, <1>7 DEF AnswerInv, Next

\* Hence it holds for ever.
LEMMA AnswerInvariant == Spec => []AnswerInv
  BY AnswerInit, AnswerStep, PTL DEF Spec

\* Whatever a row has been given was computed under the scope it carries, and every
\* stage finds the input _execute loads for it: no interleaving of policy changes,
\* retries, withdrawals, model calls and restarts mixes two analyses in one row.
THEOREM AnalysesMatchTheirPolicy == Spec => []AnalysisMatchesPolicy
  <1>1. AnswerInv => AnalysisMatchesPolicy
    BY DEF AnswerInv, RowsFit, RowFits, AnalysisMatchesPolicy, Live, Exists
  <1> QED
    BY AnswerInvariant, <1>1, PTL

\* A thread that completes a row recomputes the miss from the deadline.
LEMMA CompletedMissed ==
  ASSUME NEW w \in Worker, w.id \in Ids, jobs \in [Ids -> Row], w.id \in late,
         jobs[w.id].state # "COMPLETED", w.row.stage = jobs[w.id].stage,
         Outcome(w).state = "COMPLETED",
         Outcome(w).class = "PQ" \/ jobs[w.id].stage = "classify"
  PROVE  Outcome(w).missed
  <1> DEFINE r == jobs[w.id]
  <1>0. r \in Row /\ w.out \in Outcomes \cup {"none"}
    BY DEF Worker
  <1>1. ASSUME NEW q \in Row, NEW b, Outcome(w) = Completed(q, w, b) PROVE Outcome(w).missed
    <2>1. Outcome(w).class = q.class /\ Outcome(w).missed = MissedAtEnd(w, q.class)
      BY <1>1 DEF Completed, Row
    <2> QED
      BY <2>1 DEF MissedAtEnd
  <1>2. CASE w.out \in {"low", "unsupported"}
    BY <1>1, <1>2, ClassifiedType DEF Outcome, Classes
  <1>3. CASE w.out \in {"clarify", "answer"}
    <2>1. [r EXCEPT !.attempts = 0] \in Row
      BY <1>0 DEF Row
    <2> QED
      BY <1>0, <1>1, <1>3, <2>1 DEF Outcome
  <1>4. CASE w.out \in {"unsure", "sub", "priority"}
    <2>1. ASSUME NEW class \in Classes PROVE Classified(w, class) \in Row
      BY ClassifiedType
    <2> QED
      BY <1>4, <2>1 DEF Outcome, Classes, Row
  <1>5. CASE w.out \in {"requeue", "ready", "cancelled"}
    BY <1>0, <1>5 DEF Outcome, Row
  <1>6. CASE w.out \notin {"low", "unsupported", "clarify", "answer", "unsure", "sub", "priority",
                           "requeue", "ready", "cancelled"}
    <2>1. Outcome(w) = Failed(w)
      BY <1>0, <1>6 DEF Outcome
    <2>2. Failed(w).state \in {"FAILED", "RETRY_WAIT"}
      BY <1>0 DEF Failed, Row
    <2> QED
      BY <2>1, <2>2
  <1> QED
    BY <1>2, <1>3, <1>4, <1>5, <1>6

\* A PQ or unclassified row that ends late is recorded as missed although the watchdog
\* has not come by: the thread decides it on the row it is the holder of.
THEOREM LateAnswersAreMissed == Spec => LateAnswerIsMissed
  <1>1. AnswerInv /\ AnswerInv' /\ [Next]_vars => [RecordsLateAnswers]_vars
    <2> SUFFICES ASSUME AnswerInv, AnswerInv', Next, NEW i \in Ids, i \in late,
                        jobs[i].state \in InFlight, jobs'[i].state = "COMPLETED",
                        jobs'[i].class = "PQ" \/ jobs[i].stage = "classify"
                 PROVE  jobs'[i].missed
      BY DEF RecordsLateAnswers
    <2>0. /\ TypeInv /\ LeaseInv /\ CurrentInv /\ jobs \in [Ids -> Row] /\ jobs[i] \in Row
          /\ jobs[i].state # "COMPLETED" /\ jobs'[i] # jobs[i] /\ jobs'[i].result # None
      BY DEF AnswerInv, QueueInv, TypeInv, TypeOK, InFlight, RowsFit, RowFits, Withdrawn
    <2>1. ASSUME NEW s \in Slots, WorkerStep(s) \/ WorkerRaises(s) PROVE jobs'[i].missed
      <3> DEFINE w == worker[s]
      <3>1. Commit(s)
        BY <2>1, <2>0 DEF WorkerStep, Begin, Return, WorkerRaises
      <3>2. /\ w \in Worker /\ w.id \in Ids /\ w.pc = "commit"
            /\ jobs' = IF Owns(w) THEN [jobs EXCEPT ![w.id] = Outcome(w)] ELSE jobs
        BY <2>0, <3>1 DEF Commit, TypeInv, TypeOK, PoolOK, Busy
      <3>3. Owns(w) /\ i = w.id /\ jobs'[i] = Outcome(w)
        <4> HIDE DEF w
        <4> QED
          BY <2>0, <3>2
      <3>4. PastActive(w)
        <4>1. jobs[w.id].result = None
          BY <2>0, <3>3 DEF AnswerInv, RowsFit, RowFits, InFlight, Withdrawn
        <4> QED
          BY <2>0, <3>2, <3>3, <4>1, OutcomeResult
      <3>5. w.row.stage = jobs[i].stage
        BY <2>0, <3>3, <3>4 DEF CurrentInv, LeaseMeansCurrent, Work
      <3> QED
        BY <2>0, <3>2, <3>3, <3>5, CompletedMissed
    <2>2. ASSUME TableStep PROVE FALSE
      BY <2>0, <2>2 DEF TableStep, Kept, Cleared, InFlight
    <2>3. ASSUME NEW s \in Slots, NEW j \in Ids, NEW t \in Tokens, Claim(s, j, t) PROVE FALSE
      BY <2>0, <2>3, ClaimFacts DEF Kept, InFlight
    <2>4. CASE Restart
      BY <2>0, <2>4 DEF Restart, Recovered, Row, InFlight
    <2> QED
      BY <2>0, <2>1, <2>2, <2>3, <2>4, ApiTable, SessionTable, SchedulerTable DEF Next, VisitStep
  <1> QED
    BY AnswerInvariant, <1>1, PTL DEF Spec, LateAnswerIsMissed

-----------------------------------------------------------------------------
(* Missed deadlines *)

\* A recorded miss stands for a passed deadline, in the table and in every copy of a
\* row that can still be written back.
MissInv ==
    /\ \A i \in Ids : jobs[i].missed => Exists(i) /\ i \in late
    /\ \A i \in tick.avail : Exists(i) /\ tick.rows[i].missed => i \in late
    /\ \A s \in Slots : Busy(s) /\ Owns(worker[s]) /\ worker[s].row.missed => worker[s].id \in late

\* What requests do to misses: a row keeps its deadline and its miss until it is gone, and
\* one that comes into being has none and takes an id nothing refers to.
MissStep ==
    \A i \in Ids :
        /\ jobs'[i].state = "ABSENT" => ~jobs'[i].missed
        /\ jobs'[i].state # "ABSENT" =>
             \/ Exists(i) /\ jobs'[i].missed = jobs[i].missed /\ (i \in late => i \in late')
             \/ FreshId(i) /\ ~jobs'[i].missed

\* A withdrawal, a reclassification and a snapshot leave misses alone.
LEMMA WithdrawMisses ==
  ASSUME jobs \in [Ids -> Row], NEW S, \A i \in S : Exists(i), NEW how \in Withdrawn, NEW i \in Ids
  PROVE  /\ Withdraw(S, how)[i].missed = jobs[i].missed
         /\ Withdraw(S, how)[i].state = "ABSENT" <=> ~Exists(i)
  BY DEF Withdraw, Exists, Row, Withdrawn

\* _invalidate is a withdrawal.
LEMMA InvalidatedMisses ==
  ASSUME jobs \in [Ids -> Row], NEW s, NEW how \in Withdrawn, NEW i \in Ids
  PROVE  /\ Invalidated(s, how)[i].missed = jobs[i].missed
         /\ Invalidated(s, how)[i].state = "ABSENT" <=> ~Exists(i)
  <1>1. \A j \in Of(s) : Exists(j)
    BY DEF Of
  <1> QED
    BY <1>1, WithdrawMisses DEF Invalidated

\* _reclassify assigns neither deadline_at nor deadline_missed.
LEMMA ReclassifiedMisses ==
  ASSUME NEW r \in Row, NEW v, NEW sc
  PROVE  Reclassified(r, v, sc).missed = r.missed /\ Reclassified(r, v, sc).state = "QUEUED"
  BY DEF Reclassified, Row

\* A deletion removes the miss with its row; the rest of the requests keep it.
LEMMA SessionMisses == ASSUME TypeInv, MissInv, NEW s \in Sessions, SessionStep(s) PROVE MissStep
  <1> SUFFICES ASSUME NEW i \in Ids
               PROVE  /\ jobs'[i].state = "ABSENT" => ~jobs'[i].missed
                      /\ jobs'[i].state # "ABSENT" =>
                           Exists(i) /\ jobs'[i].missed = jobs[i].missed /\ (i \in late => i \in late')
    BY DEF MissStep
  <1>0. jobs \in [Ids -> Row] /\ {"CANCELLED", "SUPERSEDED"} = Withdrawn /\ (jobs[i].missed => Exists(i))
    BY DEF TypeInv, TypeOK, Withdrawn, MissInv
  <1>1. ASSUME UNCHANGED late, jobs'[i].missed = jobs[i].missed, jobs'[i].state = "ABSENT" <=> ~Exists(i)
        PROVE  /\ jobs'[i].state = "ABSENT" => ~jobs'[i].missed
               /\ jobs'[i].state # "ABSENT" =>
                    Exists(i) /\ jobs'[i].missed = jobs[i].missed /\ (i \in late => i \in late')
    BY <1>0, <1>1
  <1>2. ASSUME NEW on \in BOOLEAN, NEW rev, Subscribe(s, on, rev)
        PROVE  UNCHANGED late /\ jobs'[i].missed = jobs[i].missed /\ (jobs'[i].state = "ABSENT" <=> ~Exists(i))
    BY <1>0, <1>2, InvalidatedMisses DEF Subscribe, Exists
  <1>3. ASSUME Cancel(s, FALSE)
        PROVE  UNCHANGED late /\ jobs'[i].missed = jobs[i].missed /\ (jobs'[i].state = "ABSENT" <=> ~Exists(i))
    BY <1>0, <1>3, InvalidatedMisses DEF Cancel
  <1>4. ASSUME Cancel(s, TRUE)
        PROVE  /\ jobs'[i].state = "ABSENT" => ~jobs'[i].missed
               /\ jobs'[i].state # "ABSENT" =>
                    Exists(i) /\ jobs'[i].missed = jobs[i].missed /\ (i \in late => i \in late')
    BY <1>0, <1>4 DEF Cancel, NoRow, Exists
  <1>5. ASSUME NEW present, NEW g, Sync(s, present, g)
        PROVE  UNCHANGED late /\ jobs'[i].missed = jobs[i].missed /\ (jobs'[i].state = "ABSENT" <=> ~Exists(i))
    <2> DEFINE gone == {j \in Of(s) : Live(j) /\ UttOf[jobs[j].key] \notin present}
    <2>1. jobs' = Withdraw(gone, "SUPERSEDED") /\ UNCHANGED late /\ \A j \in gone : Exists(j)
      BY <1>5 DEF Sync, Of
    <2> QED
      BY <1>0, <2>1, WithdrawMisses
  <1> QED
    BY <1>1, <1>2, <1>3, <1>4, <1>5 DEF SessionStep

\* A new row starts without a miss, under an id that no thread and no snapshot knows.
LEMMA ApiMisses == ASSUME TypeInv, MissInv, NEW c \in Clients, ApiStep(c) PROVE MissStep
  <1> DEFINE Same(i) == jobs'[i].missed = jobs[i].missed /\ (jobs'[i].state = "ABSENT" <=> ~Exists(i))
  <1>0. /\ jobs \in [Ids -> Row] /\ client[c] \in Request /\ "SUPERSEDED" \in Withdrawn
        /\ \A i \in Ids : jobs[i].missed => Exists(i)
    BY DEF TypeInv, TypeOK, Withdrawn, MissInv
  <1>1. ASSUME UNCHANGED late, \A i \in Ids : Same(i) PROVE MissStep
    BY <1>0, <1>1 DEF MissStep
  <1>2. CASE UNCHANGED <<jobs, late>>
    BY <1>1, <1>2 DEF Exists
  <1>3. ASSUME NEW j \in Ids, EnqueueInsert(c, j) PROVE MissStep
    <2> DEFINE new == [NoRow EXCEPT !.key = client[c].key, !.gen = client[c].gen,
                           !.revision = client[c].revision, !.ver = client[c].ver,
                           !.scope = client[c].scope, !.state = "QUEUED"]
               rest == Withdraw(Superseding(client[c].key), "SUPERSEDED")
    <2>1. ~new.missed /\ ~NoRow.missed /\ NoRow.state = "ABSENT" /\ FreshId(j)
      BY <1>3 DEF NoRow, EnqueueInsert
    <2>2. \A i \in Ids : rest[i].missed = jobs[i].missed /\ (rest[i].state = "ABSENT" <=> ~Exists(i))
      <3>1. \A k \in Superseding(client[c].key) : Exists(k)
        BY DEF Superseding, Outdated, Live
      <3> QED
        BY <1>0, <3>1, WithdrawMisses
    <2>3. /\ \A i \in Ids : jobs'[i] = IF i = j THEN new ELSE IF i \in Old(client[c]) THEN NoRow ELSE rest[i]
          /\ late' = late \ (Old(client[c]) \cup {j})
      BY <1>3 DEF EnqueueInsert
    <2> HIDE DEF new, rest
    <2> QED
      BY <1>0, <2>1, <2>2, <2>3 DEF MissStep, FreshId
  <1>4. CASE RetryCommit(c)
    <2>1. \A i \in Ids : /\ Retried(client[c])[i].missed = jobs[i].missed
                         /\ Retried(client[c])[i].state = "ABSENT" <=> ~Exists(i)
      BY <1>0, ReclassifiedMisses DEF Retried, Exists
    <2> QED
      BY <1>1, <1>4, <2>1 DEF RetryCommit, Exists
  <1>5. CASE PolicyApply(c)
    <2>1. \A i \in Ids : /\ Reapplied(client[c])[i].missed = jobs[i].missed
                         /\ Reapplied(client[c])[i].state = "ABSENT" <=> ~Exists(i)
      BY <1>0, ReclassifiedMisses DEF Reapplied, Affected, Live, Exists
    <2> QED
      BY <1>1, <1>5, <2>1 DEF PolicyApply, Exists
  <1> QED
    BY <1>2, <1>3, <1>4, <1>5 DEF ApiStep, EnqueueRead, EnqueueAnswer, RetryRead,
       PolicyRead, PolicySave, PolicyConflict, PolicyReread

\* The requests keep the invariant: a thread that still owns its row has kept the row.
LEMMA RequestsKeepMisses ==
  ASSUME TypeInv, LeaseInv, MissInv, TableStep, MissStep, UNCHANGED tick
  PROVE  MissInv'
  <1>0. tick.avail \subseteq Ids
    BY DEF TypeInv, TypeOK
  <1>1. ASSUME NEW i \in Ids, jobs'[i].missed PROVE Exists(i)' /\ i \in late'
    BY <1>1 DEF MissInv, MissStep, Exists
  <1>2. ASSUME NEW i \in tick.avail, Exists(i)', tick.rows[i].missed PROVE i \in late'
    BY <1>0, <1>2 DEF MissInv, MissStep, Exists, FreshId
  <1>3. ASSUME NEW s \in Slots, Busy(s)', Owns(worker[s])', worker'[s].row.missed
        PROVE  worker'[s].id \in late'
    <2>1. /\ worker'[s] = worker[s] /\ Busy(s) /\ worker[s].id \in Ids /\ worker[s].row.lease # None
      BY <1>3 DEF TableStep, Busy, TypeInv, PoolOK, LeaseInv
    <2>2. /\ jobs'[worker[s].id].lease # None /\ Kept(jobs[worker[s].id], jobs'[worker[s].id])
          /\ jobs[worker[s].id].state \in InFlight
      BY <1>3, <2>1 DEF Owns, TableStep, Cleared, Dropped, Kept, LeaseInv, EveryLeaseHasOneHolder
    <2>3. Owns(worker[s]) /\ jobs'[worker[s].id].state # "ABSENT" /\ worker[s].id \in late
      BY <1>3, <2>1, <2>2 DEF Owns, Kept, MissInv, InFlight
    <2> QED
      BY <2>1, <2>3 DEF MissStep, FreshId
  <1> QED
    BY <1>1, <1>2, <1>3 DEF MissInv

\* What a slot may claim was in the snapshot.
LEMMA FromSnapshot ==
  ASSUME NEW s, NEW m PROVE Candidates(tick, s, m) \subseteq tick.avail
  BY DEF Candidates, FilterCandidates, Prefer, PriorityCandidates, SharedCandidates, Main

\* A visit only takes rows from the snapshot.
LEMMA VisitedSnapshot ==
  ASSUME TypeInv, NEW s, NEW i, tick' = Visited(s, i)
  PROVE  tick'.avail \subseteq tick.avail /\ \A j \in tick'.avail : tick'.rows[j] = tick.rows[j]
  <1>1. tick \in [todo : SUBSET Slots, avail : SUBSET Ids, rows : [Ids -> Copy]]
    BY DEF TypeInv, TypeOK
  <1>2. CASE tick' = NoTick
    BY <1>2 DEF NoTick
  <1>3. CASE tick' = [tick EXCEPT !.todo = @ \ {s}, !.avail = @ \ {i}]
    BY <1>1, <1>3
  <1> QED
    BY <1>2, <1>3 DEF Visited

\* A step of the scheduler that changes neither existence, nor leases, nor deadlines.
LEMMA SchedulerMisses ==
  ASSUME TypeInv, LeaseInv, MissInv,
         UNCHANGED worker, late \subseteq late',
         \A i \in Ids : /\ jobs'[i].lease = jobs[i].lease
                        /\ Exists(i)' <=> Exists(i)
                        /\ jobs'[i].missed => jobs[i].missed \/ (Exists(i) /\ i \in late'),
         \A i \in tick'.avail : tick'.rows[i].missed /\ Exists(i) => i \in late',
         tick'.avail \subseteq Ids
  PROVE  MissInv'
  <1>1. ASSUME NEW i \in Ids, jobs'[i].missed PROVE Exists(i)' /\ i \in late'
    BY <1>1 DEF MissInv
  <1>2. ASSUME NEW i \in tick'.avail, Exists(i)', tick'.rows[i].missed PROVE i \in late'
    BY <1>2
  <1>3. ASSUME NEW s \in Slots, Busy(s)', Owns(worker[s])', worker'[s].row.missed
        PROVE  worker'[s].id \in late'
    <2>1. Busy(s) /\ worker[s].id \in Ids /\ worker'[s] = worker[s]
      BY <1>3 DEF Busy, TypeInv, PoolOK
    <2> QED
      BY <1>3, <2>1 DEF Owns, MissInv
  <1> QED
    BY <1>1, <1>2, <1>3 DEF MissInv

\* The watchdog marks what is late, and the snapshot is taken of the marked table.
LEMMA TickMisses == ASSUME TypeInv, LeaseInv, MissInv, TickStep PROVE MissInv'
  <1>0. /\ jobs \in [Ids -> Row] /\ tick.avail \subseteq Ids
        /\ tick \in [todo : SUBSET Slots, avail : SUBSET Ids, rows : [Ids -> Copy]]
        /\ UNCHANGED <<worker, late>> /\ jobs' = Marked
    BY DEF TypeInv, TypeOK, TickStep, TickRaises, TickPlan
  <1>1. ASSUME NEW i \in Ids
        PROVE  /\ Marked[i].lease = jobs[i].lease
               /\ Marked[i].state = jobs[i].state
               /\ Marked[i].missed => jobs[i].missed \/ (Exists(i) /\ i \in late)
    BY <1>0 DEF Marked, Watched, Open, Exists, RUNNABLE, InFlight, Row
  <1>2. tick'.avail \subseteq Ids /\ \A i \in tick'.avail : tick'.rows[i].missed /\ Exists(i) => i \in late
    <2>1. CASE UNCHANGED tick
      BY <1>0, <2>1 DEF MissInv
    <2>2. CASE tick'.avail = {}
      BY <2>2
    <2>3. ASSUME NEW m, NEW due, TickPlan(m, due), tick' # NoTick
          PROVE  /\ tick'.avail \subseteq Ids
                 /\ \A i \in tick'.avail : tick'.rows[i].missed /\ Exists(i) => i \in late
      <3>1. tick'.avail = Available(due) /\ Available(due) \subseteq Ids
        BY <2>3 DEF TickPlan, Available
      <3>2. tick'.rows = [i \in Ids |-> IF i \in Available(due) THEN CopyOf(Marked[i]) ELSE NoCopy]
        BY <2>3 DEF TickPlan
      <3> QED
        BY <1>1, <3>1, <3>2 DEF CopyOf, MissInv
    <2> QED
      BY <2>1, <2>2, <2>3 DEF TickStep, TickRaises, NoTick
  <1> QED
    BY <1>0, <1>1, <1>2, SchedulerMisses DEF Exists

\* Pausing a row for the pressure mode is not forgetting its miss.
LEMMA RestingMisses ==
  ASSUME jobs \in [Ids -> Row], NEW s, NEW i \in Ids
  PROVE  /\ Resting(s)[i].missed = jobs[i].missed /\ Resting(s)[i].lease = jobs[i].lease
         /\ Resting(s)[i].state = "ABSENT" <=> ~Exists(i)
  BY DEF Resting, Row, Exists

\* A slot that claims nothing.
LEMMA VisitMisses == ASSUME TypeInv, LeaseInv, MissInv, NEW s \in Slots, Miss(s) PROVE MissInv'
  <1>1. /\ jobs \in [Ids -> Row] /\ tick.avail \subseteq Ids
        /\ UNCHANGED <<worker, late>> /\ jobs' = Resting(s)
    BY DEF TypeInv, TypeOK, Miss
  <1>2. tick'.avail \subseteq tick.avail /\ \A j \in tick'.avail : tick'.rows[j] = tick.rows[j]
    BY VisitedSnapshot DEF Miss
  <1>3. \A i \in tick'.avail : tick'.rows[i].missed /\ Exists(i) => i \in late'
    BY <1>1, <1>2 DEF MissInv
  <1> QED
    BY <1>1, <1>2, <1>3, RestingMisses, SchedulerMisses DEF Exists

\* A deadline that passes makes more misses legitimate.
LEMMA DeadlineMisses == ASSUME TypeInv, LeaseInv, MissInv, NEW i \in Ids, DeadlinePasses(i) PROVE MissInv'
  <1>1. /\ tick.avail \subseteq Ids /\ UNCHANGED <<worker, jobs, tick>> /\ late' = late \cup {i}
    BY DEF TypeInv, TypeOK, DeadlinePasses
  <1> QED
    BY <1>1, SchedulerMisses DEF Exists, MissInv

\* The claimed row was marked in the snapshot only if its deadline had passed, and it has
\* not been replaced by another row since.
LEMMA ClaimMisses ==
  ASSUME TypeInv, LeaseInv, MissInv, NEW s \in Slots, NEW i \in Ids, NEW t \in Tokens, Claim(s, i, t)
  PROVE  MissInv' /\ \A j \in Ids : jobs'[j].missed = jobs[j].missed
  <1>0. /\ jobs \in [Ids -> Row] /\ worker \in [Slots -> Worker] /\ UNCHANGED late
        /\ tick.avail \subseteq Ids /\ tick.rows[i] \in Copy /\ Resting(s) \in [Ids -> Row]
    BY RestingType DEF TypeInv, TypeOK, Claim
  <1>1. ASSUME NEW j \in Ids
        PROVE  jobs'[j].missed = jobs[j].missed /\ (Exists(j)' <=> Exists(j))
    <2>1. CASE j # i
      BY <1>0, <2>1, RestingMisses DEF Claim, Exists
    <2>2. CASE j = i
      <3>1. jobs'[i] = [Resting(s)[i] EXCEPT !.state = IF s \in FilterSlots THEN "CLASSIFYING" ELSE "RUNNING",
                                             !.lease = t]
        BY <1>0 DEF Claim
      <3>2. Exists(i)
        BY DEF Claim, Claimable, RUNNABLE, Exists
      <3> QED
        BY <1>0, <2>2, <3>1, <3>2, RestingMisses DEF Row, Exists
    <2> QED
      BY <2>1, <2>2
  <1>2. i \in tick.avail /\ Exists(i)
    BY FromSnapshot DEF Claim, Claimable, RUNNABLE, Exists
  <1>3. tick'.avail \subseteq tick.avail /\ \A j \in tick'.avail : tick'.rows[j] = tick.rows[j]
    BY VisitedSnapshot DEF Claim
  <1>4. ASSUME NEW u \in Slots, Busy(u)', Owns(worker[u])', worker'[u].row.missed
        PROVE  worker'[u].id \in late'
    <2>1. CASE u = s
      <3> DEFINE row == [tick.rows[i] EXCEPT !.lease = t]
      <3>1. worker'[s] = [pc |-> "begin", id |-> i, row |-> row, gate |-> FALSE, out |-> "none"]
        BY <1>0 DEF Claim
      <3>2. row.missed = tick.rows[i].missed
        BY <1>0 DEF Copy
      <3> HIDE DEF row
      <3> QED
        BY <1>0, <1>2, <1>4, <2>1, <3>1, <3>2 DEF MissInv
    <2>2. CASE u # s
      <3>1. worker'[u] = worker[u] /\ Busy(u) /\ worker[u].id \in Ids
        BY <1>4, <2>2, ClaimFacts DEF Busy, TypeInv, PoolOK
      <3>2. worker[u].id # i
        BY <1>4, <3>1, ClaimFacts DEF Owns
      <3>3. Owns(worker[u])
        BY <1>4, <3>1, <3>2, ClaimFacts DEF Owns, Kept
      <3> QED
        BY <1>0, <1>4, <3>1, <3>3 DEF MissInv
    <2> QED
      BY <2>1, <2>2
  <1> QED
    BY <1>0, <1>1, <1>3, <1>4 DEF MissInv

\* Recovery assigns state and lease; threads and snapshot are gone.
LEMMA RestartMisses ==
  ASSUME TypeInv, LeaseInv, MissInv, Restart
  PROVE  MissInv' /\ \A j \in Ids : jobs'[j].missed = jobs[j].missed
  <1>1. ASSUME NEW j \in Ids
        PROVE  jobs'[j].missed = jobs[j].missed /\ (Exists(j)' <=> Exists(j))
    <2>1. jobs[j] \in Row /\ jobs'[j] = Recovered[j]
      BY DEF Restart, TypeInv, TypeOK
    <2> QED
      BY <2>1 DEF Recovered, Row, Exists, InFlight
  <1>2. UNCHANGED late /\ tick'.avail = {} /\ \A s \in Slots : ~Busy(s)'
    BY DEF Restart, NoTick, Busy, FreeWorker
  <1> QED
    BY <1>1, <1>2 DEF MissInv

\* Until it is free a thread keeps the row of its claim, or reads the current one.
LEMMA RowRead ==
  ASSUME TypeInv, LeaseInv, NEW s \in Slots, WorkerStep(s) \/ WorkerRaises(s), worker'[s].pc # "free"
  PROVE  worker'[s].row \in {worker[s].row, CopyOf(jobs[worker[s].id])}
  <1> DEFINE w == worker[s]
  <1>0. /\ w \in Worker /\ w.id \in Ids /\ worker \in [Slots -> Worker]
        /\ jobs \in [Ids -> Row]
    BY ThreadFacts DEF TypeInv, TypeOK, PoolOK
  <1>1. ASSUME NEW v \in Worker, v.row \in {w.row, CopyOf(jobs[w.id])}, NEW out,
               \/ worker'[s] = [v EXCEPT !.pc = "commit", !.out = out]
               \/ worker'[s] = [v EXCEPT !.pc = "calling", !.gate = TRUE]
               \/ worker'[s] = [v EXCEPT !.pc = "calling"]
               \/ worker'[s] = [v EXCEPT !.pc = "raised", !.gate = FALSE]
        PROVE  worker'[s].row = v.row
    <2>1. CASE worker'[s] = [v EXCEPT !.pc = "commit", !.out = out]
      BY <2>1 DEF Worker
    <2>2. CASE worker'[s] = [v EXCEPT !.pc = "calling", !.gate = TRUE]
      BY <2>2 DEF Worker
    <2>3. CASE worker'[s] = [v EXCEPT !.pc = "calling"]
      BY <2>3 DEF Worker
    <2>4. CASE worker'[s] = [v EXCEPT !.pc = "raised", !.gate = FALSE]
      BY <2>4 DEF Worker
    <2> QED
      BY <1>1, <2>1, <2>2, <2>3, <2>4
  <1>2. Reread(w) \in Worker /\ Reread(w).row = CopyOf(jobs[w.id])
    BY <1>0, RereadType DEF Reread, Worker
  <1>3. CASE Begin(s)
    <2>1. PICK v \in {w, Reread(w)} : \E out :
             \/ worker'[s] = [v EXCEPT !.pc = "commit", !.out = out]
             \/ worker'[s] = [v EXCEPT !.pc = "calling", !.gate = TRUE]
             \/ worker'[s] = [v EXCEPT !.pc = "calling"]
      BY <1>0, <1>3 DEF Begin, Decide
    <2>2. v \in Worker /\ v.row \in {w.row, CopyOf(jobs[w.id])}
      BY <1>0, <1>2
    <2>3. worker'[s].row = v.row
      BY <1>1, <2>1, <2>2
    <2> QED
      BY <2>2, <2>3
  <1>4. CASE Return(s)
    <2>1. PICK out : worker' = [worker EXCEPT ![s] = [w EXCEPT !.pc = "commit", !.out = out]]
      BY <1>4 DEF Return, Decide
    <2>2. worker'[s] = [w EXCEPT !.pc = "commit", !.out = out]
      BY <1>0, <2>1
    <2> QED
      BY <1>0, <1>1, <2>2
  <1>5. CASE Commit(s)
    BY <1>0, <1>5 DEF Commit, FreeWorker
  <1>6. CASE WorkerRaises(s)
    BY <1>0, <1>1, <1>6 DEF WorkerRaises
  <1> QED
    BY <1>3, <1>4, <1>5, <1>6 DEF WorkerStep

\* What a commit makes of the miss of a row whose thread knows of none that is not due.
LEMMA OutcomeMissed ==
  ASSUME NEW w \in Worker, w.id \in Ids, jobs \in [Ids -> Row], Exists(w.id),
         jobs[w.id].missed => w.id \in late, w.row.missed => w.id \in late
  PROVE  /\ jobs[w.id].missed => Outcome(w).missed
         /\ Outcome(w).missed => w.id \in late
         /\ Outcome(w).state # "ABSENT"
  <1> DEFINE r == jobs[w.id]
             Sound(q) == /\ r.missed => q.missed
                         /\ q.missed => w.id \in late
                         /\ q.state # "ABSENT"
  <1>0. r \in Row /\ r.state # "ABSENT" /\ w.row.missed \in BOOLEAN
    BY DEF Exists, Worker, Copy
  <1>1. ASSUME NEW class
        PROVE  MissedAtEnd(w, class) \in BOOLEAN /\ (r.missed => MissedAtEnd(w, class))
               /\ (MissedAtEnd(w, class) => w.id \in late)
    BY <1>0 DEF MissedAtEnd, Row
  <1>2. ASSUME NEW q \in Row, NEW b PROVE Sound(Completed(q, w, b))
    <2>1. Completed(q, w, b).missed = MissedAtEnd(w, q.class) /\ Completed(q, w, b).state = "COMPLETED"
      BY DEF Completed, Row
    <2> QED
      BY <1>1, <2>1
  <1>3. ASSUME NEW class \in Classes, NEW stage, NEW state \in {"QUEUED", "AWAITING_CONTEXT"}
        PROVE  Sound([Classified(w, class) EXCEPT !.stage = stage, !.state = state])
    <2>1. Classified(w, class) \in Row /\ Classified(w, class).missed = r.missed
      BY <1>0, ClassifiedType DEF Classified, Row
    <2> QED
      BY <2>1 DEF Row
  <1>4. CASE w.out \in {"low", "unsupported"}
    BY <1>2, <1>4, ClassifiedType DEF Outcome, Classes
  <1>5. CASE w.out \in {"clarify", "answer"}
    <2>1. [r EXCEPT !.attempts = 0] \in Row
      BY <1>0 DEF Row
    <2> QED
      BY <1>0, <1>2, <1>5, <2>1 DEF Outcome
  <1>6. CASE w.out \in {"unsure", "sub", "priority"}
    <2>1. {"none", "PQ", "SQ"} = Classes
      BY DEF Classes
    <2>2. /\ w.out = "unsure" =>
               Outcome(w) = [Classified(w, "none") EXCEPT !.stage = "context", !.state = "AWAITING_CONTEXT"]
          /\ w.out = "sub" =>
               Outcome(w) = [Classified(w, "SQ") EXCEPT !.stage = "retrieve", !.state = "QUEUED"]
          /\ w.out = "priority" =>
               Outcome(w) = [Classified(w, "PQ") EXCEPT !.stage = "retrieve", !.state = "QUEUED"]
      BY DEF Outcome
    <2>3. Sound(Outcome(w))
      <3>1. /\ Sound([Classified(w, "none") EXCEPT !.stage = "context", !.state = "AWAITING_CONTEXT"])
            /\ \A class \in {"PQ", "SQ"} : Sound([Classified(w, class) EXCEPT !.stage = "retrieve", !.state = "QUEUED"])
        <4> HIDE DEF Sound
        <4> QED
          BY <1>3, <2>1
      <3> HIDE DEF Sound
      <3> QED
        BY <1>6, <2>2, <3>1
    <2> QED
      BY <2>3
  <1>7. CASE w.out \in {"requeue", "ready", "cancelled"}
    BY <1>0, <1>7 DEF Outcome, Row
  <1>8. CASE w.out \notin {"low", "unsupported", "clarify", "answer", "unsure", "sub", "priority",
                           "requeue", "ready", "cancelled"}
    <2>1. Outcome(w) = Failed(w)
      BY <1>8 DEF Outcome
    <2>2. Failed(w).state \in {"FAILED", "RETRY_WAIT"} /\ Failed(w).missed \in {r.missed, MissedAtEnd(w, w.row.class)}
      BY <1>0 DEF Failed, Row
    <2> QED
      BY <1>0, <1>1, <2>1, <2>2
  <1> QED
    BY <1>4, <1>5, <1>6, <1>7, <1>8

\* What a thread does to its own row, and to no other.
LEMMA ThreadMisses ==
  ASSUME TypeInv, LeaseInv, MissInv, NEW s \in Slots, WorkerStep(s) \/ WorkerRaises(s)
  PROVE  MissInv' /\ \A j \in Ids : jobs[j].missed => jobs'[j].missed
  <1> DEFINE w == worker[s]
  <1>0. /\ Busy(s) /\ w \in Worker /\ w.id \in Ids /\ jobs \in [Ids -> Row]
        /\ tick.avail \subseteq Ids /\ UNCHANGED <<late, tick>>
    BY ThreadFacts DEF TypeInv, TypeOK, PoolOK, WorkerStep, Begin, Return, Commit, WorkerRaises
  <1>1. \/ UNCHANGED jobs
        \/ Owns(w) /\ jobs' = [jobs EXCEPT ![w.id] = Outcome(w)]
    BY DEF WorkerStep, Begin, Return, Commit, WorkerRaises
  <1>2. Owns(w) => Exists(w.id)
    BY <1>0 DEF LeaseInv, EveryLeaseHasOneHolder, Owns, Exists, InFlight
  <1>3. ASSUME NEW j \in Ids
        PROVE  /\ jobs[j].missed => jobs'[j].missed
               /\ jobs'[j].missed => j \in late /\ Exists(j)
               /\ Exists(j)' <=> Exists(j)
    <2>1. CASE UNCHANGED jobs
      BY <2>1 DEF MissInv, Exists
    <2>2. CASE Owns(w) /\ jobs' = [jobs EXCEPT ![w.id] = Outcome(w)]
      <3>1. /\ jobs[w.id].missed => Outcome(w).missed
            /\ Outcome(w).missed => w.id \in late
            /\ Outcome(w).state # "ABSENT"
        BY <1>0, <1>2, <2>2, OutcomeMissed DEF MissInv
      <3> HIDE DEF w
      <3> QED
        BY <1>0, <1>2, <2>2, <3>1 DEF MissInv, Exists
    <2> QED
      BY <1>1, <2>1, <2>2
  <1>4. ASSUME NEW u \in Slots, Busy(u)', Owns(worker[u])', worker'[u].row.missed
        PROVE  worker'[u].id \in late
    <2>1. CASE u = s
      <3>1. /\ UNCHANGED jobs /\ worker'[s].id = w.id /\ worker'[s].row.lease = w.row.lease
            /\ worker'[s].row \in {w.row, CopyOf(jobs[w.id])}
        BY <1>4, <2>1, ThreadFacts, RowRead DEF Busy
      <3>2. Owns(w)
        BY <1>4, <2>1, <3>1 DEF Owns
      <3> QED
        BY <1>0, <1>4, <2>1, <3>1, <3>2 DEF MissInv, CopyOf
    <2>2. CASE u # s
      <3>1. worker'[u] = worker[u] /\ Busy(u) /\ worker[u].id \in Ids
        BY <1>4, <2>2, ThreadFacts DEF Busy, TypeInv, PoolOK
      <3>2. worker[u].row.lease # None /\ worker[u].row.lease # w.row.lease
        BY <1>0, <2>2, <3>1 DEF LeaseInv, EveryLeaseHasOneHolder
      <3>3. jobs'[worker[u].id] = jobs[worker[u].id]
        BY <1>4, <3>1, <3>2, ThreadFacts DEF Owns, Dropped
      <3> QED
        BY <1>4, <3>1, <3>3 DEF Owns, MissInv
    <2> QED
      BY <2>1, <2>2
  <1> QED
    BY <1>0, <1>3, <1>4 DEF MissInv

\* Each kind of step by the lemma of its kind.
LEMMA MissStepInv == QueueInv /\ MissInv /\ [Next]_vars => MissInv'
  <1> SUFFICES ASSUME TypeInv, LeaseInv, MissInv, [Next]_vars PROVE MissInv'
    BY DEF QueueInv
  <1>1. ASSUME NEW c \in Clients, ApiStep(c) PROVE MissInv'
    <2>1. UNCHANGED tick
      BY <1>1 DEF ApiStep, EnqueueRead, EnqueueAnswer, EnqueueInsert, RetryRead, RetryCommit,
                  PolicyRead, PolicySave, PolicyConflict, PolicyReread, PolicyApply
    <2> QED
      BY <1>1, <2>1, ApiTable, ApiMisses, RequestsKeepMisses
  <1>2. ASSUME NEW s \in Sessions, SessionStep(s) PROVE MissInv'
    <2>1. UNCHANGED tick
      BY <1>2 DEF SessionStep, Subscribe, Cancel, Sync
    <2> QED
      BY <1>2, <2>1, SessionTable, SessionMisses, RequestsKeepMisses
  <1>3. CASE UNCHANGED vars
    BY <1>3 DEF vars, MissInv, Exists, Busy, Owns
  <1> QED
    BY <1>1, <1>2, <1>3, TickMisses, VisitMisses, ClaimMisses, ThreadMisses, DeadlineMisses,
       RestartMisses DEF Next, VisitStep

\* Hence it holds for ever, beside the fencing.
LEMMA MissInvariant == Spec => [](QueueInv /\ MissInv)
  <1>1. Init => MissInv
    BY DEF Init, MissInv, NoRow, NoTick, Busy, FreeWorker
  <1>2. QueueInv /\ MissInv /\ [Next]_vars => QueueInv' /\ MissInv'
    BY MissStepInv, StepTypeInv, StepLease, StepKeys, StepCurrent DEF QueueInv
  <1> QED
    BY <1>1, <1>2, InitTypeInv, InitLease, InitKeys, InitCurrent, PTL DEF Spec, QueueInv

\* Nothing but the deletion of the row clears a recorded miss: neither retry, policy
\* change, commit of an older copy of the row, nor restart.
THEOREM MissesStick == Spec => MissIsSticky
  <1>1. QueueInv /\ MissInv /\ [Next]_vars => [KeepsMisses]_vars
    <2> SUFFICES ASSUME TypeInv, LeaseInv, MissInv, Next PROVE KeepsMisses
      BY DEF QueueInv
    <2>1. ASSUME MissStep PROVE KeepsMisses
      BY <2>1 DEF MissStep, KeepsMisses, FreshId, MissInv
    <2>2. ASSUME \A j \in Ids : jobs[j].missed => jobs'[j].missed PROVE KeepsMisses
      BY <2>2 DEF KeepsMisses
    <2>3. ASSUME NEW c \in Clients, ApiStep(c) PROVE KeepsMisses
      BY <2>1, <2>3, ApiMisses
    <2>4. ASSUME NEW s \in Sessions, SessionStep(s) PROVE KeepsMisses
      BY <2>1, <2>4, SessionMisses
    <2>5. CASE TickStep
      <3>1. jobs' = Marked /\ jobs \in [Ids -> Row]
        BY <2>5 DEF TickStep, TickRaises, TickPlan, TypeInv, TypeOK
      <3> QED
        BY <2>2, <3>1 DEF Marked, Row
    <2>6. ASSUME NEW s \in Slots, Miss(s) PROVE KeepsMisses
      BY <2>2, <2>6, RestingMisses DEF Miss, TypeInv, TypeOK
    <2>7. ASSUME NEW i \in Ids, DeadlinePasses(i) PROVE KeepsMisses
      BY <2>2, <2>7 DEF DeadlinePasses
    <2> QED
      BY <2>2, <2>3, <2>4, <2>5, <2>6, <2>7, ClaimMisses, ThreadMisses, RestartMisses DEF Next, VisitStep
  <1> QED
    BY MissInvariant, <1>1, PTL DEF Spec, MissIsSticky

-----------------------------------------------------------------------------
(* The dedicated lane                                                      *)

Later == {"retrieve", "generate"}

\* What a step outside the pool may do to a row: it drops the lease or keeps it, and a row that
\* is to be searched or answered was so before, as the same question.
LaneKept(r, q) == /\ q.lease = None \/ q.lease = r.lease
                  /\ q.stage \in Later => r.stage \in Later /\ q.class = r.class /\ q.key = r.key
LaneStep == \A i \in Ids : LaneKept(jobs[i], jobs'[i])

\* A row of the snapshot that waits to be answered still is what the snapshot says.
SnapshotStands ==
    \A i \in tick.avail :
        /\ jobs[i].lease = None
        /\ jobs[i].stage \in Later => jobs[i].class = tick.rows[i].class /\ jobs[i].key = tick.rows[i].key
\* The row that the dedicated slot is about to read again is a live question.
ClaimStands ==
    "priority" \in Slots =>
      LET w == worker["priority"] IN
      w.pc = "begin" /\ Owns(w) /\ jobs[w.id].stage \in Later
          => jobs[w.id].class = "PQ" /\ jobs[w.id].key \in LiveKeys

\* The lane alone is not inductive: a row is claimed from a snapshot and read after the claim.
LaneInv == SnapshotStands /\ ClaimStands /\ PriorityLanePure

\* At first nothing is claimed and there is no snapshot.
LEMMA LaneInit == Init => LaneInv
  BY DEF Init, LaneInv, SnapshotStands, ClaimStands, PriorityLanePure, NoTick, FreeWorker

\* Withdrawing a row leaves its stage, class and key as they are.
LEMMA WithdrawLane ==
  ASSUME jobs \in [Ids -> Row], NEW S, NEW how, NEW i \in Ids
  PROVE  LaneKept(jobs[i], Withdraw(S, how)[i])
  <1>1. jobs[i] \in Row
    OBVIOUS
  <1> DEFINE q == [jobs[i] EXCEPT !.state = how, !.lease = None, !.result = None, !.checkpoint = None]
  <1>2. q.lease = None /\ q.stage = jobs[i].stage /\ q.class = jobs[i].class /\ q.key = jobs[i].key
    BY <1>1 DEF Row
  <1>3. Withdraw(S, how)[i] = IF i \in S THEN q ELSE jobs[i]
    BY DEF Withdraw
  <1> HIDE DEF q
  <1> QED
    BY <1>2, <1>3 DEF LaneKept

\* A reclassified row begins again.
LEMMA ReclassifiedLane ==
  ASSUME NEW r \in Row, NEW v, NEW sc PROVE LaneKept(r, Reclassified(r, v, sc))
  <1>1. Reclassified(r, v, sc).stage = "classify" /\ Reclassified(r, v, sc).lease = None
    BY DEF Reclassified, Row
  <1> QED
    BY <1>1 DEF LaneKept, Later

\* So does a row that is not there.
LEMMA NoRowLane == ASSUME NEW r PROVE LaneKept(r, NoRow)
  BY DEF LaneKept, Later, NoRow

\* A row that stays is kept.
LEMMA SameLane == ASSUME NEW r PROVE LaneKept(r, r)
  BY DEF LaneKept

\* Grants, revocations, deletions and syncs are such steps.
LEMMA SessionLane == ASSUME TypeInv, NEW s \in Sessions, SessionStep(s) PROVE LaneStep
  <1> SUFFICES ASSUME NEW i \in Ids PROVE LaneKept(jobs[i], jobs'[i])
    BY DEF LaneStep
  <1>0. jobs \in [Ids -> Row]
    BY DEF TypeInv, TypeOK
  <1>1. ASSUME NEW on \in BOOLEAN, NEW rev, Subscribe(s, on, rev) PROVE LaneKept(jobs[i], jobs'[i])
    BY <1>0, <1>1, WithdrawLane, SameLane DEF Subscribe, Invalidated
  <1>2. ASSUME NEW delete \in BOOLEAN, Cancel(s, delete) PROVE LaneKept(jobs[i], jobs'[i])
    BY <1>0, <1>2, WithdrawLane, NoRowLane, SameLane DEF Cancel, Invalidated
  <1>3. ASSUME NEW present, NEW g, Sync(s, present, g) PROVE LaneKept(jobs[i], jobs'[i])
    BY <1>0, <1>3, WithdrawLane DEF Sync
  <1> QED
    BY <1>1, <1>2, <1>3 DEF SessionStep

\* The row that a delivery inserts.
Inserted(b) == [NoRow EXCEPT !.key = b.key, !.gen = b.gen, !.revision = b.revision, !.ver = b.ver,
                             !.scope = b.scope, !.state = "QUEUED"]
\* It begins with the classifier and without a lease.
LEMMA InsertedRow ==
  ASSUME NEW b
  PROVE  /\ Inserted(b).key = b.key /\ Inserted(b).gen = b.gen /\ Inserted(b).state = "QUEUED"
         /\ Inserted(b).stage = "classify" /\ Inserted(b).lease = None
  BY DEF Inserted, NoRow

\* What a delivery makes of the table.
LEMMA InsertedTable ==
  ASSUME NEW c, NEW j, EnqueueInsert(c, j), NEW i \in Ids
  PROVE  jobs'[i] = IF i = j THEN Inserted(client[c])
                    ELSE IF i \in Old(client[c]) THEN NoRow
                    ELSE Withdraw(Superseding(client[c].key), "SUPERSEDED")[i]
  BY DEF EnqueueInsert, Inserted

\* Deliveries, retries and changes of the policy are such steps too.
LEMMA ApiLane == ASSUME TypeInv, NEW c \in Clients, ApiStep(c) PROVE LaneStep
  <1> SUFFICES ASSUME NEW i \in Ids PROVE LaneKept(jobs[i], jobs'[i])
    BY DEF LaneStep
  <1>0. jobs \in [Ids -> Row]
    BY DEF TypeInv, TypeOK
  <1>1. CASE UNCHANGED jobs
    BY <1>1, SameLane
  <1>2. ASSUME NEW j \in Ids, EnqueueInsert(c, j) PROVE LaneKept(jobs[i], jobs'[i])
    <2>1. LaneKept(jobs[i], Inserted(client[c]))
      BY InsertedRow DEF LaneKept, Later
    <2> QED
      BY <1>0, <1>2, <2>1, InsertedTable, NoRowLane, WithdrawLane
  <1>3. CASE RetryCommit(c)
    BY <1>0, <1>3, ReclassifiedLane, SameLane DEF RetryCommit, Retried
  <1>4. CASE PolicyApply(c)
    BY <1>0, <1>4, ReclassifiedLane, SameLane DEF PolicyApply, Reapplied
  <1> QED
    BY <1>1, <1>2, <1>3, <1>4 DEF ApiStep, EnqueueRead, EnqueueAnswer, RetryRead,
       PolicyRead, PolicySave, PolicyConflict, PolicyReread

\* The watchdog, the rest of held rows and the recovery change other columns.
LEMMA SchedulerLane ==
  ASSUME TypeInv, NEW i \in Ids
  PROVE  /\ LaneKept(jobs[i], Marked[i]) /\ LaneKept(jobs[i], Recovered[i])
         /\ \A s : LaneKept(jobs[i], Resting(s)[i])
  <1>0. jobs \in [Ids -> Row] /\ jobs[i] \in Row
    BY DEF TypeInv, TypeOK
  <1>1. LaneKept(jobs[i], Marked[i])
    BY <1>0, SameLane DEF Marked, LaneKept, Row
  <1>2. LaneKept(jobs[i], Recovered[i])
    BY <1>0, SameLane DEF Recovered, LaneKept, Row
  <1>3. ASSUME NEW s PROVE LaneKept(jobs[i], Resting(s)[i])
    BY <1>0, SameLane DEF Resting, LaneKept, Row
  <1> QED
    BY <1>1, <1>2, <1>3

\* A step of that kind that leaves the pool alone keeps what is said of the dedicated thread.
LEMMA ClaimFrame ==
  ASSUME LeaseInv, TypeInv, LaneInv, LaneStep, UNCHANGED worker
  PROVE  ClaimStands' /\ PriorityLanePure'
  <1>1. ClaimStands'
    <2> SUFFICES ASSUME "priority" \in Slots, worker["priority"].pc = "begin", Owns(worker["priority"])',
                        jobs'[worker["priority"].id].stage \in Later
                 PROVE  jobs'[worker["priority"].id].class = "PQ" /\ jobs'[worker["priority"].id].key \in LiveKeys
      BY DEF ClaimStands
    <2> DEFINE w == worker["priority"]
    <2>1. w.id \in Ids /\ w.row.lease # None
      BY DEF TypeInv, PoolOK, LeaseInv, Busy
    <2>2. jobs'[w.id].lease = w.row.lease
      BY DEF Owns
    <2>3. LaneKept(jobs[w.id], jobs'[w.id])
      BY <2>1 DEF LaneStep
    <2>4. /\ Owns(w) /\ jobs[w.id].stage \in Later
          /\ jobs'[w.id].class = jobs[w.id].class /\ jobs'[w.id].key = jobs[w.id].key
      BY <2>1, <2>2, <2>3 DEF LaneKept, Owns
    <2> QED
      BY <2>4 DEF LaneInv, ClaimStands
  <1>2. PriorityLanePure'
    BY DEF LaneInv, PriorityLanePure
  <1> QED
    BY <1>1, <1>2

\* If it also leaves the snapshot alone, or drops it, it keeps the lane.
LEMMA LaneFrame ==
  ASSUME LeaseInv, TypeInv, LaneInv, LaneStep, UNCHANGED worker, tick' = tick \/ tick' = NoTick
  PROVE  LaneInv'
  <1>1. SnapshotStands'
    <2>1. CASE tick' = NoTick
      BY <2>1 DEF SnapshotStands, NoTick
    <2>2. CASE tick' = tick
      BY <2>2 DEF LaneInv, SnapshotStands, LaneStep, LaneKept, TypeInv, TypeOK
    <2> QED
      BY <2>1, <2>2
  <1> QED
    BY <1>1, ClaimFrame DEF LaneInv

\* A new snapshot says what the table says.
LEMMA TickLane == ASSUME TypeInv, LeaseInv, LaneInv, TickStep PROVE LaneInv'
  <1>0. jobs \in [Ids -> Row]
    BY DEF TypeInv, TypeOK
  <1>1. jobs' = Marked /\ UNCHANGED worker
    BY DEF TickStep, TickPlan, TickRaises
  <1>2. LaneStep
    BY <1>1, SchedulerLane DEF LaneStep
  <1>3. CASE UNCHANGED tick
    BY <1>1, <1>2, <1>3, LaneFrame
  <1>4. ASSUME NEW m \in {"NORMAL", "PRESSURED", "RECOVERY"}, NEW due \in SUBSET Delayed, TickPlan(m, due)
        PROVE  LaneInv'
    <2>1. CASE tick' = NoTick
      BY <1>1, <1>2, <2>1, LaneFrame
    <2>2. CASE tick'.avail = Available(due) /\ \A i \in Available(due) : tick'.rows[i] = CopyOf(Marked[i])
      <3>1. SnapshotStands'
        <4> SUFFICES ASSUME NEW i \in Available(due)
                     PROVE  jobs'[i].lease = None /\ jobs'[i].class = tick'.rows[i].class
                            /\ jobs'[i].key = tick'.rows[i].key
          BY <2>2 DEF SnapshotStands
        <4>1. i \in Ids /\ jobs[i].state \notin InFlight
          BY DEF Available, RUNNABLE, InFlight
        <4>2. jobs[i].lease = None
          BY <4>1 DEF LeaseInv, EveryLeaseHasOneHolder
        <4>3. Marked[i].lease = None
          BY <4>1, <4>2, SchedulerLane DEF LaneKept
        <4>4. tick'.rows[i].class = Marked[i].class /\ tick'.rows[i].key = Marked[i].key
          <5>1. tick'.rows[i] = CopyOf(Marked[i])
            BY <2>2
          <5> QED
            BY <5>1 DEF CopyOf
        <4> QED
          BY <1>1, <4>3, <4>4
      <3>2. ClaimStands' /\ PriorityLanePure'
        BY <1>1, <1>2, ClaimFrame
      <3> QED
        BY <3>1, <3>2 DEF LaneInv
    <2>3. \/ tick' = NoTick
          \/ tick'.avail = Available(due) /\ \A i \in Available(due) : tick'.rows[i] = CopyOf(Marked[i])
      <3> DEFINE avail == Available(due)
                 rows == [i \in Ids |-> IF i \in avail THEN CopyOf(Marked[i]) ELSE NoCopy]
      <3>1. avail \subseteq Ids
        BY DEF Available
      <3>2. tick' = NoTick \/ \E todo : tick' = [todo |-> todo, avail |-> avail, rows |-> rows]
        BY <1>4 DEF TickPlan
      <3> QED
        BY <3>1, <3>2
    <2> QED
      BY <2>1, <2>2, <2>3
  <1> QED
    BY <1>3, <1>4 DEF TickStep, TickRaises

\* What a visit leaves of the snapshot.
LEMMA VisitedLane ==
  ASSUME NEW s, NEW i, tick' = Visited(s, i)
  PROVE  \A j \in tick'.avail : j \in tick.avail /\ j # i /\ tick'.rows[j] = tick.rows[j]
  <1>1. CASE tick.todo = {s}
    BY <1>1 DEF Visited, NoTick
  <1>2. CASE tick.todo # {s}
    BY <1>2 DEF Visited
  <1> QED
    BY <1>1, <1>2

\* A visit that claims nothing only parks held rows.
LEMMA MissLane == ASSUME TypeInv, LeaseInv, LaneInv, NEW s \in Slots, Miss(s) PROVE LaneInv'
  <1>1. jobs' = Resting(s) /\ UNCHANGED worker /\ tick' = Visited(s, None)
    BY DEF Miss
  <1>2. LaneStep
    BY <1>1, SchedulerLane DEF LaneStep
  <1>3. SnapshotStands'
    <2> SUFFICES ASSUME NEW j \in tick'.avail
                 PROVE  /\ jobs'[j].lease = None
                        /\ jobs'[j].stage \in Later =>
                              jobs'[j].class = tick'.rows[j].class /\ jobs'[j].key = tick'.rows[j].key
      BY DEF SnapshotStands
    <2>1. j \in tick.avail /\ tick'.rows[j] = tick.rows[j]
      BY <1>1, VisitedLane
    <2>2. j \in Ids
      BY <2>1 DEF TypeInv, TypeOK
    <2> QED
      BY <1>2, <2>1, <2>2 DEF LaneInv, SnapshotStands, LaneStep, LaneKept
  <1> QED
    BY <1>1, <1>2, <1>3, ClaimFrame DEF LaneInv

\* A claim: the dedicated slot takes a row that the snapshot calls a live question, and what the
\* snapshot says still stands; another slot takes nothing that the dedicated thread holds.
LEMMA ClaimLane ==
  ASSUME TypeInv, LeaseInv, LaneInv, NEW s \in Slots, NEW i \in Ids, NEW t \in Tokens, Claim(s, i, t)
  PROVE  LaneInv'
  <1>0. jobs \in [Ids -> Row] /\ Resting(s) \in [Ids -> Row] /\ Resting(s)[i] \in Row
    BY RestingType DEF TypeInv, TypeOK
  <1>1. jobs' = [Resting(s) EXCEPT ![i].state = IF s \in FilterSlots THEN "CLASSIFYING" ELSE "RUNNING",
                                   ![i].lease = t]
    BY DEF Claim
  <1>2. /\ jobs'[i].stage = Resting(s)[i].stage /\ jobs'[i].class = Resting(s)[i].class
        /\ jobs'[i].key = Resting(s)[i].key
        /\ \A j \in Ids \ {i} : jobs'[j] = Resting(s)[j]
    BY <1>0, <1>1 DEF Row
  <1>3. \A j \in Ids : LaneKept(jobs[j], Resting(s)[j])
    BY SchedulerLane
  <1>4. tick' = Visited(s, i) /\ i \in Candidates(tick, s, mode)
    BY DEF Claim
  <1>5. SnapshotStands'
    <2> SUFFICES ASSUME NEW j \in tick'.avail
                 PROVE  /\ jobs'[j].lease = None
                        /\ jobs'[j].stage \in Later =>
                              jobs'[j].class = tick'.rows[j].class /\ jobs'[j].key = tick'.rows[j].key
      BY DEF SnapshotStands
    <2>1. j \in tick.avail /\ j # i /\ tick'.rows[j] = tick.rows[j]
      BY <1>4, VisitedLane
    <2>2. j \in Ids /\ jobs'[j] = Resting(s)[j]
      BY <1>2, <2>1 DEF TypeInv, TypeOK
    <2> QED
      BY <1>3, <2>1, <2>2 DEF LaneInv, SnapshotStands, LaneKept
  <1>6. ClaimStands'
    <2> SUFFICES ASSUME "priority" \in Slots, worker'["priority"].pc = "begin", Owns(worker["priority"])',
                        jobs'[worker'["priority"].id].stage \in Later
                 PROVE  /\ jobs'[worker'["priority"].id].class = "PQ"
                        /\ jobs'[worker'["priority"].id].key \in LiveKeys
      BY DEF ClaimStands
    <2>1. CASE s = "priority"
      <3>1. worker'["priority"].id = i
        BY <2>1, ClaimFacts
      <3>2. i \in tick.avail /\ tick.rows[i].class = "PQ" /\ tick.rows[i].key \in LiveKeys
        BY <1>4, <2>1, ConstantsAssumption DEF Candidates, PriorityCandidates
      <3>3. /\ jobs[i].stage \in Later /\ Resting(s)[i].class = jobs[i].class
            /\ Resting(s)[i].key = jobs[i].key
        BY <1>2, <1>3, <3>1 DEF LaneKept
      <3> QED
        BY <1>2, <3>1, <3>2, <3>3 DEF LaneInv, SnapshotStands
    <2>2. CASE s # "priority"
      <3> DEFINE w == worker["priority"]
      <3>1. worker'["priority"] = w /\ w.id \in Ids /\ w.row.lease # None /\ w.row.lease # t /\ jobs'[i].lease = t
        BY <2>2, ClaimFacts DEF TypeInv, PoolOK, LeaseInv, Busy
      <3>2. jobs'[w.id].lease = w.row.lease /\ w.id # i
        BY <3>1 DEF Owns
      <3>3. LaneKept(jobs[w.id], jobs'[w.id])
        BY <1>2, <1>3, <3>1, <3>2
      <3> QED
        BY <3>1, <3>2, <3>3 DEF LaneKept, Owns, LaneInv, ClaimStands
    <2> QED
      BY <2>1, <2>2
  <1>7. PriorityLanePure'
    <2>1. worker'[s].pc = "begin" /\ \A u \in Slots \ {s} : worker'[u] = worker[u]
      BY ClaimFacts
    <2> QED
      BY <2>1 DEF LaneInv, PriorityLanePure
  <1> QED
    BY <1>5, <1>6, <1>7 DEF LaneInv

\* A thread that begins a call has just read a row it owns.
LEMMA Admitted ==
  ASSUME TypeInv, LeaseInv, NEW s \in Slots, WorkerStep(s) \/ WorkerRaises(s), worker'[s].pc = "calling"
  PROVE  /\ Owns(worker[s]) /\ worker[s].pc = "begin"
         /\ worker'[s].row = CopyOf(jobs[worker[s].id])
  <1> DEFINE w == worker[s]
  <1>0. /\ w \in Worker /\ w.id \in Ids /\ worker \in [Slots -> Worker]
        /\ jobs \in [Ids -> Row]
    BY ThreadFacts DEF TypeInv, TypeOK, PoolOK
  <1>1. ASSUME NEW v \in Worker, NEW out PROVE [v EXCEPT !.pc = "commit", !.out = out].pc = "commit"
    BY DEF Worker
  <1>2. Begin(s)
    <2>1. ~Return(s)
      BY <1>0, <1>1 DEF Return, Decide
    <2>2. ~Commit(s)
      BY <1>0 DEF Commit, FreeWorker
    <2>3. ~WorkerRaises(s)
      BY <1>0 DEF WorkerRaises, Worker
    <2> QED
      BY <2>1, <2>2, <2>3 DEF WorkerStep
  <1>3. "ok" \in Checks(w) => Owns(w)
    BY DEF Checks
  <1>4. Reread(w) \in Worker /\ Reread(w).row = CopyOf(jobs[w.id])
    BY <1>0, RereadType DEF Reread, Worker
  <1>5. ~\E out : Decide(s, w, out) \/ Decide(s, Reread(w), out)
    BY <1>0, <1>1, <1>4 DEF Decide
  <1>6. /\ w.pc = "begin" /\ "ok" \in Checks(w)
        /\ \/ worker'[s] = [Reread(w) EXCEPT !.pc = "calling", !.gate = TRUE]
           \/ worker'[s] = [Reread(w) EXCEPT !.pc = "calling"]
    BY <1>0, <1>2, <1>5 DEF Begin
  <1>7. worker'[s].row = Reread(w).row
    <2> HIDE DEF w
    <2> QED
      BY <1>4, <1>6 DEF Worker
  <1> QED
    BY <1>3, <1>4, <1>6, <1>7

\* A thread begins once.
LEMMA NotAgain ==
  ASSUME TypeInv, LeaseInv, NEW s \in Slots, WorkerStep(s) \/ WorkerRaises(s)
  PROVE  worker'[s].pc # "begin"
  <1> DEFINE w == worker[s]
  <1>0. /\ w \in Worker /\ w.id \in Ids /\ worker \in [Slots -> Worker]
        /\ jobs \in [Ids -> Row]
    BY ThreadFacts DEF TypeInv, TypeOK, PoolOK
  <1>1. Reread(w) \in Worker
    BY <1>0, RereadType
  <1>2. ASSUME NEW v \in Worker, NEW out
        PROVE  /\ [v EXCEPT !.pc = "commit", !.out = out].pc # "begin"
               /\ [v EXCEPT !.pc = "calling", !.gate = TRUE].pc # "begin"
               /\ [v EXCEPT !.pc = "calling"].pc # "begin"
               /\ [v EXCEPT !.pc = "raised", !.gate = FALSE].pc # "begin"
    BY DEF Worker
  <1>3. ASSUME NEW v \in Worker, NEW out, Decide(s, v, out) PROVE worker'[s].pc # "begin"
    BY <1>0, <1>2, <1>3 DEF Decide
  <1>4. CASE Begin(s)
    <2>1. \/ \E v \in {w, Reread(w)} : \E out : Decide(s, v, out)
          \/ worker'[s] = [Reread(w) EXCEPT !.pc = "calling", !.gate = TRUE]
          \/ worker'[s] = [Reread(w) EXCEPT !.pc = "calling"]
      BY <1>0, <1>4 DEF Begin
    <2> HIDE DEF w
    <2> QED
      BY <1>0, <1>1, <1>2, <1>3, <2>1
  <1>5. CASE Return(s)
    BY <1>0, <1>3, <1>5 DEF Return
  <1>6. CASE Commit(s)
    BY <1>0, <1>6 DEF Commit, FreeWorker
  <1>7. CASE WorkerRaises(s)
    BY <1>0, <1>2, <1>7 DEF WorkerRaises
  <1> QED
    BY <1>4, <1>5, <1>6, <1>7 DEF WorkerStep

\* A thread: it reads a row it owns, and takes only that row out of flight.
LEMMA ThreadLane ==
  ASSUME TypeInv, TypeInv', LeaseInv, LaneInv, NEW s \in Slots, WorkerStep(s) \/ WorkerRaises(s)
  PROVE  LaneInv'
  <1> DEFINE w == worker[s]
  <1>0. /\ w \in Worker /\ w.id \in Ids /\ Busy(s) /\ w.row.lease # None
        /\ \A u \in Slots \ {s} : worker'[u] = worker[u]
        /\ tick.avail \subseteq Ids
    BY ThreadFacts DEF TypeInv, TypeOK, PoolOK, LeaseInv
  <1>1. UNCHANGED tick
    BY DEF WorkerStep, Begin, Return, Commit, WorkerRaises
  <1>2. \/ UNCHANGED jobs
        \/ /\ Owns(w) /\ worker'[s].pc = "free" /\ jobs'[w.id].lease = None
           /\ \A j \in Ids \ {w.id} : jobs'[j] = jobs[j]
    <2>1. CASE UNCHANGED jobs
      BY <2>1
    <2>2. CASE Owns(w) /\ worker'[s].pc = "free" /\ Dropped(jobs'[w.id])
               /\ \A j \in Ids \ {w.id} : jobs'[j] = jobs[j]
      BY <2>2 DEF Dropped
    <2>3. CASE ~Owns(w) /\ \A j \in Ids : jobs'[j] = jobs[j]
      <3>1. jobs' \in [Ids -> Row] /\ jobs \in [Ids -> Row]
        BY DEF TypeInv, TypeOK
      <3> QED
        BY <2>3, <3>1
    <2> QED
      BY <1>0, <2>1, <2>2, <2>3, ThreadFacts
  <1>3. SnapshotStands'
    <2>1. CASE UNCHANGED jobs
      BY <1>1, <2>1 DEF LaneInv, SnapshotStands
    <2>2. CASE Owns(w) /\ \A j \in Ids \ {w.id} : jobs'[j] = jobs[j]
      <3>1. w.id \notin tick.avail
        BY <1>0, <2>2 DEF LaneInv, SnapshotStands, Owns
      <3> QED
        BY <1>0, <1>1, <2>2, <3>1 DEF LaneInv, SnapshotStands
    <2> QED
      BY <1>2, <2>1, <2>2
  <1>4. ClaimStands'
    <2> SUFFICES ASSUME "priority" \in Slots, worker'["priority"].pc = "begin", Owns(worker["priority"])',
                        jobs'[worker'["priority"].id].stage \in Later
                 PROVE  /\ jobs'[worker'["priority"].id].class = "PQ"
                        /\ jobs'[worker'["priority"].id].key \in LiveKeys
      BY DEF ClaimStands
    <2>1. worker'[s].pc # "begin"
      BY NotAgain
    <2>2. worker'["priority"] = worker["priority"] /\ s # "priority"
      BY <1>0, <2>1
    <2> DEFINE p == worker["priority"]
    <2>3. p.id \in Ids /\ p.row.lease # None
      BY <2>2 DEF TypeInv, PoolOK, LeaseInv, Busy
    <2>4. jobs'[p.id].lease = p.row.lease
      BY <2>2 DEF Owns
    <2>5. jobs'[p.id] = jobs[p.id]
      <3>1. CASE UNCHANGED jobs
        BY <3>1
      <3>2. CASE jobs'[w.id].lease = None /\ \A j \in Ids \ {w.id} : jobs'[j] = jobs[j]
        <4>1. p.id # w.id
          BY <2>3, <2>4, <3>2
        <4> QED
          BY <2>3, <3>2, <4>1
      <3> QED
        BY <1>2, <3>1, <3>2
    <2> QED
      BY <2>2, <2>4, <2>5 DEF LaneInv, ClaimStands, Owns
  <1>5. PriorityLanePure'
    <2> SUFFICES ASSUME "priority" \in Slots, worker'["priority"].pc = "calling",
                        worker'["priority"].row.stage \in Later
                 PROVE  worker'["priority"].row.class = "PQ" /\ worker'["priority"].row.key \in LiveKeys
      BY DEF PriorityLanePure, Later
    <2>1. CASE s # "priority"
      BY <1>0, <2>1 DEF LaneInv, PriorityLanePure, Later
    <2>2. CASE s = "priority"
      <3>1. Owns(w) /\ w.pc = "begin" /\ worker'[s].row = CopyOf(jobs[w.id])
        BY <2>2, Admitted
      <3>2. jobs[w.id].class = "PQ" /\ jobs[w.id].key \in LiveKeys
        BY <2>2, <3>1 DEF LaneInv, ClaimStands, CopyOf
      <3> QED
        BY <2>2, <3>1, <3>2 DEF CopyOf
    <2> QED
      BY <2>1, <2>2
  <1> QED
    BY <1>3, <1>4, <1>5 DEF LaneInv

\* Each kind of step by the lemma of its kind.
LEMMA LaneStepInv == TypeInv /\ TypeInv' /\ LeaseInv /\ LaneInv /\ [Next]_vars => LaneInv'
  <1> SUFFICES ASSUME TypeInv, TypeInv', LeaseInv, LaneInv, [Next]_vars PROVE LaneInv'
    OBVIOUS
  <1>1. ASSUME NEW c \in Clients, ApiStep(c) PROVE LaneInv'
    <2>1. UNCHANGED <<tick, worker>>
      BY <1>1 DEF ApiStep, EnqueueRead, EnqueueAnswer, EnqueueInsert, RetryRead, RetryCommit,
                  PolicyRead, PolicySave, PolicyConflict, PolicyReread, PolicyApply
    <2> QED
      BY <1>1, <2>1, ApiLane, LaneFrame
  <1>2. ASSUME NEW s \in Sessions, SessionStep(s) PROVE LaneInv'
    <2>1. UNCHANGED <<tick, worker>>
      BY <1>2 DEF SessionStep, Subscribe, Cancel, Sync
    <2> QED
      BY <1>2, <2>1, SessionLane, LaneFrame
  <1>3. ASSUME UNCHANGED <<jobs, worker, tick>> PROVE LaneInv'
    BY <1>3, SameLane, LaneFrame DEF LaneStep
  <1>4. CASE Restart
    BY <1>4 DEF Restart, LaneInv, SnapshotStands, ClaimStands, PriorityLanePure, NoTick, FreeWorker
  <1> QED
    BY <1>1, <1>2, <1>3, <1>4, TickLane, MissLane, ClaimLane, ThreadLane
       DEF Next, VisitStep, DeadlinePasses, vars

\* Whatever is withdrawn, reclassified or deleted between the snapshot, the claim and the
\* second read: the slot that is kept free for live questions never spends its time on
\* another kind of work.
THEOREM PriorityLaneIsPure == Spec => []PriorityLanePure
  <1>1. LaneInv => PriorityLanePure
    BY DEF LaneInv
  <1> QED
    BY InitTypeInv, StepTypeInv, InitLease, StepLease, LaneInit, LaneStepInv, <1>1, PTL DEF Spec

-----------------------------------------------------------------------------
(* Rows of an utterance                                                    *)

\* What a step that admits nothing may do to a row: remove it, or keep it with its key and, once
\* it is withdrawn, among the withdrawn.  It makes no row.
Aged(r, q) == \/ q.state = "ABSENT"
              \/ /\ r.state # "ABSENT" /\ q.key = r.key
                 /\ r.state \in Withdrawn => q.state \in Withdrawn
AgedStep == \A i \in Ids : Aged(jobs[i], jobs'[i])

\* A row that is left alone ages.
LEMMA SameAged == ASSUME NEW r PROVE Aged(r, r)
  BY DEF Aged

\* So does one that is withdrawn.
LEMMA WithdrawAged ==
  ASSUME jobs \in [Ids -> Row], NEW S, \A j \in S : Exists(j), NEW how \in Withdrawn, NEW i \in Ids
  PROVE  Aged(jobs[i], Withdraw(S, how)[i])
  <1>1. jobs[i] \in Row
    OBVIOUS
  <1> DEFINE q == [jobs[i] EXCEPT !.state = how, !.lease = None, !.result = None, !.checkpoint = None]
  <1>2. q.state = how /\ q.key = jobs[i].key
    BY <1>1 DEF Row
  <1>3. Withdraw(S, how)[i] = IF i \in S THEN q ELSE jobs[i]
    BY DEF Withdraw
  <1> HIDE DEF q
  <1> QED
    BY <1>2, <1>3 DEF Aged, Exists

\* A row whose state is assigned, and which was there and not withdrawn, ages.
LEMMA LiveAged ==
  ASSUME NEW r, NEW q, r.state # "ABSENT", r.state \notin Withdrawn, q.key = r.key PROVE Aged(r, q)
  BY DEF Aged

\* Grants, revocations, deletions and syncs admit nothing.
LEMMA SessionAged == ASSUME TypeInv, NEW s \in Sessions, SessionStep(s) PROVE AgedStep
  <1> SUFFICES ASSUME NEW i \in Ids PROVE Aged(jobs[i], jobs'[i])
    BY DEF AgedStep
  <1>0. /\ jobs \in [Ids -> Row] /\ \A j \in Of(s) : Exists(j)
        /\ {"CANCELLED", "SUPERSEDED"} = Withdrawn /\ NoRow.state = "ABSENT"
    BY DEF TypeInv, TypeOK, Of, Withdrawn, NoRow
  <1>1. ASSUME NEW how \in Withdrawn PROVE Aged(jobs[i], Invalidated(s, how)[i])
    BY <1>0, WithdrawAged DEF Invalidated
  <1>2. ASSUME NEW on \in BOOLEAN, NEW rev, Subscribe(s, on, rev) PROVE Aged(jobs[i], jobs'[i])
    BY <1>0, <1>1, <1>2, SameAged DEF Subscribe
  <1>3. ASSUME NEW delete \in BOOLEAN, Cancel(s, delete) PROVE Aged(jobs[i], jobs'[i])
    BY <1>0, <1>1, <1>3, SameAged DEF Cancel, Aged
  <1>4. ASSUME NEW present, NEW g, Sync(s, present, g) PROVE Aged(jobs[i], jobs'[i])
    BY <1>0, <1>4, WithdrawAged DEF Sync
  <1> QED
    BY <1>2, <1>3, <1>4 DEF SessionStep

\* Of the requests only an admission makes a row, and only a retry may bring one back.
LEMMA ApiAged ==
  ASSUME TypeInv, NEW c \in Clients, ApiStep(c), ~RetryCommit(c), \A j \in Ids : ~EnqueueInsert(c, j)
  PROVE  AgedStep
  <1> SUFFICES ASSUME NEW i \in Ids PROVE Aged(jobs[i], jobs'[i])
    BY DEF AgedStep
  <1>0. jobs \in [Ids -> Row] /\ jobs[i] \in Row
    BY DEF TypeInv, TypeOK
  <1>1. CASE UNCHANGED jobs
    BY <1>1, SameAged
  <1>2. CASE PolicyApply(c)
    <2>1. jobs'[i] = jobs[i]
          \/ (i \in Affected /\ jobs'[i] = Reclassified(jobs[i], client[c].ver, client[c].scope))
      BY <1>2 DEF PolicyApply, Reapplied
    <2> QED
      BY <1>0, <2>1, SameAged, LiveAged, ReclassifiedKey DEF Affected, Live, Exists
  <1> QED
    BY <1>1, <1>2 DEF ApiStep, EnqueueRead, EnqueueAnswer, RetryRead,
       PolicyRead, PolicySave, PolicyConflict, PolicyReread

\* What the scheduler and the recovery assign leaves the key and what is withdrawn.
LEMMA SchedulerAged ==
  ASSUME TypeInv, NEW i \in Ids
  PROVE  /\ Aged(jobs[i], Marked[i]) /\ Aged(jobs[i], Recovered[i])
         /\ \A s : Aged(jobs[i], Resting(s)[i])
  <1>0. jobs \in [Ids -> Row] /\ jobs[i] \in Row
    BY DEF TypeInv, TypeOK
  <1>1. Marked[i].state = jobs[i].state /\ Marked[i].key = jobs[i].key
    BY <1>0 DEF Marked, Row
  <1>2. Aged(jobs[i], Recovered[i])
    <2>1. Recovered[i].key = jobs[i].key
      BY <1>0 DEF Recovered, Row
    <2>2. Recovered[i] = jobs[i] \/ jobs[i].state \in InFlight \cup {"PAUSED"}
      BY DEF Recovered
    <2> QED
      BY <2>1, <2>2, SameAged, LiveAged DEF InFlight, Withdrawn
  <1>3. ASSUME NEW s PROVE Aged(jobs[i], Resting(s)[i])
    <2>1. Resting(s)[i].key = jobs[i].key
      BY <1>0 DEF Resting, Row
    <2>2. Resting(s)[i] = jobs[i] \/ jobs[i].state = "QUEUED"
      BY DEF Resting
    <2> QED
      BY <2>1, <2>2, SameAged, LiveAged DEF Withdrawn
  <1>4. Aged(jobs[i], Marked[i])
    BY <1>1 DEF Aged
  <1> QED
    BY <1>2, <1>3, <1>4

\* The row that is claimed was runnable.
LEMMA ClaimAged ==
  ASSUME TypeInv, NEW s \in Slots, NEW i \in Ids, NEW t \in Tokens, Claim(s, i, t) PROVE AgedStep
  <1>0. jobs \in [Ids -> Row] /\ Resting(s) \in [Ids -> Row]
    BY RestingType DEF TypeInv, TypeOK
  <1>1. /\ \A j \in Ids \ {i} : jobs'[j] = Resting(s)[j]
        /\ jobs'[i].key = Resting(s)[i].key
    BY <1>0 DEF Claim, Row
  <1>2. Resting(s)[i].key = jobs[i].key
    BY <1>0 DEF Resting, Row
  <1>3. jobs[i].state # "ABSENT" /\ jobs[i].state \notin Withdrawn
    BY DEF Claim, Claimable, RUNNABLE, Withdrawn
  <1>4. Aged(jobs[i], jobs'[i])
    BY <1>1, <1>2, <1>3, LiveAged
  <1>5. \A j \in Ids \ {i} : Aged(jobs[j], jobs'[j])
    BY <1>1, SchedulerAged
  <1> QED
    BY <1>4, <1>5 DEF AgedStep

\* A thread writes the row whose lease it holds, which is in flight.
LEMMA ThreadAged ==
  ASSUME TypeInv, LeaseInv, NEW s \in Slots, WorkerStep(s) \/ WorkerRaises(s) PROVE AgedStep
  <1> DEFINE w == worker[s]
  <1>0. /\ w \in Worker /\ w.id \in Ids /\ w.row.lease # None
        /\ jobs \in [Ids -> Row]
    BY ThreadFacts DEF TypeInv, TypeOK, PoolOK, LeaseInv
  <1>1. CASE UNCHANGED jobs
    BY <1>1, SameAged DEF AgedStep
  <1>2. CASE Commit(s) /\ Owns(w)
    <2>1. jobs[w.id].state \in InFlight
      BY <1>0, <1>2 DEF Owns, LeaseInv, EveryLeaseHasOneHolder
    <2>2. Aged(jobs[w.id], Outcome(w))
      BY <1>0, <2>1, OutcomeKey, LiveAged DEF InFlight, Withdrawn
    <2>3. jobs' = [jobs EXCEPT ![w.id] = Outcome(w)]
      BY <1>2 DEF Commit
    <2> HIDE DEF w
    <2> QED
      BY <1>0, <2>2, <2>3, SameAged DEF AgedStep
  <1> QED
    BY <1>1, <1>2 DEF WorkerStep, Begin, Return, Commit, WorkerRaises

\* Every step ages the table, except an admission and a retry.
LEMMA StepAges ==
  ASSUME TypeInv, LeaseInv, Next
  PROVE  \/ AgedStep
         \/ \E c \in Clients : RetryCommit(c) \/ \E j \in Ids : EnqueueInsert(c, j)
  <1>1. CASE TickStep
    BY <1>1, SchedulerAged DEF TickStep, TickPlan, TickRaises, AgedStep
  <1>2. ASSUME NEW s \in Slots, Miss(s) PROVE AgedStep
    BY <1>2, SchedulerAged DEF Miss, AgedStep
  <1>3. ASSUME NEW i \in Ids, DeadlinePasses(i) PROVE AgedStep
    BY <1>3, SameAged DEF DeadlinePasses, AgedStep
  <1>4. CASE Restart
    BY <1>4, SchedulerAged DEF Restart, AgedStep
  <1> QED
    BY <1>1, <1>2, <1>3, <1>4, SessionAged, ApiAged, ClaimAged, ThreadAged DEF Next, VisitStep

\* An admission removes the withdrawn row of its key, withdraws whatever is live of the
\* utterance, and leaves the other rows.
LEMMA Admitting ==
  ASSUME TypeInv, NEW c \in Clients, NEW j \in Ids, EnqueueInsert(c, j), NEW i \in Ids \ {j}
  PROVE  \/ jobs'[i].state = "ABSENT"
         \/ /\ Outdated(i, client[c].key)
            /\ jobs'[i].state = "SUPERSEDED" /\ jobs'[i].key = jobs[i].key
         \/ ~Outdated(i, client[c].key) /\ jobs'[i] = jobs[i]
  <1> DEFINE b == client[c]
             S == Superseding(b.key)
             q == [jobs[i] EXCEPT !.state = "SUPERSEDED", !.lease = None, !.result = None, !.checkpoint = None]
  <1>0. jobs[i] \in Row /\ i # j
    BY DEF TypeInv, TypeOK
  <1>1. jobs'[i] = IF i \in Old(b) THEN NoRow ELSE Withdraw(S, "SUPERSEDED")[i]
    BY <1>0, InsertedTable
  <1>2. Withdraw(S, "SUPERSEDED")[i] = IF i \in S THEN q ELSE jobs[i]
    BY DEF Withdraw
  <1>3. q.state = "SUPERSEDED" /\ q.key = jobs[i].key
    BY <1>0 DEF Row
  <1>4. i \in S <=> Outdated(i, b.key)
    BY DEF Superseding
  <1>5. NoRow.state = "ABSENT"
    BY DEF NoRow
  <1> HIDE DEF q, S, b
  <1> QED
    BY <1>1, <1>2, <1>3, <1>4, <1>5 DEF b

\* The row an admission makes was not there.
LEMMA AdmittedRow ==
  ASSUME NEW c \in Clients, NEW j \in Ids, EnqueueInsert(c, j)
  PROVE  /\ ~Exists(j) /\ client[c].op = "enqueue"
         /\ \E latest \in Latest(client[c].key) : ~Refused(client[c], latest)
         /\ jobs'[j].key = client[c].key /\ jobs'[j].gen = client[c].gen /\ jobs'[j].state = "QUEUED"
  <1>1. jobs'[j] = Inserted(client[c])
    BY InsertedTable
  <1>2. /\ ~Exists(j) /\ client[c].op = "enqueue"
        /\ \E latest \in Latest(client[c].key) : ~Refused(client[c], latest)
    BY DEF EnqueueInsert, FreshId
  <1> QED
    BY <1>1, <1>2, InsertedRow

\* The deliveries of an utterance read the grant and the policy before they are admitted, in any
\* order: in the table at most one of its rows is neither cancelled nor superseded.
LEMMA OneAnalysisStep ==
  ASSUME TypeInv, LeaseInv, OneAnalysisPerUtterance, [Next]_vars, \A c \in Clients : ~RetryCommit(c)
  PROVE  OneAnalysisPerUtterance'
  <1>1. CASE AgedStep
    <2> SUFFICES ASSUME NEW i \in Ids, NEW j \in Ids, i # j, Live(i)', Live(j)'
                 PROVE  <<SessionOf[jobs'[i].key], UttOf[jobs'[i].key]>>
                           # <<SessionOf[jobs'[j].key], UttOf[jobs'[j].key]>>
      BY DEF OneAnalysisPerUtterance
    <2>1. /\ Live(i) /\ jobs'[i].key = jobs[i].key
          /\ Live(j) /\ jobs'[j].key = jobs[j].key
      BY <1>1 DEF AgedStep, Aged, Live, Exists
    <2> QED
      BY <2>1 DEF OneAnalysisPerUtterance
  <1>2. ASSUME NEW c \in Clients, NEW n \in Ids, EnqueueInsert(c, n) PROVE OneAnalysisPerUtterance'
    <2>1. ASSUME NEW i \in Ids \ {n}, Live(i)'
          PROVE  Live(i) /\ ~Outdated(i, client[c].key) /\ jobs'[i] = jobs[i]
      BY <1>2, <2>1, Admitting DEF Live, Exists, Withdrawn
    <2>2. ASSUME NEW i \in Ids \ {n}, Live(i)'
          PROVE  <<SessionOf[jobs'[i].key], UttOf[jobs'[i].key]>>
                    # <<SessionOf[jobs'[n].key], UttOf[jobs'[n].key]>>
      BY <1>2, <2>1, <2>2, AdmittedRow DEF Outdated
    <2> QED
      BY <2>1, <2>2 DEF OneAnalysisPerUtterance
  <1>3. CASE UNCHANGED vars
    BY <1>3 DEF vars, OneAnalysisPerUtterance, Live, Exists
  <1> QED
    BY <1>1, <1>2, <1>3, StepAges

\* Nothing but a retry brings a withdrawn row back: a running worker, a claim from an old
\* snapshot, a scope change and a restart do not.
LEMMA WithdrawnStep ==
  ASSUME TypeInv, LeaseInv, [Next]_vars, \A c \in Clients : ~RetryCommit(c) PROVE KeepsWithdrawn
  <1>1. CASE AgedStep
    BY <1>1 DEF AgedStep, Aged, KeepsWithdrawn
  <1>2. ASSUME NEW c \in Clients, NEW n \in Ids, EnqueueInsert(c, n) PROVE KeepsWithdrawn
    <2> SUFFICES ASSUME NEW i \in Ids, jobs[i].state \in Withdrawn
                 PROVE  jobs'[i].state \in Withdrawn \cup {"ABSENT"}
      BY DEF KeepsWithdrawn
    <2>1. i # n
      BY <1>2, AdmittedRow DEF Exists, Withdrawn
    <2> QED
      BY <1>2, <2>1, Admitting DEF Withdrawn
  <1>3. CASE UNCHANGED vars
    BY <1>3 DEF vars, KeepsWithdrawn
  <1> QED
    BY <1>1, <1>2, <1>3, StepAges

NoRetry == \A c \in Clients : client[c].op # "retry"

\* A request to retry is only ever made where retries are offered.
LEMMA NoRetryStep ==
  ASSUME TypeInv, "retry" \notin Ops, NoRetry, [Next]_vars
  PROVE  NoRetry' /\ \A c \in Clients : ~RetryCommit(c)
  <1>0. client \in [Clients -> Request]
    BY DEF TypeInv, TypeOK
  <1>1. ASSUME NEW c \in Clients, ApiStep(c) PROVE NoRetry'
    <2>1. ASSUME NEW r, r.op # "retry", client' = [client EXCEPT ![c] = r] PROVE NoRetry'
      BY <1>0, <2>1 DEF NoRetry
    <2>2. Idle.op # "retry"
      BY DEF Idle
    <2>3. CASE client' = [client EXCEPT ![c] = Idle]
      BY <2>1, <2>2, <2>3
    <2>4. ASSUME NEW k \in Keys, NEW g \in 0..MaxGen, EnqueueRead(c, k, g) PROVE NoRetry'
      BY <2>1, <2>4 DEF EnqueueRead
    <2>5. CASE PolicyRead(c)
      BY <2>1, <2>5 DEF PolicyRead
    <2>6. ASSUME NEW sc \in Scopes, PolicySave(c, sc) PROVE NoRetry'
      BY <2>1, <2>6 DEF PolicySave
    <2>7. CASE PolicyReread(c)
      BY <2>1, <2>3, <2>7 DEF PolicyReread
    <2> QED
      BY <1>1, <2>3, <2>4, <2>5, <2>6, <2>7 DEF ApiStep, EnqueueAnswer, EnqueueInsert, RetryRead,
         RetryCommit, PolicyConflict, PolicyApply
  <1>2. ASSUME UNCHANGED client PROVE NoRetry'
    BY <1>2 DEF NoRetry
  <1>3. ASSUME Restart PROVE NoRetry'
    BY <1>3 DEF Restart, NoRetry, Idle
  <1> QED
    BY <1>1, <1>2, <1>3 DEF Next, SessionStep, Subscribe, Cancel, Sync, TickStep, TickPlan, TickRaises,
       VisitStep, Miss, Claim, WorkerStep, Begin, Return, Commit, WorkerRaises, DeadlinePasses, vars,
       NoRetry, RetryCommit

\* Where no failed row is retried by hand, an utterance has one analysis: however many
\* deliveries of its revisions are being admitted at once, one row of it counts.
THEOREM UtteranceHasOneAnalysis ==
  ASSUME "retry" \notin Ops PROVE Spec => []OneAnalysisPerUtterance
  <1> DEFINE Inv == TypeInv /\ LeaseInv /\ NoRetry /\ OneAnalysisPerUtterance
  <1>1. Init => NoRetry /\ OneAnalysisPerUtterance
    BY DEF Init, NoRetry, Idle, OneAnalysisPerUtterance, Live, Exists, NoRow
  <1>2. Inv /\ [Next]_vars => Inv'
    BY StepTypeInv, StepLease, NoRetryStep, OneAnalysisStep
  <1>3. Inv => OneAnalysisPerUtterance
    OBVIOUS
  <1> HIDE DEF Inv
  <1>4. Init => Inv
    BY <1>1, InitTypeInv, InitLease DEF Inv
  <1> QED
    BY <1>2, <1>3, <1>4, PTL DEF Spec

\* Where no failed row is retried by hand, cancelling and superseding are final.
THEOREM WithdrawingIsFinal ==
  ASSUME "retry" \notin Ops PROVE Spec => WithdrawnIsFinal
  <1> DEFINE Inv == TypeInv /\ LeaseInv /\ NoRetry
  <1>1. Init => Inv
    BY InitTypeInv, InitLease DEF Init, NoRetry, Idle
  <1>2. Inv /\ [Next]_vars => Inv'
    BY StepTypeInv, StepLease, NoRetryStep
  <1>3. Inv /\ [Next]_vars => [KeepsWithdrawn]_vars
    BY NoRetryStep, WithdrawnStep
  <1> HIDE DEF Inv
  <1> QED
    BY <1>1, <1>2, <1>3, PTL DEF Spec, WithdrawnIsFinal

\* The one step that supersedes a live row for another is an admission.  Its transaction has
\* compared the delivery with one live row of the utterance, which is the superseded one as
\* long as there is no other.
LEMMA NewestStep == QueueInv /\ OneAnalysisPerUtterance /\ [Next]_vars => [ReplacesOlder]_vars
  <1> SUFFICES ASSUME QueueInv, OneAnalysisPerUtterance, Next, NEW i \in Ids, NEW j \in Ids,
                      Live(i), jobs'[i].state = "SUPERSEDED", ~Exists(j), jobs'[j].state # "ABSENT"
               PROVE  RevOf[jobs'[j].key] >= RevOf[jobs[i].key] /\ jobs'[j].gen >= jobs[i].gen
    BY DEF ReplacesOlder
  <1>0. TypeInv /\ LeaseInv /\ KeyInv
    BY DEF QueueInv
  <1>1. ~AgedStep
    BY DEF AgedStep, Aged, Exists
  <1>2. \A c \in Clients : ~RetryCommit(c)
    BY DEF RetryCommit, Retried, Exists
  <1>3. PICK c \in Clients, n \in Ids : EnqueueInsert(c, n)
    BY <1>0, <1>1, <1>2, StepAges
  <1>4. n = j /\ i # j
    <2>1. ASSUME j # n PROVE FALSE
      BY <1>0, <1>3, <2>1, Admitting DEF Outdated, Live, Exists
    <2> QED
      BY <2>1 DEF Live
  <1>5. Outdated(i, client[c].key)
    BY <1>0, <1>3, <1>4, Admitting DEF Live, Withdrawn
  <1>6. /\ client[c].op = "enqueue"
        /\ \E latest \in Latest(client[c].key) : ~Refused(client[c], latest)
        /\ jobs'[j].key = client[c].key /\ jobs'[j].gen = client[c].gen
    BY <1>3, <1>4, AdmittedRow
  <1>7. ~(RevOf[jobs[i].key] > RevOf[client[c].key]) /\ ~(jobs[i].gen > client[c].gen)
    <2>1. ASSUME NEW l \in Latest(client[c].key) PROVE l = i
      <3>1. l \in Ids /\ Outdated(l, client[c].key)
        BY <1>5 DEF Latest
      <3> QED
        BY <1>5, <3>1 DEF Outdated, OneAnalysisPerUtterance
    <2>2. ~Refused(client[c], i)
      BY <1>6, <2>1
    <2>3. i # None
      BY ConstantsAssumption
    <2> QED
      BY <2>2, <2>3 DEF Refused
  <1>8. jobs[i].key \in Keys /\ client[c].key \in Keys /\ jobs[i].gen \in Int /\ client[c].gen \in Int
    <2>1. jobs[i] \in Row /\ client[c] \in Request
      BY <1>0 DEF TypeInv, TypeOK
    <2>2. client[c].key \in Keys /\ client[c].gen \in 0..MaxGen
      BY <1>6, <2>1, RequestFields
    <2>3. jobs[i].gen \in 0..MaxGen
      BY <2>1 DEF Row
    <2> QED
      BY <1>0, <2>2, <2>3, ConstantsAssumption DEF KeyInv, Live
  <1>9. RevOf[jobs[i].key] \in Int /\ RevOf[client[c].key] \in Int
    BY <1>8, ConstantsAssumption
  <1> QED
    BY <1>6, <1>7, <1>8, <1>9

\* Where no failed row is retried by hand: whatever the deliveries have read before their
\* transaction, the one that supersedes a row is of no older revision of the utterance and of no
\* older source generation.  (A retry may make a second row of the utterance live, and the
\* delivery is then compared with one of them only.)
THEOREM NewestSourceStays ==
  ASSUME "retry" \notin Ops PROVE Spec => NewerIsNeverReplaced
  <1> DEFINE Inv == QueueInv /\ NoRetry /\ OneAnalysisPerUtterance
  <1>1. Init => Inv
    BY InitTypeInv, InitLease, InitKeys, InitCurrent
       DEF QueueInv, Init, NoRetry, Idle, OneAnalysisPerUtterance, Live, Exists, NoRow
  <1>2. Inv /\ [Next]_vars => Inv'
    BY StepTypeInv, StepLease, StepKeys, StepCurrent, NoRetryStep, OneAnalysisStep DEF QueueInv
  <1>3. Inv /\ [Next]_vars => [ReplacesOlder]_vars
    BY NewestStep
  <1> HIDE DEF Inv
  <1> QED
    BY <1>1, <1>2, <1>3, PTL DEF Spec, NewerIsNeverReplaced
=============================================================================
