------------------------------ MODULE MeetingJobs ------------------------------
(***************************************************************************)
(* The durable analysis queue of the RAG service: class MeetingJobs of     *)
(* rag/meetingbot_rag/meeting_jobs.py.                                     *)
(*                                                                         *)
(* One workspace.  API handlers run on a thread pool, so each of them may  *)
(* be interleaved between its reads and the transaction it commits; the    *)
(* scheduler thread reads a snapshot of the table and then claims rows one *)
(* slot at a time; every claimed row is executed by a pool thread which    *)
(* calls out to a classifier, the retriever or the generator and commits   *)
(* its outcome with an UPDATE fenced by the lease token of the claim.      *)
(*                                                                         *)
(* Time is abstracted: available_at delays are a choice of the tick (a     *)
(* delayed row may or may not be due), and deadline_at is the set "late"   *)
(* of rows whose deadline the clock has passed.                            *)
(***************************************************************************)
EXTENDS Integers, FiniteSets

CONSTANTS
    Ids,          \* row ids; a fresh uid() is an id nothing refers to
    Tokens,       \* lease tokens, likewise
    Keys,         \* source keys of deliveries
    Sessions,     \* subscribed sessions of the workspace
    Utterances,
    Revisions,    \* document revisions a grant can be pinned to
    Scopes,       \* values of (scope_profile, filter_model)
    Clients,      \* API threads with a request in flight
    Slots,        \* of the pool: FILTER_SLOTS, "priority" and "shared"
    FilterSlots,  \* FILTER_SLOTS
    SessionOf, UttOf, RevOf,  \* session, utterance, utterance revision of a key
    LiveKeys,     \* keys with origin "live"; the others come from files
    GateSize,     \* permits of the shared LLM gate
    LiveCap, FileCap,         \* admission limits of a workspace (32 and 4)
    LateKeys,     \* bound: keys whose deadline may pass
    MaxVersion,   \* bound: policy versions
    MaxGen,       \* bound: source generations
    MaxFaults,    \* bound: database failures that escape a worker
    Ops,          \* the operations the environment issues in an instance
    None

ASSUME ConstantsAssumption ==
    /\ SessionOf \in [Keys -> Sessions]
    /\ UttOf \in [Keys -> Utterances]
    /\ RevOf \in [Keys -> Nat]
    /\ LiveKeys \subseteq Keys
    /\ GateSize \in Nat \ {0}
    /\ LiveCap \in Nat /\ FileCap \in Nat
    /\ MaxVersion \in Nat /\ MaxGen \in Nat /\ MaxFaults \in Nat
    /\ IsFiniteSet(Slots)
    /\ FilterSlots \subseteq Slots \ {"priority", "shared"}
    /\ Slots \ FilterSlots \subseteq {"priority", "shared"}
    /\ None \notin Ids \cup Tokens \cup Keys \cup Revisions \cup Scopes

VARIABLES
    jobs,     \* table meeting_jobs
    late,     \* ids whose deadline_at is not after the clock
    sub,      \* table meeting_subscriptions of the workspace
    policy,   \* row of meeting_policies: version and scope
    worker,   \* self.running with what each pool thread is doing
    tick,     \* the scheduler thread between its snapshot and its last claim
    mode,     \* self.modes of the workspace
    client,   \* API requests between their reads and their transaction
    gate,     \* free permits of answer.factory.gate
    faults    \* bound counter

vars == <<jobs, late, sub, policy, worker, tick, mode, client, gate, faults>>

-----------------------------------------------------------------------------
(* Rows *)

TERMINAL  == {"COMPLETED", "FAILED", "CANCELLED", "SUPERSEDED"}
RUNNABLE  == {"QUEUED", "PAUSED", "RETRY_WAIT", "AWAITING_CONTEXT"}
InFlight  == {"RUNNING", "CLASSIFYING"}
Withdrawn == {"CANCELLED", "SUPERSEDED"}
States    == TERMINAL \cup RUNNABLE \cup InFlight \cup {"ABSENT"}
Stages    == {"classify", "context", "retrieve", "generate", "done"}
Classes   == {"none", "PQ", "SQ"}

\* classification, checkpoint and result hold the scope they were computed under.
Row == [key : Keys \cup {None}, gen : 0..MaxGen, revision : Revisions \cup {None},
        ver : 0..MaxVersion, scope : Scopes \cup {None}, state : States,
        stage : Stages, class : Classes, lease : Tokens \cup {None}, attempts : Nat,
        classification : Scopes \cup {None}, checkpoint : Scopes \cup {None},
        result : Scopes \cup {None}, missed : BOOLEAN]

NoRow == [key |-> None, gen |-> 0, revision |-> None, ver |-> 0, scope |-> None,
          state |-> "ABSENT", stage |-> "classify", class |-> "none", lease |-> None,
          attempts |-> 0, classification |-> None, checkpoint |-> None,
          result |-> None, missed |-> FALSE]

Exists(i) == jobs[i].state # "ABSENT"
Open(i)   == jobs[i].state \in RUNNABLE \cup InFlight     \* not in TERMINAL
Live(i)   == Exists(i) /\ jobs[i].state \notin Withdrawn
Of(s)     == {i \in Ids : Exists(i) /\ SessionOf[jobs[i].key] = s}
Outdated(i, k) == Live(i) /\ SessionOf[jobs[i].key] = SessionOf[k]
                          /\ UttOf[jobs[i].key] = UttOf[k]

-----------------------------------------------------------------------------
(* Threads *)

\* The columns of a row a thread goes on using after it has read them.
Copy == [key : Keys \cup {None}, scope : Scopes \cup {None}, stage : Stages, class : Classes, attempts : Nat,
         lease : Tokens \cup {None}, classification : Scopes \cup {None}, missed : BOOLEAN]
CopyOf(r) == [key |-> r.key, scope |-> r.scope, stage |-> r.stage, class |-> r.class,
              attempts |-> r.attempts, lease |-> r.lease,
              classification |-> r.classification, missed |-> r.missed]

NoCopy == CopyOf(NoRow)

Outcomes == {"requeue", "cancelled", "transient", "permanent", "unsure", "low",
             "unsupported", "sub", "priority", "clarify", "ready", "answer"}
Worker == [pc : {"free", "begin", "calling", "commit", "raised"}, id : Ids \cup {None},
           row : Copy, gate : BOOLEAN, out : Outcomes \cup {"none"}]
FreeWorker == [pc |-> "free", id |-> None, row |-> NoCopy, gate |-> FALSE, out |-> "none"]

Idle == [op |-> "idle"]
Request == {Idle}
    \cup [op : {"enqueue"}, key : Keys, gen : 0..MaxGen, revision : Revisions \cup {None},
          ver : 0..MaxVersion, scope : Scopes]
    \cup [op : {"retry"}, id : Ids, ver : 0..MaxVersion, scope : Scopes]
    \cup [op : {"save", "reread"}, before : Scopes]
    \cup [op : {"apply"}, ver : 0..MaxVersion, scope : Scopes]

\* Slots still to visit, and the rows of the snapshot not claimed yet.
NoTick == [todo |-> {}, avail |-> {}, rows |-> [i \in Ids |-> NoCopy]]

Busy(s) == worker[s].pc # "free"
\* A uid() never repeats: fresh means nothing still refers to the value.
UsedTokens == {jobs[i].lease : i \in Ids} \cup {worker[s].row.lease : s \in Slots}
FreshId(i) == /\ ~Exists(i)
              /\ i \notin tick.avail /\ \A s \in Slots : worker[s].id # i
              /\ \A c \in Clients : client[c].op = "retry" => client[c].id # i

TypeOK ==
    /\ jobs \in [Ids -> Row]
    /\ late \subseteq Ids
    /\ sub \in [Sessions -> [exists : BOOLEAN, enabled : BOOLEAN,
                             revision : Revisions \cup {None}, gen : 0..MaxGen]]
    /\ policy \in [ver : 0..MaxVersion, scope : Scopes]
    /\ worker \in [Slots -> Worker]
    /\ tick \in [todo : SUBSET Slots, avail : SUBSET Ids, rows : [Ids -> Copy]]
    /\ mode \in {"NORMAL", "PRESSURED", "RECOVERY"}
    /\ client \in [Clients -> Request]
    /\ gate \in 0..GateSize
    /\ faults \in 0..MaxFaults

Init ==
    /\ jobs = [i \in Ids |-> NoRow]
    /\ late = {}
    /\ sub = [s \in Sessions |-> [exists |-> FALSE, enabled |-> FALSE,
                                  revision |-> None, gen |-> 0]]
    /\ policy \in [ver : {0}, scope : Scopes]
    /\ worker = [s \in Slots |-> FreeWorker]
    /\ tick = NoTick
    /\ mode = "NORMAL"
    /\ client = [c \in Clients |-> Idle]
    /\ gate = GateSize
    /\ faults = 0

-----------------------------------------------------------------------------
(* Subscriptions: grant, revoke, delete, source fence *)

Withdraw(S, how) ==
    [i \in Ids |-> IF i \in S
                   THEN [jobs[i] EXCEPT !.state = how, !.lease = None,
                                        !.result = None, !.checkpoint = None]
                   ELSE jobs[i]]

\* Mutant: stopping spares what a worker is busy with.
InvalidatedIdle(s, how) ==
    Withdraw({i \in Of(s) : IF how = "CANCELLED" THEN jobs[i].state \in RUNNABLE ELSE Live(i)}, how)

\* _invalidate: stopping keeps finished work, a new revision supersedes all of it.
Invalidated(s, how) ==
    Withdraw({i \in Of(s) : IF how = "CANCELLED" THEN Open(i) ELSE Live(i)}, how)

Subscribe(s, on, rev) ==
    /\ IF on THEN "grant" \in Ops /\ rev # None ELSE "revoke" \in Ops
    /\ sub' = [sub EXCEPT ![s].exists = TRUE, ![s].enabled = on, ![s].revision = rev]
    /\ jobs' = IF ~on THEN Invalidated(s, "CANCELLED")
               ELSE IF sub[s].exists /\ sub[s].revision # rev
               THEN Invalidated(s, "SUPERSEDED")
               ELSE jobs
    /\ UNCHANGED <<late, policy, worker, tick, mode, client, gate, faults>>

Cancel(s, delete) ==
    /\ "cancel" \in Ops
    /\ sub[s].exists
    /\ sub' = [sub EXCEPT ![s].enabled = FALSE]
    /\ jobs' = IF delete THEN [i \in Ids |-> IF i \in Of(s) THEN NoRow ELSE jobs[i]]
                         ELSE Invalidated(s, "CANCELLED")
    /\ late' = IF delete THEN late \ Of(s) ELSE late
    /\ UNCHANGED <<policy, worker, tick, mode, client, gate, faults>>

Sync(s, present, g) ==
    /\ "sync" \in Ops
    /\ sub[s].exists
    /\ g >= sub[s].gen
    /\ sub' = [sub EXCEPT ![s].gen = g]
    /\ jobs' = Withdraw({i \in Of(s) : Live(i) /\ UttOf[jobs[i].key] \notin present},
                        "SUPERSEDED")
    /\ UNCHANGED <<late, policy, worker, tick, mode, client, gate, faults>>

-----------------------------------------------------------------------------
(* Admission: the grant and the policy are read before the transaction *)

\* The source fence binds the bridge; a user's own request is not held to it.
EnqueueRead(c, k, g) ==
    /\ "enqueue" \in Ops
    /\ "resend" \in Ops \/ \A i \in Ids : jobs[i].key # k
    /\ client[c] = Idle
    /\ sub[SessionOf[k]].enabled
    /\ "direct" \in Ops \/ g >= sub[SessionOf[k]].gen
    /\ client' = [client EXCEPT ![c] =
                    [op |-> "enqueue", key |-> k, gen |-> g,
                     revision |-> sub[SessionOf[k]].revision,
                     ver |-> policy.ver, scope |-> policy.scope]]
    /\ UNCHANGED <<jobs, late, sub, policy, worker, tick, mode, gate, faults>>

Old(b) == {i \in Ids : Exists(i) /\ jobs[i].key = b.key /\ jobs[i].ver = b.ver}

\* The live row created last.  created_at is read before the transaction, so it may tie
\* or disagree with the order of the commits: of several live rows any may be it.
Latest(k) == LET live == {i \in Ids : Outdated(i, k)} IN IF live = {} THEN {None} ELSE live

\* Mutant: deliveries are not compared with the latest row.
RefusedByKey(b, latest) ==
    \/ \E i \in Old(b) : jobs[i].state # "CANCELLED"
    \/ Cardinality({i \in Ids : Open(i)}) >= (IF b.key \in LiveKeys THEN LiveCap ELSE FileCap)

Refused(b, latest) ==
    \/ \E i \in Old(b) : jobs[i].state # "CANCELLED"     \* duplicate or superseded key
    \/ /\ latest # None
       /\ \/ RevOf[jobs[latest].key] > RevOf[b.key]
          \/ jobs[latest].gen > b.gen
    \/ Cardinality({i \in Ids : Open(i)}) >= (IF b.key \in LiveKeys THEN LiveCap ELSE FileCap)

\* The existing row is answered, or the request is rejected: no row changes.
EnqueueAnswer(c) ==
    /\ client[c].op = "enqueue"
    /\ \E latest \in Latest(client[c].key) : Refused(client[c], latest)
    /\ client' = [client EXCEPT ![c] = Idle]
    /\ UNCHANGED <<jobs, late, sub, policy, worker, tick, mode, gate, faults>>

\* Mutant: finished rows of the utterance are left alone.
SupersedingOpen(k) == {i \in Ids : Outdated(i, k) /\ Open(i)}

Superseding(k) == {i \in Ids : Outdated(i, k)}

EnqueueInsert(c, j) ==
    LET b == client[c]
        rest == Withdraw(Superseding(b.key), "SUPERSEDED")
    IN  /\ b.op = "enqueue"
        /\ \E latest \in Latest(b.key) : ~Refused(b, latest)
        /\ FreshId(j)
        /\ jobs' = [i \in Ids |->
                      IF i = j THEN [NoRow EXCEPT !.key = b.key, !.gen = b.gen,
                                        !.revision = b.revision, !.ver = b.ver,
                                        !.scope = b.scope, !.state = "QUEUED"]
                      ELSE IF i \in Old(b) THEN NoRow ELSE rest[i]]
        /\ late' = late \ (Old(b) \cup {j})
        /\ client' = [client EXCEPT ![c] = Idle]
        /\ UNCHANGED <<sub, policy, worker, tick, mode, gate, faults>>

-----------------------------------------------------------------------------
(* Explicit retry: the row is read, then updated by id without a transaction *)

\* Mutants: a running worker keeps its lease; the miss is forgotten.
ReclassifiedInPlace(r, v, sc) ==
    [r EXCEPT !.state = "QUEUED", !.stage = "classify", !.class = "none",
              !.classification = None, !.checkpoint = None, !.result = None,
              !.attempts = 0, !.ver = v, !.scope = sc]
ReclassifiedAfresh(r, v, sc) == [ReclassifiedInPlace(r, v, sc) EXCEPT !.lease = None, !.missed = FALSE]

\* A restart from the classifier; the deadline and its miss are preserved.
Reclassified(r, v, sc) ==
    [r EXCEPT !.state = "QUEUED", !.stage = "classify", !.class = "none",
              !.classification = None, !.checkpoint = None, !.result = None,
              !.lease = None, !.attempts = 0, !.ver = v, !.scope = sc]

\* UNIQUE(workspace_id, session_id, source_key, policy_version)
Unique(rows) == \A i, j \in Ids :
    (i # j /\ rows[i].state # "ABSENT" /\ rows[j].state # "ABSENT")
        => <<rows[i].key, rows[i].ver>> # <<rows[j].key, rows[j].ver>>

RetryRead(c, i) ==
    /\ "retry" \in Ops
    /\ client[c] = Idle
    /\ jobs[i].state = "FAILED"
    /\ sub[SessionOf[jobs[i].key]].enabled
    /\ client' = [client EXCEPT ![c] =
                    [op |-> "retry", id |-> i, ver |-> policy.ver, scope |-> policy.scope]]
    /\ UNCHANGED <<jobs, late, sub, policy, worker, tick, mode, gate, faults>>

Retried(b) ==
    [i \in Ids |-> IF i = b.id /\ Exists(i) THEN Reclassified(jobs[i], b.ver, b.scope)
                                            ELSE jobs[i]]

RetryCommit(c) ==
    /\ client[c].op = "retry"
    /\ jobs' = IF Unique(Retried(client[c])) THEN Retried(client[c]) ELSE jobs
    /\ client' = [client EXCEPT ![c] = Idle]
    /\ UNCHANGED <<late, sub, policy, worker, tick, mode, gate, faults>>

-----------------------------------------------------------------------------
(* Policy: save_policy reads, saves (compare and swap) and reclassifies *)

PolicyRead(c) ==
    /\ "policy" \in Ops
    /\ client[c] = Idle
    /\ client' = [client EXCEPT ![c] = [op |-> "save", before |-> policy.scope]]
    /\ UNCHANGED <<jobs, late, sub, policy, worker, tick, mode, gate, faults>>

PolicySave(c, sc) ==
    /\ client[c].op = "save"
    /\ policy.ver < MaxVersion
    /\ policy' = [ver |-> policy.ver + 1, scope |-> sc]
    /\ client' = [client EXCEPT ![c] = [op |-> "reread", before |-> client[c].before]]
    /\ UNCHANGED <<jobs, late, sub, worker, tick, mode, gate, faults>>

PolicyConflict(c) ==
    /\ client[c].op = "save"
    /\ client' = [client EXCEPT ![c] = Idle]
    /\ UNCHANGED <<jobs, late, sub, policy, worker, tick, mode, gate, faults>>

PolicyReread(c) ==
    /\ client[c].op = "reread"
    /\ client' = [client EXCEPT ![c] =
                    IF policy.scope = client[c].before THEN Idle
                    ELSE [op |-> "apply", ver |-> policy.ver, scope |-> policy.scope]]
    /\ UNCHANGED <<jobs, late, sub, policy, worker, tick, mode, gate, faults>>

\* Mutant: every row of an enabled session is reclassified.
AffectedAll == {i \in Ids : Exists(i) /\ sub[SessionOf[jobs[i].key]].enabled}

Affected == {i \in Ids : Live(i) /\ sub[SessionOf[jobs[i].key]].enabled}
Reapplied(b) ==
    [i \in Ids |-> IF i \in Affected THEN Reclassified(jobs[i], b.ver, b.scope) ELSE jobs[i]]

PolicyApply(c) ==
    /\ client[c].op = "apply"
    /\ jobs' = IF Unique(Reapplied(client[c])) THEN Reapplied(client[c]) ELSE jobs
    /\ client' = [client EXCEPT ![c] = Idle]
    /\ UNCHANGED <<late, sub, policy, worker, tick, mode, gate, faults>>

-----------------------------------------------------------------------------
(* The scheduler thread: tick *)

DeadlinePasses(i) ==
    /\ "deadline" \in Ops
    /\ Exists(i) /\ jobs[i].key \in LateKeys /\ i \notin late
    /\ late' = late \cup {i}
    /\ UNCHANGED <<jobs, sub, policy, worker, tick, mode, client, gate, faults>>

\* The watchdog UPDATE every tick starts with.
Watched(i) == i \in late /\ Open(i) /\ (jobs[i].class = "PQ" \/ jobs[i].stage = "classify")
Marked == [i \in Ids |-> IF Watched(i) THEN [jobs[i] EXCEPT !.missed = TRUE] ELSE jobs[i]]

\* Mutant: workers are reaped before the watchdog writes.
TickRaisesFirst ==
    /\ tick.todo = {}
    /\ \E s \in Slots : worker[s].pc = "raised"
    /\ UNCHANGED vars

\* A worker's exception that escaped is raised again by every later tick.
TickRaises ==
    /\ tick.todo = {}
    /\ \E s \in Slots : worker[s].pc = "raised"
    /\ jobs' = Marked
    /\ UNCHANGED <<late, sub, policy, worker, tick, mode, client, gate, faults>>

Urgent(i) == Open(i) /\ (jobs[i].class = "PQ" \/ jobs[i].stage = "classify")

\* _mode: pressure needs urgent work, recovery only follows pressure.
ModeAllowed(m) == /\ m # "NORMAL" => "pressure" \in Ops
                  /\ m = "PRESSURED" => \E i \in Ids : Urgent(i)
                  /\ m = "RECOVERY" => mode # "NORMAL"

Delayed == {i \in Ids : jobs[i].state \in {"RETRY_WAIT", "AWAITING_CONTEXT"}}

\* Mutant: paused rows are not runnable.
AvailableUnpaused(due) == {i \in Ids : jobs[i].state \in RUNNABLE \ {"PAUSED"}} \ (Delayed \ due)

Available(due) == {i \in Ids : jobs[i].state \in RUNNABLE} \ (Delayed \ due)

\* What the snapshot t offers to slot s under mode m.  Of several candidates
\* _pick prefers the earliest received or due one: which one is left open.
Main(t) == {i \in t.avail : /\ t.rows[i].class # "none"
                            /\ t.rows[i].stage \notin {"classify", "context"}}
Prefer(S, P) == IF S \cap P # {} THEN S \cap P ELSE S
FilterCandidates(t) ==
    Prefer({i \in t.avail : t.rows[i].stage \in {"classify", "context"}},
           {i \in t.avail : t.rows[i].key \in LiveKeys})

\* Mutant: the dedicated slot takes any PQ row.
PriorityCandidatesAny(t) == {i \in t.avail : t.rows[i].class = "PQ"}

PriorityCandidates(t) ==
    {i \in t.avail : t.rows[i].class = "PQ" /\ t.rows[i].key \in LiveKeys}
SharedCandidates(t, m) ==
    LET pq == {i \in Main(t) : t.rows[i].class = "PQ"}
    IN  IF pq = {} /\ m = "NORMAL" THEN Main(t) ELSE pq
Candidates(t, s, m) == IF s \in FilterSlots THEN FilterCandidates(t)
                       ELSE IF s = "priority" THEN PriorityCandidates(t)
                       ELSE SharedCandidates(t, m)
Held(t, s, m) == IF s = "shared" /\ m = "PRESSURED"
                 THEN {i \in Main(t) : t.rows[i].class = "SQ"} ELSE {}

\* The snapshot of one tick, and the free slots that have something to do.
TickPlan(m, due) ==
    /\ tick.todo = {}
    /\ \A s \in Slots : worker[s].pc # "raised"
    /\ ModeAllowed(m)
    /\ mode' = m
    /\ jobs' = Marked
    /\ LET avail == Available(due)
           seen == [avail |-> avail,
                    rows |-> [i \in Ids |-> IF i \in avail THEN CopyOf(Marked[i]) ELSE NoCopy]]
           todo == {s \in Slots : ~Busy(s) /\ Candidates(seen, s, m) \cup Held(seen, s, m) # {}}
       IN  tick' = IF todo = {} THEN NoTick
                   ELSE [todo |-> todo, avail |-> seen.avail, rows |-> seen.rows]
    /\ UNCHANGED <<late, sub, policy, worker, client, gate, faults>>

\* Slots are visited in the order (filters, priority, shared).
Rank(s) == IF s = "shared" THEN 2 ELSE IF s = "priority" THEN 1 ELSE 0
Visits(s) == s \in tick.todo /\ \A t \in tick.todo : Rank(s) <= Rank(t)
Visited(s, i) == IF tick.todo = {s} THEN NoTick
                 ELSE [tick EXCEPT !.todo = @ \ {s}, !.avail = @ \ {i}]
Resting(s) ==
    [i \in Ids |-> IF i \in Held(tick, s, mode) /\ jobs[i].state = "QUEUED"
                   THEN [jobs[i] EXCEPT !.state = "PAUSED"] ELSE jobs[i]]
Claimable(i) == jobs[i].state \in RUNNABLE

Claim(s, i, t) ==
    /\ Visits(s)
    /\ i \in Candidates(tick, s, mode)
    /\ Claimable(i)
    /\ t \notin UsedTokens
    /\ jobs' = [Resting(s) EXCEPT
                  ![i].state = IF s \in FilterSlots THEN "CLASSIFYING" ELSE "RUNNING",
                  ![i].lease = t]
    /\ worker' = [worker EXCEPT ![s] =
                    [pc |-> "begin", id |-> i, row |-> [tick.rows[i] EXCEPT !.lease = t],
                     gate |-> FALSE, out |-> "none"]]
    /\ tick' = Visited(s, i)
    /\ UNCHANGED <<late, sub, policy, mode, client, gate, faults>>

\* No candidate is left, or the picked row was withdrawn after the snapshot.
Miss(s) ==
    /\ Visits(s)
    /\ \/ Candidates(tick, s, mode) = {}
       \/ \E i \in Candidates(tick, s, mode) : ~Claimable(i)
    /\ jobs' = Resting(s)
    /\ tick' = Visited(s, None)
    /\ UNCHANGED <<late, sub, policy, worker, mode, client, gate, faults>>

-----------------------------------------------------------------------------
(* A pool thread: _execute *)

\* Mutant: the UPDATE is fenced by the state instead of the lease.
OwnsByState(w) == jobs[w.id].state \in InFlight

Owns(w) == jobs[w.id].lease = w.row.lease

\* _active: the lease, the grant, and what other components may have revoked.
Checks(w) ==
    IF ~Owns(w) \/ ~sub[SessionOf[jobs[w.id].key]].enabled THEN {"cancelled"}
    ELSE {"ok"} \cup IF "deny" \in Ops THEN {"cancelled", "permanent"} ELSE {}

Decide(s, w, out) == worker' = [worker EXCEPT ![s] = [w EXCEPT !.pc = "commit", !.out = out]]

\* Mutant: the row of the snapshot is executed.
RereadSkipped(w) == w

\* _active returns the row as it is now.
Reread(w) == [w EXCEPT !.row = CopyOf(jobs[w.id])]

Begin(s) ==
    LET w == worker[s]
        fresh == Reread(w)
        stage == jobs[w.id].stage
    IN  /\ w.pc = "begin"
        /\ \E a \in Checks(w) :
             \/ /\ a # "ok"
                /\ Decide(s, w, a)
                /\ UNCHANGED gate
             \/ /\ a = "ok" /\ stage \in {"classify", "generate"} /\ gate > 0
                /\ gate' = gate - 1
                /\ worker' = [worker EXCEPT ![s] = [fresh EXCEPT !.pc = "calling", !.gate = TRUE]]
             \/ /\ a = "ok" /\ stage \in {"classify", "generate"} /\ gate = 0
                /\ Decide(s, fresh, "requeue")
                /\ UNCHANGED gate
             \/ /\ a = "ok" /\ stage = "context"
                /\ Decide(s, fresh, "clarify")
                /\ UNCHANGED gate
             \/ /\ a = "ok" /\ stage = "retrieve"
                /\ worker' = [worker EXCEPT ![s] = [fresh EXCEPT !.pc = "calling"]]
                /\ UNCHANGED gate
        /\ UNCHANGED <<jobs, late, sub, policy, tick, mode, client, faults>>

Answers(stage) == CASE stage = "classify" -> {"unsure", "low", "unsupported", "sub", "priority"}
                    [] stage = "retrieve" -> {"ready", "answer"}
                    [] OTHER -> {"answer"}

\* The call returns or raises; its answer is only kept if _active still agrees.
Return(s) ==
    LET w == worker[s]
    IN  /\ w.pc = "calling"
        /\ \/ \E e \in {"transient", "permanent"} : "errors" \in Ops /\ Decide(s, w, e)
           \/ \E o \in Answers(w.row.stage), a \in Checks(w) :
                Decide(s, w, IF a = "ok" THEN o ELSE a)
        /\ UNCHANGED <<jobs, late, sub, policy, tick, mode, client, gate, faults>>

\* Mutant: only the watchdog's mark counts.
MissedAtTick(w, class) == jobs[w.id].missed

\* _update recomputes the miss when a PQ or unclassified row ends.
MissedAtEnd(w, class) ==
    IF class = "PQ" \/ w.row.stage = "classify" THEN w.row.missed \/ w.id \in late
    ELSE jobs[w.id].missed
Classified(w, class) ==
    [jobs[w.id] EXCEPT !.classification = w.row.scope, !.class = class,
                       !.attempts = 0, !.lease = None]
Completed(r, w, basis) ==
    [r EXCEPT !.state = "COMPLETED", !.stage = "done", !.lease = None,
              !.result = basis, !.missed = MissedAtEnd(w, r.class)]
Failed(w) ==
    LET n == w.row.attempts + 1
        r == [jobs[w.id] EXCEPT !.attempts = n, !.lease = None]
    IN  IF w.out = "transient" /\ n < 2 THEN [r EXCEPT !.state = "RETRY_WAIT"]
        ELSE [r EXCEPT !.state = "FAILED", !.missed = MissedAtEnd(w, w.row.class)]

\* The columns _update assigns for each outcome.
Outcome(w) ==
    LET r == jobs[w.id] IN
    CASE w.out = "requeue"     -> [r EXCEPT !.state = "QUEUED", !.lease = None]
      [] w.out = "unsure"      -> [Classified(w, "none") EXCEPT !.stage = "context",
                                                                !.state = "AWAITING_CONTEXT"]
      [] w.out = "low"         -> Completed(Classified(w, "none"), w, w.row.scope)
      [] w.out = "unsupported" -> Completed(Classified(w, "PQ"), w, w.row.scope)
      [] w.out = "sub"         -> [Classified(w, "SQ") EXCEPT !.stage = "retrieve", !.state = "QUEUED"]
      [] w.out = "priority"    -> [Classified(w, "PQ") EXCEPT !.stage = "retrieve", !.state = "QUEUED"]
      [] w.out = "clarify"     -> Completed(r, w, w.row.classification)
      [] w.out = "ready"       -> [r EXCEPT !.stage = "generate", !.state = "QUEUED", !.attempts = 0,
                                            !.checkpoint = w.row.classification, !.lease = None]
      [] w.out = "answer"      -> Completed([r EXCEPT !.attempts = 0], w, w.row.classification)
      [] w.out = "cancelled"   -> [r EXCEPT !.state = "CANCELLED", !.lease = None,
                                            !.result = None, !.checkpoint = None]
      [] OTHER                 -> Failed(w)

\* Mutants: every worker releases; only a worker that still owns its row does.
ReleasedAlways(w) == gate + 1
ReleasedIfOwned(w) == IF w.gate /\ Owns(w) THEN gate + 1 ELSE gate

Released(w) == IF w.gate THEN gate + 1 ELSE gate

Commit(s) ==
    LET w == worker[s]
    IN  /\ w.pc = "commit"
        /\ jobs' = IF Owns(w) THEN [jobs EXCEPT ![w.id] = Outcome(w)] ELSE jobs
        /\ worker' = [worker EXCEPT ![s] = FreeWorker]
        /\ gate' = Released(w)
        /\ UNCHANGED <<late, sub, policy, tick, mode, client, faults>>

\* The database refuses the UPDATE, and refuses the one of the except clause too.
WorkerRaises(s) ==
    LET w == worker[s]
    IN  /\ w.pc = "commit"
        /\ faults < MaxFaults
        /\ faults' = faults + 1
        /\ worker' = [worker EXCEPT ![s] = [w EXCEPT !.pc = "raised", !.gate = FALSE]]
        /\ gate' = Released(w)
        /\ UNCHANGED <<jobs, late, sub, policy, tick, mode, client>>

\* Mutant: the state is recovered and the lease is not.
RecoveredLeased ==
    [i \in Ids |-> IF jobs[i].state \in InFlight \cup {"PAUSED"}
                   THEN [jobs[i] EXCEPT !.state = "QUEUED"] ELSE jobs[i]]

Recovered ==
    [i \in Ids |-> IF jobs[i].state \in InFlight \cup {"PAUSED"}
                   THEN [jobs[i] EXCEPT !.state = "QUEUED", !.lease = None] ELSE jobs[i]]

\* The process dies and __init__ recovers what was in flight or paused.
Restart ==
    /\ "restart" \in Ops
    /\ jobs' = Recovered
    /\ worker' = [s \in Slots |-> FreeWorker]
    /\ tick' = NoTick
    /\ mode' = "NORMAL"
    /\ client' = [c \in Clients |-> Idle]
    /\ gate' = GateSize
    /\ UNCHANGED <<late, sub, policy, faults>>

-----------------------------------------------------------------------------

ApiStep(c) ==
    \/ \E k \in Keys, g \in 0..MaxGen : EnqueueRead(c, k, g)
    \/ EnqueueAnswer(c)
    \/ \E j \in Ids : EnqueueInsert(c, j)
    \/ \E i \in Ids : RetryRead(c, i)
    \/ RetryCommit(c)
    \/ PolicyRead(c)
    \/ \E sc \in Scopes : PolicySave(c, sc)
    \/ PolicyConflict(c)
    \/ PolicyReread(c)
    \/ PolicyApply(c)

SessionStep(s) ==
    \/ \E on \in BOOLEAN, rev \in Revisions \cup {None} : Subscribe(s, on, rev)
    \/ \E delete \in BOOLEAN : Cancel(s, delete)
    \/ \E present \in SUBSET Utterances, g \in 0..MaxGen : Sync(s, present, g)

TickStep ==
    \/ TickRaises
    \/ \E m \in {"NORMAL", "PRESSURED", "RECOVERY"}, due \in SUBSET Delayed : TickPlan(m, due)

VisitStep == \E s \in Slots : Miss(s) \/ \E i \in Ids, t \in Tokens : Claim(s, i, t)

WorkerStep(s) == Begin(s) \/ Return(s) \/ Commit(s)

Next ==
    \/ \E c \in Clients : ApiStep(c)
    \/ \E s \in Sessions : SessionStep(s)
    \/ TickStep
    \/ VisitStep
    \/ \E s \in Slots : WorkerStep(s) \/ WorkerRaises(s)
    \/ \E i \in Ids : DeadlinePasses(i)
    \/ Restart

Spec == Init /\ [][Next]_vars

\* Threads and the scheduler keep running; retry delays pass; pressure is not
\* kept up by work that does not exist.  Nothing is assumed of the API.
Fairness ==
    /\ \A s \in Slots : WF_vars(WorkerStep(s))
    /\ WF_vars(VisitStep)
    /\ WF_vars(TickRaises)
    /\ SF_vars(\E m \in {"NORMAL", "PRESSURED", "RECOVERY"} : TickPlan(m, Delayed))
    /\ SF_vars((\A i \in Ids : ~Urgent(i)) /\ TickPlan("NORMAL", Delayed))
FairSpec == Spec /\ Fairness

\* The scheduler thread keeps ticking; workers may hang for ever.
TickingSpec == Spec /\ WF_vars(TickStep) /\ WF_vars(VisitStep)

-----------------------------------------------------------------------------
(* Safety *)

\* A row is in flight exactly while it carries a lease, every lease is held by
\* one pool thread, and no two threads hold the same lease: what the claim, the
\* invalidations and the restart leave behind.
EveryLeaseHasOneHolder ==
    /\ \A i \in Ids : jobs[i].lease # None <=> jobs[i].state \in InFlight
    /\ \A i \in Ids : jobs[i].lease # None =>
         \E s \in Slots : Busy(s) /\ worker[s].id = i /\ worker[s].row.lease = jobs[i].lease
    /\ \A s, t \in Slots : (s # t /\ Busy(s) /\ Busy(t)) =>
         worker[s].row.lease # worker[t].row.lease

\* A thread past _active whose lease is still on its row works on the current
\* row: whatever rewrites a row (policy change, retry, supersession) drops the
\* lease, so the fenced UPDATE can never write columns derived from an old row.
PastActive(w) == w.pc = "calling" \/ (w.pc = "commit" /\ w.out \notin {"cancelled", "permanent"})
Work(row) == <<row.key, row.scope, row.stage, row.class, row.attempts, row.lease,
                   row.classification>>
LeaseMeansCurrent ==
    \A s \in Slots : (PastActive(worker[s]) /\ Owns(worker[s]))
        => Work(worker[s].row) = Work(jobs[worker[s].id])

\* Whatever a row has been given (classification, checkpoint, result) was
\* computed under the scope the row now carries, and every stage finds the
\* input that _execute is going to load for it.
AnalysisMatchesPolicy ==
    \A i \in Ids : Live(i) =>
      LET r == jobs[i]
      IN  /\ {r.classification, r.checkpoint, r.result} \subseteq {None, r.scope}
          /\ r.stage = "classify" => r.classification = None
          /\ r.stage \in {"context", "retrieve", "generate"} => r.classification # None
          /\ r.stage = "generate" => r.checkpoint # None
          /\ r.state = "COMPLETED" <=> r.result # None

\* At most one row of an utterance is neither cancelled nor superseded,
\* however many deliveries of its revisions are being admitted at once.
OneAnalysisPerUtterance ==
    \A i, j \in Ids : (i # j /\ Live(i) /\ Live(j)) =>
      <<SessionOf[jobs[i].key], UttOf[jobs[i].key]>> # <<SessionOf[jobs[j].key], UttOf[jobs[j].key]>>

\* Permits of the LLM gate are neither leaked nor given back twice.
GateConserved == gate + Cardinality({s \in Slots : worker[s].gate}) = GateSize

\* The dedicated slot never answers file or SQ work, although the row is
\* claimed from a snapshot the API may have invalidated in the meantime.
PriorityLanePure ==
    "priority" \in Slots =>
      LET w == worker["priority"]
      IN  (w.pc = "calling" /\ w.row.stage \in {"retrieve", "generate"})
            => w.row.class = "PQ" /\ w.row.key \in LiveKeys

\* A cancelled or superseded row is never brought back.
KeepsWithdrawn ==
    \A i \in Ids : jobs[i].state \in Withdrawn => jobs'[i].state \in Withdrawn \cup {"ABSENT"}
WithdrawnIsFinal == [][KeepsWithdrawn]_vars

\* While nobody retries, a delivery that lags behind never replaces the row of a
\* newer revision or of a newer source generation of its utterance.
ReplacesOlder ==
    \A i, j \in Ids :
      (/\ Live(i) /\ jobs'[i].state = "SUPERSEDED"
       /\ ~Exists(j) /\ jobs'[j].state # "ABSENT")
        => /\ RevOf[jobs'[j].key] >= RevOf[jobs[i].key]
           /\ jobs'[j].gen >= jobs[i].gen
NewerIsNeverReplaced == [][ReplacesOlder]_vars

\* A result appears only under an enabled subscription.
PublishedUnderGrant ==
    [][\A i \in Ids : (jobs[i].result = None /\ jobs'[i].result # None)
                        => sub[SessionOf[jobs[i].key]].enabled]_vars

\* Neither retry, reclassification nor restart clears a recorded deadline miss.
KeepsMisses == \A i \in Ids : jobs[i].missed => jobs'[i].missed \/ jobs'[i].state = "ABSENT"
MissIsSticky == [][KeepsMisses]_vars

\* A PQ or unclassified row that is answered after its deadline is recorded as
\* missed, even when no tick of the watchdog came in between.
RecordsLateAnswers ==
    \A i \in Ids : (/\ i \in late /\ jobs[i].state \in InFlight
                    /\ jobs'[i].state = "COMPLETED"
                    /\ jobs'[i].class = "PQ" \/ jobs[i].stage = "classify")
                     => jobs'[i].missed
LateAnswerIsMissed == [][RecordsLateAnswers]_vars

-----------------------------------------------------------------------------
(* Liveness *)

\* The watchdog does not depend on the workers: a passed deadline of a PQ or
\* unclassified row is recorded although calls hang or a worker has failed.
PassedDeadlineIsRecorded ==
    \A i \in Ids : Watched(i) ~> (jobs[i].missed \/ ~Watched(i))

\* An admitted row does not stay open for ever.
EveryRowSettles == \A i \in Ids : Open(i) ~> ~Open(i)
=============================================================================
