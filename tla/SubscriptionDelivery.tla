-------------------------- MODULE SubscriptionDelivery --------------------------
(***************************************************************************)
(* Delivery of one transcript to the analysis queue of the RAG service:    *)
(* class SubscriptionDelivery and the subscription routes of               *)
(* backend/app/modules/meeting/subscriptions.py, on the tables of          *)
(* backend/app/modules/stt/repository.py, with the four handlers of        *)
(* rag/meetingbot_rag/meeting_jobs.py they call at the other end.          *)
(*                                                                         *)
(* The backend is one event loop: whatever a coroutine does between two    *)
(* awaits is one step.  It awaits the lock of the session and the upstream *)
(* calls; transcription, corrections and deletion take neither.  A call    *)
(* may fail, may time out and be carried out later all the same, and the   *)
(* backend may die while it waits.                                         *)
(*                                                                         *)
(* Source keys are hashes: a key stands for the text of the transcript (an *)
(* utterance with its neighbours), the revision, the generation of the     *)
(* subscription, and n for the chain of previous keys hashed into it.      *)
(***************************************************************************)
EXTENDS Naturals, FiniteSets

CONSTANTS
    Workspaces,
    Utts,         \* utterances, numbered in the order of the transcript
    Texts,        \* what an utterance may say
    MaxRev,       \* bound: document revisions of a workspace
    Batch,        \* deliveries per round (12, files 4)
    MaxGen,       \* bound: snapshots of the transcript
    MaxGrants,    \* bound: generations of the subscription
    MaxLost,      \* bound: calls that timed out and may still be carried out
    MaxCrashes,   \* bound: deaths of the backend
    Ops,          \* what the users do in an instance
    None

ASSUME ConstantsAssumption ==
    /\ Utts \subseteq Nat
    /\ Batch \in Nat \ {0} /\ MaxRev \in Nat \ {0}
    /\ MaxGen \in Nat \ {0} /\ MaxGrants \in Nat \ {0} /\ MaxLost \in Nat /\ MaxCrashes \in Nat
    /\ None \notin Workspaces \cup Texts \cup Nat

VARIABLES
    session,   \* row of sessions: snapshot_revision and stable utterances
    sub,       \* row of meeting_subscriptions, or None
    receipts,  \* source keys of meeting_deliveries
    acked,     \* those with delivered=1
    task,      \* the coroutine in _deliver
    api,       \* the coroutine in subscribe
    rag,       \* per workspace: grant, source generation and rows of the session
    lost,      \* calls given up by the caller, not carried out so far
    crashes    \* bound counter

db   == <<sub, receipts, acked>>
vars == <<session, sub, receipts, acked, task, api, rag, lost, crashes>>

-----------------------------------------------------------------------------
(* Records *)

Revs == 1..MaxRev

Key == [utt : Utts, text : [Utts -> Texts \cup {None}], rev : Revs, gen : 0..MaxGrants, n : Nat]
State == [key : Key, active : BOOLEAN] \cup {None}
\* asked is the revision the user pinned, rev the one RAG resolved.
Subscription == [ws : Workspaces, asked : Revs \cup {None}, rev : Revs, enabled : BOOLEAN,
                 deleted : BOOLEAN, cleanup : BOOLEAN, pending : SUBSET Workspaces,
                 workspaces : SUBSET Workspaces, gen : 0..MaxGrants, states : [Utts -> State], synced : (1..MaxGen) \cup {None}]
Session == [exists : BOOLEAN, gen : 1..MaxGen, text : [Utts -> Texts \cup {None}]]

\* A row that is not there is told from every row.
ASSUME NoneAssumption ==
    None \notin Subscription \cup [key : Key, active : BOOLEAN] \cup [key : Key, gen : 1..MaxGen]

Call == [kind : {"cancel"}, ws : Workspaces, delete : BOOLEAN]
   \cup [kind : {"sync"}, ws : Workspaces, present : SUBSET Utts, gen : 1..MaxGen]
   \cup [kind : {"enqueue"}, ws : Workspaces, key : Key, gen : 1..MaxGen]
   \cup [kind : {"grant"}, ws : Workspaces, rev : Revs \cup {None}]
Answer == {"none", "ok", "failed"}
Task == [pc : {"idle", "cleanup", "cancel", "sync", "enqueue"}, sub : Subscription \cup {None},
         sess : Session \cup {None}, todo : SUBSET Utts, left : 0..Batch,
         call : Call \cup {None}, answer : Answer]
Api == [pc : {"idle", "waiting", "granting"}, on : BOOLEAN, ws : Workspaces \cup {None},
        asked : Revs \cup {None}, prev : Subscription \cup {None}, rev : Revs \cup {None},
        answer : Answer]

NoTask == [pc |-> "idle", sub |-> None, sess |-> None, todo |-> {}, left |-> 0,
           call |-> None, answer |-> "none"]
NoApi  == [pc |-> "idle", on |-> FALSE, ws |-> None, asked |-> None, prev |-> None,
           rev |-> None, answer |-> "none"]

\* live[u]: the row of u that is neither cancelled nor superseded; dead: the keys
\* of superseded rows, which are never taken again (those of cancelled ones are).
NoRows == [active |-> 1, grant |-> "none", rev |-> None, gen |-> 0, live |-> [u \in Utts |-> None],
           dead |-> {}]

TypeOK ==
    /\ session \in Session
    /\ sub \in Subscription \cup {None}
    /\ receipts \subseteq Key /\ acked \subseteq receipts
    /\ task \in Task
    /\ api \in Api
    /\ \A w \in Workspaces :
         /\ rag[w].active \in Revs
         /\ rag[w].grant \in {"none", "on", "off"} /\ rag[w].rev \in Revs \cup {None}
         /\ rag[w].gen \in 0..MaxGen
         /\ \A u \in Utts : rag[w].live[u] \in [key : Key, gen : 1..MaxGen] \cup {None}
         /\ rag[w].dead \subseteq Key
    /\ lost \subseteq Call
    /\ crashes \in 0..MaxCrashes

Init ==
    /\ session = [exists |-> TRUE, gen |-> 1, text |-> [u \in Utts |-> None]]
    /\ sub = None
    /\ receipts = {} /\ acked = {}
    /\ task = NoTask
    /\ api = NoApi
    /\ rag = [w \in Workspaces |-> NoRows]
    /\ lost = {}
    /\ crashes = 0

Locked == task.pc # "idle" \/ api.pc = "granting"
Spoken(s) == {u \in Utts : s.text[u] # None}

-----------------------------------------------------------------------------
(* The transcript *)

\* publish, correct and every other save: a new snapshot, changed or not.
Save(text) ==
    /\ "save" \in Ops
    /\ session.exists
    /\ session.gen < MaxGen
    /\ session' = [session EXCEPT !.gen = @ + 1, !.text = text]
    /\ UNCHANGED <<db, task, api, rag, lost, crashes>>

\* Repository.delete leaves a tombstone and forgets the receipts.
Delete ==
    /\ "delete" \in Ops
    /\ session.exists
    /\ session' = [session EXCEPT !.exists = FALSE, !.text = [u \in Utts |-> None]]
    /\ sub' = IF sub = None THEN None
              ELSE [sub EXCEPT !.enabled = FALSE, !.deleted = TRUE, !.cleanup = TRUE,
                               !.pending = sub.workspaces \ {sub.ws}]
    /\ receipts' = {} /\ acked' = {}
    /\ UNCHANGED <<task, api, rag, lost, crashes>>

-----------------------------------------------------------------------------
(* The RAG service: one row per utterance is live, as MeetingJobs shows *)

Superseded(r, S) ==
    [r EXCEPT !.live = [u \in Utts |-> IF u \in S THEN None ELSE r.live[u]],
              !.dead = r.dead \cup {r.live[u].key : u \in {v \in S : r.live[v] # None}}]

\* subscription: another revision supersedes what the old one was asked for.
Granted(r, rev) ==
    [IF r.grant # "none" /\ r.rev # rev THEN Superseded(r, Utts) ELSE r
        EXCEPT !.grant = "on", !.rev = rev]

\* cancel keeps what is finished: which rows are is left open.
Cancelled(r, delete, finished) ==
    IF delete THEN [NoRows EXCEPT !.active = r.active, !.grant = "off", !.rev = r.rev, !.gen = r.gen]
    ELSE [r EXCEPT !.grant = "off",
                   !.live = [u \in Utts |-> IF u \in finished THEN r.live[u] ELSE None]]

Synced(r, present, gen) == [Superseded(r, Utts \ present) EXCEPT !.gen = gen]

Enqueued(r, key, gen) ==
    IF r.live[key.utt] # None /\ r.live[key.utt].key = key THEN r
    ELSE [Superseded(r, {key.utt}) EXCEPT !.live[key.utt] = [key |-> key, gen |-> gen]]

\* Mutant: every announced snapshot is taken.
CurrentAlways(r, gen) == TRUE

\* Nothing older than the last announced snapshot is taken.
Current(r, gen) == gen >= r.gen

\* A pinned revision has to be one that has been activated.
Accepts(r, c) ==
    CASE c.kind = "grant"   -> c.rev # None => c.rev <= r.active
      [] c.kind = "cancel"  -> r.grant # "none"
      [] c.kind = "sync"    -> r.grant # "none" /\ Current(r, c.gen)
      [] c.kind = "enqueue" -> /\ r.grant = "on" /\ r.rev = c.key.rev /\ Current(r, c.gen)
                               /\ c.key \notin r.dead
                               /\ r.live[c.key.utt] = None \/ r.live[c.key.utt].key = c.key
                                    \/ r.live[c.key.utt].gen <= c.gen

Results(r, c) ==
    CASE c.kind = "grant"   -> {Granted(r, IF c.rev = None THEN r.active ELSE c.rev)}
      [] c.kind = "cancel"  -> {Cancelled(r, c.delete, finished) : finished \in SUBSET Utts}
      [] c.kind = "sync"    -> {Synced(r, c.present, c.gen)}
      [] c.kind = "enqueue" -> {Enqueued(r, c.key, c.gen)}

\* The service carries the call out, or refuses it.
Handle(c, answer) ==
    IF Accepts(rag[c.ws], c)
    THEN answer = "ok" /\ \E r \in Results(rag[c.ws], c) : rag' = [rag EXCEPT ![c.ws] = r]
    ELSE answer = "failed" /\ UNCHANGED rag

GiveUp(c) == lost' = IF Cardinality(lost) < MaxLost THEN lost \cup {c} ELSE lost

-----------------------------------------------------------------------------
(* One round of _deliver: x holds the tables and the coroutine between awaits *)

Sends(x, pc, c) == [x EXCEPT !.task.pc = pc, !.task.call = c, !.task.answer = "none"]
Ends(x) == [x EXCEPT !.task = NoTask]

\* source_entries: an unchanged utterance keeps its key; any change, also one
\* back to an earlier text, chains a new key to the previous one.
Signed(u, s, b, n) == [utt |-> u, text |-> s.text, rev |-> b.rev, gen |-> b.gen, n |-> n]
\* Mutant of KeyOf: the key is the hash of the source alone.
KeyOfSource(u, s, b) == Signed(u, s, b, 0)

KeyOf(u, s, b) ==
    LET p == b.states[u]
    IN  IF p = None THEN Signed(u, s, b, 0)
        ELSE IF p.active /\ p.key = Signed(u, s, b, p.key.n) THEN p.key
        ELSE Signed(u, s, b, p.key.n + 1)
\* Mutant: what left the transcript keeps its state.
StatesKept(s, b) ==
    [u \in Utts |-> IF u \in Spoken(s) THEN [key |-> KeyOf(u, s, b), active |-> TRUE] ELSE b.states[u]]

States(s, b) ==
    [u \in Utts |-> IF u \in Spoken(s) THEN [key |-> KeyOf(u, s, b), active |-> TRUE]
                    ELSE IF b.states[u] = None THEN None
                    ELSE [b.states[u] EXCEPT !.active = FALSE]]

\* Mutant of Finish: whatever row there is is overwritten.
FinishAlways(x) == IF x.sub # None THEN Ends([x EXCEPT !.sub = x.task.sub]) ELSE Ends(x)

\* A tombstone set in the meantime is not overwritten.
Finish(x) ==
    IF x.sub # None /\ ~x.sub.deleted THEN Ends([x EXCEPT !.sub = x.task.sub]) ELSE Ends(x)

First(S) == CHOOSE u \in S : \A v \in S : u <= v

\* The next delivery, in order, unless the transcript is not the one of this round.
Admit(x) ==
    LET t == x.task
    IN  IF t.todo = {} \/ t.left = 0 THEN {Finish(x)}
        ELSE IF ~session.exists \/ session.gen # t.sess.gen THEN {Ends(x)}
        ELSE LET key == t.sub.states[First(t.todo)].key
             IN  {Sends([x EXCEPT !.receipts = @ \cup {key}], "enqueue",
                        [kind |-> "enqueue", ws |-> t.sub.ws, key |-> key, gen |-> t.sess.gen])}

\* Mutant: a receipt counts as delivered from the start.
UndeliveredByReceipt(x, s, states) == {u \in Spoken(s) : states[u].key \notin x.receipts}

Undelivered(x, s, states) == {u \in Spoken(s) : states[u].key \notin x.acked}

\* Keys are saved before anything is sent; the snapshot is announced first.
Prepare(x) ==
    LET t == x.task
        states == States(t.sess, t.sub)
        b == [t.sub EXCEPT !.states = states]
        y == [x EXCEPT !.task.sub = b, !.sub = IF t.sub.states # states THEN b ELSE @,
                       !.task.todo = Undelivered(x, t.sess, states)]
    IN  IF b.synced = t.sess.gen THEN Admit(y)
        ELSE {Sends(y, "sync", [kind |-> "sync", ws |-> b.ws, present |-> Spoken(t.sess),
                                gen |-> t.sess.gen])}

\* Former workspaces first, then the current one, then deliveries.
Route(x) ==
    LET t == x.task
        gone == ~t.sess.exists \/ t.sub.deleted
    IN  IF t.sub.pending # {}
        THEN {Sends(x, "cleanup", [kind |-> "cancel", ws |-> w, delete |-> gone]) : w \in t.sub.pending}
        ELSE IF ~t.sess.exists \/ t.sub.cleanup
        THEN {Sends(x, "cancel", [kind |-> "cancel", ws |-> t.sub.ws, delete |-> gone])}
        ELSE IF ~t.sub.enabled THEN {Ends(x)}
        ELSE Prepare(x)

\* Mutant: acknowledging inserts the receipt.
AcknowledgedAnyway(x, key) == x.acked \cup {key}

\* acknowledge updates the receipt, if it is still there.
Acknowledged(x, key) == x.acked \cup ({key} \cap x.receipts)

Resume(x) ==
    LET t == x.task
        rest == [t.sub EXCEPT !.pending = @ \ {t.call.ws}]
        clean == [t.sub EXCEPT !.cleanup = FALSE]
    IN  CASE t.pc = "cleanup" ->
               IF x.sub # None /\ x.sub.deleted /\ ~t.sub.deleted THEN {Ends(x)}
               ELSE Route([x EXCEPT !.task.sub = rest, !.sub = rest])
          [] t.pc = "cancel" ->
               IF t.sess.exists THEN {Ends([x EXCEPT !.sub = clean])}
               ELSE {Ends([x EXCEPT !.sub = None, !.receipts = {}, !.acked = {}])}
          [] t.pc = "sync" -> Admit([x EXCEPT !.task.sub.synced = t.sess.gen])
          [] t.pc = "enqueue" ->
               Admit([x EXCEPT !.acked = Acknowledged(x, t.call.key),
                               !.task.todo = @ \ {t.call.key.utt}, !.task.left = @ - 1])

Runs(S) == \E x \in S : /\ sub' = x.sub /\ receipts' = x.receipts /\ acked' = x.acked
                        /\ task' = x.task
Here(t) == [sub |-> sub, receipts |-> receipts, acked |-> acked, task |-> t]

\* Mutant: only enabled subscriptions are polled.
DueEnabled(b) == b.enabled

\* poll picks the subscriptions with anything left to do.
Due(b) == b.enabled \/ b.cleanup \/ b.pending # {}

Start ==
    /\ ~Locked
    /\ sub # None
    /\ Due(sub)
    /\ Runs(Route(Here([NoTask EXCEPT !.sub = sub, !.sess = session, !.left = Batch])))
    /\ UNCHANGED <<session, api, rag, lost, crashes>>

Waits == task.pc # "idle" /\ task.answer = "none"

Serve ==
    /\ Waits
    /\ \E answer \in {"ok", "failed"} : /\ Handle(task.call, answer)
                                        /\ task' = [task EXCEPT !.answer = answer]
    /\ UNCHANGED <<session, db, api, lost, crashes>>

\* Refused before it reached the service, or given up after the timeout.
Fail ==
    /\ Waits
    /\ "failures" \in Ops
    /\ task' = [task EXCEPT !.answer = "failed"]
    /\ UNCHANGED lost \/ GiveUp(task.call)
    /\ UNCHANGED <<session, db, api, rag, crashes>>

Continue ==
    /\ task.answer = "ok"
    /\ Runs(Resume(Here(task)))
    /\ UNCHANGED <<session, api, rag, lost, crashes>>

\* deliver: the row is read again and only its retry delay is written.
Defer ==
    /\ task.answer = "failed"
    /\ task' = NoTask
    /\ UNCHANGED <<session, db, api, rag, lost, crashes>>

\* A call given up earlier is carried out after all.
Late(c) ==
    /\ c \in lost
    /\ lost' = lost \ {c}
    /\ \E answer \in {"ok", "failed"} : Handle(c, answer)
    /\ UNCHANGED <<session, db, task, api, crashes>>

-----------------------------------------------------------------------------
(* PUT subscription *)

\* The session is looked up before the lock is awaited.
Ask(on, w, rev) ==
    /\ (IF on THEN "enable" ELSE "disable") \in Ops
    /\ api = NoApi
    /\ session.exists
    /\ on /\ sub # None => sub.gen < MaxGrants
    /\ rev # None => on /\ "pin" \in Ops
    /\ api' = [NoApi EXCEPT !.pc = "waiting", !.on = on, !.ws = w, !.asked = rev]
    /\ UNCHANGED <<session, db, task, rag, lost, crashes>>

Disable ==
    /\ api.pc = "waiting" /\ ~api.on
    /\ ~Locked
    /\ sub' = IF sub = None THEN None ELSE [sub EXCEPT !.enabled = FALSE, !.cleanup = TRUE]
    /\ api' = NoApi
    /\ UNCHANGED <<session, receipts, acked, task, rag, lost, crashes>>

Same(b, w, asked) == b # None /\ b.enabled /\ b.ws = w /\ b.asked = asked
\* Mutant: the generation counts workspaces and revisions, not switches off and on.
NextGenOfPlace(b, w, asked) ==
    IF b = None THEN 1
    ELSE b.gen + IF b.ws = w /\ b.asked = asked THEN 0 ELSE 1

NextGen(b, w, asked) == (IF b = None THEN 0 ELSE b.gen) + (IF Same(b, w, asked) THEN 0 ELSE 1)

Register ==
    /\ api.pc = "waiting" /\ api.on
    /\ ~Locked
    /\ api' = [api EXCEPT !.pc = "granting", !.prev = sub]
    /\ UNCHANGED <<session, db, task, rag, lost, crashes>>

GrantCall == [kind |-> "grant", ws |-> api.ws, rev |-> api.asked]

\* A refusal is the answer to the user.
ServeApi ==
    /\ api.pc = "granting" /\ api.answer = "none"
    /\ \/ /\ Handle(GrantCall, "ok")
          /\ api' = [api EXCEPT !.answer = "ok", !.rev = rag'[api.ws].rev]
       \/ /\ Handle(GrantCall, "failed")
          /\ api' = NoApi
    /\ UNCHANGED <<session, db, task, lost, crashes>>

FailApi ==
    /\ api.pc = "granting" /\ api.answer = "none"
    /\ "failures" \in Ops
    /\ api' = NoApi
    /\ UNCHANGED lost \/ GiveUp(GrantCall)
    /\ UNCHANGED <<session, db, task, rag, crashes>>

\* The new row is built from the one read before the call.
\* Mutants: the new grant may stay in the list; the old list is dropped.
NewPendingKept(b, w) == IF b = None THEN {} ELSE b.pending \cup ({b.ws} \ {w})
NewPendingDropped(b, w) == IF b = None THEN {} ELSE {b.ws} \ {w}

NewPending(b, w) == (IF b = None THEN {} ELSE b.pending \cup {b.ws}) \ {w}
Subscribed(b, w, asked, rev) ==
    [ws |-> w, asked |-> asked, rev |-> rev, enabled |-> session.exists,
     deleted |-> ~session.exists, cleanup |-> ~session.exists, pending |-> NewPending(b, w),
     workspaces |-> {w} \cup IF b = None THEN {} ELSE b.workspaces,
     gen |-> NextGen(b, w, asked), synced |-> None,
     states |-> IF b = None THEN [u \in Utts |-> None] ELSE b.states]

Subscribe ==
    /\ api.pc = "granting" /\ api.answer = "ok"
    /\ sub' = Subscribed(api.prev, api.ws, api.asked, api.rev)
    /\ api' = NoApi
    /\ UNCHANGED <<session, receipts, acked, task, rag, lost, crashes>>

-----------------------------------------------------------------------------

\* The backend dies; what is committed stays, a call under way may still arrive.
Crash ==
    /\ crashes < MaxCrashes
    /\ crashes' = crashes + 1
    /\ task' = NoTask
    /\ api' = NoApi
    /\ \/ UNCHANGED lost
       \/ Waits /\ GiveUp(task.call)
       \/ api.pc = "granting" /\ api.answer = "none" /\ GiveUp(GrantCall)
    /\ UNCHANGED <<session, db, rag>>

\* A finished ingestion activates a new revision; it supersedes nothing by itself.
Activate(w) ==
    /\ "index" \in Ops
    /\ rag[w].active < MaxRev
    /\ rag' = [rag EXCEPT ![w].active = @ + 1]
    /\ UNCHANGED <<session, db, task, api, lost, crashes>>

UserStep ==
    \/ \E text \in [Utts -> Texts \cup {None}] : Save(text)
    \/ Delete
    \/ \E on \in BOOLEAN, w \in Workspaces, rev \in Revs \cup {None} : Ask(on, w, rev)
    \/ \E w \in Workspaces : Activate(w)
ApiStep == Disable \/ Register \/ Subscribe
TaskStep == Start \/ Continue \/ Defer

Next ==
    \/ UserStep
    \/ ApiStep
    \/ ServeApi \/ FailApi
    \/ TaskStep
    \/ Serve \/ Fail
    \/ \E c \in lost : Late(c)
    \/ Crash

Spec == Init /\ [][Next]_vars

\* The event loop runs what can run, its locks are first come, first served; an
\* outage of the service ends, so no kind of call fails for ever.
Awaits(kind) == Waits /\ task.call.kind = kind
Fairness ==
    /\ WF_vars(Continue) /\ WF_vars(Defer) /\ SF_vars(Start)
    /\ WF_vars(Subscribe) /\ SF_vars(Disable) /\ SF_vars(Register)
    /\ WF_vars(ServeApi)
    /\ \A w \in Workspaces : SF_vars(Awaits("cancel") /\ task.call.ws = w /\ Serve)
    /\ SF_vars(Awaits("sync") /\ Serve)
    /\ \A u \in Utts : SF_vars(Awaits("enqueue") /\ task.call.key.utt = u /\ Serve)
FairSpec == Spec /\ Fairness

-----------------------------------------------------------------------------
(* Safety *)

\* The row of the session in RAG is about the words as they are now.
Analysed(u) == LET r == rag[sub.ws]
               IN  r.live[u] # None /\ r.live[u].key.text = session.text

Active == session.exists /\ sub # None /\ sub.enabled

\* Acknowledged deliveries are never lost while nothing is under way: the
\* receipt of an utterance that has kept its key stands for a row in RAG.
ReceiptHasRow ==
    (Active /\ ~Locked) =>
      \A u \in Utts : (sub.states[u] # None /\ sub.states[u].active /\ sub.states[u].key \in acked
                        /\ sub.states[u].key.gen = sub.gen /\ sub.states[u].key.rev = sub.rev)
        => rag[sub.ws].live[u] # None /\ rag[sub.ws].live[u].key = sub.states[u].key

\* Once a snapshot has been announced, no utterance missing from it has a live
\* row, however old calls arrive.
AnnouncedIsClean ==
    (Active /\ ~Locked /\ sub.synced = session.gen) =>
      \A u \in Utts : rag[sub.ws].live[u] # None => session.text[u] # None

\* A delivery of the current snapshot is never refused as superseded: a text
\* that comes back is offered under a key RAG has not buried.
ReturnsUnderNewKey ==
    (task.pc = "enqueue" /\ task.answer = "none" /\ task.call.gen >= rag[task.call.ws].gen)
      => task.call.key \notin rag[task.call.ws].dead

\* The grant the user sees as enabled is enabled in RAG, after every switch.
ActiveGrantStands ==
    (Active /\ ~Locked) => rag[sub.ws].grant = "on" /\ rag[sub.ws].rev = sub.rev

\* Only one workspace may go on analysing: every other one with a grant is
\* waiting for its cancellation, or the session is.
FormerGrantsAreCancelled ==
    (sub # None /\ ~Locked) =>
      \A w \in Workspaces \ {sub.ws} : rag[w].grant = "on" => w \in sub.pending

\* A tombstone stays one until RAG has confirmed the deletion.
KeepsTombstone == (sub # None /\ sub.deleted) => (sub' = None \/ sub'.deleted)
TombstoneKept == [][KeepsTombstone]_vars

-----------------------------------------------------------------------------
(* Liveness *)

\* What is said while the subscription is on gets analysed.
Said(u) == Active /\ session.text[u] # None
Settled(u) == ~Active \/ session.text[u] = None \/ Analysed(u)
SpeechIsAnalysed == \A u \in Utts : Said(u) ~> Settled(u)

\* A deleted session is cleaned up upstream and then forgotten.
DeletedIsForgotten == (~session.exists /\ sub # None) ~> (sub = None)
=============================================================================
