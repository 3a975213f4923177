----------------------- MODULE SubscriptionDeliveryProofs -----------------------
(***************************************************************************)
(* What SubscriptionDelivery guarantees, for any workspaces, utterances,   *)
(* texts, revisions and bounds.  Types hold whatever happens.  Three more  *)
(* groups of promises each need a restriction of what the environment does:*)
(* what was said is kept (one workspace that is never switched off), grants*)
(* stand (no call carried out late, no crash, no deletion), and tombstones *)
(* stay (the subscription is never switched off).  Each has an inductive   *)
(* invariant of its own over the row of the subscription, the copy of it a *)
(* round holds across its awaits, the calls under way and the rows of the  *)
(* service.                                                                *)
(***************************************************************************)
EXTENDS SubscriptionDelivery, TLAPS, FiniteSetTheorems, WellFoundedInduction

-----------------------------------------------------------------------------
(* One round                                                               *)

\* A set of numbers has a least element.
LEMMA LeastNumber ==
  ASSUME NEW T, T \subseteq Nat, T # {} PROVE \E x \in T : \A y \in T : x <= y
  <1>1. \E x \in T : \A y \in T : ~(<<y, x>> \in OpToRel(<, Nat))
    BY NatLessThanWellFounded, WFMin
  <1>2. \A x, y \in T : y < x => <<y, x>> \in OpToRel(<, Nat)
    BY DEF OpToRel
  <1>3. PICK x \in T : \A y \in T : ~(y < x)
    BY <1>1, <1>2, Zenon
  <1> QED
    BY <1>3

\* The first of the utterances left is one of them.
LEMMA FirstIsOne == ASSUME NEW S, S \subseteq Utts, S # {} PROVE First(S) \in S
  <1>1. \E u \in S : \A v \in S : u <= v
    BY ConstantsAssumption, LeastNumber
  <1> QED
    BY <1>1 DEF First

\* The tables with a coroutine, and a coroutine in the midst of a round.
Tables(row, R, A, t) == [sub |-> row, receipts |-> R, acked |-> A, task |-> t]
Round(pc, b, s, todo, left, c, answer) ==
    [pc |-> pc, sub |-> b, sess |-> s, todo |-> todo, left |-> left, call |-> c, answer |-> answer]

CancelCall(b, s, w) == [kind |-> "cancel", ws |-> w, delete |-> ~s.exists \/ b.deleted]
SyncCall(b, s)   == [kind |-> "sync", ws |-> b.ws, present |-> Spoken(s), gen |-> s.gen]
EnqueueCall(b, s, u) == [kind |-> "enqueue", ws |-> b.ws, key |-> b.states[u].key, gen |-> s.gen]

\* The ways a step of a round goes on: it ends, it sends a call, it sends the
\* next delivery, it sends what the snapshot calls for, it does what is due.
Ending(row, a) == sub' = row /\ receipts' = receipts /\ acked' = a /\ task' = NoTask
Calling(row, a, pc, b, s, todo, left, c) ==
    /\ sub' = row /\ receipts' = receipts /\ acked' = a
    /\ task' = Round(pc, b, s, todo, left, c, "none")
Admitting(row, a, b, s, todo, left) ==
    \/ Ending(row, a)
    \/ row # None /\ ~row.deleted /\ Ending(b, a)
    \/ \E u \in todo :
         /\ left # 0 /\ session.exists /\ session.gen = s.gen
         /\ sub' = row /\ receipts' = receipts \cup {b.states[u].key} /\ acked' = a
         /\ task' = Round("enqueue", b, s, todo, left, EnqueueCall(b, s, u), "none")
Missing(b, s) == {u \in Spoken(s) : b.states[u].key \notin acked}
Preparing(p, s, left) ==
    IF p.synced = s.gen THEN Admitting(p, acked, p, s, Missing(p, s), left)
    ELSE Calling(p, acked, "sync", p, s, Missing(p, s), left, SyncCall(p, s))
Prepared(b, s) == [b EXCEPT !.states = States(s, b)]
Routing(b, s, todo, left) ==
    \/ \E w \in b.pending : Calling(b, acked, "cleanup", b, s, todo, left, CancelCall(b, s, w))
    \/ /\ b.pending = {} /\ (~s.exists \/ b.cleanup)
       /\ Calling(b, acked, "cancel", b, s, todo, left, CancelCall(b, s, b.ws))
    \/ b.pending = {} /\ ~b.enabled /\ Ending(b, acked)
    \/ /\ b.pending = {} /\ s.exists /\ ~b.cleanup /\ b.enabled
       /\ Preparing(Prepared(b, s), s, left)

\* A call is sent with all that the round holds.
LEMMA SendsTables ==
  ASSUME NEW row, NEW R, NEW A, NEW pc, NEW b, NEW s, NEW todo, NEW left, NEW c, NEW answer,
         NEW pcNext, NEW next
  PROVE  Sends(Tables(row, R, A, Round(pc, b, s, todo, left, c, answer)), pcNext, next)
         = Tables(row, R, A, Round(pcNext, b, s, todo, left, next, "none"))
  <1> DEFINE T(p, k, z) == Tables(row, R, A, Round(p, b, s, todo, left, k, z))
  <1>1. [T(pc, c, answer) EXCEPT !.task.pc = pcNext] = T(pcNext, c, answer)
    BY DEF Tables, Round
  <1>2. [T(pcNext, c, answer) EXCEPT !.task.call = next] = T(pcNext, next, answer)
    BY DEF Tables, Round
  <1>3. [T(pcNext, next, answer) EXCEPT !.task.answer = "none"] = T(pcNext, next, "none")
    BY DEF Tables, Round
  <1> HIDE DEF T
  <1>4. Sends(T(pc, c, answer), pcNext, next) = T(pcNext, next, "none")
    BY <1>1, <1>2, <1>3 DEF Sends
  <1> QED
    BY <1>4 DEF T

\* A round that ends leaves the tables.
LEMMA EndsTables ==
  ASSUME NEW row, NEW R, NEW A, NEW t
  PROVE  Ends(Tables(row, R, A, t)) = Tables(row, R, A, NoTask)
  BY DEF Ends, Tables

\* What runs is the one outcome there is.
LEMMA RunsTables ==
  ASSUME NEW row, NEW R, NEW A, NEW t, Runs({Tables(row, R, A, t)})
  PROVE  sub' = row /\ receipts' = R /\ acked' = A /\ task' = t
  BY DEF Runs, Tables

\* The next delivery is recorded and sent, or the round is over.
LEMMA AdmitShape ==
  ASSUME NEW row, NEW a, NEW pc, NEW b, NEW s, NEW todo \in SUBSET Utts, NEW left, NEW c, NEW answer,
         Runs(Admit(Tables(row, receipts, a, Round(pc, b, s, todo, left, c, answer))))
  PROVE  Admitting(row, a, b, s, todo, left)
  <1> DEFINE t == Round(pc, b, s, todo, left, c, answer)
             x == Tables(row, receipts, a, t)
             u == First(todo)
             k == b.states[u].key
  <1>1. x.task = t /\ t.todo = todo /\ t.left = left /\ t.sub = b /\ t.sess = s /\ x.sub = row
    BY DEF Tables, Round
  <1>2. CASE todo = {} \/ left = 0
    <2>1. Runs({Finish(x)})
      BY <1>1, <1>2 DEF Admit
    <2>2. CASE row # None /\ ~row.deleted
      <3>1. [x EXCEPT !.sub = x.task.sub] = Tables(b, receipts, a, t)
        BY <1>1 DEF Tables
      <3>2. Finish(x) = Tables(b, receipts, a, NoTask)
        BY <1>1, <2>2, <3>1, EndsTables DEF Finish
      <3> QED
        BY <2>1, <2>2, <3>2, RunsTables DEF Admitting, Ending
    <2>3. CASE ~(row # None /\ ~row.deleted)
      <3>1. Finish(x) = Tables(row, receipts, a, NoTask)
        BY <1>1, <2>3, EndsTables DEF Finish
      <3> QED
        BY <2>1, <3>1, RunsTables DEF Admitting, Ending
    <2> QED
      BY <2>2, <2>3
  <1>3. CASE ~(todo = {} \/ left = 0) /\ (~session.exists \/ session.gen # s.gen)
    <2>1. Admit(x) = {Tables(row, receipts, a, NoTask)}
      BY <1>1, <1>3, EndsTables DEF Admit
    <2> QED
      BY <2>1, RunsTables DEF Admitting, Ending
  <1>4. CASE ~(todo = {} \/ left = 0) /\ ~(~session.exists \/ session.gen # s.gen)
    <2>1. u \in todo
      BY <1>4, FirstIsOne
    <2>2. [x EXCEPT !.receipts = @ \cup {k}] = Tables(row, receipts \cup {k}, a, t)
      BY DEF Tables
    <2>3. Admit(x) = {Sends(Tables(row, receipts \cup {k}, a, t), "enqueue", EnqueueCall(b, s, u))}
      BY <1>1, <1>4, <2>2 DEF Admit, EnqueueCall
    <2>4. Admit(x) = {Tables(row, receipts \cup {k}, a,
                             Round("enqueue", b, s, todo, left, EnqueueCall(b, s, u), "none"))}
      BY <2>3, SendsTables
    <2>5. /\ sub' = row /\ receipts' = receipts \cup {k} /\ acked' = a
          /\ task' = Round("enqueue", b, s, todo, left, EnqueueCall(b, s, u), "none")
      BY <2>4, RunsTables
    <2> QED
      BY <1>4, <2>1, <2>5 DEF Admitting
  <1> QED
    BY <1>2, <1>3, <1>4

\* A round announces its snapshot, unless that is done, before it delivers.
LEMMA PrepareShape ==
  ASSUME NEW pc, NEW b \in Subscription, NEW s \in Session, NEW todo, NEW left, NEW c, NEW answer,
         Runs(Prepare(Tables(b, receipts, acked, Round(pc, b, s, todo, left, c, answer))))
  PROVE  Preparing(Prepared(b, s), s, left)
  <1> DEFINE t == Round(pc, b, s, todo, left, c, answer)
             x == Tables(b, receipts, acked, t)
             p == Prepared(b, s)
             m == Missing(p, s)
             y == Tables(p, receipts, acked, Round(pc, p, s, m, left, c, answer))
  <1>1. x.task = t /\ t.sub = b /\ t.sess = s /\ x.sub = b /\ x.acked = acked
    BY DEF Tables, Round
  <1>2. p.states = States(s, b) /\ p.synced = b.synced /\ p.ws = b.ws
    BY DEF Prepared, Subscription
  <1>3. b.states = States(s, b) => p = b
    BY DEF Prepared, Subscription
  <1>4. Undelivered(x, s, States(s, b)) = m
    BY <1>1, <1>2 DEF Undelivered, Missing
  <1>5. [x EXCEPT !.task.sub = p, !.sub = IF b.states # States(s, b) THEN p ELSE @,
                  !.task.todo = m] = y
    <2> DEFINE T(row, q, d) == Tables(row, receipts, acked, Round(pc, q, s, d, left, c, answer))
               row == IF b.states # States(s, b) THEN p ELSE b
    <2>1. [T(b, b, todo) EXCEPT !.task.sub = p] = T(b, p, todo)
      BY DEF Tables, Round
    <2>2. [T(b, p, todo) EXCEPT !.sub = IF b.states # States(s, b) THEN p ELSE @] = T(p, p, todo)
      BY <1>3 DEF Tables, Round
    <2>3. [T(p, p, todo) EXCEPT !.task.todo = m] = T(p, p, m)
      BY DEF Tables, Round
    <2> HIDE DEF T, p, m
    <2>4. [T(b, b, todo) EXCEPT !.task.sub = p, !.sub = IF b.states # States(s, b) THEN p ELSE @,
                                !.task.todo = m] = T(p, p, m)
      BY <2>1, <2>2, <2>3
    <2> QED
      BY <2>4 DEF T
  <1>6. Prepare(x) = IF p.synced = s.gen THEN Admit(y) ELSE {Sends(y, "sync", SyncCall(p, s))}
    BY <1>1, <1>4, <1>5 DEF Prepare, Prepared, SyncCall
  <1>7. m \in SUBSET Utts
    BY DEF Missing, Spoken
  <1>8. CASE p.synced = s.gen
    <2>1. Runs(Admit(y))
      BY <1>6, <1>8
    <2>2. Admitting(p, acked, p, s, m, left)
      <3> HIDE DEF m, p
      <3> QED BY <1>7, <2>1, AdmitShape
    <2> QED
      BY <1>8, <2>2 DEF Preparing
  <1>9. CASE p.synced # s.gen
    <2>1. Runs({Tables(p, receipts, acked, Round("sync", p, s, m, left, SyncCall(p, s), "none"))})
      BY <1>6, <1>9, SendsTables
    <2>2. Calling(p, acked, "sync", p, s, m, left, SyncCall(p, s))
      <3> HIDE DEF m, p
      <3> QED BY <2>1, RunsTables DEF Calling
    <2> QED
      BY <1>9, <2>2 DEF Preparing
  <1> QED
    BY <1>8, <1>9

\* Former workspaces come first, then the current one, then what was said.
LEMMA RouteShape ==
  ASSUME NEW pc, NEW b \in Subscription, NEW s \in Session, NEW todo, NEW left, NEW c, NEW answer,
         Runs(Route(Tables(b, receipts, acked, Round(pc, b, s, todo, left, c, answer))))
  PROVE  Routing(b, s, todo, left)
  <1> DEFINE t == Round(pc, b, s, todo, left, c, answer)
             x == Tables(b, receipts, acked, t)
             gone == ~s.exists \/ b.deleted
             y(p, k) == Tables(b, receipts, acked, Round(p, b, s, todo, left, k, "none"))
  <1>1. x.task = t /\ t.sub = b /\ t.sess = s
    BY DEF Tables, Round
  <1>2. \A p, k : Sends(x, p, k) = y(p, k)
    BY SendsTables
  <1>3. \A p, k : Runs({y(p, k)}) => Calling(b, acked, p, b, s, todo, left, k)
    BY RunsTables DEF Calling
  <1>4. CASE b.pending # {}
    <2>1. Route(x) = {Sends(x, "cleanup", CancelCall(b, s, w)) : w \in b.pending}
      BY <1>1, <1>4 DEF Route, CancelCall
    <2>2. PICK w \in b.pending : Runs({Sends(x, "cleanup", CancelCall(b, s, w))})
      BY <2>1 DEF Runs
    <2>3. Calling(b, acked, "cleanup", b, s, todo, left, CancelCall(b, s, w))
      <3> HIDE DEF x, y
      <3> QED BY <1>2, <1>3, <2>2
    <2> QED
      BY <2>3 DEF Routing
  <1>5. CASE b.pending = {} /\ (~s.exists \/ b.cleanup)
    <2> DEFINE k == CancelCall(b, s, b.ws)
    <2>1. Route(x) = {Sends(x, "cancel", k)}
      BY <1>1, <1>5 DEF Route, CancelCall
    <2>2. Runs({Sends(x, "cancel", k)})
      BY <2>1
    <2>3. Calling(b, acked, "cancel", b, s, todo, left, k)
      <3> HIDE DEF x, y, k
      <3> QED BY <1>2, <1>3, <2>2
    <2> QED
      BY <1>5, <2>3 DEF Routing
  <1>6. CASE b.pending = {} /\ ~(~s.exists \/ b.cleanup) /\ ~b.enabled
    <2>1. Route(x) = {Tables(b, receipts, acked, NoTask)}
      BY <1>1, <1>6, EndsTables DEF Route
    <2>2. Ending(b, acked)
      BY <2>1, RunsTables DEF Ending
    <2> QED
      BY <1>6, <2>2 DEF Routing
  <1>7. CASE b.pending = {} /\ ~(~s.exists \/ b.cleanup) /\ b.enabled
    <2>1. Route(x) = Prepare(x)
      BY <1>1, <1>7 DEF Route
    <2>2. Preparing(Prepared(b, s), s, left)
      BY <2>1, PrepareShape
    <2> QED
      BY <1>7, <2>2 DEF Routing
  <1> QED
    BY <1>4, <1>5, <1>6, <1>7

\* A round starts from the rows as they are.
LEMMA StartShape ==
  ASSUME sub \in Subscription \cup {None}, session \in Session, Start
  PROVE  /\ ~Locked /\ sub \in Subscription /\ Due(sub)
         /\ Routing(sub, session, {}, Batch)
         /\ UNCHANGED <<session, api, rag, lost, crashes>>
  <1>1. sub \in Subscription
    BY DEF Start
  <1>2. Here([NoTask EXCEPT !.sub = sub, !.sess = session, !.left = Batch])
        = Tables(sub, receipts, acked, Round("idle", sub, session, {}, Batch, None, "none"))
    <2>1. [NoTask EXCEPT !.sub = sub] = Round("idle", sub, None, {}, 0, None, "none")
      BY DEF NoTask, Round
    <2>2. [Round("idle", sub, None, {}, 0, None, "none") EXCEPT !.sess = session]
          = Round("idle", sub, session, {}, 0, None, "none")
      BY DEF Round
    <2>3. [Round("idle", sub, session, {}, 0, None, "none") EXCEPT !.left = Batch]
          = Round("idle", sub, session, {}, Batch, None, "none")
      BY DEF Round
    <2>4. [NoTask EXCEPT !.sub = sub, !.sess = session, !.left = Batch]
          = Round("idle", sub, session, {}, Batch, None, "none")
      BY <2>1, <2>2, <2>3
    <2> QED
      BY <2>4 DEF Here, Tables
  <1>3. Runs(Route(Tables(sub, receipts, acked, Round("idle", sub, session, {}, Batch, None, "none"))))
    BY <1>2 DEF Start
  <1>4. Routing(sub, session, {}, Batch)
    BY <1>1, <1>3, RouteShape
  <1> QED
    BY <1>1, <1>4 DEF Start

\* The workspace of a cancellation leaves the list; a cancelled subscription is
\* done with; a snapshot has been announced.
Relieved(b, w) == [b EXCEPT !.pending = @ \ {w}]
Cleaned(b) == [b EXCEPT !.cleanup = FALSE]
Announced(b, s) == [b EXCEPT !.synced = s.gen]

\* What an answer does, for each of the calls a round awaits.
ContinueAfterCleanup ==
    LET t == task
        rest == Relieved(t.sub, t.call.ws)
    IN  IF sub # None /\ sub.deleted /\ ~t.sub.deleted THEN Ending(sub, acked)
        ELSE Routing(rest, t.sess, t.todo, t.left)
ContinueAfterCancel ==
    IF task.sess.exists THEN Ending(Cleaned(task.sub), acked)
    ELSE sub' = None /\ receipts' = {} /\ acked' = {} /\ task' = NoTask
ContinueAfterSync ==
    Admitting(sub, acked, Announced(task.sub, task.sess), task.sess, task.todo, task.left)
ContinueAfterEnqueue ==
    Admitting(sub, acked \cup ({task.call.key} \cap receipts), task.sub, task.sess,
              task.todo \ {task.call.key.utt}, task.left - 1)
Continued ==
    \/ task.pc = "cleanup" /\ ContinueAfterCleanup
    \/ task.pc = "cancel" /\ ContinueAfterCancel
    \/ task.pc = "sync" /\ ContinueAfterSync
    \/ task.pc = "enqueue" /\ ContinueAfterEnqueue

\* The answer to a delivery takes it off the list.
Delivered(x, a, u) == [x EXCEPT !.acked = a, !.task.todo = @ \ {u}, !.task.left = @ - 1]

\* What is left after an answer.
LEMMA EnqueueTables ==
  ASSUME NEW row, NEW R, NEW A, NEW pc, NEW b, NEW s, NEW todo, NEW left, NEW c, NEW answer,
         NEW a, NEW u
  PROVE  Delivered(Tables(row, R, A, Round(pc, b, s, todo, left, c, answer)), a, u)
         = Tables(row, R, a, Round(pc, b, s, todo \ {u}, left - 1, c, answer))
  <1> DEFINE T(q, d, l) == Tables(row, R, q, Round(pc, b, s, d, l, c, answer))
  <1>1. [T(A, todo, left) EXCEPT !.acked = a] = T(a, todo, left)
    BY DEF Tables, Round
  <1>2. [T(a, todo, left) EXCEPT !.task.todo = @ \ {u}] = T(a, todo \ {u}, left)
    BY DEF Tables, Round
  <1>3. [T(a, todo \ {u}, left) EXCEPT !.task.left = @ - 1] = T(a, todo \ {u}, left - 1)
    BY DEF Tables, Round
  <1> HIDE DEF T
  <1>4. [T(A, todo, left) EXCEPT !.acked = a, !.task.todo = @ \ {u}] = T(a, todo \ {u}, left)
    BY <1>1, <1>2
  <1>5. [T(A, todo, left) EXCEPT !.acked = a, !.task.todo = @ \ {u}, !.task.left = @ - 1]
        = [[T(A, todo, left) EXCEPT !.acked = a, !.task.todo = @ \ {u}] EXCEPT !.task.left = @ - 1]
    BY Zenon
  <1>6. [T(A, todo, left) EXCEPT !.acked = a, !.task.todo = @ \ {u}, !.task.left = @ - 1]
        = T(a, todo \ {u}, left - 1)
    BY <1>3, <1>4, <1>5, Zenon
  <1> QED
    BY <1>6 DEF T, Delivered

\* Any coroutine is a round.
LEMMA RoundIsTask ==
  ASSUME task \in Task
  PROVE  Here(task) = Tables(sub, receipts, acked,
           Round(task.pc, task.sub, task.sess, task.todo, task.left, task.call, task.answer))
  BY DEF Task, Here, Tables, Round

\* The task in a round is what it was, and goes on with the answer.
LEMMA ContinueShape ==
  ASSUME task \in Task, task.pc # "idle", task.sub \in Subscription, task.sess \in Session, Continue
  PROVE  task.answer = "ok" /\ Continued /\ UNCHANGED <<session, api, rag, lost, crashes>>
  <1> DEFINE t == task
             H == Here(task)
             T(row, a, b, d, l) == Tables(row, receipts, a,
                                     Round(t.pc, b, t.sess, d, l, t.call, t.answer))
  <1> SUFFICES Continued
    BY DEF Continue
  <1>1. H = T(sub, acked, t.sub, t.todo, t.left)
    BY RoundIsTask
  <1>2. Runs(Resume(H))
    BY DEF Continue
  <1>3. H.task = t /\ H.sub = sub /\ H.receipts = receipts /\ H.acked = acked
    BY DEF Here
  <1>4. CASE t.pc = "cleanup"
    <2> DEFINE rest == Relieved(t.sub, t.call.ws)
    <2>1. CASE sub # None /\ sub.deleted /\ ~t.sub.deleted
      <3>1. Resume(H) = {Tables(sub, receipts, acked, NoTask)}
        BY <1>1, <1>3, <1>4, <2>1, EndsTables DEF Resume
      <3> QED
        BY <1>2, <1>4, <2>1, <3>1, RunsTables DEF Continued, ContinueAfterCleanup, Ending
    <2>2. CASE ~(sub # None /\ sub.deleted /\ ~t.sub.deleted)
      <3>1. [H EXCEPT !.task.sub = rest, !.sub = rest] = T(rest, acked, rest, t.todo, t.left)
        <4>1. [T(sub, acked, t.sub, t.todo, t.left) EXCEPT !.task.sub = rest]
              = T(sub, acked, rest, t.todo, t.left)
          BY DEF Tables, Round
        <4>2. [T(sub, acked, rest, t.todo, t.left) EXCEPT !.sub = rest]
              = T(rest, acked, rest, t.todo, t.left)
          BY DEF Tables, Round
        <4> HIDE DEF T, rest, H
        <4> QED
          BY <1>1, <4>1, <4>2
      <3>2. Resume(H) = Route([H EXCEPT !.task.sub = rest, !.sub = rest])
        BY <1>3, <1>4, <2>2 DEF Resume, Relieved
      <3>3. Runs(Route(T(rest, acked, rest, t.todo, t.left)))
        BY <1>2, <3>1, <3>2
      <3>4. rest \in Subscription
        BY DEF Relieved, Subscription
      <3>5. Routing(rest, t.sess, t.todo, t.left)
        BY <3>3, <3>4, RouteShape
      <3> QED
        BY <1>4, <2>2, <3>5 DEF Continued, ContinueAfterCleanup
    <2> QED
      BY <2>1, <2>2
  <1>5. CASE t.pc = "cancel"
    <2>1. CASE t.sess.exists
      <3> DEFINE clean == Cleaned(t.sub)
      <3>1. [H EXCEPT !.sub = clean] = Tables(clean, receipts, acked, t)
        BY DEF Here, Tables
      <3>2. Resume(H) = {Ends([H EXCEPT !.sub = clean])}
        BY <1>3, <1>5, <2>1 DEF Resume, Cleaned
      <3>3. Runs({Tables(clean, receipts, acked, NoTask)})
        <4> HIDE DEF clean, H
        <4> QED BY <1>2, <3>1, <3>2, EndsTables
      <3>4. sub' = clean /\ receipts' = receipts /\ acked' = acked /\ task' = NoTask
        <4> HIDE DEF clean, H
        <4> QED BY <3>3, RunsTables
      <3> QED
        BY <1>5, <2>1, <3>4 DEF Continued, ContinueAfterCancel, Ending
    <2>2. CASE ~t.sess.exists
      <3>1. [H EXCEPT !.sub = None, !.receipts = {}, !.acked = {}] = Tables(None, {}, {}, t)
        <4>1. [H EXCEPT !.sub = None] = Tables(None, receipts, acked, t)
          BY DEF Here, Tables
        <4>2. [Tables(None, receipts, acked, t) EXCEPT !.receipts = {}] = Tables(None, {}, acked, t)
          BY DEF Tables
        <4>3. [Tables(None, {}, acked, t) EXCEPT !.acked = {}] = Tables(None, {}, {}, t)
          BY DEF Tables
        <4> HIDE DEF H
        <4> QED
          BY <4>1, <4>2, <4>3
      <3>2. Resume(H) = {Ends([H EXCEPT !.sub = None, !.receipts = {}, !.acked = {}])}
        BY <1>3, <1>5, <2>2 DEF Resume
      <3>3. Runs({Tables(None, {}, {}, NoTask)})
        <4> HIDE DEF H
        <4> QED BY <1>2, <3>1, <3>2, EndsTables
      <3>4. sub' = None /\ receipts' = {} /\ acked' = {} /\ task' = NoTask
        BY <3>3, RunsTables
      <3> QED
        BY <1>5, <2>2, <3>4 DEF Continued, ContinueAfterCancel
    <2> QED
      BY <2>1, <2>2
  <1>6. CASE t.pc = "sync"
    <2> DEFINE b == Announced(t.sub, t.sess)
    <2>1. [H EXCEPT !.task.sub.synced = t.sess.gen] = T(sub, acked, b, t.todo, t.left)
      <3>1. [H EXCEPT !.task.sub.synced = t.sess.gen] = [H EXCEPT !.task = [t EXCEPT !.sub = b]]
        BY <1>3 DEF Announced
      <3>2. [t EXCEPT !.sub = b] = Round(t.pc, b, t.sess, t.todo, t.left, t.call, t.answer)
        <4> HIDE DEF b
        <4> QED BY DEF Task, Round
      <3> HIDE DEF b
      <3>3. [H EXCEPT !.task = [t EXCEPT !.sub = b]]
            = Tables(sub, receipts, acked, [t EXCEPT !.sub = b])
        BY DEF Here, Tables
      <3> QED
        BY <3>1, <3>2, <3>3
    <2>2. Resume(H) = Admit([H EXCEPT !.task.sub.synced = t.sess.gen])
      BY <1>3, <1>6 DEF Resume
    <2>3. Runs(Admit(T(sub, acked, b, t.todo, t.left)))
      BY <1>2, <2>1, <2>2
    <2>4. t.todo \in SUBSET Utts
      BY DEF Task
    <2>5. Admitting(sub, acked, b, t.sess, t.todo, t.left)
      <3> HIDE DEF b
      <3> QED BY <2>3, <2>4, AdmitShape
    <2> QED
      BY <1>6, <2>5 DEF Continued, ContinueAfterSync
  <1>7. CASE t.pc = "enqueue"
    <2> DEFINE a == acked \cup ({t.call.key} \cap receipts)
               d == t.todo \ {t.call.key.utt}
               l == t.left - 1
    <2>1. Delivered(H, a, t.call.key.utt) = T(sub, a, t.sub, d, l)
      <3>1. Delivered(T(sub, acked, t.sub, t.todo, t.left), a, t.call.key.utt) = T(sub, a, t.sub, d, l)
        BY EnqueueTables
      <3> HIDE DEF T, a, d, l, H
      <3> QED
        BY <1>1, <3>1
    <2>2. Acknowledged(H, t.call.key) = a
      BY <1>3 DEF Acknowledged
    <2>3. Resume(H) = Admit(Delivered(H, a, t.call.key.utt))
      BY <1>3, <1>7, <2>2 DEF Resume, Delivered
    <2>4. Runs(Admit(T(sub, a, t.sub, d, l)))
      BY <1>2, <2>1, <2>3
    <2>5. d \in SUBSET Utts
      BY DEF Task
    <2>6. Admitting(sub, a, t.sub, t.sess, d, l)
      <3> HIDE DEF a, d, l
      <3> QED BY <2>4, <2>5, AdmitShape
    <2> QED
      BY <1>7, <2>6 DEF Continued, ContinueAfterEnqueue
  <1>8. t.pc \in {"cleanup", "cancel", "sync", "enqueue"}
    BY DEF Task
  <1> QED
    BY <1>4, <1>5, <1>6, <1>7, <1>8 DEF Continue

-----------------------------------------------------------------------------
(* Types *)

\* A row of meeting_subscriptions whose states are filed under their utterance.
Row == {b \in Subscription : \A u \in Utts : b.states[u] # None => b.states[u].key.utt = u}

Placed == [key : Key, gen : 1..MaxGen]
RagRow == [active : Revs, grant : {"none", "on", "off"}, rev : Revs \cup {None}, gen : 0..MaxGen,
           live : [Utts -> Placed \cup {None}], dead : SUBSET Key]

TablesOK ==
    /\ session \in Session
    /\ sub \in Row \cup {None}
    /\ receipts \subseteq Key /\ acked \subseteq receipts
    /\ rag \in [Workspaces -> RagRow]
    /\ lost \subseteq Call /\ crashes \in 0..MaxCrashes

\* The states of b are those of the snapshot s.
Shows(b, s) ==
    /\ s.exists /\ b.enabled
    /\ \A u \in Utts : u \in Spoken(s) <=> (b.states[u] # None /\ b.states[u].active)

\* What a round holds between two awaits: the call is one of its own rows.
InRound(t) ==
    /\ t \in Task /\ t.pc # "idle" /\ t.sub \in Row /\ t.sess \in Session /\ t.call \in Call
    /\ t.pc \in {"cleanup", "cancel"} => t.call.kind = "cancel"
    /\ t.pc = "cleanup" => t.call.ws \in t.sub.pending
    /\ t.pc = "cancel" => t.call.ws = t.sub.ws
    /\ t.pc \in {"sync", "enqueue"} =>
         /\ t.call.kind = t.pc /\ t.call.ws = t.sub.ws /\ t.call.gen = t.sess.gen
         /\ Shows(t.sub, t.sess) /\ t.todo \subseteq Spoken(t.sess)
    /\ t.pc = "sync" => t.call.present = Spoken(t.sess)
    /\ t.pc = "enqueue" => /\ t.left # 0
                           /\ t.call.key.utt \in t.todo
                           /\ t.call.key = t.sub.states[t.call.key.utt].key
                           /\ t.sub.synced = t.sess.gen

RoundOK == task = NoTask \/ (InRound(task) /\ sub # None /\ sub.gen = task.sub.gen)

\* What the route holds while it waits for the lock and for the grant.
InRoute(a) ==
    /\ a \in Api /\ a.pc # "idle" /\ a.ws \in Workspaces /\ a.prev \in Row \cup {None}
    /\ a.pc = "waiting" => a.answer = "none" /\ ((a.on /\ sub # None) => sub.gen < MaxGrants)
    /\ a.pc = "granting" => /\ a.on /\ task = NoTask
                            /\ a.prev # None => a.prev.gen < MaxGrants
    /\ a.answer \in {"none", "ok"}
    /\ a.answer = "ok" => a.rev \in Revs
ApiOK == api = NoApi \/ InRoute(api)

TypeInv == TablesOK /\ RoundOK /\ ApiOK

\* None is none of the values a row can hold.
LEMMA NoneIsNone ==
  /\ None \notin Subscription /\ None \notin Row /\ None \notin [key : Key, active : BOOLEAN]
  /\ None \notin Placed /\ None \notin Workspaces /\ None \notin Texts /\ None \notin Nat
  BY NoneAssumption, ConstantsAssumption DEF Row, Placed

\* The strengthened types are the declared ones.
LEMMA TypesAreDeclared == TypeInv => TypeOK
  <1> SUFFICES ASSUME TypeInv PROVE TypeOK
    OBVIOUS
  <1>1. /\ session \in Session /\ sub \in Subscription \cup {None}
        /\ receipts \subseteq Key /\ acked \subseteq receipts
        /\ lost \subseteq Call /\ crashes \in 0..MaxCrashes
    BY DEF TypeInv, TablesOK, Row
  <1>2. NoTask \in Task /\ NoApi \in Api
    BY ConstantsAssumption DEF NoTask, NoApi, Task, Api, Answer
  <1>3. task \in Task /\ api \in Api
    BY <1>2 DEF TypeInv, RoundOK, ApiOK, InRound, InRoute
  <1>4. ASSUME NEW w \in Workspaces
        PROVE  /\ rag[w].active \in Revs
               /\ rag[w].grant \in {"none", "on", "off"} /\ rag[w].rev \in Revs \cup {None}
               /\ rag[w].gen \in 0..MaxGen
               /\ \A u \in Utts : rag[w].live[u] \in [key : Key, gen : 1..MaxGen] \cup {None}
               /\ rag[w].dead \subseteq Key
    <2>1. rag[w] \in RagRow
      BY DEF TypeInv, TablesOK
    <2> QED
      BY <2>1 DEF RagRow, Placed
  <1> QED
    BY <1>1, <1>3, <1>4 DEF TypeOK

-----------------------------------------------------------------------------
(* Keys of a round *)

\* A signed source is a key.
LEMMA SignedIsKey ==
  ASSUME NEW u \in Utts, NEW s \in Session, NEW b \in Subscription, NEW n \in Nat
  PROVE  Signed(u, s, b, n) \in Key
  BY DEF Signed, Key, Session, Subscription

\* A state filed for an utterance is a key of it.
LEMMA StateOfRow ==
  ASSUME NEW b \in Row, NEW u \in Utts, b.states[u] # None
  PROVE  /\ b.states[u] \in [key : Key, active : BOOLEAN] /\ b.states[u].key \in Key
         /\ b.states[u].key.n \in Nat /\ b.states[u].key.utt = u /\ b.states[u].active \in BOOLEAN
         /\ b.states[u] = [key |-> b.states[u].key, active |-> b.states[u].active]
  <1>1. b.states \in [Utts -> State]
    BY DEF Row, Subscription
  <1>2. b.states[u] \in [key : Key, active : BOOLEAN]
    BY <1>1 DEF State
  <1> QED
    BY <1>2 DEF Row, Key

\* The key of an utterance: its own, what it says, and never an earlier one for
\* something else.
LEMMA KeyOfRow ==
  ASSUME NEW u \in Utts, NEW s \in Session, NEW b \in Row
  PROVE  LET k == KeyOf(u, s, b)
             p == b.states[u]
         IN  /\ k \in Key /\ k.utt = u /\ k.text = s.text /\ k.rev = b.rev /\ k.gen = b.gen
             /\ p = None => k.n = 0
             /\ p # None => (p.active /\ k = p.key) \/ k.n = p.key.n + 1
  <1> DEFINE k == KeyOf(u, s, b)
             p == b.states[u]
  <1>0. b \in Subscription
    BY DEF Row
  <1>1. CASE p = None
    <2>1. k = Signed(u, s, b, 0)
      BY <1>1 DEF KeyOf
    <2>2. k \in Key
      BY <1>0, <2>1, SignedIsKey
    <2> QED
      BY <1>1, <2>1, <2>2 DEF Signed
  <1>2. CASE p # None /\ p.active /\ p.key = Signed(u, s, b, p.key.n)
    <2>1. k = p.key /\ p.key \in Key
      BY <1>2, StateOfRow DEF KeyOf
    <2>2. k = Signed(u, s, b, p.key.n)
      BY <1>2, <2>1
    <2>3. k.utt = u /\ k.text = s.text /\ k.rev = b.rev /\ k.gen = b.gen
      BY <2>2 DEF Signed
    <2> QED
      BY <1>2, <2>1, <2>3
  <1>3. CASE p # None /\ ~(p.active /\ p.key = Signed(u, s, b, p.key.n))
    <2>1. k = Signed(u, s, b, p.key.n + 1)
      BY <1>3 DEF KeyOf
    <2>2. p.key.n + 1 \in Nat
      <3>1. p.key.n \in Nat
        BY <1>3, StateOfRow
      <3> HIDE DEF p
      <3> QED
        BY <3>1
    <2>3. k \in Key
      BY <1>0, <2>1, <2>2, SignedIsKey
    <2> QED
      BY <1>3, <2>1, <2>3 DEF Signed
  <1> QED
    BY <1>1, <1>2, <1>3

\* The states of a round: what is spoken is active, what is gone is not, and
\* nothing is forgotten.
LEMMA StatesOfRow ==
  ASSUME NEW s \in Session, NEW b \in Row, NEW u \in Utts
  PROVE  LET q == States(s, b)[u]
         IN  /\ q \in State
             /\ u \in Spoken(s) => q = [key |-> KeyOf(u, s, b), active |-> TRUE]
             /\ (u \notin Spoken(s) /\ b.states[u] = None) => q = None
             /\ (u \notin Spoken(s) /\ b.states[u] # None) => q = [key |-> b.states[u].key, active |-> FALSE]
  <1> DEFINE q == States(s, b)[u]
             p == b.states[u]
  <1>1. q = IF u \in Spoken(s) THEN [key |-> KeyOf(u, s, b), active |-> TRUE]
            ELSE IF p = None THEN None ELSE [p EXCEPT !.active = FALSE]
    BY DEF States
  <1>2. KeyOf(u, s, b) \in Key
    BY KeyOfRow
  <1>3. ASSUME p # None PROVE [p EXCEPT !.active = FALSE] = [key |-> p.key, active |-> FALSE] /\ p.key \in Key
    <2>1. p = [key |-> p.key, active |-> p.active] /\ p.key \in Key
      BY <1>3, StateOfRow
    <2>2. p \in [key : Key, active : BOOLEAN]
      BY <1>3, StateOfRow
    <2>3. ASSUME NEW r \in [key : Key, active : BOOLEAN], NEW F
          PROVE  [r EXCEPT !.active = F] = [key |-> r.key, active |-> F]
      OBVIOUS
    <2> HIDE DEF p
    <2> QED
      BY <2>1, <2>2, <2>3, Zenon
  <1> HIDE DEF q, p
  <1>4. CASE u \in Spoken(s)
    <2>1. q = [key |-> KeyOf(u, s, b), active |-> TRUE]
      BY <1>1, <1>4
    <2>2. q \in State
      BY <1>2, <2>1 DEF State
    <2> QED
      BY <1>4, <2>1, <2>2 DEF q, p
  <1>5. CASE u \notin Spoken(s) /\ p = None
    BY <1>1, <1>5 DEF State, q, p
  <1>6. CASE u \notin Spoken(s) /\ p # None
    <2>1. q = [key |-> p.key, active |-> FALSE]
      BY <1>1, <1>3, <1>6
    <2>2. q \in State
      BY <1>3, <1>6, <2>1 DEF State
    <2> QED
      BY <1>6, <2>1, <2>2 DEF q, p
  <1> QED
    BY <1>4, <1>5, <1>6

\* The row a round has prepared.
LEMMA PreparedRow ==
  ASSUME NEW s \in Session, NEW b \in Row
  PROVE  LET p == Prepared(b, s)
         IN  /\ p \in Row /\ p.states = States(s, b)
             /\ p = [b EXCEPT !.states = p.states]
             /\ p.ws = b.ws /\ p.asked = b.asked /\ p.rev = b.rev /\ p.enabled = b.enabled
             /\ p.deleted = b.deleted /\ p.cleanup = b.cleanup /\ p.pending = b.pending
             /\ p.workspaces = b.workspaces /\ p.gen = b.gen /\ p.synced = b.synced
             /\ \A u \in Utts : u \in Spoken(s) <=> (p.states[u] # None /\ p.states[u].active)
  <1> DEFINE p == Prepared(b, s)
             q == States(s, b)
  <1>1. b \in Subscription
    BY DEF Row
  <1>2. q \in [Utts -> State]
    <2>1. DOMAIN q = Utts /\ q = [u \in Utts |-> q[u]]
      BY DEF States
    <2>2. \A u \in Utts : q[u] \in State
      BY StatesOfRow
    <2> HIDE DEF q
    <2> QED
      BY <2>1, <2>2
  <1>3. p = [b EXCEPT !.states = q]
    BY DEF Prepared
  <1>4. p \in Subscription /\ p.states = q
    <2> HIDE DEF q
    <2> QED BY <1>1, <1>2, <1>3 DEF Subscription
  <1>5. /\ p.ws = b.ws /\ p.asked = b.asked /\ p.rev = b.rev /\ p.enabled = b.enabled
        /\ p.deleted = b.deleted /\ p.cleanup = b.cleanup /\ p.pending = b.pending
        /\ p.workspaces = b.workspaces /\ p.gen = b.gen /\ p.synced = b.synced
    <2> HIDE DEF q
    <2> QED BY <1>1, <1>3 DEF Subscription
  <1>6. ASSUME NEW u \in Utts
        PROVE  /\ q[u] # None => q[u].key.utt = u
               /\ u \in Spoken(s) <=> (q[u] # None /\ q[u].active)
    <2>1. CASE u \in Spoken(s)
      <3>1. q[u] = [key |-> KeyOf(u, s, b), active |-> TRUE] /\ q[u] \in State
        BY <2>1, StatesOfRow
      <3>2. KeyOf(u, s, b).utt = u /\ KeyOf(u, s, b) \in Key
        BY KeyOfRow
      <3>3. q[u] # None
        <4>1. [key |-> KeyOf(u, s, b), active |-> TRUE] \in [key : Key, active : BOOLEAN]
          BY <3>2
        <4> QED
          BY <3>1, <4>1, NoneIsNone
      <3> HIDE DEF q
      <3> QED
        BY <2>1, <3>1, <3>2, <3>3
    <2>2. CASE u \notin Spoken(s) /\ b.states[u] = None
      <3>1. q[u] = None
        BY <2>2, StatesOfRow
      <3> HIDE DEF q
      <3> QED
        BY <2>2, <3>1
    <2>3. CASE u \notin Spoken(s) /\ b.states[u] # None
      <3>1. q[u] = [key |-> b.states[u].key, active |-> FALSE]
        BY <2>3, StatesOfRow
      <3>2. b.states[u].key.utt = u
        BY <2>3, StateOfRow
      <3> HIDE DEF q
      <3> QED
        BY <2>3, <3>1, <3>2
    <2> QED
      BY <2>1, <2>2, <2>3
  <1> HIDE DEF q, p
  <1>7. p \in Row
    BY <1>4, <1>6 DEF Row
  <1> QED
    BY <1>3, <1>4, <1>5, <1>6, <1>7 DEF q, p

-----------------------------------------------------------------------------
(* Rows of the service *)

\* What each kind of call carries.
LEMMA CallFields ==
  ASSUME NEW c \in Call
  PROVE  /\ c.ws \in Workspaces /\ c.kind \in {"cancel", "sync", "enqueue", "grant"}
         /\ c.kind = "cancel" => c.delete \in BOOLEAN
         /\ c.kind = "sync" => c.present \in SUBSET Utts /\ c.gen \in 1..MaxGen
         /\ c.kind = "enqueue" => c.key \in Key /\ c.key.utt \in Utts /\ c.gen \in 1..MaxGen
         /\ c.kind = "grant" => c.rev \in Revs \cup {None}
  <1>1. CASE c \in [kind : {"cancel"}, ws : Workspaces, delete : BOOLEAN]
    BY <1>1
  <1>2. CASE c \in [kind : {"sync"}, ws : Workspaces, present : SUBSET Utts, gen : 1..MaxGen]
    BY <1>2
  <1>3. CASE c \in [kind : {"enqueue"}, ws : Workspaces, key : Key, gen : 1..MaxGen]
    BY <1>3 DEF Key
  <1>4. CASE c \in [kind : {"grant"}, ws : Workspaces, rev : Revs \cup {None}]
    BY <1>4
  <1> QED
    BY <1>1, <1>2, <1>3, <1>4 DEF Call

\* A row of the service, field by field.
LEMMA RagFields ==
  ASSUME NEW r \in RagRow
  PROVE  /\ r.active \in Revs /\ r.grant \in {"none", "on", "off"} /\ r.rev \in Revs \cup {None}
         /\ r.gen \in 0..MaxGen /\ r.dead \subseteq Key
         /\ r.live \in [Utts -> Placed \cup {None}]
         /\ \A u \in Utts : r.live[u] # None => r.live[u].key \in Key /\ r.live[u].gen \in 1..MaxGen
  BY DEF RagRow, Placed

\* The dead keys are those of the rows taken away.
LEMMA SupersededRow ==
  ASSUME NEW r \in RagRow, NEW S \in SUBSET Utts
  PROVE  LET q == Superseded(r, S)
         IN  /\ q \in RagRow
             /\ q.active = r.active /\ q.grant = r.grant /\ q.rev = r.rev /\ q.gen = r.gen
             /\ q.live = [u \in Utts |-> IF u \in S THEN None ELSE r.live[u]]
             /\ q.dead = r.dead \cup {r.live[u].key : u \in {v \in S : r.live[v] # None}}
  <1> DEFINE L == [u \in Utts |-> IF u \in S THEN None ELSE r.live[u]]
             D == r.dead \cup {r.live[u].key : u \in {v \in S : r.live[v] # None}}
             q == Superseded(r, S)
  <1>1. L \in [Utts -> Placed \cup {None}]
    BY RagFields
  <1>2. D \subseteq Key
    BY RagFields
  <1>3. q = [r EXCEPT !.live = L, !.dead = D]
    BY DEF Superseded
  <1> HIDE DEF L, D, q
  <1>4. q.active = r.active /\ q.grant = r.grant /\ q.rev = r.rev /\ q.gen = r.gen /\ q.live = L /\ q.dead = D
    BY <1>3 DEF RagRow
  <1>5. q \in RagRow
    BY <1>1, <1>2, <1>3 DEF RagRow
  <1> QED
    BY <1>4, <1>5 DEF L, D, q

\* A grant for another revision buries what the old one was asked for.
LEMMA GrantedRow ==
  ASSUME NEW r \in RagRow, NEW v \in Revs
  PROVE  LET q == Granted(r, v)
         IN  /\ q \in RagRow
             /\ q.active = r.active /\ q.grant = "on" /\ q.rev = v /\ q.gen = r.gen
             /\ (r.grant = "none" \/ r.rev = v) => q.live = r.live /\ q.dead = r.dead
             /\ ~(r.grant = "none" \/ r.rev = v) =>
                  /\ q.live = [u \in Utts |-> None]
                  /\ q.dead = r.dead \cup {r.live[u].key : u \in {x \in Utts : r.live[x] # None}}
  <1> DEFINE b == IF r.grant # "none" /\ r.rev # v THEN Superseded(r, Utts) ELSE r
             q == Granted(r, v)
             S == Superseded(r, Utts)
  <1>1. /\ S \in RagRow /\ S.active = r.active /\ S.gen = r.gen
        /\ S.live = [u \in Utts |-> None]
        /\ S.dead = r.dead \cup {r.live[u].key : u \in {x \in Utts : r.live[x] # None}}
    <2>1. [u \in Utts |-> IF u \in Utts THEN None ELSE r.live[u]] = [u \in Utts |-> None]
      OBVIOUS
    <2> QED
      BY <2>1, SupersededRow
  <1>2. b \in RagRow /\ b.active = r.active /\ b.gen = r.gen
    BY <1>1
  <1>3. q = [b EXCEPT !.grant = "on", !.rev = v]
    BY DEF Granted
  <1>4. /\ q \in RagRow /\ q.active = b.active /\ q.gen = b.gen /\ q.grant = "on" /\ q.rev = v
        /\ q.live = b.live /\ q.dead = b.dead
    <2> HIDE DEF b, q
    <2> QED BY <1>2, <1>3 DEF RagRow
  <1>5. CASE r.grant = "none" \/ r.rev = v
    <2>1. b = r
      BY <1>5
    <2> HIDE DEF b, q
    <2> QED
      BY <1>4, <1>5, <2>1 DEF q
  <1>6. CASE ~(r.grant = "none" \/ r.rev = v)
    <2>1. b = S
      BY <1>6
    <2> HIDE DEF b, q, S
    <2> QED
      BY <1>1, <1>4, <1>6, <2>1 DEF q
  <1> QED
    BY <1>5, <1>6

\* A cancellation leaves no grant, and no rows but finished ones; a deletion
\* leaves nothing.
LEMMA CancelledRow ==
  ASSUME NEW r \in RagRow, NEW delete \in BOOLEAN, NEW finished \in SUBSET Utts
  PROVE  LET q == Cancelled(r, delete, finished)
         IN  /\ q \in RagRow
             /\ q.active = r.active /\ q.grant = "off" /\ q.rev = r.rev /\ q.gen = r.gen
             /\ \A u \in Utts : q.live[u] \in {r.live[u], None}
             /\ q.dead \subseteq r.dead
  <1> DEFINE q == Cancelled(r, delete, finished)
  <1>1. CASE delete
    <2> DEFINE N == [u \in Utts |-> None]
    <2>1. q = [NoRows EXCEPT !.active = r.active, !.grant = "off", !.rev = r.rev, !.gen = r.gen]
      BY <1>1 DEF Cancelled
    <2>2. N \in [Utts -> Placed \cup {None}]
      OBVIOUS
    <2>3. NoRows = [active |-> 1, grant |-> "none", rev |-> None, gen |-> 0, live |-> N, dead |-> {}]
      BY DEF NoRows
    <2> HIDE DEF N, q
    <2>4. q = [active |-> r.active, grant |-> "off", rev |-> r.rev, gen |-> r.gen, live |-> N, dead |-> {}]
      BY <2>1, <2>3
    <2>5. q \in RagRow
      BY <2>2, <2>4, RagFields DEF RagRow
    <2>6. \A u \in Utts : N[u] = None
      BY DEF N
    <2> QED
      BY <2>4, <2>5, <2>6 DEF q
  <1>2. CASE ~delete
    <2> DEFINE L == [u \in Utts |-> IF u \in finished THEN r.live[u] ELSE None]
    <2>1. q = [r EXCEPT !.grant = "off", !.live = L]
      BY <1>2 DEF Cancelled
    <2>2. L \in [Utts -> Placed \cup {None}] /\ \A u \in Utts : L[u] \in {r.live[u], None}
      BY RagFields
    <2> HIDE DEF L, q
    <2>3. q \in RagRow
      BY <2>1, <2>2 DEF RagRow
    <2>4. /\ q.active = r.active /\ q.grant = "off" /\ q.rev = r.rev /\ q.gen = r.gen
          /\ q.live = L /\ q.dead = r.dead
      BY <2>1 DEF RagRow
    <2> QED
      BY <2>2, <2>3, <2>4 DEF q
  <1> QED
    BY <1>1, <1>2

\* The keys of the rows of S.
Buried(r, S) == {r.live[u].key : u \in {v \in S : r.live[v] # None}}

TakesAnnouncement(q, r, present, gen) ==
    /\ q \in RagRow
    /\ q.active = r.active /\ q.grant = r.grant /\ q.rev = r.rev /\ q.gen = gen
    /\ \A u \in Utts : q.live[u] = IF u \in present THEN r.live[u] ELSE None
    /\ q.dead = r.dead \cup Buried(r, Utts \ present)

\* An announced snapshot leaves no row for what is missing from it.
LEMMA SyncedRow ==
  ASSUME NEW r \in RagRow, NEW present \in SUBSET Utts, NEW gen \in 1..MaxGen
  PROVE  TakesAnnouncement(Synced(r, present, gen), r, present, gen)
  <1> DEFINE S == Superseded(r, Utts \ present)
             q == Synced(r, present, gen)
             D == r.dead \cup Buried(r, Utts \ present)
  <1>1. S \in RagRow /\ S.active = r.active /\ S.grant = r.grant /\ S.rev = r.rev /\ S.dead = D
    BY SupersededRow DEF Buried
  <1>2. S.live = [u \in Utts |-> IF u \in Utts \ present THEN None ELSE r.live[u]]
    BY SupersededRow
  <1>3. \A u \in Utts : S.live[u] = IF u \in present THEN r.live[u] ELSE None
    BY <1>2
  <1>4. q = [S EXCEPT !.gen = gen]
    BY DEF Synced
  <1> HIDE DEF S, q, D
  <1>5. q \in RagRow
    BY <1>1, <1>4, ConstantsAssumption DEF RagRow
  <1>6. /\ q.active = S.active /\ q.grant = S.grant /\ q.rev = S.rev /\ q.gen = gen
        /\ q.live = S.live /\ q.dead = S.dead
    BY <1>1, <1>4 DEF RagRow
  <1> QED
    BY <1>1, <1>3, <1>5, <1>6 DEF q, D, TakesAnnouncement

\* A delivery that is accepted is the row of its utterance.
LEMMA EnqueuedRow ==
  ASSUME NEW r \in RagRow, NEW k \in Key, NEW gen \in 1..MaxGen
  PROVE  LET q == Enqueued(r, k, gen)
             p == r.live[k.utt]
         IN  /\ q \in RagRow
             /\ q.active = r.active /\ q.grant = r.grant /\ q.rev = r.rev /\ q.gen = r.gen
             /\ q.live[k.utt] # None /\ q.live[k.utt].key = k
             /\ \A u \in Utts \ {k.utt} : q.live[u] = r.live[u]
             /\ (p # None /\ p.key = k) => q = r
             /\ q.dead = r.dead \cup IF p # None /\ p.key # k THEN {p.key} ELSE {}
  <1> DEFINE q == Enqueued(r, k, gen)
             u == k.utt
             p == r.live[u]
             S == Superseded(r, {u})
             e == [key |-> k, gen |-> gen]
  <1>1. u \in Utts
    BY DEF Key
  <1>2. e \in Placed /\ e.key = k
    BY DEF Placed
  <1>3. e # None
    BY <1>2, NoneIsNone
  <1>4. CASE p # None /\ p.key = k
    <2>1. q = r
      BY <1>4 DEF Enqueued
    <2> QED
      BY <1>4, <2>1
  <1>5. CASE ~(p # None /\ p.key = k)
    <2>1. q = [S EXCEPT !.live = [S.live EXCEPT ![u] = e]]
      <3>1. q = [S EXCEPT !.live[u] = e]
        BY <1>5 DEF Enqueued
      <3> HIDE DEF S, q, e, u
      <3> QED BY <3>1
    <2>2. /\ S \in RagRow /\ S.active = r.active /\ S.grant = r.grant /\ S.rev = r.rev /\ S.gen = r.gen
          /\ S.dead = r.dead \cup {r.live[x].key : x \in {v \in {u} : r.live[v] # None}}
          /\ S.live = [x \in Utts |-> IF x \in {u} THEN None ELSE r.live[x]]
      BY <1>1, SupersededRow
    <2>3. S.dead = r.dead \cup IF p # None /\ p.key # k THEN {p.key} ELSE {}
      BY <1>5, <2>2
    <2>4. S.live \in [Utts -> Placed \cup {None}] /\ \A x \in Utts \ {u} : S.live[x] = r.live[x]
      BY <1>1, <2>2, RagFields
    <2> DEFINE L == [S.live EXCEPT ![u] = e]
    <2> HIDE DEF S, q, e
    <2>5. L \in [Utts -> Placed \cup {None}] /\ L[u] = e /\ \A x \in Utts \ {u} : L[x] = S.live[x]
      BY <1>1, <1>2, <2>4
    <2> HIDE DEF L
    <2>6. q \in RagRow
      BY <2>1, <2>2, <2>5 DEF RagRow, L
    <2>7. /\ q.active = S.active /\ q.grant = S.grant /\ q.rev = S.rev /\ q.gen = S.gen
          /\ q.live = L /\ q.dead = S.dead
      BY <2>1, <2>2 DEF RagRow, L
    <2> HIDE DEF p, u
    <2> QED
      BY <1>2, <1>3, <1>5, <2>2, <2>3, <2>4, <2>5, <2>6, <2>7 DEF q, p, u
  <1> QED
    BY <1>4, <1>5

\* Whatever a call leads to is a row again.
LEMMA ResultsAreRows ==
  ASSUME NEW r \in RagRow, NEW c \in Call, NEW q \in Results(r, c) PROVE q \in RagRow
  <1>1. CASE c.kind = "cancel"
    <2>1. \E finished \in SUBSET Utts : q = Cancelled(r, c.delete, finished)
      BY <1>1 DEF Results
    <2> QED
      BY <1>1, <2>1, CallFields, CancelledRow
  <1>2. CASE c.kind = "sync"
    <2>1. q = Synced(r, c.present, c.gen)
      BY <1>2 DEF Results
    <2> QED
      <3>1. c.present \in SUBSET Utts /\ c.gen \in 1..MaxGen
        BY <1>2, CallFields
      <3> QED
        BY <2>1, <3>1, SyncedRow DEF TakesAnnouncement
  <1>3. CASE c.kind = "enqueue"
    <2>1. q = Enqueued(r, c.key, c.gen)
      BY <1>3 DEF Results
    <2> QED
      BY <1>3, <2>1, CallFields, EnqueuedRow
  <1>4. CASE c.kind = "grant"
    <2>1. q = Granted(r, IF c.rev = None THEN r.active ELSE c.rev)
      BY <1>4 DEF Results
    <2>2. (IF c.rev = None THEN r.active ELSE c.rev) \in Revs
      BY <1>4, CallFields, RagFields
    <2> QED
      BY <2>1, <2>2, GrantedRow
  <1> QED
    BY <1>1, <1>2, <1>3, <1>4, CallFields

\* A call changes the row of its workspace, or nothing.
LEMMA HandleShape ==
  ASSUME rag \in [Workspaces -> RagRow], NEW c \in Call, NEW answer, Handle(c, answer)
  PROVE  /\ rag' \in [Workspaces -> RagRow]
         /\ \/ UNCHANGED rag /\ answer = "failed" /\ ~Accepts(rag[c.ws], c)
            \/ /\ answer = "ok" /\ Accepts(rag[c.ws], c) /\ rag'[c.ws] \in Results(rag[c.ws], c)
               /\ \A w \in Workspaces \ {c.ws} : rag'[w] = rag[w]
  <1>1. c.ws \in Workspaces /\ rag[c.ws] \in RagRow
    BY CallFields
  <1>2. CASE Accepts(rag[c.ws], c)
    <2>1. PICK q \in Results(rag[c.ws], c) : rag' = [rag EXCEPT ![c.ws] = q]
      BY <1>2 DEF Handle
    <2>2. q \in RagRow
      BY <1>1, ResultsAreRows
    <2> QED
      BY <1>1, <1>2, <2>1, <2>2 DEF Handle
  <1>3. CASE ~Accepts(rag[c.ws], c)
    BY <1>3 DEF Handle
  <1> QED
    BY <1>2, <1>3

-----------------------------------------------------------------------------
(* Steps keep the types *)

\* What a step of a round leaves, for a subscription of generation gen.
Outcome(gen) ==
    /\ sub' \in Row \cup {None} /\ receipts' \subseteq Key /\ acked' \subseteq receipts'
    /\ RoundOK'
    /\ sub' # None => sub'.gen = gen

\* The coroutine is one that awaits its call.
LEMMA RoundFields ==
  ASSUME NEW pc, NEW b, NEW s, NEW todo, NEW left, NEW c, NEW answer
  PROVE  LET t == Round(pc, b, s, todo, left, c, answer)
         IN  /\ t.pc = pc /\ t.sub = b /\ t.sess = s /\ t.todo = todo /\ t.left = left
             /\ t.call = c /\ t.answer = answer
  BY DEF Round

\* The types of a coroutine in a round.
LEMMA RoundIsOfTask ==
  ASSUME NEW pc \in {"cleanup", "cancel", "sync", "enqueue"}, NEW b \in Row, NEW s \in Session,
         NEW todo \in SUBSET Utts, NEW left \in 0..Batch, NEW c \in Call, NEW answer \in Answer
  PROVE  Round(pc, b, s, todo, left, c, answer) \in Task
  BY DEF Round, Task, Row

\* The calls of a round are calls.
LEMMA CallsOfRound ==
  ASSUME NEW b \in Row, NEW s \in Session
  PROVE  /\ \A w \in Workspaces : CancelCall(b, s, w) \in Call
         /\ SyncCall(b, s) \in Call
         /\ \A u \in Utts : b.states[u] # None => EnqueueCall(b, s, u) \in Call
  <1>1. /\ b.ws \in Workspaces /\ b.deleted \in BOOLEAN /\ s.exists \in BOOLEAN /\ s.gen \in 1..MaxGen
        /\ Spoken(s) \in SUBSET Utts
    BY DEF Row, Subscription, Session, Spoken
  <1>2. \A w \in Workspaces : CancelCall(b, s, w) \in [kind : {"cancel"}, ws : Workspaces, delete : BOOLEAN]
    BY <1>1 DEF CancelCall
  <1>3. SyncCall(b, s) \in [kind : {"sync"}, ws : Workspaces, present : SUBSET Utts, gen : 1..MaxGen]
    BY <1>1 DEF SyncCall
  <1>4. ASSUME NEW u \in Utts, b.states[u] # None
        PROVE  EnqueueCall(b, s, u) \in [kind : {"enqueue"}, ws : Workspaces, key : Key, gen : 1..MaxGen]
    <2>1. b.states[u].key \in Key
      BY <1>4, StateOfRow
    <2> QED
      BY <1>1, <2>1 DEF EnqueueCall
  <1> QED
    BY <1>2, <1>3, <1>4 DEF Call

\* A round that ends.
LEMMA EndingTypes ==
  ASSUME TablesOK, NEW row \in Row \cup {None}, NEW a \in SUBSET receipts, NEW gen,
         row # None => row.gen = gen, Ending(row, a)
  PROVE  Outcome(gen)
  BY DEF Ending, Outcome, RoundOK, TablesOK

\* A round that awaits the cancellation of a grant.
LEMMA CancelTypes ==
  ASSUME TablesOK, NEW b \in Row, NEW s \in Session, NEW todo \in SUBSET Utts, NEW left \in 0..Batch,
         NEW pc \in {"cleanup", "cancel"}, NEW w \in Workspaces,
         pc = "cleanup" => w \in b.pending, pc = "cancel" => w = b.ws,
         Calling(b, acked, pc, b, s, todo, left, CancelCall(b, s, w))
  PROVE  Outcome(b.gen)
  <1> DEFINE c == CancelCall(b, s, w)
             t == Round(pc, b, s, todo, left, c, "none")
  <1>1. c \in Call /\ c.kind = "cancel" /\ c.ws = w
    BY CallsOfRound DEF CancelCall
  <1>2. t \in Task
    BY <1>1, RoundIsOfTask DEF Answer
  <1>3. t.pc = pc /\ t.sub = b /\ t.sess = s /\ t.call = c
    BY RoundFields
  <1> HIDE DEF t, c
  <1>4. InRound(t)
    BY <1>1, <1>2, <1>3 DEF InRound
  <1>5. sub' = b /\ receipts' = receipts /\ acked' = acked /\ task' = t
    BY DEF Calling, t, c
  <1>6. b # None
    BY NoneIsNone
  <1> QED
    BY <1>3, <1>4, <1>5, <1>6 DEF Outcome, RoundOK, InRound, TablesOK

\* A round that announces its snapshot.
LEMMA SyncTypes ==
  ASSUME TablesOK, NEW b \in Row, NEW s \in Session, Shows(b, s),
         NEW todo \in SUBSET Spoken(s), NEW left \in 0..Batch,
         Calling(b, acked, "sync", b, s, todo, left, SyncCall(b, s))
  PROVE  Outcome(b.gen)
  <1> DEFINE c == SyncCall(b, s)
             t == Round("sync", b, s, todo, left, c, "none")
  <1>1. c \in Call /\ c.kind = "sync" /\ c.ws = b.ws /\ c.gen = s.gen /\ c.present = Spoken(s)
    BY CallsOfRound DEF SyncCall
  <1>2. todo \in SUBSET Utts
    BY DEF Spoken
  <1>3. t \in Task
    BY <1>1, <1>2, RoundIsOfTask DEF Answer
  <1>4. t.pc = "sync" /\ t.sub = b /\ t.sess = s /\ t.call = c /\ t.todo = todo
    BY RoundFields
  <1> HIDE DEF t, c
  <1>5. InRound(t)
    BY <1>1, <1>3, <1>4 DEF InRound
  <1>6. sub' = b /\ receipts' = receipts /\ acked' = acked /\ task' = t
    BY DEF Calling, t, c
  <1>7. b # None
    BY NoneIsNone
  <1> QED
    BY <1>4, <1>5, <1>6, <1>7 DEF Outcome, RoundOK, TablesOK

\* A round that goes on to its next delivery.
LEMMA AdmittingTypes ==
  ASSUME TablesOK, NEW row \in Row \cup {None}, NEW a \in SUBSET receipts, NEW b \in Row, NEW s \in Session,
         Shows(b, s), b.synced = s.gen, row # None, row.gen = b.gen,
         NEW todo \in SUBSET Spoken(s), NEW left \in 0..Batch,
         Admitting(row, a, b, s, todo, left)
  PROVE  Outcome(b.gen)
  <1>1. CASE Ending(row, a)
    BY <1>1, EndingTypes
  <1>2. CASE row # None /\ ~row.deleted /\ Ending(b, a)
    BY <1>2, EndingTypes
  <1>3. ASSUME NEW u \in todo, left # 0,
               sub' = row, receipts' = receipts \cup {b.states[u].key}, acked' = a,
               task' = Round("enqueue", b, s, todo, left, EnqueueCall(b, s, u), "none")
        PROVE  Outcome(b.gen)
    <2> DEFINE c == EnqueueCall(b, s, u)
               t == Round("enqueue", b, s, todo, left, c, "none")
    <2>1. u \in Utts /\ b.states[u] # None /\ todo \in SUBSET Utts
      BY DEF Shows, Spoken
    <2>2. b.states[u].key \in Key /\ b.states[u].key.utt = u
      BY <2>1, StateOfRow
    <2>3. c \in Call
      BY <2>1, CallsOfRound
    <2>4. c.kind = "enqueue" /\ c.ws = b.ws /\ c.gen = s.gen /\ c.key = b.states[u].key
      BY DEF EnqueueCall
    <2>5. t \in Task
      BY <2>1, <2>3, RoundIsOfTask DEF Answer
    <2>6. /\ t.pc = "enqueue" /\ t.sub = b /\ t.sess = s /\ t.call = c /\ t.todo = todo /\ t.left = left
      BY RoundFields
    <2>7. task' = t
      BY <1>3
    <2> HIDE DEF t, c
    <2>8. InRound(t)
      BY <1>3, <2>2, <2>3, <2>4, <2>5, <2>6 DEF InRound
    <2> QED
      BY <1>3, <2>2, <2>6, <2>7, <2>8 DEF Outcome, RoundOK, TablesOK
  <1> QED
    BY <1>1, <1>2, <1>3 DEF Admitting

\* A round that does what is due.
LEMMA RoutingTypes ==
  ASSUME TablesOK, NEW b \in Row, NEW s \in Session, NEW todo \in SUBSET Utts, NEW left \in 0..Batch,
         Routing(b, s, todo, left)
  PROVE  Outcome(b.gen)
  <1>0. b.ws \in Workspaces /\ b.pending \subseteq Workspaces
    BY DEF Row, Subscription
  <1>1. CASE \E w \in b.pending : Calling(b, acked, "cleanup", b, s, todo, left, CancelCall(b, s, w))
    BY <1>0, <1>1, CancelTypes
  <1>2. CASE Calling(b, acked, "cancel", b, s, todo, left, CancelCall(b, s, b.ws))
    BY <1>0, <1>2, CancelTypes
  <1>3. CASE Ending(b, acked)
    BY <1>3, EndingTypes DEF TablesOK
  <1>4. CASE s.exists /\ b.enabled /\ Preparing(Prepared(b, s), s, left)
    <2> DEFINE p == Prepared(b, s)
               m == Missing(p, s)
    <2>1. p \in Row /\ p.gen = b.gen /\ p # None /\ Shows(p, s)
      BY <1>4, PreparedRow, NoneIsNone DEF Shows
    <2>2. m \in SUBSET Spoken(s)
      BY DEF Missing
    <2>3. Preparing(p, s, left)
      BY <1>4
    <2> HIDE DEF p
    <2>4. CASE p.synced = s.gen
      <3>1. Admitting(p, acked, p, s, m, left)
        BY <2>3, <2>4 DEF Preparing
      <3> HIDE DEF m
      <3>2. Outcome(p.gen)
        BY <2>1, <2>2, <2>4, <3>1, AdmittingTypes DEF TablesOK
      <3> QED
        BY <2>1, <3>2
    <2>5. CASE p.synced # s.gen
      <3>1. Calling(p, acked, "sync", p, s, m, left, SyncCall(p, s))
        BY <2>3, <2>5 DEF Preparing
      <3> HIDE DEF m
      <3>2. Outcome(p.gen)
        BY <2>1, <2>2, <3>1, SyncTypes
      <3> QED
        BY <2>1, <3>2
    <2> QED
      BY <2>4, <2>5
  <1> QED
    BY <1>1, <1>2, <1>3, <1>4 DEF Routing

\* What an answer leads to.
LEMMA ContinuedTypes ==
  ASSUME TablesOK, RoundOK, task # NoTask, Continued
  PROVE  Outcome(sub.gen)
  <1> DEFINE t == task
  <1>0. /\ InRound(t) /\ sub \in Row /\ sub.gen = t.sub.gen
        /\ t.todo \in SUBSET Utts /\ t.left \in 0..Batch /\ t.sub \in Row /\ t.sess \in Session
        /\ acked \in SUBSET receipts
    BY DEF RoundOK, TablesOK, InRound, Task
  <1>1. CASE t.pc = "cleanup" /\ ContinueAfterCleanup
    <2> DEFINE b == Relieved(t.sub, t.call.ws)
    <2>1. CASE Ending(sub, acked)
      BY <1>0, <2>1, EndingTypes
    <2>2. CASE Routing(b, t.sess, t.todo, t.left)
      <3>1. b \in Row /\ b.gen = sub.gen
        BY <1>0 DEF Relieved, Row, Subscription
      <3> HIDE DEF b
      <3> QED
        BY <1>0, <2>2, <3>1, RoutingTypes
    <2> QED
      BY <1>1, <2>1, <2>2 DEF ContinueAfterCleanup
  <1>2. CASE t.pc = "cancel" /\ ContinueAfterCancel
    <2>1. CASE Ending(Cleaned(t.sub), acked)
      <3>1. Cleaned(t.sub) \in Row /\ Cleaned(t.sub).gen = sub.gen
        BY <1>0 DEF Cleaned, Row, Subscription
      <3> QED
        BY <1>0, <2>1, <3>1, EndingTypes
    <2>2. CASE sub' = None /\ receipts' = {} /\ acked' = {} /\ task' = NoTask
      BY <2>2 DEF Outcome, RoundOK
    <2> QED
      BY <1>2, <2>1, <2>2 DEF ContinueAfterCancel
  <1>3. CASE t.pc = "sync" /\ ContinueAfterSync
    <2> DEFINE b == Announced(t.sub, t.sess)
    <2>1. t.sess.gen \in (1..MaxGen) \cup {None}
      BY <1>0 DEF Session
    <2>2. b \in Row /\ b.gen = sub.gen /\ b.synced = t.sess.gen /\ b.states = t.sub.states /\ b.enabled = t.sub.enabled
      BY <1>0, <2>1 DEF Announced, Row, Subscription
    <2>3. Shows(t.sub, t.sess) /\ t.todo \in SUBSET Spoken(t.sess)
      BY <1>0, <1>3 DEF InRound
    <2>4. Admitting(sub, acked, b, t.sess, t.todo, t.left)
      BY <1>3 DEF ContinueAfterSync
    <2>5. Shows(b, t.sess)
      BY <2>2, <2>3 DEF Shows
    <2>6. sub # None
      BY <1>0, NoneIsNone
    <2> HIDE DEF b
    <2> QED
      BY <1>0, <2>2, <2>3, <2>4, <2>5, <2>6, AdmittingTypes
  <1>4. CASE t.pc = "enqueue" /\ ContinueAfterEnqueue
    <2> DEFINE a == acked \cup ({t.call.key} \cap receipts)
               d == t.todo \ {t.call.key.utt}
               l == t.left - 1
    <2>1. Shows(t.sub, t.sess) /\ d \in SUBSET Spoken(t.sess) /\ t.sub.synced = t.sess.gen /\ t.left # 0
      BY <1>0, <1>4 DEF InRound
    <2>2. l \in 0..Batch
      BY <1>0, <2>1, ConstantsAssumption
    <2>3. a \in SUBSET receipts
      BY <1>0
    <2>4. Admitting(sub, a, t.sub, t.sess, d, l)
      BY <1>4 DEF ContinueAfterEnqueue
    <2>5. sub # None
      BY <1>0, NoneIsNone
    <2> HIDE DEF a, d, l
    <2> QED
      BY <1>0, <2>1, <2>2, <2>3, <2>4, <2>5, AdmittingTypes
  <1> QED
    BY <1>1, <1>2, <1>3, <1>4 DEF Continued

\* The row of a deleted session is a tombstone.
LEMMA DeletedRow ==
  ASSUME NEW b \in Row
  PROVE  LET q == [b EXCEPT !.enabled = FALSE, !.deleted = TRUE, !.cleanup = TRUE,
                            !.pending = b.workspaces \ {b.ws}]
         IN  q \in Row /\ q.gen = b.gen /\ q.ws = b.ws /\ q.deleted /\ ~q.enabled
  <1> DEFINE q == [b EXCEPT !.enabled = FALSE, !.deleted = TRUE, !.cleanup = TRUE,
                            !.pending = b.workspaces \ {b.ws}]
  <1>1. q \in Subscription /\ q.gen = b.gen /\ q.ws = b.ws /\ q.states = b.states
    BY DEF Row, Subscription
  <1>2. q.deleted /\ ~q.enabled
    BY DEF Row, Subscription
  <1> HIDE DEF q
  <1>3. q \in Row
    BY <1>1 DEF Row
  <1> QED
    BY <1>1, <1>2, <1>3 DEF q

\* The row of a new grant.
LEMMA SubscribedRow ==
  ASSUME session \in Session, NEW b \in Row \cup {None}, b # None => b.gen < MaxGrants,
         NEW w \in Workspaces, NEW asked \in Revs \cup {None}, NEW rev \in Revs
  PROVE  Subscribed(b, w, asked, rev) \in Row
  <1> DEFINE q == Subscribed(b, w, asked, rev)
             S == IF b = None THEN [u \in Utts |-> None] ELSE b.states
             W == {w} \cup IF b = None THEN {} ELSE b.workspaces
  <1>1. NextGen(b, w, asked) \in 0..MaxGrants
    <2>1. b # None => b.gen \in Nat /\ b.gen < MaxGrants
      BY DEF Row, Subscription
    <2> QED
      BY <2>1, ConstantsAssumption DEF NextGen, Same
  <1>2. S \in [Utts -> State] /\ \A u \in Utts : S[u] # None => S[u].key.utt = u
    BY DEF Row, Subscription, State
  <1>3. NewPending(b, w) \in SUBSET Workspaces /\ W \in SUBSET Workspaces
    BY DEF NewPending, Row, Subscription
  <1>4. session.exists \in BOOLEAN
    BY DEF Session
  <1>5. q = [ws |-> w, asked |-> asked, rev |-> rev, enabled |-> session.exists,
             deleted |-> ~session.exists, cleanup |-> ~session.exists, pending |-> NewPending(b, w),
             workspaces |-> W, gen |-> NextGen(b, w, asked), synced |-> None, states |-> S]
    BY DEF Subscribed
  <1> HIDE DEF q, S, W
  <1>6. q \in Subscription /\ q.states = S
    BY <1>1, <1>2, <1>3, <1>4, <1>5 DEF Subscription
  <1> QED
    BY <1>2, <1>6 DEF Row, q

\* A coroutine in a round is not the idle one, and the answer changes nothing else.
LEMMA AnsweredRound ==
  ASSUME NEW t, InRound(t), NEW answer \in Answer
  PROVE  LET q == [t EXCEPT !.answer = answer]
         IN  /\ InRound(q) /\ t # NoTask /\ q # NoTask /\ q.answer = answer
             /\ q.pc = t.pc /\ q.sub = t.sub /\ q.sess = t.sess /\ q.todo = t.todo
             /\ q.left = t.left /\ q.call = t.call
  <1> DEFINE q == [t EXCEPT !.answer = answer]
  <1>1. /\ q \in Task /\ q.answer = answer
        /\ q.pc = t.pc /\ q.sub = t.sub /\ q.sess = t.sess /\ q.todo = t.todo
        /\ q.left = t.left /\ q.call = t.call
    BY DEF InRound, Task
  <1>2. t.pc # "idle" /\ NoTask.pc = "idle"
    BY DEF InRound, NoTask
  <1> HIDE DEF q
  <1>3. InRound(q)
    BY <1>1 DEF InRound
  <1> QED
    BY <1>1, <1>2, <1>3 DEF q

\* A call that is given up is remembered as a call.
LEMMA GivenUpCalls ==
  ASSUME lost \subseteq Call, NEW c \in Call, UNCHANGED lost \/ GiveUp(c)
  PROVE  lost' \subseteq Call
  BY DEF GiveUp

\* The route waits, or it holds the lock while no round does.
LEMMA RouteFacts ==
  ASSUME ApiOK
  PROVE  /\ api = NoApi <=> api.pc = "idle"
         /\ api.pc \in {"idle", "waiting", "granting"} /\ api.answer \in {"none", "ok"}
         /\ api.pc # "idle" => InRoute(api)
         /\ api.pc = "granting" => api.on /\ task = NoTask
         /\ api.answer = "ok" => api.pc = "granting"
  BY DEF ApiOK, InRoute, NoApi, Api

\* A round that runs excludes the grant.
LEMMA RoundFacts ==
  ASSUME RoundOK
  PROVE  /\ task = NoTask <=> task.pc = "idle"
         /\ task.pc # "idle" => InRound(task) /\ sub # None /\ sub.gen = task.sub.gen
         /\ task.answer # "none" => task.pc # "idle"
         /\ task.pc \in {"idle", "cleanup", "cancel", "sync", "enqueue"}
  BY DEF RoundOK, InRound, NoTask, Task

\* The call of the route is a call.
LEMMA GrantIsCall == ASSUME ApiOK, api.pc # "idle" PROVE GrantCall \in Call
  <1>1. api.ws \in Workspaces /\ api.asked \in Revs \cup {None}
    BY RouteFacts DEF InRoute, Api
  <1>2. GrantCall \in [kind : {"grant"}, ws : Workspaces, rev : Revs \cup {None}]
    BY <1>1 DEF GrantCall
  <1> QED
    BY <1>2 DEF Call

\* Steps of a round keep the types.
LEMMA OutcomeKeepsTypes ==
  ASSUME TypeInv, sub # None, Outcome(sub.gen), api.pc # "granting",
         UNCHANGED <<session, api, rag, lost, crashes>>
  PROVE  TypeInv'
  <1>1. TablesOK'
    BY DEF TypeInv, TablesOK, Outcome
  <1>2. ApiOK'
    BY DEF TypeInv, ApiOK, InRoute, Outcome
  <1> QED
    BY <1>1, <1>2 DEF TypeInv, Outcome

\* Steps of the users keep the types.
LEMMA UserTypes == ASSUME TypeInv, UserStep PROVE TypeInv'
  <1> USE DEF TypeInv
  <1>1. ASSUME NEW text \in [Utts -> Texts \cup {None}], Save(text) PROVE TypeInv'
    <2>1. session' \in Session
      <3>1. session \in Session /\ session.gen + 1 \in 1..MaxGen
        BY <1>1, ConstantsAssumption DEF Save, TablesOK, Session
      <3>2. session' = [session EXCEPT !.gen = @ + 1, !.text = text]
        BY <1>1 DEF Save
      <3> QED
        BY <3>1, <3>2 DEF Session
    <2>2. UNCHANGED <<sub, receipts, acked, task, api, rag, lost, crashes>>
      BY <1>1 DEF Save, db
    <2> QED
      BY <2>1, <2>2 DEF TablesOK, RoundOK, ApiOK, InRoute
  <1>2. CASE Delete
    <2>1. session' \in Session
      BY <1>2 DEF Delete, TablesOK, Session
    <2>2. sub' \in Row \cup {None} /\ (sub' # None => sub # None /\ sub'.gen = sub.gen) /\ (sub # None => sub' # None)
      BY <1>2, DeletedRow, NoneIsNone DEF Delete, TablesOK
    <2>3. receipts' = {} /\ acked' = {} /\ UNCHANGED <<task, api, rag, lost, crashes>>
      BY <1>2 DEF Delete
    <2> QED
      BY <2>1, <2>2, <2>3 DEF TablesOK, RoundOK, ApiOK, InRoute
  <1>3. ASSUME NEW on \in BOOLEAN, NEW w \in Workspaces, NEW rev \in Revs \cup {None}, Ask(on, w, rev)
        PROVE  TypeInv'
    <2>1. /\ api' \in Api /\ api'.pc = "waiting" /\ api'.on = on /\ api'.ws = w
          /\ api'.answer = "none" /\ api'.prev = None
      <3>1. NoApi \in Api /\ NoApi.answer = "none" /\ NoApi.prev = None
        BY DEF NoApi, Api, Answer
      <3>2. api' = [NoApi EXCEPT !.pc = "waiting", !.on = on, !.ws = w, !.asked = rev]
        BY <1>3 DEF Ask
      <3> QED
        BY <3>1, <3>2 DEF Api
    <2>3. UNCHANGED <<session, sub, receipts, acked, task, rag, lost, crashes>>
      BY <1>3 DEF Ask, db
    <2>4. (on /\ sub # None) => sub.gen < MaxGrants
      BY <1>3 DEF Ask
    <2>6. InRoute(api)'
      BY <2>1, <2>3, <2>4 DEF InRoute
    <2> QED
      BY <2>1, <2>3, <2>6 DEF TablesOK, RoundOK, ApiOK
  <1>4. ASSUME NEW w \in Workspaces, Activate(w) PROVE TypeInv'
    <2> DEFINE q == [rag[w] EXCEPT !.active = @ + 1]
    <2>1. rag[w] \in RagRow
      BY DEF TablesOK
    <2>2. rag[w].active + 1 \in Revs
      BY <1>4, <2>1, ConstantsAssumption DEF Activate, RagRow, Revs
    <2>3. q \in RagRow
      BY <2>1, <2>2 DEF RagRow
    <2>4. rag' = [rag EXCEPT ![w] = q]
      BY <1>4 DEF Activate
    <2>5. rag' \in [Workspaces -> RagRow]
      <3> HIDE DEF q
      <3> QED BY <2>3, <2>4 DEF TablesOK
    <2>6. UNCHANGED <<session, sub, receipts, acked, task, api, lost, crashes>>
      BY <1>4 DEF Activate, db
    <2> QED
      BY <2>5, <2>6 DEF TablesOK, RoundOK, ApiOK, InRoute
  <1> QED
    BY <1>1, <1>2, <1>3, <1>4 DEF UserStep

\* Steps of the route keep the types.
LEMMA RouteTypes == ASSUME TypeInv, ApiStep \/ ServeApi \/ FailApi PROVE TypeInv'
  <1> USE DEF TypeInv
  <1>1. CASE Disable
    <2>1. task = NoTask /\ api' = NoApi
          /\ UNCHANGED <<session, receipts, acked, task, rag, lost, crashes>>
      BY <1>1, RoundFacts DEF Disable, Locked
    <2>2. sub' = IF sub = None THEN None ELSE [sub EXCEPT !.enabled = FALSE, !.cleanup = TRUE]
      BY <1>1 DEF Disable
    <2>3. sub' \in Row \cup {None}
      BY <2>2 DEF TablesOK, Row, Subscription
    <2> QED
      BY <2>1, <2>3 DEF TablesOK, RoundOK, ApiOK
  <1>2. CASE Register
    <2>1. /\ task = NoTask /\ api.pc = "waiting" /\ api.on /\ InRoute(api)
          /\ UNCHANGED <<session, sub, receipts, acked, task, rag, lost, crashes>>
      BY <1>2, RoundFacts, RouteFacts DEF Register, Locked, db
    <2>2. api' = [api EXCEPT !.pc = "granting", !.prev = sub]
      BY <1>2 DEF Register
    <2>3. api' \in Api
      BY <2>1, <2>2 DEF InRoute, Api, TablesOK, Row
    <2>4. /\ api'.pc = "granting" /\ api'.prev = sub /\ api'.on = api.on /\ api'.ws = api.ws
          /\ api'.answer = api.answer
      BY <2>1, <2>2 DEF InRoute, Api
    <2>5. InRoute(api)'
      BY <2>1, <2>3, <2>4 DEF InRoute, TablesOK
    <2> QED
      BY <2>1, <2>5 DEF TablesOK, RoundOK, ApiOK
  <1>3. CASE Subscribe
    <2>1. /\ task = NoTask /\ InRoute(api) /\ api.answer = "ok" /\ api.pc = "granting" /\ api' = NoApi
          /\ sub' = Subscribed(api.prev, api.ws, api.asked, api.rev)
          /\ UNCHANGED <<session, receipts, acked, task, rag, lost, crashes>>
      BY <1>3, RouteFacts DEF Subscribe
    <2>2. sub' \in Row
      BY <2>1, SubscribedRow DEF InRoute, Api, TablesOK
    <2> QED
      BY <2>1, <2>2 DEF TablesOK, RoundOK, ApiOK
  <1>4. CASE ServeApi
    <2>0. /\ task = NoTask /\ InRoute(api) /\ api.pc = "granting" /\ GrantCall \in Call
          /\ UNCHANGED <<session, sub, receipts, acked, task, lost, crashes>>
      BY <1>4, RouteFacts, GrantIsCall DEF ServeApi, db
    <2>1. rag' \in [Workspaces -> RagRow]
      BY <1>4, <2>0, HandleShape DEF ServeApi, TablesOK
    <2>2. CASE api' = NoApi
      BY <2>0, <2>1, <2>2 DEF TablesOK, RoundOK, ApiOK
    <2>3. CASE Handle(GrantCall, "ok") /\ api' = [api EXCEPT !.answer = "ok", !.rev = rag'[api.ws].rev]
      <3>1. rag'[api.ws].rev \in Revs
        <4>1. GrantCall.ws = api.ws /\ GrantCall.rev = api.asked /\ GrantCall.kind = "grant"
          BY DEF GrantCall
        <4>2. rag'[api.ws] \in Results(rag[api.ws], GrantCall)
          BY <2>0, <2>3, <4>1, HandleShape DEF TablesOK
        <4>3. rag'[api.ws] = Granted(rag[api.ws], IF api.asked = None THEN rag[api.ws].active ELSE api.asked)
          BY <4>1, <4>2 DEF Results
        <4>4. rag[api.ws] \in RagRow
          BY <2>0 DEF InRoute, TablesOK
        <4>5. (IF api.asked = None THEN rag[api.ws].active ELSE api.asked) \in Revs
          BY <2>0, <4>4, RagFields DEF InRoute, Api
        <4> QED
          BY <4>3, <4>4, <4>5, GrantedRow
      <3> DEFINE v == rag'[api.ws].rev
      <3>2. api' = [api EXCEPT !.answer = "ok", !.rev = v]
        BY <2>3
      <3> HIDE DEF v
      <3>3. /\ api' \in Api /\ api'.answer = "ok" /\ api'.rev = v
            /\ api'.pc = api.pc /\ api'.on = api.on /\ api'.ws = api.ws /\ api'.prev = api.prev
        BY <2>0, <3>1, <3>2 DEF InRoute, Api, Answer, v
      <3>4. InRoute(api)'
        BY <2>0, <3>1, <3>3 DEF InRoute, v
      <3> QED
        BY <2>0, <2>1, <3>4 DEF TablesOK, RoundOK, ApiOK
    <2> QED
      BY <1>4, <2>2, <2>3 DEF ServeApi
  <1>5. CASE FailApi
    <2>1. /\ api' = NoApi /\ GrantCall \in Call
          /\ UNCHANGED <<session, sub, receipts, acked, task, rag, crashes>>
      BY <1>5, GrantIsCall DEF FailApi, db
    <2>2. lost' \subseteq Call
      BY <1>5, <2>1, GivenUpCalls DEF FailApi, TablesOK
    <2> QED
      BY <2>1, <2>2 DEF TablesOK, RoundOK, ApiOK
  <1> QED
    BY <1>1, <1>2, <1>3, <1>4, <1>5 DEF ApiStep

\* Steps of a round, of the service and of the machine keep the types.
LEMMA RoundTypes ==
  ASSUME TypeInv, TaskStep \/ Serve \/ Fail \/ (\E c \in lost : Late(c)) \/ Crash PROVE TypeInv'
  <1> USE DEF TypeInv
  <1>1. CASE Start
    <2>1. sub \in Subscription \cup {None} /\ session \in Session
      BY DEF TablesOK, Row
    <2>2. /\ ~Locked /\ sub \in Subscription /\ Routing(sub, session, {}, Batch)
          /\ UNCHANGED <<session, api, rag, lost, crashes>>
      BY <1>1, <2>1, StartShape
    <2>3. sub \in Row /\ sub # None /\ Batch \in 0..Batch
      BY <2>2, NoneIsNone, ConstantsAssumption DEF TablesOK
    <2>4. Outcome(sub.gen)
      BY <2>1, <2>2, <2>3, RoutingTypes
    <2> QED
      BY <2>2, <2>3, <2>4, OutcomeKeepsTypes DEF Locked
  <1>2. CASE Continue
    <2>1. task.pc # "idle" /\ InRound(task) /\ sub # None
      BY <1>2, RoundFacts DEF Continue
    <2>2. Continued /\ UNCHANGED <<session, api, rag, lost, crashes>>
      BY <1>2, <2>1, ContinueShape DEF InRound, Row
    <2>3. task # NoTask /\ api.pc # "granting"
      BY <2>1, RoundFacts, RouteFacts
    <2>4. Outcome(sub.gen)
      BY <2>2, <2>3, ContinuedTypes
    <2> QED
      BY <2>1, <2>2, <2>3, <2>4, OutcomeKeepsTypes
  <1>3. CASE Defer
    <2>1. task' = NoTask /\ UNCHANGED <<session, sub, receipts, acked, api, rag, lost, crashes>>
      BY <1>3 DEF Defer, db
    <2> QED
      BY <2>1 DEF TablesOK, RoundOK, ApiOK, InRoute
  <1>4. CASE Serve \/ Fail
    <2>0. /\ InRound(task) /\ sub # None /\ sub.gen = task.sub.gen /\ api.pc # "granting"
          /\ UNCHANGED <<session, sub, receipts, acked, api, crashes>>
      BY <1>4, RoundFacts, RouteFacts DEF Serve, Fail, Waits, db
    <2>1. task.call \in Call
      BY <2>0 DEF InRound
    <2>2. rag' \in [Workspaces -> RagRow]
      BY <1>4, <2>1, HandleShape DEF Serve, Fail, TablesOK
    <2>3. lost' \subseteq Call
      BY <1>4, <2>1, GivenUpCalls DEF Serve, Fail, TablesOK
    <2>4. \E answer \in Answer : task' = [task EXCEPT !.answer = answer]
      BY <1>4 DEF Serve, Fail, Answer
    <2>5. InRound(task') /\ task'.sub = task.sub
      BY <2>0, <2>4, AnsweredRound
    <2>6. RoundOK'
      BY <2>0, <2>5 DEF RoundOK, InRound
    <2>7. ApiOK'
      BY <2>0 DEF ApiOK, InRoute
    <2> QED
      BY <2>0, <2>2, <2>3, <2>6, <2>7 DEF TablesOK
  <1>5. ASSUME NEW c \in lost, Late(c) PROVE TypeInv'
    <2>1. c \in Call /\ lost' \subseteq Call /\ UNCHANGED <<session, sub, receipts, acked, task, api, crashes>>
      BY <1>5 DEF Late, TablesOK, db
    <2>2. rag' \in [Workspaces -> RagRow]
      BY <1>5, <2>1, HandleShape DEF Late, TablesOK
    <2> QED
      BY <2>1, <2>2 DEF TablesOK, RoundOK, ApiOK, InRoute
  <1>6. CASE Crash
    <2>1. /\ task' = NoTask /\ api' = NoApi /\ UNCHANGED <<session, sub, receipts, acked, rag>>
          /\ crashes' \in 0..MaxCrashes
      BY <1>6, ConstantsAssumption DEF Crash, db, TablesOK
    <2>2. Waits => task.call \in Call
      BY RoundFacts DEF Waits, InRound
    <2>3. api.pc = "granting" => GrantCall \in Call
      BY GrantIsCall
    <2>4. lost' \subseteq Call
      BY <1>6, <2>2, <2>3, GivenUpCalls DEF Crash, TablesOK
    <2> QED
      BY <2>1, <2>4 DEF TablesOK, RoundOK, ApiOK
  <1> QED
    BY <1>1, <1>2, <1>3, <1>4, <1>5, <1>6 DEF TaskStep

\* The types of Init.
LEMMA InitTypes == Init => TypeInv
  <1> SUFFICES ASSUME Init PROVE TypeInv
    OBVIOUS
  <1>1. session \in Session
    BY ConstantsAssumption DEF Init, Session
  <1>2. NoRows \in RagRow
    BY ConstantsAssumption DEF NoRows, RagRow, Revs
  <1>3. TablesOK
    BY <1>1, <1>2, ConstantsAssumption DEF Init, TablesOK
  <1> QED
    BY <1>3 DEF Init, TypeInv, RoundOK, ApiOK

\* Every step keeps the types.
LEMMA StepTypes == ASSUME TypeInv, [Next]_vars PROVE TypeInv'
  <1>1. CASE UNCHANGED vars
    BY <1>1 DEF vars, TypeInv, TablesOK, RoundOK, ApiOK, InRoute
  <1> QED
    BY <1>1, UserTypes, RouteTypes, RoundTypes DEF Next

\* The rows, the coroutines and the calls have their types in every state: the
\* generation of a subscription stays within its bound, a round only ever sends
\* what its own row says, and a grant is never awaited while a round runs.
THEOREM TypeCorrect == Spec => []TypeOK
  <1>1. Spec => []TypeInv
    BY InitTypes, StepTypes, PTL DEF Spec
  <1> QED
    BY <1>1, TypesAreDeclared, PTL

-----------------------------------------------------------------------------
(* One workspace, and a transcript that is rewritten                       *)

\* One workspace, never switched off or pinned; anything may fail.
OnlySpeech ==
    /\ \A w, x \in Workspaces : w = x
    /\ Ops \subseteq {"save", "enable", "failures"}

\* The row of a grant that is on and has never been another one.
Quiet(b) ==
    /\ b.asked = None /\ b.enabled /\ ~b.cleanup /\ ~b.deleted /\ b.pending = {}
    /\ b.gen = 1 /\ b.rev = 1
    /\ \A u \in Utts : b.states[u] # None => b.states[u].key.gen = 1 /\ b.states[u].key.rev = 1

QuietRows ==
    /\ session.exists
    /\ sub # None => Quiet(sub)
    /\ api.pc # "idle" => api.on /\ api.asked = None
    /\ api.pc = "granting" => api.prev = sub
    /\ api.answer = "ok" => api.rev = 1

\* A round has the states of the row, and says what its snapshot says.
QuietRound ==
    task # NoTask =>
      /\ task.pc \in {"sync", "enqueue"} /\ Quiet(task.sub) /\ task.sub.states = sub.states
      /\ task.sess.gen <= session.gen /\ (task.sess.gen = session.gen => task.sess = session)
      /\ \A u \in Spoken(task.sess) : task.sub.states[u].key.text = task.sess.text

\* The keys that were ever sent for an utterance lead up to the one it has.
Chained ==
    /\ sub = None => receipts = {}
    /\ \A k \in receipts : LET p == sub.states[k.utt]
                           IN  p # None /\ k.n <= p.key.n /\ (k.n = p.key.n => k = p.key)

\* The calls that may still be carried out.
Calls == lost \cup (IF task # NoTask THEN {task.call} ELSE {})

\* A call is about an earlier snapshot, or it says what the present one says.
Truthful(c) ==
    /\ c.kind \in {"sync", "enqueue", "grant"}
    /\ c.kind = "grant" => c.rev = None
    /\ c.kind = "enqueue" =>
         /\ c.key \in receipts /\ c.gen <= session.gen /\ c.key.text[c.key.utt] # None
         /\ c.gen = session.gen => /\ c.key.text = session.text
                                   /\ sub.states[c.key.utt] # None /\ sub.states[c.key.utt].active
                                   /\ sub.states[c.key.utt].key = c.key
    /\ c.kind = "sync" => c.gen <= session.gen /\ (c.gen = session.gen => c.present = Spoken(session))

\* A call that would take away what u has now comes too late for the row r.
Fenced(u, c, r) ==
    /\ (c.kind = "enqueue" /\ c.key.utt = u /\ c.key # sub.states[u].key) => c.gen < r.gen
    /\ (c.kind = "sync" /\ u \notin c.present) => c.gen < r.gen

Kept(u) == sub.states[u] # None /\ sub.states[u].active
Sent(u) == Kept(u) /\ sub.states[u].key \in receipts
Served(k) == k \in acked \/ (task.pc = "enqueue" /\ task.answer = "ok" /\ task.call.key = k)
Stands(r, u) == r.live[u] # None /\ r.live[u].key = sub.states[u].key

\* The service has been told of no later snapshot than there is, and of those
\* that count as announced.
Told(r) ==
    /\ r.gen <= session.gen
    /\ (sub # None /\ sub.synced # None) => sub.synced <= r.gen
    /\ (task # NoTask /\ task.sub.synced # None) => task.sub.synced <= r.gen
    /\ (task.pc = "sync" /\ task.answer = "ok") => task.sess.gen <= r.gen

\* What it has of the present snapshot is in it, and what it has was sent.
Clean(r) == r.gen = session.gen => \A u \in Utts : r.live[u] # None => session.text[u] # None
Known(r) ==
    /\ \A u \in Utts : r.live[u] # None => r.live[u].key \in receipts /\ r.live[u].key.utt = u
    /\ r.dead \subseteq receipts

\* What has been acknowledged for u stands and nothing under way takes it away.
Standing(u, r) ==
    /\ Sent(u) => \A c \in Calls : Fenced(u, c, r)
    /\ (Sent(u) /\ Served(sub.states[u].key)) => Stands(r, u)
    /\ Kept(u) => sub.states[u].key \notin r.dead

Faithful(r) ==
    /\ r.active = 1 /\ (r.grant # "none" => r.rev = 1)
    /\ Told(r) /\ Clean(r) /\ Known(r)
    /\ sub # None => \A u \in Utts : Standing(u, r)

SpeechInv ==
    /\ TypeInv
    /\ QuietRows /\ QuietRound /\ Chained
    /\ \A c \in Calls : Truthful(c)
    /\ \A w \in Workspaces : Faithful(rag[w])

\* A transcript that is saved again has a new snapshot number.
LEMMA SaveSpeech ==
  ASSUME SpeechInv, TypeInv', NEW text, Save(text) PROVE SpeechInv'
  <1>1. /\ session \in Session /\ session' = [session EXCEPT !.gen = @ + 1, !.text = text]
        /\ UNCHANGED <<sub, receipts, acked, task, api, rag, lost, crashes>>
    BY DEF Save, SpeechInv, TypeInv, TablesOK, db
  <1>2. session'.exists = session.exists /\ session'.gen = session.gen + 1 /\ session.gen \in Nat
    BY <1>1 DEF Session
  <1>3. QuietRows' /\ Chained'
    BY <1>1, <1>2 DEF SpeechInv, QuietRows, Chained, Quiet
  <1>4. QuietRound'
    <2>1. task # NoTask => task.sess \in Session
      BY DEF SpeechInv, TypeInv, RoundOK, InRound
    <2>2. task # NoTask => task.sess.gen \in Nat /\ task.sess.gen <= session.gen
      BY <2>1 DEF SpeechInv, QuietRound, Session
    <2> QED
      BY <1>1, <1>2, <2>2 DEF SpeechInv, QuietRound, Quiet, Spoken
  <1>5. Calls' = Calls
    BY <1>1 DEF Calls
  <1>6. ASSUME NEW c \in Calls PROVE Truthful(c)'
    <2>1. c \in Call /\ Truthful(c)
      BY DEF SpeechInv, Calls, TypeInv, TablesOK, RoundOK, InRound
    <2>2. c.kind \in {"sync", "enqueue"} => c.gen \in Nat /\ c.gen <= session.gen
      BY <2>1, CallFields DEF Truthful
    <2> QED
      BY <1>1, <1>2, <2>1, <2>2 DEF Truthful
  <1>7. ASSUME NEW w \in Workspaces PROVE Faithful(rag[w])'
    <2>1. rag[w] \in RagRow /\ Faithful(rag[w])
      BY DEF SpeechInv, TypeInv, TablesOK
    <2>2. rag[w].gen \in Nat /\ rag[w].gen <= session.gen
      BY <2>1 DEF RagRow, Faithful, Told
    <2>3. Told(rag[w])'
      BY <1>1, <1>2, <2>1, <2>2 DEF Faithful, Told
    <2>4. Clean(rag[w])'
      BY <1>1, <1>2, <2>2 DEF Clean
    <2>5. Known(rag[w])'
      BY <1>1, <2>1 DEF Faithful, Known
    <2>6. ASSUME NEW u \in Utts, sub # None PROVE Standing(u, rag[w])'
      BY <1>1, <1>5, <2>1, <2>6 DEF Faithful, Standing, Sent, Kept, Fenced, Served, Stands
    <2> QED
      BY <1>1, <2>1, <2>3, <2>4, <2>5, <2>6 DEF Faithful
  <1> QED
    BY <1>3, <1>4, <1>5, <1>6, <1>7 DEF SpeechInv

\* From the row r to the row q, what stands goes on standing and no present key
\* is buried.
Spares(r, q) ==
    sub # None => \A u \in Utts : /\ (Sent(u) /\ Stands(r, u)) => Stands(q, u)
                                  /\ Kept(u) => sub.states[u].key \notin q.dead

\* What holds of the rows when a call is accepted: none that stands is taken
\* away, and none of the present keys is buried.
LEMMA AcceptedSpeech ==
  ASSUME SpeechInv, NEW w \in Workspaces, NEW c \in Call, Truthful(c), Accepts(rag[w], c),
         sub # None => \A u \in Utts : Sent(u) => Fenced(u, c, rag[w]),
         NEW q \in Results(rag[w], c)
  PROVE  /\ q \in RagRow /\ q.active = 1 /\ (q.grant # "none" => q.rev = 1)
         /\ q.gen \in Nat /\ rag[w].gen \in Nat /\ rag[w].gen <= q.gen /\ q.gen <= session.gen
         /\ Clean(q) /\ Known(q)
         /\ Spares(rag[w], q)
         /\ c.kind = "sync" => q.gen = c.gen
         /\ c.kind = "enqueue" => q.live[c.key.utt] # None /\ q.live[c.key.utt].key = c.key
  <1> DEFINE r == rag[w]
  <1>0. /\ r \in RagRow /\ r.active = 1 /\ (r.grant # "none" => r.rev = 1)
        /\ Told(r) /\ Clean(r) /\ Known(r) /\ (sub # None => \A u \in Utts : Standing(u, r))
    BY DEF SpeechInv, TypeInv, TablesOK, Faithful
  <1>1. /\ session \in Session /\ session.gen \in Nat /\ r.gen \in Nat /\ r.gen <= session.gen
        /\ sub # None => sub \in Row
    <2>1. session \in Session /\ (sub # None => sub \in Row)
      BY DEF SpeechInv, TypeInv, TablesOK
    <2> QED
      BY <1>0, <2>1 DEF Session, RagRow, Told
  <1>2. Known(r) /\ Clean(r)
    BY <1>0
  <1> HIDE DEF r
  <1>3. CASE c.kind = "grant"
    <2>1. q = Granted(r, 1)
      BY <1>0, <1>3 DEF Truthful, Results, r
    <2>2. 1 \in Revs
      BY ConstantsAssumption DEF Revs
    <2>3. r.grant = "none" \/ r.rev = 1
      BY <1>0
    <2>4. /\ q \in RagRow /\ q.active = r.active /\ q.grant = "on" /\ q.rev = 1 /\ q.gen = r.gen
          /\ q.live = r.live /\ q.dead = r.dead
      BY <1>0, <2>1, <2>2, <2>3, GrantedRow
    <2>5. Clean(q) /\ Known(q)
      BY <1>2, <2>4 DEF Clean, Known
    <2> QED
      BY <1>0, <1>1, <1>3, <2>4, <2>5 DEF r, Standing, Stands, Spares
  <1>4. CASE c.kind = "sync"
    <2>1. c.present \in SUBSET Utts /\ c.gen \in 1..MaxGen
      BY <1>4, CallFields
    <2>2. q = Synced(r, c.present, c.gen)
      BY <1>4 DEF Results, r
    <2>3. /\ q \in RagRow
          /\ q.active = r.active /\ q.grant = r.grant /\ q.rev = r.rev /\ q.gen = c.gen
          /\ \A u \in Utts : q.live[u] = IF u \in c.present THEN r.live[u] ELSE None
          /\ q.dead = r.dead \cup Buried(r, Utts \ c.present)
      <3>1. TakesAnnouncement(q, r, c.present, c.gen)
        BY <1>0, <2>1, <2>2, SyncedRow
      <3> QED
        BY <3>1 DEF TakesAnnouncement
    <2>4. c.gen >= r.gen /\ c.gen \in Nat /\ c.gen <= session.gen
      BY <1>4, <2>1 DEF Accepts, Current, Truthful, r
    <2>5. Clean(q)
      BY <1>4, <2>3, <2>4 DEF Clean, Truthful, Spoken
    <2>6. Known(q)
      BY <1>2, <2>3 DEF Known, Buried
    <2>7. ASSUME sub # None, NEW u \in Utts, Sent(u) PROVE u \in c.present
      BY <1>1, <1>4, <2>4, <2>7 DEF Fenced, r
    <2>8. ASSUME sub # None, NEW u \in Utts, Sent(u), Stands(r, u) PROVE Stands(q, u)
      BY <2>3, <2>7, <2>8 DEF Stands
    <2>9. ASSUME sub # None, NEW u \in Utts, Kept(u) PROVE sub.states[u].key \notin q.dead
      <3>1. sub.states[u].key \notin r.dead /\ sub.states[u].key.utt = u
        BY <1>0, <1>1, <2>9, StateOfRow DEF Standing, Kept
      <3>2. ASSUME NEW v \in Utts \ c.present, r.live[v] # None, sub.states[u].key = r.live[v].key
            PROVE  FALSE
        <4>1. r.live[v].key \in receipts /\ r.live[v].key.utt = v
          BY <1>2, <3>2 DEF Known
        <4>2. Sent(u) /\ u = v
          BY <2>9, <3>1, <3>2, <4>1 DEF Sent
        <4> QED
          BY <2>7, <2>9, <4>2
      <3> QED
        BY <2>3, <3>1, <3>2 DEF Buried
    <2> QED
      BY <1>0, <1>1, <1>4, <2>3, <2>4, <2>5, <2>6, <2>8, <2>9 DEF r, Spares
  <1>5. CASE c.kind = "enqueue"
    <2> DEFINE k == c.key
    <2>1. k \in Key /\ c.gen \in 1..MaxGen /\ k.utt \in Utts /\ k \in receipts
      BY <1>5, CallFields DEF Truthful
    <2>2. q = Enqueued(r, k, c.gen)
      BY <1>5 DEF Results, r
    <2>3. /\ q \in RagRow
          /\ q.active = r.active /\ q.grant = r.grant /\ q.rev = r.rev /\ q.gen = r.gen
          /\ q.live[k.utt] # None /\ q.live[k.utt].key = k
          /\ \A u \in Utts \ {k.utt} : q.live[u] = r.live[u]
          /\ q.dead = r.dead \cup IF r.live[k.utt] # None /\ r.live[k.utt].key # k
                                  THEN {r.live[k.utt].key} ELSE {}
      BY <1>0, <2>1, <2>2, EnqueuedRow
    <2>4. c.gen >= r.gen /\ c.gen \in Nat /\ c.gen <= session.gen
      BY <1>5, <2>1 DEF Accepts, Current, Truthful, r
    <2>5. Clean(q)
      <3>1. SUFFICES ASSUME q.gen = session.gen, NEW u \in Utts, q.live[u] # None PROVE session.text[u] # None
        BY DEF Clean
      <3>2. c.gen = session.gen /\ r.gen = session.gen
        BY <1>1, <2>3, <2>4, <3>1
      <3>3. CASE u = k.utt
        BY <1>5, <3>2, <3>3 DEF Truthful
      <3>4. CASE u # k.utt
        BY <1>2, <2>3, <3>1, <3>2, <3>4 DEF Clean
      <3> QED
        BY <3>3, <3>4
    <2>6. Known(q)
      BY <1>2, <2>1, <2>3 DEF Known
    <2>7. ASSUME sub # None, NEW u \in Utts, Sent(u), k.utt = u PROVE k = sub.states[u].key
      BY <1>1, <1>5, <2>4, <2>7 DEF Fenced, r
    <2>8. ASSUME sub # None, NEW u \in Utts, Sent(u), Stands(r, u) PROVE Stands(q, u)
      BY <2>3, <2>7, <2>8 DEF Stands
    <2>9. ASSUME sub # None, NEW u \in Utts, Kept(u) PROVE sub.states[u].key \notin q.dead
      <3>1. sub.states[u].key \notin r.dead /\ sub.states[u].key.utt = u
        BY <1>0, <1>1, <2>9, StateOfRow DEF Standing, Kept
      <3>2. ASSUME r.live[k.utt] # None, r.live[k.utt].key # k, sub.states[u].key = r.live[k.utt].key
            PROVE  FALSE
        <4>1. r.live[k.utt].key \in receipts /\ r.live[k.utt].key.utt = k.utt
          BY <1>2, <2>1, <3>2 DEF Known
        <4>2. Sent(u) /\ u = k.utt
          BY <2>9, <3>1, <3>2, <4>1 DEF Sent
        <4> QED
          BY <2>7, <2>9, <3>2, <4>2
      <3> QED
        BY <2>3, <3>1, <3>2
    <2>10. Spares(r, q)
      BY <2>8, <2>9 DEF Spares
    <2>11. q.gen \in Nat /\ r.gen \in Nat /\ r.gen <= q.gen /\ q.gen <= session.gen
      BY <1>1, <2>3
    <2>12. /\ q \in RagRow /\ q.active = 1 /\ (q.grant # "none" => q.rev = 1)
           /\ q.live[c.key.utt] # None /\ q.live[c.key.utt].key = c.key
      BY <1>0, <2>3
    <2>13. c.kind # "sync"
      BY <1>5
    <2>14. c.kind = "sync" => q.gen = c.gen
      BY <2>13
    <2> HIDE DEF k
    <2> QED
      BY <2>5, <2>6, <2>10, <2>11, <2>12, <2>14 DEF r
  <1> QED
    BY <1>3, <1>4, <1>5 DEF Truthful

\* The calls are calls, and the row of one that runs is there.
LEMMA CallsAreTruthful ==
  ASSUME SpeechInv, NEW c \in Calls PROVE c \in Call /\ Truthful(c)
  BY DEF SpeechInv, Calls, TypeInv, TablesOK, RoundOK, InRound

\* A call that is carried out or refused: of the round, of the route, or given up
\* earlier.
LEMMA HandledSpeech ==
  ASSUME SpeechInv, OnlySpeech, NEW c \in Call, Truthful(c), c \in Calls \/ c.kind = "grant",
         NEW answer, Handle(c, answer),
         UNCHANGED <<session, sub, receipts, acked>>, Calls' \subseteq Calls,
         \/ UNCHANGED task
         \/ /\ task # NoTask /\ c = task.call /\ task' # NoTask /\ task'.answer = answer
            /\ task'.pc = task.pc /\ task'.sub = task.sub /\ task'.sess = task.sess /\ task'.call = task.call
            /\ task.pc = "sync" => c.kind = "sync" /\ c.gen = task.sess.gen
            /\ task.pc = "enqueue" => c.kind = "enqueue" /\ c.key = task.sub.states[c.key.utt].key,
         NEW w \in Workspaces
  PROVE  Faithful(rag[w])'
  <1> DEFINE r == rag[w]
             q == rag'[w]
  <1>0. /\ r \in RagRow /\ r.active = 1 /\ (r.grant # "none" => r.rev = 1)
        /\ Told(r) /\ Clean(r) /\ Known(r) /\ (sub # None => \A u \in Utts : Standing(u, r))
    BY DEF SpeechInv, TypeInv, TablesOK, Faithful
  <1>1. c \in Call /\ Truthful(c) /\ c.ws = w
    BY CallFields DEF OnlySpeech
  <1>2. rag \in [Workspaces -> RagRow]
    BY DEF SpeechInv, TypeInv, TablesOK
  <1>3. /\ q.active = 1 /\ (q.grant # "none" => q.rev = 1)
        /\ q.gen \in Nat /\ r.gen \in Nat /\ r.gen <= q.gen /\ q.gen <= session.gen
        /\ Clean(q) /\ Known(q)
        /\ Spares(r, q)
        /\ (answer = "ok" /\ c.kind = "sync") => q.gen = c.gen
        /\ (answer = "ok" /\ c.kind = "enqueue") => q.live[c.key.utt] # None /\ q.live[c.key.utt].key = c.key
    <2>1. CASE UNCHANGED rag /\ answer = "failed"
      BY <1>0, <2>1 DEF Standing, Told, RagRow, Spares
    <2>2. CASE Accepts(rag[w], c) /\ rag'[w] \in Results(rag[w], c)
      <3>1. sub # None => \A u \in Utts : Sent(u) => Fenced(u, c, r)
        BY <1>0 DEF Standing, Fenced
      <3> QED
        BY <1>1, <2>2, <3>1, AcceptedSpeech
    <2> QED
      BY <1>1, <1>2, <2>1, <2>2, HandleShape
  <1> HIDE DEF r, q
  <1>4. ASSUME NEW u \in Utts, sub # None PROVE Standing(u, rag[w])'
    <2>1. /\ Sent(u)' <=> Sent(u)
          /\ Kept(u)' <=> Kept(u)
      BY DEF Sent, Kept
    <2>2. ASSUME Sent(u), NEW d \in Calls PROVE Fenced(u, d, rag[w])'
      <3>1. Fenced(u, d, r)
        BY <1>0, <1>4, <2>2 DEF Standing
      <3>2. d \in Call
        BY CallsAreTruthful
      <3>3. d.kind \in {"sync", "enqueue"} => d.gen \in Nat
        BY <3>2, CallFields
      <3> QED
        BY <1>3, <3>1, <3>3 DEF Fenced, q
    <2>3. ASSUME Sent(u), Served(sub.states[u].key)' PROVE Stands(q, u)
      <3>1. CASE Served(sub.states[u].key)
        BY <1>0, <1>3, <1>4, <2>3, <3>1 DEF Standing, Spares
      <3>2. CASE ~Served(sub.states[u].key)
        <4>1. /\ task # NoTask /\ task.pc = "enqueue" /\ answer = "ok" /\ c = task.call
              /\ c.key = sub.states[u].key /\ c.kind = "enqueue"
          BY <2>3, <3>2 DEF Served
        <4>2. c.key.utt = u
          <5>1. sub \in Row
            BY <1>4 DEF SpeechInv, TypeInv, TablesOK
          <5>2. sub.states[u] # None
            BY <2>3 DEF Sent, Kept
          <5>3. sub.states[u].key.utt = u
            BY <5>1, <5>2, StateOfRow
          <5> QED
            BY <4>1, <5>3
        <4> QED
          BY <1>3, <4>1, <4>2 DEF Stands
      <3> QED
        BY <3>1, <3>2
    <2> QED
      BY <1>3, <1>4, <2>1, <2>2, <2>3 DEF Standing, Stands, Spares, q
  <1>5. Told(rag[w])'
    <2>1. (sub # None /\ sub.synced # None) => sub.synced <= q.gen
      <3>1. sub # None /\ sub.synced # None => sub.synced \in Nat
        BY DEF SpeechInv, TypeInv, TablesOK, Row, Subscription
      <3> QED
        BY <1>0, <1>3, <3>1 DEF Told
    <2>2. (task' # NoTask /\ task'.sub.synced # None) => task'.sub.synced <= q.gen
      <3>1. task # NoTask /\ task.sub.synced # None => task.sub.synced \in Nat
        BY DEF SpeechInv, TypeInv, RoundOK, InRound, Row, Subscription
      <3> QED
        BY <1>0, <1>3, <3>1 DEF Told
    <2>3. (task'.pc = "sync" /\ task'.answer = "ok") => task'.sess.gen <= q.gen
      <3>1. task.pc = "sync" => task.sess.gen \in Nat
        <4>1. task.pc = "sync" => task.sess \in Session
          BY DEF SpeechInv, TypeInv, RoundOK, InRound, NoTask
        <4> QED
          BY <4>1 DEF Session
      <3> QED
        BY <1>0, <1>3, <3>1 DEF Told
    <2> QED
      BY <1>3, <2>1, <2>2, <2>3 DEF Told, q
  <1>6. Clean(rag[w])' /\ Known(rag[w])'
    BY <1>3 DEF Clean, Known, q
  <1> QED
    BY <1>3, <1>4, <1>5, <1>6 DEF Faithful, q

\* The states S lead on from those of the row: a key stays or is replaced by a
\* later one, and what is active under a key that was sent has kept it.
Leads(S) ==
    \A u \in Utts :
      LET p == sub.states[u]
      IN  /\ p # None => S[u] # None /\ S[u].key.n \in Nat /\ (S[u].key = p.key \/ p.key.n < S[u].key.n)
          /\ (S[u] # None /\ S[u].active) => (Kept(u) /\ S[u].key = p.key) \/ S[u].key \notin receipts

\* They also follow when what says what the transcript says keeps its key.
Follows(S) ==
    /\ Leads(S)
    /\ \A u \in Utts : (Kept(u) /\ sub.states[u].key.text = session.text /\ u \in Spoken(session))
                         => S[u] # None /\ S[u].active /\ S[u].key = sub.states[u].key

\* The states of the row lead on from themselves.
LEMMA LeadsItself == ASSUME sub \in Row PROVE Leads(sub.states)
  BY StateOfRow DEF Leads, Kept

\* The states of the row follow themselves.
LEMMA FollowsItself == ASSUME sub \in Row PROVE Follows(sub.states)
  BY LeadsItself DEF Follows, Kept

\* The states a round prepares are those of its snapshot.
LEMMA PreparedStates ==
  ASSUME NEW b \in Row, NEW s \in Session, NEW u \in Utts
  PROVE  LET q == States(s, b)[u]
             p == b.states[u]
         IN  /\ u \in Spoken(s) => q # None /\ q.key = KeyOf(u, s, b) /\ q.active
             /\ (u \notin Spoken(s) /\ p = None) => q = None
             /\ (u \notin Spoken(s) /\ p # None) => q # None /\ q.key = p.key /\ ~q.active
  <1> DEFINE q == States(s, b)[u]
             p == b.states[u]
             k == KeyOf(u, s, b)
  <1>1. k \in Key
    BY KeyOfRow
  <1>2. p # None => p.key \in Key
    BY StateOfRow
  <1>3. /\ u \in Spoken(s) => q = [key |-> k, active |-> TRUE]
        /\ (u \notin Spoken(s) /\ p = None) => q = None
        /\ (u \notin Spoken(s) /\ p # None) => q = [key |-> p.key, active |-> FALSE]
    BY StatesOfRow
  <1> HIDE DEF q, p, k
  <1>4. u \in Spoken(s) => q # None /\ q.key = k /\ q.active
    <2> SUFFICES ASSUME q = [key |-> k, active |-> TRUE] PROVE q # None /\ q.key = k /\ q.active
      BY <1>3
    <2>1. q \in [key : Key, active : BOOLEAN]
      BY <1>1
    <2> QED
      BY <2>1, NoneIsNone
  <1>5. (u \notin Spoken(s) /\ p # None) => q # None /\ q.key = p.key /\ ~q.active
    <2> SUFFICES ASSUME p # None, q = [key |-> p.key, active |-> FALSE] PROVE q # None /\ q.key = p.key /\ ~q.active
      BY <1>3
    <2>1. q \in [key : Key, active : BOOLEAN]
      BY <1>2
    <2> QED
      BY <2>1, NoneIsNone
  <1> QED
    BY <1>3, <1>4, <1>5 DEF q, p, k

\* The states a round prepares lead on from those of the row.
LEMMA PreparedLeads ==
  ASSUME Chained, sub # None, NEW b \in Row, b.states = sub.states, NEW s \in Session
  PROVE  Leads(States(s, b))
  <1> DEFINE S == States(s, b)
  <1>1. SUFFICES ASSUME NEW u \in Utts
        PROVE  LET p == sub.states[u]
               IN  /\ p # None => S[u] # None /\ S[u].key.n \in Nat /\ (S[u].key = p.key \/ p.key.n < S[u].key.n)
                   /\ (S[u] # None /\ S[u].active) => (Kept(u) /\ S[u].key = p.key) \/ S[u].key \notin receipts
    BY DEF Leads
  <1> DEFINE p == sub.states[u]
             k == KeyOf(u, s, b)
             q == S[u]
  <1>2. /\ k \in Key /\ k.utt = u /\ k.n \in Nat
        /\ p = None => k.n = 0
        /\ p # None => (p.active /\ k = p.key) \/ k.n = p.key.n + 1
    <2>1. k \in Key
      BY KeyOfRow
    <2> QED
      BY <2>1, KeyOfRow DEF Key
  <1>3. p # None => p.key \in Key /\ p.key.n \in Nat
    <2>1. p = b.states[u]
      OBVIOUS
    <2> HIDE DEF p
    <2> QED
      BY <2>1, StateOfRow
  <1>4. /\ u \in Spoken(s) => q # None /\ q.key = k /\ q.active
        /\ (u \notin Spoken(s) /\ p = None) => q = None
        /\ (u \notin Spoken(s) /\ p # None) => q # None /\ q.key = p.key /\ ~q.active
    BY PreparedStates
  <1> HIDE DEF S, p, k, q
  <1>5. p # None => q # None /\ q.key.n \in Nat /\ (q.key = p.key \/ p.key.n < q.key.n)
    BY <1>2, <1>3, <1>4
  <1>6. ASSUME q # None, q.active PROVE (Kept(u) /\ q.key = p.key) \/ q.key \notin receipts
    <2>1. u \in Spoken(s) /\ q.key = k
      BY <1>4, <1>6
    <2>2. CASE p # None /\ p.active /\ k = p.key
      BY <2>1, <2>2 DEF Kept, p
    <2>3. CASE p = None \/ k.n = p.key.n + 1
      <3>1. k \in receipts => sub.states[k.utt] # None /\ k.n <= sub.states[k.utt].key.n
        BY DEF Chained
      <3>2. k \in receipts => p # None /\ k.n <= p.key.n
        BY <1>2, <3>1 DEF p
      <3> QED
        BY <1>2, <1>3, <2>1, <2>3, <3>2
    <2> QED
      BY <1>2, <2>2, <2>3
  <1> QED
    BY <1>5, <1>6 DEF q, p

\* What a round prepares from the present snapshot follows.
LEMMA PreparedFollows == ASSUME SpeechInv, sub # None PROVE Follows(States(session, sub))
  <1>0. sub \in Row /\ session \in Session /\ sub.rev = 1 /\ sub.gen = 1 /\ Chained
        /\ \A u \in Utts : sub.states[u] # None => sub.states[u].key.gen = 1 /\ sub.states[u].key.rev = 1
    BY DEF SpeechInv, TypeInv, TablesOK, QuietRows, Quiet
  <1>1. ASSUME NEW u \in Utts, Kept(u), sub.states[u].key.text = session.text, u \in Spoken(session)
        PROVE  LET q == States(session, sub)[u]
               IN  q # None /\ q.active /\ q.key = sub.states[u].key
    <2> DEFINE p == sub.states[u]
    <2>1. p # None /\ p.active /\ p.key \in Key /\ p.key.utt = u /\ p.key.rev = 1 /\ p.key.gen = 1
      BY <1>0, <1>1, StateOfRow DEF Kept
    <2> HIDE DEF p
    <2>2. p.key = [utt |-> u, text |-> session.text, rev |-> 1, gen |-> 1, n |-> p.key.n]
      <3>1. p.key.text = session.text
        BY <1>1 DEF p
      <3> QED
        BY <2>1, <3>1 DEF Key
    <2>3. p.key = Signed(u, session, sub, p.key.n)
      BY <1>0, <2>2 DEF Signed
    <2>4. KeyOf(u, session, sub) = p.key
      BY <2>1, <2>3 DEF KeyOf, p
    <2> QED
      BY <1>0, <1>1, <2>4, PreparedStates DEF p
  <1>2. Leads(States(session, sub))
    BY <1>0, PreparedLeads
  <1> QED
    BY <1>1, <1>2 DEF Follows

\* What leads on keeps the chain of keys, and what was sent is what there was.
LEMMA LeadingChains ==
  ASSUME TablesOK, Chained, sub # None, sub' \in Row, Leads(sub'.states),
         receipts \subseteq receipts', receipts' \subseteq Key,
         \A k \in receipts' \ receipts : sub'.states[k.utt] # None /\ sub'.states[k.utt].key = k
  PROVE  /\ Chained'
         /\ \A u \in Utts : (Kept(u)' /\ sub'.states[u].key \in receipts)
                              => Sent(u) /\ sub'.states[u].key = sub.states[u].key
  <1> DEFINE S == sub'.states
  <1>0. sub \in Row /\ receipts \subseteq Key /\ sub' # None
    BY NoneIsNone DEF TablesOK
  <1>1. \A k \in receipts : k.utt \in Utts /\ k.n \in Nat
    BY <1>0 DEF Key
  <1>2. \A u \in Utts : sub.states[u] # None => sub.states[u].key.n \in Nat
    BY <1>0, StateOfRow
  <1>3. \A u \in Utts : S[u] # None => S[u].key.n \in Nat
    BY StateOfRow
  <1>4. \A u \in Utts :
          /\ sub.states[u] # None =>
               S[u] # None /\ S[u].key.n \in Nat /\ (S[u].key = sub.states[u].key \/ sub.states[u].key.n < S[u].key.n)
          /\ (S[u] # None /\ S[u].active) => (Kept(u) /\ S[u].key = sub.states[u].key) \/ S[u].key \notin receipts
    BY DEF Leads
  <1>5. ASSUME NEW k \in receipts'
        PROVE  S[k.utt] # None /\ k.n <= S[k.utt].key.n /\ (k.n = S[k.utt].key.n => k = S[k.utt].key)
    <2>1. CASE k \in receipts
      <3>1. sub.states[k.utt] # None /\ k.n <= sub.states[k.utt].key.n
            /\ (k.n = sub.states[k.utt].key.n => k = sub.states[k.utt].key) /\ k.utt \in Utts /\ k.n \in Nat
        BY <1>0, <1>1, <2>1 DEF Chained
      <3> QED
        BY <1>2, <1>4, <3>1
    <2>2. CASE k \notin receipts
      <3>1. S[k.utt] # None /\ S[k.utt].key = k
        BY <2>2
      <3>2. k.utt \in Utts
        BY DEF Key
      <3> QED
        BY <1>3, <3>1, <3>2
    <2> QED
      BY <2>1, <2>2
  <1>6. Chained'
    BY <1>0, <1>5 DEF Chained
  <1>7. ASSUME NEW u \in Utts, Kept(u)', S[u].key \in receipts PROVE Sent(u) /\ S[u].key = sub.states[u].key
    BY <1>4, <1>7 DEF Kept, Sent
  <1> QED
    BY <1>6, <1>7

\* What follows keeps the chain of keys, the calls true, and the rows standing.
LEMMA FollowingSpeech ==
  ASSUME SpeechInv, sub # None, UNCHANGED session, sub' \in Row, Follows(sub'.states),
         receipts \subseteq receipts', receipts' \subseteq Key,
         \A k \in receipts' \ receipts : sub'.states[k.utt] # None /\ sub'.states[k.utt].key = k
  PROVE  /\ Chained'
         /\ \A c \in Calls : Truthful(c)'
         /\ \A w \in Workspaces : Known(rag[w]) => rag[w].dead \subseteq receipts'
         /\ \A w \in Workspaces, u \in Utts : Kept(u)' => sub'.states[u].key \notin rag[w].dead
         /\ \A u \in Utts : (Kept(u)' /\ sub'.states[u].key \in receipts)
                              => Sent(u) /\ sub'.states[u].key = sub.states[u].key
  <1> DEFINE S == sub'.states
  <1>0. sub \in Row /\ receipts \subseteq Key /\ Chained /\ sub' # None
    BY NoneIsNone DEF SpeechInv, TypeInv, TablesOK
  <1>1. /\ Chained'
        /\ \A u \in Utts : (Kept(u)' /\ S[u].key \in receipts) => Sent(u) /\ S[u].key = sub.states[u].key
    BY LeadingChains DEF Follows, SpeechInv, TypeInv
  <1>2. \A u \in Utts :
          /\ (S[u] # None /\ S[u].active) => (Kept(u) /\ S[u].key = sub.states[u].key) \/ S[u].key \notin receipts
          /\ (Kept(u) /\ sub.states[u].key.text = session.text /\ u \in Spoken(session))
               => S[u] # None /\ S[u].active /\ S[u].key = sub.states[u].key
    BY DEF Follows, Leads
  <1>3. ASSUME NEW c \in Calls PROVE Truthful(c)'
    <2>1. c \in Call /\ Truthful(c)
      BY CallsAreTruthful
    <2>2. ASSUME c.kind = "enqueue", c.gen = session.gen
          PROVE  S[c.key.utt] # None /\ S[c.key.utt].active /\ S[c.key.utt].key = c.key
      <3>1. c.key.utt \in Utts /\ c.key.text = session.text /\ c.key.text[c.key.utt] # None
            /\ Kept(c.key.utt) /\ sub.states[c.key.utt].key = c.key
        BY <2>1, <2>2, CallFields DEF Truthful, Kept
      <3> QED
        BY <1>2, <3>1 DEF Spoken
    <2> QED
      BY <2>1, <2>2 DEF Truthful
  <1>4. ASSUME NEW w \in Workspaces, NEW u \in Utts, Kept(u)' PROVE S[u].key \notin rag[w].dead
    <2>1. Known(rag[w]) /\ Standing(u, rag[w])
      BY DEF SpeechInv, Faithful
    <2> QED
      BY <1>2, <1>4, <2>1 DEF Known, Standing, Kept
  <1> QED
    BY <1>1, <1>3, <1>4 DEF Known

\* A step of a round keeps the invariant when its new call is true, the rows that
\* are now sent are fenced, and nothing but what was served is acknowledged.
LEMMA RoundSpeech ==
  ASSUME SpeechInv, TypeInv', sub # None, api.pc # "granting",
         UNCHANGED <<session, api, rag, lost, crashes>>,
         sub' \in Row, Quiet(sub)', Follows(sub'.states),
         receipts \subseteq receipts', receipts' \subseteq Key,
         \A k \in receipts' \ receipts : sub'.states[k.utt] # None /\ sub'.states[k.utt].key = k,
         \A k \in acked' : Served(k),
         \A w \in Workspaces : sub'.synced # None => sub'.synced <= rag[w].gen,
         QuietRound',
         \A w \in Workspaces, u \in Utts, c \in lost :
            (Sent(u)' /\ sub'.states[u].key \notin receipts) => Fenced(u, c, rag[w])',
         task' # NoTask =>
            /\ task'.answer = "none" /\ Truthful(task.call)'
            /\ \A w \in Workspaces : task'.sub.synced # None => task'.sub.synced <= rag[w].gen
            /\ \A w \in Workspaces, u \in Utts : Sent(u)' => Fenced(u, task.call, rag[w])'
  PROVE  SpeechInv'
  <1>0. sub' # None /\ (task' = NoTask => task'.answer = "none")
    BY NoneIsNone DEF NoTask
  <1>1. QuietRows'
    BY <1>0 DEF SpeechInv, QuietRows
  <1>2. /\ Chained'
        /\ \A c \in Calls : Truthful(c)'
        /\ \A w \in Workspaces, u \in Utts : Kept(u)' => sub'.states[u].key \notin rag[w].dead
        /\ \A u \in Utts : (Kept(u)' /\ sub'.states[u].key \in receipts)
                             => Sent(u) /\ sub'.states[u].key = sub.states[u].key
    BY FollowingSpeech
  <1>3. Calls' \subseteq lost \cup {task'.call} /\ lost \subseteq Calls /\ (task' = NoTask => Calls' = lost)
    BY DEF Calls
  <1>4. ASSUME NEW c \in Calls' PROVE Truthful(c)'
    <2>1. CASE c \in lost
      BY <1>2, <1>3, <2>1
    <2>2. CASE c \notin lost
      <3>1. c = task'.call /\ task' # NoTask
        BY <1>3, <2>2
      <3> QED
        BY <3>1 DEF Truthful
    <2> QED
      BY <2>1, <2>2
  <1>5. ASSUME NEW w \in Workspaces PROVE Faithful(rag[w])'
    <2>1. /\ rag[w].active = 1 /\ (rag[w].grant # "none" => rag[w].rev = 1)
          /\ Told(rag[w]) /\ Clean(rag[w]) /\ Known(rag[w])
          /\ \A u \in Utts : Standing(u, rag[w])
      BY DEF SpeechInv, Faithful
    <2>2. Told(rag[w])'
      BY <1>0, <2>1 DEF Told
    <2>3. Clean(rag[w])' /\ Known(rag[w])'
      BY <2>1 DEF Clean, Known
    <2>4. ASSUME NEW u \in Utts PROVE Standing(u, rag[w])'
      <3>1. ASSUME Sent(u)', NEW c \in Calls' PROVE Fenced(u, c, rag[w])'
        <4>1. CASE c \in lost /\ sub'.states[u].key \in receipts
          <5>1. Sent(u) /\ sub'.states[u].key = sub.states[u].key
            BY <1>2, <3>1, <4>1 DEF Sent
          <5>2. Fenced(u, c, rag[w])
            BY <1>3, <2>1, <4>1, <5>1 DEF Standing
          <5> QED
            BY <5>1, <5>2 DEF Fenced
        <4>2. CASE c \in lost /\ sub'.states[u].key \notin receipts
          BY <3>1, <4>2
        <4>3. CASE c \notin lost
          <5>1. c = task'.call /\ task' # NoTask
            BY <1>3, <4>3
          <5> QED
            BY <3>1, <5>1 DEF Fenced
        <4> QED
          BY <4>1, <4>2, <4>3
      <3>2. ASSUME Sent(u)', Served(sub.states[u].key)' PROVE Stands(rag[w], u)'
        <4>1. sub'.states[u].key \in acked'
          BY <1>0, <3>2 DEF Served
        <4>2. Served(sub'.states[u].key)
          BY <4>1
        <4>3. sub'.states[u].key \in receipts
          <5>1. acked \subseteq receipts
            BY DEF SpeechInv, TypeInv, TablesOK
          <5>2. (task.pc = "enqueue" /\ task.answer = "ok") => task.call.key \in receipts
            <6>1. task.pc = "enqueue" => task # NoTask /\ InRound(task)
              BY DEF SpeechInv, TypeInv, RoundOK, NoTask
            <6>2. task.pc = "enqueue" => task.call \in Calls /\ task.call.kind = "enqueue"
              BY <6>1 DEF Calls, InRound
            <6> QED
              BY <6>2, CallsAreTruthful DEF Truthful
          <5> QED
            BY <4>2, <5>1, <5>2 DEF Served
        <4>4. Sent(u) /\ sub'.states[u].key = sub.states[u].key
          BY <1>2, <3>2, <4>3 DEF Sent
        <4> QED
          BY <2>1, <4>2, <4>4 DEF Standing, Stands
      <3> QED
        BY <1>2, <3>1, <3>2 DEF Standing
    <2> QED
      BY <2>1, <2>2, <2>3, <2>4 DEF Faithful
  <1> QED
    BY <1>1, <1>2, <1>4, <1>5 DEF SpeechInv

\* A round that ends.
LEMMA EndSpeech ==
  ASSUME SpeechInv, TypeInv', sub # None, api.pc # "granting",
         UNCHANGED <<session, api, rag, lost, crashes>>,
         NEW b \in Row, Quiet(b), Follows(b.states),
         \A w \in Workspaces : b.synced # None => b.synced <= rag[w].gen,
         NEW a, \A k \in a : Served(k),
         Ending(b, a)
  PROVE  SpeechInv'
  <1>1. sub' = b /\ receipts' = receipts /\ acked' = a /\ task' = NoTask
    BY DEF Ending
  <1>2. Quiet(sub)' /\ sub' \in Row
    BY <1>1 DEF Quiet
  <1>3. receipts' \subseteq Key
    BY <1>1 DEF SpeechInv, TypeInv, TablesOK
  <1>4. QuietRound'
    BY <1>1 DEF QuietRound
  <1>5. \A u \in Utts : Sent(u)' => sub'.states[u].key \in receipts
    BY <1>1 DEF Sent
  <1> QED
    BY <1>1, <1>2, <1>3, <1>4, <1>5, RoundSpeech

\* A round that announces the present snapshot.
LEMMA SyncSpeech ==
  ASSUME SpeechInv, TypeInv', sub # None, api.pc # "granting",
         UNCHANGED <<session, api, rag, lost, crashes>>,
         NEW b \in Row, Quiet(b), Follows(b.states), Shows(b, session),
         \A w \in Workspaces : b.synced # None => b.synced <= rag[w].gen,
         \A u \in Spoken(session) : b.states[u].key.text = session.text,
         NEW todo, NEW left,
         Calling(b, acked, "sync", b, session, todo, left, SyncCall(b, session))
  PROVE  SpeechInv'
  <1> DEFINE c == SyncCall(b, session)
  <1>1. /\ sub' = b /\ receipts' = receipts /\ acked' = acked
        /\ task' = Round("sync", b, session, todo, left, c, "none")
    BY DEF Calling
  <1>2. /\ task'.pc = "sync" /\ task'.sub = b /\ task'.sess = session /\ task'.call = c
        /\ task'.answer = "none" /\ task' # NoTask
    BY <1>1 DEF Round, NoTask
  <1>3. c.kind = "sync" /\ c.present = Spoken(session) /\ c.gen = session.gen
    BY DEF SyncCall
  <1>4. session.gen \in Nat
    BY DEF SpeechInv, TypeInv, TablesOK, Session
  <1>5. Quiet(sub)' /\ sub' \in Row /\ receipts' \subseteq Key
    BY <1>1 DEF Quiet, SpeechInv, TypeInv, TablesOK
  <1> HIDE DEF c
  <1>6. QuietRound'
    BY <1>1, <1>2, <1>4 DEF QuietRound, Quiet, Spoken
  <1>7. Truthful(task.call)'
    BY <1>2, <1>3, <1>4 DEF Truthful, Spoken
  <1>8. ASSUME NEW w \in Workspaces, NEW u \in Utts, Sent(u)' PROVE Fenced(u, task.call, rag[w])'
    <2>1. u \in c.present
      BY <1>1, <1>3, <1>8 DEF Sent, Kept, Shows
    <2> QED
      BY <1>2, <1>3, <2>1 DEF Fenced
  <1>9. \A u \in Utts : Sent(u)' => sub'.states[u].key \in receipts
    BY <1>1 DEF Sent
  <1>10. \A k \in acked' : Served(k)
    BY <1>1 DEF Served
  <1> QED
    BY <1>1, <1>2, <1>5, <1>6, <1>7, <1>8, <1>9, <1>10, RoundSpeech

\* A round that delivers an utterance of the present snapshot.
LEMMA EnqueueSpeech ==
  ASSUME SpeechInv, TypeInv', sub # None, api.pc # "granting",
         UNCHANGED <<session, api, rag, lost, crashes>>,
         NEW row \in Row, Quiet(row), Follows(row.states),
         \A w \in Workspaces : row.synced # None => row.synced <= rag[w].gen,
         NEW b \in Row, Quiet(b), b.states = row.states, Shows(b, session),
         \A w \in Workspaces : session.gen <= rag[w].gen,
         b.synced = session.gen,
         \A x \in Spoken(session) : b.states[x].key.text = session.text,
         NEW a, \A k \in a : Served(k),
         NEW u \in Spoken(session), NEW todo, NEW left,
         sub' = row, receipts' = receipts \cup {b.states[u].key}, acked' = a,
         task' = Round("enqueue", b, session, todo, left, EnqueueCall(b, session, u), "none")
  PROVE  SpeechInv'
  <1> DEFINE k == b.states[u].key
             c == EnqueueCall(b, session, u)
  <1>1. /\ task'.pc = "enqueue" /\ task'.sub = b /\ task'.sess = session /\ task'.call = c
        /\ task'.answer = "none" /\ task' # NoTask
    BY DEF Round, NoTask
  <1>2. c.kind = "enqueue" /\ c.key = k /\ c.gen = session.gen
    BY DEF EnqueueCall
  <1>3. session.gen \in Nat
    BY DEF SpeechInv, TypeInv, TablesOK, Session
  <1>4. u \in Utts /\ session.text[u] # None /\ b.states[u] # None /\ b.states[u].active
    BY DEF Spoken, Shows
  <1>5. k \in Key /\ k.utt = u
    BY <1>4, StateOfRow
  <1>6. k.text = session.text
    OBVIOUS
  <1> HIDE DEF k, c
  <1>7. Quiet(sub)' /\ sub' \in Row /\ receipts' \subseteq Key
    BY <1>5 DEF Quiet, SpeechInv, TypeInv, TablesOK, k
  <1>8. QuietRound'
    BY <1>1, <1>3 DEF QuietRound, Quiet, Spoken
  <1>9. sub'.states[u] # None /\ sub'.states[u].active /\ sub'.states[u].key = k /\ k \in receipts'
    BY <1>4 DEF k
  <1>10. Truthful(task.call)'
    BY <1>1, <1>2, <1>3, <1>4, <1>5, <1>6, <1>9 DEF Truthful
  <1>11. ASSUME NEW w \in Workspaces, NEW x \in Utts, Sent(x)' PROVE Fenced(x, task.call, rag[w])'
    BY <1>1, <1>2, <1>5, <1>9 DEF Fenced
  <1>12. ASSUME NEW w \in Workspaces, NEW x \in Utts, NEW d \in lost,
                Sent(x)', sub'.states[x].key \notin receipts
         PROVE  Fenced(x, d, rag[w])'
    <2>1. Kept(x)' /\ sub'.states[x].key = k /\ x = u
      <3>1. Kept(x)' /\ sub'.states[x].key = k
        BY <1>12 DEF Sent, k
      <3>2. sub'.states[x].key.utt = x
        BY <1>7, <3>1, StateOfRow DEF Kept
      <3> QED
        BY <1>5, <3>1, <3>2
    <2>2. d \in Calls /\ d \in Call /\ Truthful(d)
      <3>1. d \in Calls
        BY <1>12 DEF Calls
      <3> QED
        BY <3>1, CallsAreTruthful
    <2>3. rag[w].gen \in Nat /\ session.gen <= rag[w].gen
      BY DEF SpeechInv, TypeInv, TablesOK, RagRow
    <2>4. ASSUME d.kind = "enqueue", d.key.utt = u, d.key # k PROVE d.gen < rag[w].gen
      <3>1. d.gen \in Nat /\ d.gen <= session.gen
        BY <2>2, <2>4, CallFields DEF Truthful
      <3>2. d.gen # session.gen
        <4>1. ASSUME d.gen = session.gen PROVE FALSE
          <5>1. Kept(u) /\ sub.states[u].key = d.key /\ d.key.text = session.text
            BY <2>2, <2>4, <4>1 DEF Truthful, Kept
          <5>2. row.states[u].key = d.key
            BY <1>4, <5>1 DEF Follows
          <5> QED
            BY <2>4, <5>2 DEF k
        <4> QED
          BY <4>1
      <3> QED
        BY <1>3, <2>3, <3>1, <3>2
    <2>5. ASSUME d.kind = "sync", u \notin d.present PROVE d.gen < rag[w].gen
      <3>1. d.gen \in Nat /\ d.gen <= session.gen /\ d.gen # session.gen
        BY <2>2, <2>5, CallFields DEF Truthful
      <3> QED
        BY <1>3, <2>3, <3>1
    <2> QED
      BY <2>1, <2>4, <2>5 DEF Fenced
  <1>13. ASSUME NEW j \in receipts' \ receipts PROVE sub'.states[j.utt] # None /\ sub'.states[j.utt].key = j
    BY <1>5, <1>9 DEF k
  <1>14. \A w \in Workspaces : task'.sub.synced <= rag[w].gen
    BY <1>1
  <1>15. receipts \subseteq receipts' /\ \A j \in acked' : Served(j)
    OBVIOUS
  <1>16. Follows(sub'.states) /\ \A w \in Workspaces : sub'.synced # None => sub'.synced <= rag[w].gen
    OBVIOUS
  <1> QED
    BY <1>1, <1>7, <1>8, <1>10, <1>11, <1>12, <1>13, <1>14, <1>15, <1>16, RoundSpeech

\* The next delivery of a round, or its end.
LEMMA AdmittingSpeech ==
  ASSUME SpeechInv, TypeInv', sub # None, api.pc # "granting",
         UNCHANGED <<session, api, rag, lost, crashes>>,
         NEW row \in Row, Quiet(row), Follows(row.states),
         \A w \in Workspaces : row.synced # None => row.synced <= rag[w].gen,
         NEW b \in Row, Quiet(b), b.states = row.states, NEW s \in Session, Shows(b, s),
         s.gen = session.gen => s = session,
         b.synced = s.gen, \A w \in Workspaces : s.gen <= rag[w].gen,
         \A x \in Spoken(s) : b.states[x].key.text = s.text,
         NEW a, \A k \in a : Served(k),
         NEW todo \in SUBSET Spoken(s), NEW left,
         Admitting(row, a, b, s, todo, left)
  PROVE  SpeechInv'
  <1>1. CASE Ending(row, a)
    BY <1>1, EndSpeech
  <1>2. CASE Ending(b, a)
    <2>1. Follows(b.states)
      OBVIOUS
    <2> QED
      BY <1>2, <2>1, EndSpeech
  <1>3. ASSUME NEW u \in todo, session.gen = s.gen,
               sub' = row, receipts' = receipts \cup {b.states[u].key}, acked' = a,
               task' = Round("enqueue", b, s, todo, left, EnqueueCall(b, s, u), "none")
        PROVE  SpeechInv'
    <2>1. s = session
      BY <1>3
    <2>2. u \in Spoken(session)
      BY <2>1
    <2>3. task' = Round("enqueue", b, session, todo, left, EnqueueCall(b, session, u), "none")
      BY <1>3, <2>1
    <2>4. Shows(b, session) /\ b.synced = session.gen /\ (\A w \in Workspaces : session.gen <= rag[w].gen)
          /\ \A x \in Spoken(session) : b.states[x].key.text = session.text
      BY <2>1
    <2> QED
      BY <1>3, <2>2, <2>3, <2>4, EnqueueSpeech
  <1> QED
    BY <1>1, <1>2, <1>3 DEF Admitting

\* A round that starts.
LEMMA StartSpeech == ASSUME SpeechInv, TypeInv', Start PROVE SpeechInv'
  <1> DEFINE p == Prepared(sub, session)
             S == States(session, sub)
  <1>0. sub \in Subscription \cup {None} /\ session \in Session
    BY DEF SpeechInv, TypeInv, TablesOK, Row
  <1>1. /\ api.pc # "granting" /\ sub \in Row /\ sub # None /\ Quiet(sub) /\ session.exists
        /\ Routing(sub, session, {}, Batch)
        /\ UNCHANGED <<session, api, rag, lost, crashes>>
    BY <1>0, StartShape, NoneIsNone DEF Locked, SpeechInv, TypeInv, TablesOK, QuietRows
  <1>2. Preparing(p, session, Batch)
    BY <1>1 DEF Routing, Quiet
  <1>3. p \in Row /\ p.states = S /\ p.synced = sub.synced /\ Shows(p, session)
    BY <1>0, <1>1, PreparedRow DEF Shows, Quiet
  <1>4. \A u \in Utts : S[u] # None => S[u].key.gen = 1 /\ S[u].key.rev = 1
    <2>1. ASSUME NEW u \in Utts, S[u] # None PROVE S[u].key.gen = 1 /\ S[u].key.rev = 1
      <3>1. CASE u \in Spoken(session)
        <4>1. S[u] = [key |-> KeyOf(u, session, sub), active |-> TRUE]
          BY <1>0, <1>1, <3>1, StatesOfRow
        <4>2. KeyOf(u, session, sub).rev = 1 /\ KeyOf(u, session, sub).gen = 1
          BY <1>0, <1>1, KeyOfRow DEF Quiet
        <4> HIDE DEF S
        <4> QED
          BY <4>1, <4>2
      <3>2. CASE u \notin Spoken(session)
        <4>1. sub.states[u] # None /\ S[u] = [key |-> sub.states[u].key, active |-> FALSE]
          BY <1>0, <1>1, <2>1, <3>2, StatesOfRow
        <4> HIDE DEF S
        <4> QED
          BY <1>1, <4>1 DEF Quiet
      <3> QED
        BY <3>1, <3>2
    <2> QED
      BY <2>1
  <1>5. Quiet(p)
    <2>1. /\ p.asked = sub.asked /\ p.rev = sub.rev /\ p.enabled = sub.enabled
          /\ p.deleted = sub.deleted /\ p.cleanup = sub.cleanup /\ p.pending = sub.pending
          /\ p.gen = sub.gen
      BY <1>0, <1>1, PreparedRow
    <2> HIDE DEF p, S
    <2> QED
      BY <1>1, <1>3, <1>4, <2>1 DEF Quiet
  <1>6. \A u \in Spoken(session) : p.states[u].key.text = session.text
    <2>1. ASSUME NEW u \in Spoken(session) PROVE S[u].key.text = session.text
      <3>1. u \in Utts
        BY DEF Spoken
      <3>2. S[u] = [key |-> KeyOf(u, session, sub), active |-> TRUE]
        BY <1>0, <1>1, <3>1, StatesOfRow
      <3>3. KeyOf(u, session, sub).text = session.text
        BY <1>0, <1>1, <3>1, KeyOfRow
      <3> HIDE DEF S
      <3> QED
        BY <3>2, <3>3
    <2> QED
      BY <1>3, <2>1
  <1>7. Follows(p.states)
    BY <1>1, <1>3, PreparedFollows
  <1>8. \A w \in Workspaces : p.synced # None => p.synced <= rag[w].gen
    BY <1>1, <1>3 DEF SpeechInv, Faithful, Told
  <1>9. \A k \in acked : Served(k)
    BY DEF Served
  <1> HIDE DEF p, S
  <1>10. CASE p.synced = session.gen
    <2>1. Admitting(p, acked, p, session, Missing(p, session), Batch)
      BY <1>2, <1>10 DEF Preparing
    <2>2. Missing(p, session) \in SUBSET Spoken(session)
      BY DEF Missing
    <2>3. p.synced # None
      BY <1>0, <1>10, NoneIsNone DEF Session
    <2>4. \A w \in Workspaces : session.gen <= rag[w].gen
      BY <1>8, <1>10, <2>3
    <2> QED
      BY <1>0, <1>1, <1>3, <1>5, <1>6, <1>7, <1>8, <1>9, <1>10, <2>1, <2>2, <2>4, AdmittingSpeech
  <1>11. CASE p.synced # session.gen
    <2>1. Calling(p, acked, "sync", p, session, Missing(p, session), Batch, SyncCall(p, session))
      BY <1>2, <1>11 DEF Preparing
    <2> QED
      BY <1>1, <1>3, <1>5, <1>6, <1>7, <1>8, <2>1, SyncSpeech
  <1> QED
    BY <1>10, <1>11

\* A round that goes on.
LEMMA ContinueSpeech == ASSUME SpeechInv, TypeInv', Continue PROVE SpeechInv'
  <1> DEFINE t == task
  <1>1. t.pc # "idle" /\ t # NoTask /\ InRound(t) /\ sub # None /\ sub \in Row /\ api.pc # "granting"
    BY RoundFacts, RouteFacts DEF Continue, SpeechInv, TypeInv, TablesOK
  <1>2. t.answer = "ok" /\ Continued /\ UNCHANGED <<session, api, rag, lost, crashes>>
    BY <1>1, ContinueShape DEF InRound, Row
  <1>3. /\ t.pc \in {"sync", "enqueue"} /\ Quiet(t.sub) /\ t.sub.states = sub.states
        /\ (t.sess.gen = session.gen => t.sess = session)
        /\ \A u \in Spoken(t.sess) : t.sub.states[u].key.text = t.sess.text
        /\ Quiet(sub)
    BY <1>1 DEF SpeechInv, QuietRound, QuietRows
  <1>4. t.sub \in Row /\ t.sess \in Session /\ Shows(t.sub, t.sess) /\ t.todo \subseteq Spoken(t.sess)
    BY <1>1, <1>3 DEF InRound
  <1>5. Follows(sub.states)
    BY <1>1, FollowsItself
  <1>6. \A w \in Workspaces : sub.synced # None => sub.synced <= rag[w].gen
    BY <1>1 DEF SpeechInv, Faithful, Told
  <1>7. CASE t.pc = "sync"
    <2> DEFINE b == Announced(t.sub, t.sess)
    <2>1. Admitting(sub, acked, b, t.sess, t.todo, t.left)
      BY <1>2, <1>7 DEF Continued, ContinueAfterSync
    <2>2. t.sess.gen \in (1..MaxGen) \cup {None}
      BY <1>4 DEF Session
    <2>3. b \in Row /\ b.synced = t.sess.gen /\ b.states = t.sub.states /\ b.enabled = t.sub.enabled
      BY <1>4, <2>2 DEF Announced, Row, Subscription
    <2>4. /\ b.asked = t.sub.asked /\ b.rev = t.sub.rev /\ b.deleted = t.sub.deleted
          /\ b.cleanup = t.sub.cleanup /\ b.pending = t.sub.pending /\ b.gen = t.sub.gen
      BY <1>4, <2>2 DEF Announced, Row, Subscription
    <2> HIDE DEF b
    <2>5. Quiet(b) /\ Shows(b, t.sess)
      BY <1>3, <1>4, <2>3, <2>4 DEF Quiet, Shows
    <2>6. \A w \in Workspaces : t.sess.gen <= rag[w].gen
      BY <1>2, <1>7 DEF SpeechInv, Faithful, Told
    <2>7. \A k \in acked : Served(k)
      BY DEF Served
    <2>8. t.todo \in SUBSET Spoken(t.sess) /\ \A x \in Spoken(t.sess) : b.states[x].key.text = t.sess.text
      BY <1>3, <1>4, <2>3
    <2> HIDE DEF t
    <2> QED
      BY <1>1, <1>2, <1>3, <1>4, <1>5, <1>6, <2>1, <2>3, <2>5, <2>6, <2>7, <2>8, AdmittingSpeech
  <1>8. CASE t.pc = "enqueue"
    <2> DEFINE a == acked \cup ({t.call.key} \cap receipts)
               d == t.todo \ {t.call.key.utt}
               l == t.left - 1
    <2>1. Admitting(sub, a, t.sub, t.sess, d, l)
      BY <1>2, <1>8 DEF Continued, ContinueAfterEnqueue
    <2>2. t.sub.synced = t.sess.gen /\ t.sub.synced # None
      BY <1>1, <1>4, <1>8, NoneIsNone DEF InRound, Session
    <2>3. \A w \in Workspaces : t.sess.gen <= rag[w].gen
      BY <1>1, <2>2 DEF SpeechInv, Faithful, Told
    <2>4. \A k \in a : Served(k)
      BY <1>2, <1>8 DEF Served
    <2>5. d \in SUBSET Spoken(t.sess)
      BY <1>4
    <2> HIDE DEF a, d, l, t
    <2> QED
      BY <1>1, <1>2, <1>3, <1>4, <1>5, <1>6, <2>1, <2>2, <2>3, <2>4, <2>5, AdmittingSpeech
  <1> QED
    BY <1>3, <1>7, <1>8

\* The coroutine of the round is gone, or it is in the same round.
SameRound ==
    \/ task' = NoTask
    \/ UNCHANGED task
    \/ /\ task # NoTask /\ task' # NoTask
       /\ task'.pc = task.pc /\ task'.sub = task.sub /\ task'.sess = task.sess /\ task'.call = task.call

\* A step that leaves the tables and the round and keeps the rows faithful.
LEMMA SameRoundSpeech ==
  ASSUME SpeechInv, TypeInv', UNCHANGED <<session, sub, receipts, acked>>, SameRound, QuietRows',
         \A c \in Calls' : c \in Calls \/ (c.kind = "grant" /\ c.rev = None),
         \A w \in Workspaces : Faithful(rag[w])'
  PROVE  SpeechInv'
  <1>1. QuietRound'
    BY DEF SpeechInv, QuietRound, SameRound, Quiet, Spoken
  <1>2. Chained'
    BY DEF SpeechInv, Chained
  <1>3. ASSUME NEW c \in Calls' PROVE Truthful(c)'
    <2>1. CASE c \in Calls
      <3>1. Truthful(c)
        BY <2>1, CallsAreTruthful
      <3> QED
        BY <3>1 DEF Truthful, Spoken
    <2>2. CASE c.kind = "grant" /\ c.rev = None
      BY <2>2 DEF Truthful
    <2> QED
      BY <2>1, <2>2
  <1> QED
    BY <1>1, <1>2, <1>3 DEF SpeechInv

\* A step that also leaves the service, and answers no call.
LEMMA UnansweredSpeech ==
  ASSUME SpeechInv, TypeInv', UNCHANGED <<session, sub, receipts, acked, rag>>, SameRound, QuietRows',
         UNCHANGED task \/ task'.answer # "ok",
         \A c \in Calls' : c \in Calls \/ (c.kind = "grant" /\ c.rev = None)
  PROVE  SpeechInv'
  <1>1. ASSUME NEW w \in Workspaces PROVE Faithful(rag[w])'
    <2>1. Faithful(rag[w])
      BY DEF SpeechInv
    <2>2. Told(rag[w])'
      BY <2>1 DEF Faithful, Told, SameRound, NoTask
    <2>3. Clean(rag[w])' /\ Known(rag[w])'
      BY <2>1 DEF Faithful, Clean, Known
    <2>4. ASSUME sub # None, NEW u \in Utts PROVE Standing(u, rag[w])'
      <3>1. Standing(u, rag[w])
        BY <2>1, <2>4 DEF Faithful
      <3>2. (Sent(u)' <=> Sent(u)) /\ (Kept(u)' <=> Kept(u)) /\ (Stands(rag[w], u)' <=> Stands(rag[w], u))
        BY DEF Sent, Kept, Stands
      <3>3. Served(sub.states[u].key)' => Served(sub.states[u].key)
        BY DEF Served, SameRound, NoTask
      <3>4. ASSUME Sent(u), NEW c \in Calls' PROVE Fenced(u, c, rag[w])'
        BY <3>1, <3>4 DEF Standing, Fenced
      <3> QED
        BY <3>1, <3>2, <3>3, <3>4 DEF Standing
    <2> QED
      BY <2>1, <2>2, <2>3, <2>4 DEF Faithful
  <1> QED
    BY <1>1, SameRoundSpeech

\* The service answers the round.
LEMMA ServeSpeech == ASSUME SpeechInv, OnlySpeech, TypeInv', Serve PROVE SpeechInv'
  <1>0. /\ task.pc # "idle" /\ task # NoTask /\ InRound(task)
        /\ UNCHANGED <<session, sub, receipts, acked, api, lost>>
    BY RoundFacts DEF Serve, Waits, db, SpeechInv, TypeInv
  <1>1. PICK answer \in {"ok", "failed"} : Handle(task.call, answer) /\ task' = [task EXCEPT !.answer = answer]
    BY DEF Serve
  <1>2. /\ task' # NoTask /\ task'.answer = answer
        /\ task'.pc = task.pc /\ task'.sub = task.sub /\ task'.sess = task.sess /\ task'.call = task.call
    <2>1. answer \in Answer
      BY DEF Answer
    <2> QED
      BY <1>0, <1>1, <2>1, AnsweredRound
  <1>3. task.call \in Calls /\ task.call \in Call /\ Truthful(task.call) /\ Calls' = Calls
    <2>1. task.call \in Calls /\ Calls' = Calls
      BY <1>0, <1>2 DEF Calls
    <2> QED
      BY <2>1, CallsAreTruthful
  <1>4. /\ task.pc = "sync" => task.call.kind = "sync" /\ task.call.gen = task.sess.gen
        /\ task.pc = "enqueue" => task.call.kind = "enqueue" /\ task.call.key = task.sub.states[task.call.key.utt].key
    BY <1>0 DEF InRound
  <1>5. \A w \in Workspaces : Faithful(rag[w])'
    BY <1>0, <1>1, <1>2, <1>3, <1>4, HandledSpeech
  <1>6. QuietRows'
    BY <1>0 DEF SpeechInv, QuietRows, Quiet
  <1> QED
    BY <1>0, <1>2, <1>3, <1>5, <1>6, SameRoundSpeech DEF SameRound

\* A call given up earlier arrives.
LEMMA LateSpeech == ASSUME SpeechInv, OnlySpeech, TypeInv', NEW c \in lost, Late(c) PROVE SpeechInv'
  <1>0. UNCHANGED <<session, sub, receipts, acked, task, api>> /\ lost' = lost \ {c}
    BY DEF Late, db
  <1>1. PICK answer \in {"ok", "failed"} : Handle(c, answer)
    BY DEF Late
  <1>2. c \in Calls /\ Calls' \subseteq Calls
    BY <1>0 DEF Calls
  <1>3. c \in Call /\ Truthful(c)
    BY <1>2, CallsAreTruthful
  <1>4. \A w \in Workspaces : Faithful(rag[w])'
    BY <1>0, <1>1, <1>2, <1>3, HandledSpeech
  <1>5. QuietRows'
    BY <1>0 DEF SpeechInv, QuietRows, Quiet
  <1> QED
    BY <1>0, <1>2, <1>4, <1>5, SameRoundSpeech DEF SameRound

\* The round or the route loses its answer, or the backend dies.
LEMMA LostSpeech ==
  ASSUME SpeechInv, TypeInv', Fail \/ Defer \/ FailApi \/ Crash PROVE SpeechInv'
  <1>0. /\ UNCHANGED <<session, sub, receipts, acked, rag>>
        /\ api' = NoApi \/ UNCHANGED api
    BY DEF Fail, Defer, FailApi, Crash, db
  <1>1. task.pc # "idle" => task # NoTask /\ InRound(task)
    BY RoundFacts DEF SpeechInv, TypeInv
  <1>2. SameRound /\ (UNCHANGED task \/ task'.answer # "ok")
    <2>1. CASE Fail
      <3>1. task.pc # "idle" /\ task' = [task EXCEPT !.answer = "failed"]
        BY <2>1 DEF Fail, Waits
      <3>2. "failed" \in Answer
        BY DEF Answer
      <3> QED
        BY <1>1, <3>1, <3>2, AnsweredRound DEF SameRound
    <2>2. CASE Defer \/ FailApi \/ Crash
      BY <2>2 DEF Defer, FailApi, Crash, db, SameRound, NoTask
    <2> QED
      BY <2>1, <2>2
  <1>3. QuietRows'
    BY <1>0 DEF SpeechInv, QuietRows, Quiet, NoApi
  <1>4. Waits => task.call \in Calls
    BY <1>1 DEF Waits, Calls
  <1>5. api.pc = "granting" => GrantCall.kind = "grant" /\ GrantCall.rev = None
    BY DEF SpeechInv, QuietRows, GrantCall
  <1>6. lost \subseteq Calls
    BY DEF Calls
  <1>7. ASSUME NEW c \in lost' PROVE c \in Calls \/ (c.kind = "grant" /\ c.rev = None)
    BY <1>4, <1>5, <1>6 DEF Fail, Defer, FailApi, Crash, GiveUp
  <1>8. ASSUME NEW c \in Calls' PROVE c \in Calls \/ (c.kind = "grant" /\ c.rev = None)
    <2>1. c \in lost' \/ (task # NoTask /\ c = task.call)
      BY <1>2 DEF Calls, SameRound
    <2> QED
      BY <1>7, <2>1 DEF Calls
  <1> QED
    BY <1>0, <1>2, <1>3, <1>8, UnansweredSpeech

\* The route is asked for the grant, and waits for the lock.
LEMMA AskSpeech ==
  ASSUME SpeechInv, OnlySpeech, TypeInv',
         (\E on \in BOOLEAN, w \in Workspaces, rev \in Revs \cup {None} : Ask(on, w, rev)) \/ Register
  PROVE  SpeechInv'
  <1>0. UNCHANGED <<session, sub, receipts, acked, rag, task, lost>>
    BY DEF Ask, Register, db
  <1>1. Calls' = Calls
    BY <1>0 DEF Calls
  <1>2. QuietRows'
    <2>1. ASSUME NEW on \in BOOLEAN, NEW w \in Workspaces, NEW rev \in Revs \cup {None}, Ask(on, w, rev)
          PROVE  QuietRows'
      <3>1. on /\ rev = None
        <4>1. "disable" \notin Ops /\ "pin" \notin Ops
          BY DEF OnlySpeech
        <4> QED
          BY <2>1, <4>1 DEF Ask
      <3>2. api'.pc = "waiting" /\ api'.on /\ api'.asked = None /\ api'.answer = "none"
        BY <2>1, <3>1 DEF Ask, NoApi
      <3> QED
        BY <1>0, <3>2 DEF SpeechInv, QuietRows, Quiet
    <2>2. CASE Register
      <3>1. InRoute(api) /\ api.pc = "waiting"
        BY <2>2, RouteFacts DEF Register, SpeechInv, TypeInv
      <3>2. api' = [api EXCEPT !.pc = "granting", !.prev = sub]
        BY <2>2 DEF Register
      <3>3. /\ api'.pc = "granting" /\ api'.prev = sub /\ api'.on = api.on /\ api'.asked = api.asked
            /\ api'.answer = "none"
        BY <3>1, <3>2 DEF InRoute, Api
      <3> QED
        BY <1>0, <3>1, <3>3 DEF SpeechInv, QuietRows, Quiet
    <2> QED
      BY <2>1, <2>2
  <1> QED
    BY <1>0, <1>1, <1>2, UnansweredSpeech DEF SameRound

\* The service answers the route.
LEMMA ServeApiSpeech == ASSUME SpeechInv, OnlySpeech, TypeInv', ServeApi PROVE SpeechInv'
  <1>0. /\ UNCHANGED <<session, sub, receipts, acked, task, lost>>
        /\ api.pc = "granting" /\ api.on /\ api.asked = None /\ InRoute(api) /\ api.prev = sub
    BY RouteFacts DEF ServeApi, db, SpeechInv, TypeInv, QuietRows
  <1>1. /\ GrantCall \in Call /\ GrantCall.kind = "grant" /\ GrantCall.rev = None
        /\ GrantCall.ws = api.ws /\ Truthful(GrantCall)
    <2>1. GrantCall \in Call
      BY <1>0, GrantIsCall DEF SpeechInv, TypeInv
    <2> QED
      BY <1>0, <2>1 DEF GrantCall, Truthful
  <1>2. PICK answer : Handle(GrantCall, answer)
    BY DEF ServeApi
  <1>3. Calls' = Calls
    BY <1>0 DEF Calls
  <1>4. \A w \in Workspaces : Faithful(rag[w])'
    BY <1>0, <1>1, <1>2, <1>3, HandledSpeech
  <1>5. QuietRows'
    <2>1. CASE api' = NoApi
      BY <1>0, <2>1 DEF SpeechInv, QuietRows, Quiet, NoApi
    <2>2. CASE Handle(GrantCall, "ok") /\ api' = [api EXCEPT !.answer = "ok", !.rev = rag'[api.ws].rev]
      <3>1. rag'[api.ws].rev = 1
        <4>1. rag[api.ws] \in RagRow /\ Faithful(rag[api.ws])
          BY <1>0 DEF SpeechInv, TypeInv, TablesOK, InRoute
        <4>2. rag'[api.ws] \in Results(rag[api.ws], GrantCall)
          BY <1>1, <2>2, HandleShape DEF SpeechInv, TypeInv, TablesOK
        <4>3. rag'[api.ws] = Granted(rag[api.ws], 1)
          BY <1>1, <4>1, <4>2 DEF Results, Faithful
        <4>4. 1 \in Revs
          BY ConstantsAssumption DEF Revs
        <4> QED
          BY <4>1, <4>3, <4>4, GrantedRow
      <3> DEFINE v == rag'[api.ws].rev
      <3>2. api' = [api EXCEPT !.answer = "ok", !.rev = v]
        BY <2>2
      <3>3. v = 1
        BY <3>1
      <3> HIDE DEF v
      <3>4. /\ api'.pc = api.pc /\ api'.on = api.on /\ api'.prev = api.prev /\ api'.asked = api.asked
            /\ api'.rev = 1
        BY <1>0, <3>2, <3>3 DEF InRoute, Api
      <3> QED
        BY <1>0, <3>4 DEF SpeechInv, QuietRows, Quiet
    <2> QED
      BY <2>1, <2>2 DEF ServeApi
  <1> QED
    BY <1>0, <1>3, <1>4, <1>5, SameRoundSpeech DEF SameRound

\* The new row of the subscription is the one there is, announced again.
LEMMA SubscribeSpeech == ASSUME SpeechInv, OnlySpeech, TypeInv', Subscribe PROVE SpeechInv'
  <1>0. /\ UNCHANGED <<session, receipts, acked, task, rag, lost>> /\ api' = NoApi
        /\ task = NoTask /\ api.ws \in Workspaces /\ api.asked = None /\ api.prev = sub /\ api.rev = 1
        /\ session.exists
        /\ sub' = Subscribed(sub, api.ws, None, 1)
    BY RouteFacts DEF Subscribe, SpeechInv, TypeInv, QuietRows, InRoute
  <1>1. sub \in Row \cup {None} /\ sub' \in Row \cup {None} /\ (sub # None => Quiet(sub) /\ sub \in Row)
    BY DEF SpeechInv, TypeInv, TablesOK, QuietRows
  <1>2. /\ sub'.asked = None /\ sub'.rev = 1 /\ sub'.enabled /\ ~sub'.deleted /\ ~sub'.cleanup
        /\ sub'.pending = NewPending(sub, api.ws) /\ sub'.gen = NextGen(sub, api.ws, None) /\ sub'.synced = None
        /\ sub'.states = IF sub = None THEN [u \in Utts |-> None] ELSE sub.states
    BY <1>0 DEF Subscribed
  <1>3. sub # None => sub.ws = api.ws /\ sub.asked = None /\ sub.enabled /\ sub.pending = {} /\ sub.gen = 1
    BY <1>0, <1>1 DEF OnlySpeech, Quiet, Row, Subscription
  <1>4. NewPending(sub, api.ws) = {} /\ NextGen(sub, api.ws, None) = 1
    BY <1>3 DEF NewPending, NextGen, Same
  <1>5. sub' # None => Quiet(sub)'
    BY <1>1, <1>2, <1>4 DEF Quiet
  <1>6. QuietRows'
    BY <1>0, <1>5 DEF QuietRows, NoApi
  <1>7. QuietRound' /\ Calls' = lost /\ lost \subseteq Calls /\ task' = NoTask
    BY <1>0 DEF QuietRound, Calls
  <1>8. sub = None => receipts = {}
    BY DEF SpeechInv, Chained
  <1>9. Chained'
    <2>1. CASE sub = None
      BY <1>0, <1>8, <2>1 DEF Chained
    <2>2. CASE sub # None
      <3>1. InRoute(api) /\ api.pc = "granting" /\ session \in Session /\ 1 \in Revs
        BY RouteFacts, ConstantsAssumption DEF Subscribe, SpeechInv, TypeInv, TablesOK, Revs
      <3>2. sub' \in Row
        BY <1>0, <2>2, <3>1, SubscribedRow DEF InRoute
      <3>3. sub'.states = sub.states /\ sub' # None
        BY <1>2, <2>2, <3>2, NoneIsNone
      <3> QED
        BY <1>0, <2>2, <3>3 DEF SpeechInv, Chained
    <2> QED
      BY <2>1, <2>2
  <1>10. ASSUME NEW c \in lost PROVE Truthful(c)'
    <2>1. Truthful(c)
      BY <1>7, CallsAreTruthful
    <2> QED
      BY <1>0, <1>2, <1>8, <2>1 DEF Truthful
  <1>11. ASSUME NEW w \in Workspaces PROVE Faithful(rag[w])'
    <2>1. Faithful(rag[w])
      BY DEF SpeechInv
    <2>2. Told(rag[w])'
      BY <1>0, <1>2, <2>1 DEF Faithful, Told, NoTask
    <2>3. Clean(rag[w])' /\ Known(rag[w])'
      BY <1>0, <2>1 DEF Faithful, Clean, Known
    <2>4. ASSUME NEW u \in Utts PROVE Standing(u, rag[w])'
      <3>1. CASE sub = None
        BY <1>2, <3>1 DEF Standing, Kept, Sent
      <3>2. CASE sub # None
        <4>1. Standing(u, rag[w]) /\ sub'.states = sub.states
          BY <1>2, <2>1, <3>2 DEF Faithful
        <4>2. (Sent(u)' <=> Sent(u)) /\ (Kept(u)' <=> Kept(u)) /\ (Stands(rag[w], u)' <=> Stands(rag[w], u))
          BY <1>0, <4>1 DEF Sent, Kept, Stands
        <4>3. Served(sub.states[u].key)' <=> Served(sub.states[u].key)
          BY <1>0, <4>1 DEF Served
        <4>4. ASSUME Sent(u), NEW c \in lost PROVE Fenced(u, c, rag[w])'
          BY <1>0, <1>7, <4>1, <4>4 DEF Standing, Fenced
        <4> QED
          BY <1>0, <1>7, <4>1, <4>2, <4>3, <4>4 DEF Standing
      <3> QED
        BY <3>1, <3>2
    <2> QED
      BY <1>0, <2>1, <2>2, <2>3, <2>4 DEF Faithful
  <1> QED
    BY <1>6, <1>7, <1>9, <1>10, <1>11 DEF SpeechInv

\* Nothing has been said, sent or granted.
LEMMA InitSpeech == Init => SpeechInv
  <1> SUFFICES ASSUME Init PROVE SpeechInv
    OBVIOUS
  <1>1. /\ session.exists /\ session.gen = 1 /\ sub = None /\ receipts = {} /\ acked = {} /\ task = NoTask
        /\ api = NoApi /\ lost = {}
    BY DEF Init
  <1>2. TypeInv /\ QuietRows /\ QuietRound /\ Chained /\ Calls = {}
    BY <1>1, InitTypes DEF QuietRows, QuietRound, Chained, Calls, NoApi
  <1>3. ASSUME NEW w \in Workspaces PROVE Faithful(rag[w])
    <2>1. rag[w] = NoRows
      BY DEF Init
    <2>2. NoRows.active = 1 /\ NoRows.grant = "none" /\ NoRows.gen = 0 /\ NoRows.dead = {}
          /\ \A u \in Utts : NoRows.live[u] = None
      BY DEF NoRows
    <2>3. Told(NoRows) /\ Clean(NoRows) /\ Known(NoRows)
      BY <1>1, <2>2 DEF Told, Clean, Known, NoTask
    <2> QED
      BY <1>1, <2>1, <2>2, <2>3 DEF Faithful
  <1> QED
    BY <1>2, <1>3 DEF SpeechInv

\* Every step of the users, the backend, the service and the machine.
LEMMA StepSpeech == ASSUME SpeechInv, OnlySpeech, [Next]_vars PROVE SpeechInv'
  <1>0. TypeInv'
    BY StepTypes DEF SpeechInv
  <1>1. CASE UNCHANGED vars
    <2>1. UNCHANGED <<session, sub, receipts, acked, task, api, rag, lost>>
      BY <1>1 DEF vars
    <2>2. Calls' = Calls /\ QuietRows'
      BY <2>1 DEF Calls, SpeechInv, QuietRows, Quiet
    <2> QED
      BY <1>0, <2>1, <2>2, UnansweredSpeech DEF SameRound
  <1>2. CASE UserStep
    <2>1. ~Delete /\ \A w \in Workspaces : ~Activate(w)
      BY DEF OnlySpeech, Delete, Activate
    <2> QED
      BY <1>0, <1>2, <2>1, SaveSpeech, AskSpeech DEF UserStep
  <1>3. CASE ApiStep
    <2>1. ~Disable
      BY DEF SpeechInv, QuietRows, Disable
    <2> QED
      BY <1>0, <1>3, <2>1, AskSpeech, SubscribeSpeech DEF ApiStep
  <1>4. CASE TaskStep
    BY <1>0, <1>4, StartSpeech, ContinueSpeech, LostSpeech DEF TaskStep
  <1>5. CASE ServeApi \/ FailApi \/ Serve \/ Fail \/ Crash \/ \E c \in lost : Late(c)
    BY <1>0, <1>5, ServeApiSpeech, ServeSpeech, LateSpeech, LostSpeech
  <1> QED
    BY <1>1, <1>2, <1>3, <1>4, <1>5 DEF Next

\* What the invariant says of the receipts, the announced snapshots and the keys
\* of texts that return.
LEMMA SpeechIsKept ==
  ASSUME SpeechInv PROVE ReceiptHasRow /\ AnnouncedIsClean /\ ReturnsUnderNewKey
  <1>0. TypeInv
    BY DEF SpeechInv
  <1>1. ReceiptHasRow
    <2> SUFFICES ASSUME Active, NEW u \in Utts, Kept(u), sub.states[u].key \in acked
                 PROVE  Stands(rag[sub.ws], u)
      BY DEF ReceiptHasRow, Stands, Kept
    <2>1. sub # None /\ sub.ws \in Workspaces /\ acked \subseteq receipts
      BY <1>0 DEF Active, TypeInv, TablesOK, Row, Subscription
    <2>2. Standing(u, rag[sub.ws])
      BY <2>1 DEF SpeechInv, Faithful
    <2> QED
      BY <2>1, <2>2 DEF Standing, Sent, Served
  <1>2. AnnouncedIsClean
    <2> SUFFICES ASSUME Active, sub.synced = session.gen, NEW u \in Utts, rag[sub.ws].live[u] # None
                 PROVE  session.text[u] # None
      BY DEF AnnouncedIsClean
    <2>1. sub # None /\ sub \in Row /\ session \in Session /\ sub.ws \in Workspaces
      BY <1>0 DEF Active, TypeInv, TablesOK, Row, Subscription
    <2>2. session.gen \in Nat /\ session.gen # None
      BY <2>1, NoneIsNone DEF Session
    <2>3. Told(rag[sub.ws]) /\ Clean(rag[sub.ws]) /\ rag[sub.ws] \in RagRow
      BY <1>0, <2>1 DEF SpeechInv, Faithful, TypeInv, TablesOK
    <2>4. rag[sub.ws].gen = session.gen
      BY <2>1, <2>2, <2>3 DEF Told, RagRow
    <2> QED
      BY <2>3, <2>4 DEF Clean
  <1>3. ReturnsUnderNewKey
    <2> SUFFICES ASSUME task.pc = "enqueue", task.call.gen >= rag[task.call.ws].gen
                 PROVE  task.call.key \notin rag[task.call.ws].dead
      BY DEF ReturnsUnderNewKey
    <2> DEFINE c == task.call
               r == rag[c.ws]
               u == c.key.utt
    <2>1. task # NoTask /\ InRound(task) /\ c.kind = "enqueue" /\ sub # None
          /\ task.sub.synced = task.sess.gen /\ c.gen = task.sess.gen /\ task.sess \in Session
          /\ c.key = task.sub.states[u].key /\ Shows(task.sub, task.sess) /\ u \in Spoken(task.sess)
      BY <1>0, RoundFacts DEF TypeInv, InRound
    <2>2. c \in Call /\ Truthful(c) /\ c.key \in Key /\ u \in Utts /\ c.ws \in Workspaces
      <3>1. c \in Calls
        BY <2>1 DEF Calls
      <3> QED
        BY <2>1, <3>1, CallsAreTruthful, CallFields
    <2>3. task.sub.states = sub.states
      BY <2>1 DEF SpeechInv, QuietRound
    <2>4. Kept(u) /\ sub.states[u].key = c.key
      BY <2>1, <2>2, <2>3 DEF Kept, Shows
    <2>5. Standing(u, r)
      BY <2>1, <2>2 DEF SpeechInv, Faithful
    <2> QED
      BY <2>4, <2>5 DEF Standing
  <1> QED
    BY <1>1, <1>2, <1>3

\* In one workspace that is never switched off or pinned, however often the
\* transcript is rewritten, withdrawn and put back, and whichever calls are lost,
\* late or refused and whenever the backend dies: an acknowledged delivery has its
\* row in the service, an announced snapshot leaves no row of a withdrawn
\* utterance, and a text that returns is offered under a key that is not buried.
THEOREM SpeechIsSafe ==
  OnlySpeech => (Spec => [](ReceiptHasRow /\ AnnouncedIsClean /\ ReturnsUnderNewKey))
  <1> SUFFICES ASSUME OnlySpeech PROVE Spec => [](ReceiptHasRow /\ AnnouncedIsClean /\ ReturnsUnderNewKey)
    OBVIOUS
  <1>1. Spec => []SpeechInv
    <2>1. SpeechInv /\ [Next]_vars => SpeechInv'
      BY StepSpeech
    <2> QED
      BY <2>1, InitSpeech, PTL DEF Spec
  <1> QED
    BY <1>1, SpeechIsKept, PTL

-----------------------------------------------------------------------------
(* Tombstones                                                              *)

\* Only a deletion asks for a cleanup, and only of a session that is gone.
Buries(b, s) == (b.cleanup => b.deleted) /\ (b.deleted => ~s.exists)
TombRound == /\ Buries(task.sub, task.sess) /\ Buries(task.sub, session)
             /\ task.pc = "cancel" => ~task.sess.exists
TombInv ==
    /\ TypeInv
    /\ sub # None => Buries(sub, session)
    /\ task # NoTask => TombRound
    /\ api.pc # "idle" => api.on

\* What a round leaves of a row that is deleted or not.
TombOutcome(deleted) ==
    /\ sub' # None /\ (deleted => sub'.deleted) /\ Buries(sub', session')
    /\ task' # NoTask => TombRound'

\* The next delivery of a round overwrites no tombstone.
LEMMA AdmittingTomb ==
  ASSUME UNCHANGED session, NEW row \in Row, NEW a, NEW b \in Row, NEW s, NEW todo, NEW left,
         Buries(row, session), Buries(b, s), Buries(b, session), Admitting(row, a, b, s, todo, left)
  PROVE  TombOutcome(row.deleted)
  <1>1. b # None /\ row # None
    BY NoneIsNone
  <1>2. CASE task' = NoTask
    BY <1>1, <1>2 DEF Admitting, Ending, TombOutcome, NoTask, Round, Buries
  <1>3. ASSUME NEW u \in todo, sub' = row,
               task' = Round("enqueue", b, s, todo, left, EnqueueCall(b, s, u), "none")
        PROVE  TombOutcome(row.deleted)
    <2>1. task'.pc = "enqueue" /\ task'.sub = b /\ task'.sess = s
      BY <1>3 DEF Round
    <2> QED
      BY <1>1, <1>3, <2>1 DEF TombOutcome, TombRound, Buries
  <1> QED
    BY <1>2, <1>3 DEF Admitting, Ending

\* Whatever is due keeps a tombstone.
LEMMA RoutingTomb ==
  ASSUME UNCHANGED session, NEW b \in Row, NEW s \in Session, NEW todo, NEW left,
         Buries(b, s), Buries(b, session), Routing(b, s, todo, left)
  PROVE  TombOutcome(b.deleted)
  <1>0. b # None
    BY NoneIsNone
  <1>1. ASSUME NEW w, NEW pc, NEW c, pc = "cancel" => ~s.exists,
               Calling(b, acked, pc, b, s, todo, left, c)
        PROVE  TombOutcome(b.deleted)
    <2>1. sub' = b /\ task'.pc = pc /\ task'.sub = b /\ task'.sess = s
      BY <1>1 DEF Calling, Round
    <2> QED
      BY <1>0, <1>1, <2>1 DEF TombOutcome, TombRound, Buries
  <1>2. CASE Ending(b, acked)
    BY <1>0, <1>2 DEF Ending, TombOutcome, Buries
  <1>3. CASE Preparing(Prepared(b, s), s, left)
    <2> DEFINE p == Prepared(b, s)
    <2>1. p \in Row /\ p.deleted = b.deleted /\ p.cleanup = b.cleanup /\ p # None
      BY PreparedRow, NoneIsNone
    <2>2. Preparing(p, s, left)
      BY <1>3
    <2> HIDE DEF p
    <2>3. Buries(p, s) /\ Buries(p, session)
      BY <2>1 DEF Buries
    <2>4. CASE Admitting(p, acked, p, s, Missing(p, s), left)
      <3>1. TombOutcome(p.deleted)
        BY <2>1, <2>3, <2>4, AdmittingTomb
      <3> QED
        BY <2>1, <3>1
    <2>5. CASE Calling(p, acked, "sync", p, s, Missing(p, s), left, SyncCall(p, s))
      <3>1. sub' = p /\ task'.pc = "sync" /\ task'.sub = p /\ task'.sess = s
        BY <2>5 DEF Calling, Round
      <3> QED
        BY <2>1, <2>3, <3>1 DEF TombOutcome, TombRound, Buries
    <2> QED
      BY <2>2, <2>4, <2>5 DEF Preparing
  <1>4. (b.pending = {} /\ (~s.exists \/ b.cleanup)) => ~s.exists
    BY DEF Buries
  <1> QED
    BY <1>1, <1>2, <1>3, <1>4 DEF Routing

\* No step of a round overwrites a tombstone.
LEMMA RoundTomb ==
  ASSUME TombInv, TypeInv', Start \/ Continue PROVE TombInv' /\ KeepsTombstone
  <1>0. sub \in Row \cup {None} /\ session \in Session /\ None \notin Row /\ UNCHANGED <<session, api>>
    BY NoneIsNone DEF TombInv, TypeInv, TablesOK, Start, Continue
  <1>1. ASSUME sub # None, TombOutcome(sub.deleted) PROVE TombInv' /\ KeepsTombstone
    BY <1>0, <1>1 DEF TombOutcome, TombInv, KeepsTombstone
  <1>2. CASE Start
    <2>0. sub \in Subscription \cup {None}
      BY <1>0 DEF Row
    <2>1. sub \in Row /\ sub # None /\ Routing(sub, session, {}, Batch)
      BY <1>0, <1>2, <2>0, StartShape, NoneIsNone
    <2>2. TombOutcome(sub.deleted)
      BY <1>0, <2>1, RoutingTomb DEF TombInv
    <2> QED
      BY <1>0, <1>1, <2>1, <2>2
  <1>3. CASE Continue
    <2> DEFINE t == task
    <2>1. t.pc # "idle" /\ t # NoTask /\ InRound(t) /\ sub \in Row /\ sub # None
      BY <1>0, <1>3, RoundFacts DEF Continue, TombInv, TypeInv
    <2>2. Continued
      BY <1>3, <2>1, ContinueShape DEF InRound, Row
    <2>3. /\ t.sub \in Row /\ t.sess \in Session
          /\ Buries(t.sub, t.sess) /\ Buries(t.sub, session) /\ (t.pc = "cancel" => ~t.sess.exists)
          /\ Buries(sub, session)
      BY <2>1 DEF TombInv, TombRound, InRound
    <2>4. CASE t.pc = "cleanup" /\ ContinueAfterCleanup
      <3> DEFINE b == Relieved(t.sub, t.call.ws)
      <3>1. CASE Ending(sub, acked)
        <4>1. TombOutcome(sub.deleted)
          BY <1>0, <2>1, <2>3, <3>1 DEF Ending, TombOutcome
        <4> QED
          BY <1>1, <2>1, <4>1
      <3>2. CASE (sub.deleted => t.sub.deleted) /\ Routing(b, t.sess, t.todo, t.left)
        <4>1. b \in Row /\ b.deleted = t.sub.deleted /\ b.cleanup = t.sub.cleanup
          BY <2>3 DEF Relieved, Row, Subscription
        <4> HIDE DEF b
        <4>2. TombOutcome(b.deleted)
          BY <1>0, <2>3, <3>2, <4>1, RoutingTomb DEF Buries
        <4>3. TombOutcome(sub.deleted)
          BY <3>2, <4>1, <4>2 DEF TombOutcome
        <4> QED
          BY <1>1, <2>1, <4>3
      <3> QED
        BY <2>1, <2>4, <3>1, <3>2 DEF ContinueAfterCleanup
    <2>5. CASE t.pc = "cancel" /\ ContinueAfterCancel
      <3>1. sub' = None /\ task' = NoTask
        BY <2>3, <2>5 DEF ContinueAfterCancel
      <3> QED
        BY <1>0, <3>1 DEF TombInv, KeepsTombstone
    <2>6. CASE t.pc = "sync" /\ ContinueAfterSync
      <3> DEFINE b == Announced(t.sub, t.sess)
      <3>1. b \in Row /\ b.deleted = t.sub.deleted /\ b.cleanup = t.sub.cleanup
        BY <2>3 DEF Announced, Row, Subscription, Session
      <3>2. Admitting(sub, acked, b, t.sess, t.todo, t.left)
        BY <2>6 DEF ContinueAfterSync
      <3> HIDE DEF b
      <3>3. TombOutcome(sub.deleted)
        BY <1>0, <2>1, <2>3, <3>1, <3>2, AdmittingTomb DEF Buries
      <3> QED
        BY <1>1, <2>1, <3>3
    <2>7. CASE t.pc = "enqueue" /\ ContinueAfterEnqueue
      <3>1. \E a, d, l : Admitting(sub, a, t.sub, t.sess, d, l)
        BY <2>7 DEF ContinueAfterEnqueue
      <3>2. TombOutcome(sub.deleted)
        BY <1>0, <2>1, <2>3, <3>1, AdmittingTomb
      <3> QED
        BY <1>1, <2>1, <3>2
    <2> QED
      BY <2>2, <2>4, <2>5, <2>6, <2>7 DEF Continued
  <1> QED
    BY <1>2, <1>3

\* A tombstone is made by a deletion, or by a grant that comes after it.
LEMMA StepTomb ==
  ASSUME TombInv, "disable" \notin Ops, [Next]_vars PROVE TombInv' /\ [KeepsTombstone]_vars
  <1>0. TypeInv'
    BY StepTypes DEF TombInv
  <1>1. ASSUME UNCHANGED <<session, sub>>, api' = NoApi \/ api'.on \/ UNCHANGED api,
               \/ task' = NoTask \/ UNCHANGED task
               \/ task # NoTask /\ task'.pc = task.pc /\ task'.sub = task.sub /\ task'.sess = task.sess
        PROVE  TombInv' /\ KeepsTombstone
    BY <1>0, <1>1 DEF TombInv, TombRound, KeepsTombstone, NoApi
  <1>2. CASE UNCHANGED vars
    BY <1>1, <1>2 DEF vars
  <1>3. CASE UserStep
    <2>1. ASSUME NEW text, Save(text) PROVE TombInv' /\ KeepsTombstone
      <3>1. session \in Session /\ session' = [session EXCEPT !.gen = @ + 1, !.text = text]
            /\ UNCHANGED <<sub, task, api>>
        BY <2>1 DEF Save, db, TombInv, TypeInv, TablesOK
      <3>2. session'.exists = session.exists
        BY <3>1 DEF Session
      <3> QED
        BY <1>0, <3>1, <3>2 DEF TombInv, TombRound, Buries, KeepsTombstone
    <2>2. CASE Delete
      <3>1. /\ session \in Session /\ UNCHANGED <<task, api>>
            /\ session' = [session EXCEPT !.exists = FALSE, !.text = [u \in Utts |-> None]]
        BY <2>2 DEF Delete, TombInv, TypeInv, TablesOK
      <3>2. ~session'.exists
        BY <3>1 DEF Session
      <3>3. sub' # None => sub'.deleted
        <4>1. sub # None => sub \in Row
          BY DEF TombInv, TypeInv, TablesOK
        <4> QED
          BY <2>2, <4>1, DeletedRow DEF Delete
      <3> QED
        BY <1>0, <3>1, <3>2, <3>3 DEF TombInv, TombRound, Buries, KeepsTombstone
    <2>3. ASSUME NEW on \in BOOLEAN, NEW w \in Workspaces, NEW rev \in Revs \cup {None}, Ask(on, w, rev)
          PROVE  TombInv' /\ KeepsTombstone
      <3>1. on /\ UNCHANGED <<session, sub, task>>
        BY <2>3 DEF Ask, db
      <3>2. api'.on
        BY <2>3, <3>1 DEF Ask, NoApi
      <3> QED
        BY <1>1, <3>1, <3>2
    <2>4. ASSUME NEW w, Activate(w) PROVE TombInv' /\ KeepsTombstone
      BY <1>1, <2>4 DEF Activate, db
    <2> QED
      BY <1>3, <2>1, <2>2, <2>3, <2>4 DEF UserStep
  <1>4. CASE ApiStep
    <2>1. CASE Disable
      BY <2>1 DEF Disable, TombInv
    <2>2. CASE Register
      <3>1. InRoute(api) /\ api.on /\ api' = [api EXCEPT !.pc = "granting", !.prev = sub]
            /\ UNCHANGED <<session, sub, task>>
        BY <2>2, RouteFacts DEF Register, db, TombInv, TypeInv
      <3>2. api'.on
        BY <3>1 DEF InRoute, Api
      <3> QED
        BY <1>1, <3>1, <3>2
    <2>3. CASE Subscribe
      <3>1. /\ task = NoTask /\ api' = NoApi /\ UNCHANGED <<session, task>>
            /\ sub' = Subscribed(api.prev, api.ws, api.asked, api.rev)
        BY <2>3, RouteFacts DEF Subscribe, TombInv, TypeInv
      <3>2. sub'.deleted = ~session.exists /\ sub'.cleanup = ~session.exists
        BY <3>1 DEF Subscribed
      <3>3. Buries(sub', session') /\ ((sub # None /\ sub.deleted) => sub'.deleted)
        BY <3>1, <3>2 DEF Buries, TombInv
      <3> QED
        BY <1>0, <3>1, <3>3 DEF TombInv, KeepsTombstone, NoApi
    <2> QED
      BY <1>4, <2>1, <2>2, <2>3 DEF ApiStep
  <1>5. CASE ServeApi \/ FailApi
    <2>1. UNCHANGED <<session, sub, task>>
      BY <1>5 DEF ServeApi, FailApi, db
    <2>2. api' = NoApi \/ api'.on
      <3>1. InRoute(api) /\ api.on
        BY <1>5, RouteFacts DEF ServeApi, FailApi, TombInv, TypeInv
      <3>2. api' = NoApi \/ \E v : api' = [api EXCEPT !.answer = "ok", !.rev = v]
        BY <1>5 DEF ServeApi, FailApi
      <3> QED
        BY <3>1, <3>2 DEF InRoute, Api
    <2> QED
      BY <1>1, <2>1, <2>2
  <1>6. CASE Start \/ Continue
    BY <1>0, <1>6, RoundTomb
  <1>7. CASE Serve \/ Fail
    <2>1. InRound(task) /\ UNCHANGED <<session, sub, api>>
      BY <1>7, RoundFacts DEF Serve, Fail, Waits, db, TombInv, TypeInv
    <2>2. \E answer \in Answer : task' = [task EXCEPT !.answer = answer]
      BY <1>7 DEF Serve, Fail, Answer
    <2>3. task # NoTask /\ task'.pc = task.pc /\ task'.sub = task.sub /\ task'.sess = task.sess
      BY <2>1, <2>2, AnsweredRound
    <2> QED
      BY <1>1, <2>1, <2>3
  <1>8. CASE Defer \/ Crash \/ \E c \in lost : Late(c)
    BY <1>1, <1>8 DEF Defer, Crash, Late, db
  <1> QED
    BY <1>2, <1>3, <1>4, <1>5, <1>6, <1>7, <1>8 DEF Next, TaskStep

\* There is no tombstone to begin with.
LEMMA InitTomb == Init => TombInv
  BY InitTypes DEF Init, TombInv, NoApi

\* Where a subscription is never switched off, a tombstone stays one until the
\* deletion is confirmed, whatever is under way when the session is deleted.
THEOREM TombstonesStay == "disable" \notin Ops => (Spec => TombstoneKept)
  <1> SUFFICES ASSUME "disable" \notin Ops PROVE Spec => TombstoneKept
    OBVIOUS
  <1>1. TombInv /\ [Next]_vars => TombInv' /\ [KeepsTombstone]_vars
    BY StepTomb
  <1> QED
    BY <1>1, InitTomb, PTL DEF Spec, TombstoneKept

-----------------------------------------------------------------------------
(* Switching between workspaces and revisions                              *)

\* No call is carried out late and the backend stays up; nobody deletes.
OnlySwitch == MaxLost = 0 /\ MaxCrashes = 0 /\ "delete" \notin Ops

Answered == api.answer = "ok"
Plain(b) == ~b.deleted /\ b.ws \notin b.pending /\ (b.cleanup => ~b.enabled)
SamePlace(b, c) ==
    /\ b.ws = c.ws /\ b.asked = c.asked /\ b.rev = c.rev /\ b.gen = c.gen
    /\ b.enabled = c.enabled /\ b.deleted = c.deleted
Agrees(b, c) == SamePlace(b, c) /\ b.states = c.states /\ b.pending = c.pending /\ b.cleanup = c.cleanup
SignedBy(b, s) == \A u \in Spoken(s) : b.states[u].key.gen = b.gen /\ b.states[u].key.rev = b.rev

\* A round works on the row as it is; a cancellation is one of a row that is off.
SwitchRows ==
    /\ session.exists /\ lost = {}
    /\ sub # None => Plain(sub)
    /\ task # NoTask => /\ task.sess.exists /\ Agrees(sub, task.sub)
                        /\ task.pc = "cancel" => ~sub.enabled
                        /\ task.pc \in {"sync", "enqueue"} => SignedBy(task.sub, task.sess)
                        /\ task.pc = "enqueue" => task.call.key \in receipts
    /\ api.pc = "granting" => api.prev = sub

\* A revision that was resolved has been active, a pinned one is the one pinned.
Resolved(asked, rev, active) == (asked = None => rev <= active) /\ (asked # None => rev = asked)

\* Whatever is granted is recorded, or about to be; what is recorded stands.
SwitchGrants ==
    /\ \A w \in Workspaces : rag[w].grant = "on" =>
         \/ sub # None /\ (w = sub.ws \/ w \in sub.pending)
         \/ Answered /\ w = api.ws
    /\ (task.pc = "cleanup" /\ task.answer = "ok") => rag[task.call.ws].grant # "on"
    /\ sub # None => /\ Resolved(sub.asked, sub.rev, rag[sub.ws].active)
                     /\ (sub.enabled /\ ~Answered) => rag[sub.ws].grant = "on" /\ rag[sub.ws].rev = sub.rev
    /\ Answered => /\ rag[api.ws].grant = "on" /\ rag[api.ws].rev = api.rev
                   /\ Resolved(api.asked, api.rev, rag[api.ws].active)
                   /\ Same(sub, api.ws, api.asked) => sub.rev <= api.rev

\* What has been delivered under the present grant, or under the one about to be
\* recorded, has its row.
Upheld(u) ==
    LET k == sub.states[u].key
    IN  (Kept(u) /\ Served(k)) =>
          /\ (~Answered /\ sub.enabled /\ k.gen = sub.gen /\ k.rev = sub.rev) => Stands(rag[sub.ws], u)
          /\ (Answered /\ k.gen = NextGen(sub, api.ws, api.asked) /\ k.rev = api.rev) => Stands(rag[api.ws], u)
SwitchKeys ==
    /\ Chained
    /\ sub # None => /\ \A k \in receipts : k.gen <= sub.gen /\ (k.gen = sub.gen => k.rev <= sub.rev)
                     /\ \A u \in Utts : Upheld(u)

SwitchInv == TypeInv /\ SwitchRows /\ SwitchGrants /\ SwitchKeys

\* No call is remembered where none may be.
LEMMA NothingLost ==
  ASSUME OnlySwitch, lost = {}, NEW c, UNCHANGED lost \/ GiveUp(c) PROVE lost' = {}
  <1>1. Cardinality({}) = 0
    BY FS_EmptySet
  <1> QED
    BY <1>1 DEF GiveUp, OnlySwitch

\* A step that leaves the row, the receipts and the service, and answers no call.
LEMMA UnansweredSwitch ==
  ASSUME SwitchInv, TypeInv', UNCHANGED <<sub, receipts, acked, rag>>, session'.exists, lost' = {},
         UNCHANGED api \/ (~Answered /\ ~Answered' /\ (api'.pc = "granting" => api'.prev = sub)),
         SameRound, UNCHANGED task \/ task'.answer # "ok"
  PROVE  SwitchInv'
  <1>1. SwitchRows'
    BY DEF SwitchInv, SwitchRows, SameRound, Plain, Agrees, SamePlace, SignedBy, Spoken
  <1>2. SwitchGrants'
    BY DEF SwitchInv, SwitchGrants, SameRound, NoTask, Answered, Resolved, Same
  <1>3. ASSUME sub # None, NEW u \in Utts PROVE Upheld(u)'
    <2>1. Upheld(u)
      BY <1>3 DEF SwitchInv, SwitchKeys
    <2>2. (Kept(u)' <=> Kept(u)) /\ \A w : Stands(rag[w], u)' <=> Stands(rag[w], u)
      BY DEF Kept, Stands
    <2>3. Served(sub.states[u].key)' => Served(sub.states[u].key)
      BY DEF Served, SameRound, NoTask
    <2> QED
      BY <2>1, <2>2, <2>3 DEF Upheld, Answered, NextGen, Same
  <1>4. SwitchKeys'
    BY <1>3 DEF SwitchInv, SwitchKeys, Chained
  <1> QED
    BY <1>1, <1>2, <1>4 DEF SwitchInv

\* A step of a round: the place stays, what leaves the list has been cancelled,
\* what is sent is signed with the place, and only what was served is acknowledged.
LEMMA RoundSwitch ==
  ASSUME SwitchInv, TypeInv', sub # None, api.pc # "granting",
         UNCHANGED <<session, api, rag, lost, crashes>>,
         sub' \in Row, SamePlace(sub', sub), Plain(sub'), sub'.pending \subseteq sub.pending,
         \A w \in sub.pending \ sub'.pending : rag[w].grant # "on",
         Leads(sub'.states), receipts \subseteq receipts', receipts' \subseteq Key,
         \A k \in receipts' \ receipts :
            sub'.states[k.utt] # None /\ sub'.states[k.utt].key = k /\ k.gen = sub.gen /\ k.rev = sub.rev,
         \A k \in acked' : Served(k),
         task' # NoTask =>
            /\ task'.answer = "none" /\ task'.sess.exists /\ Agrees(sub', task'.sub)
            /\ task'.pc = "cancel" => ~sub'.enabled
            /\ task'.pc \in {"sync", "enqueue"} => SignedBy(task'.sub, task'.sess)
            /\ task'.pc = "enqueue" => task'.call.key \in receipts'
  PROVE  SwitchInv'
  <1>0. /\ sub' # None /\ ~Answered /\ ~Answered' /\ task'.answer = "none" /\ sub \in Row
        /\ sub.ws \in Workspaces
    BY NoneIsNone, RouteFacts DEF NoTask, Answered, SwitchInv, TypeInv, TablesOK, Row, Subscription
  <1>1. SwitchRows'
    BY <1>0 DEF SwitchInv, SwitchRows, SignedBy, Spoken
  <1>2. SwitchGrants'
    BY <1>0 DEF SwitchInv, SwitchGrants, Resolved, SamePlace, Answered
  <1>3. /\ Chained'
        /\ \A u \in Utts : (Kept(u)' /\ sub'.states[u].key \in receipts)
                             => Sent(u) /\ sub'.states[u].key = sub.states[u].key
    BY LeadingChains DEF SwitchInv, SwitchKeys, TypeInv
  <1>4. ASSUME NEW k \in receipts' PROVE k.gen <= sub'.gen /\ (k.gen = sub'.gen => k.rev <= sub'.rev)
    <2>1. sub.gen \in Nat /\ sub.rev \in Nat
      BY <1>0 DEF Row, Subscription, Revs
    <2> QED
      BY <2>1 DEF SwitchInv, SwitchKeys, SamePlace
  <1>5. ASSUME NEW u \in Utts PROVE Upheld(u)'
    <2> SUFFICES ASSUME Kept(u)', Served(sub.states[u].key)', sub.enabled,
                        sub'.states[u].key.gen = sub.gen, sub'.states[u].key.rev = sub.rev
                 PROVE  Stands(rag[sub.ws], u)'
      BY <1>0 DEF Upheld, SamePlace
    <2>1. sub'.states[u].key \in acked' /\ Served(sub'.states[u].key)
      BY <1>0 DEF Served
    <2>2. sub'.states[u].key \in receipts
      <3>1. acked \subseteq receipts
        BY DEF SwitchInv, TypeInv, TablesOK
      <3>2. (task.pc = "enqueue" /\ task.answer = "ok") => task.call.key \in receipts
        BY DEF SwitchInv, SwitchRows, NoTask
      <3> QED
        BY <2>1, <3>1, <3>2 DEF Served
    <2>3. Sent(u) /\ sub'.states[u].key = sub.states[u].key
      BY <1>3, <2>2
    <2>4. Stands(rag[sub.ws], u)
      BY <1>0, <2>1, <2>3 DEF SwitchInv, SwitchKeys, Upheld, Sent
    <2> QED
      BY <2>3, <2>4 DEF Stands, SamePlace
  <1>6. SwitchKeys'
    BY <1>3, <1>4, <1>5 DEF SwitchKeys
  <1> QED
    BY <1>1, <1>2, <1>6 DEF SwitchInv

\* A row that a step of a round may save.
Carried(b) ==
    /\ SamePlace(b, sub) /\ Plain(b) /\ b.pending \subseteq sub.pending
    /\ \A w \in sub.pending \ b.pending : rag[w].grant # "on"
    /\ Leads(b.states)

\* A round that ends with a row, or sends the next call from it.
LEMMA CarriedSwitch ==
  ASSUME SwitchInv, TypeInv', sub # None, api.pc # "granting",
         UNCHANGED <<session, api, rag, lost, crashes>>,
         NEW row \in Row, Carried(row), sub' = row, NEW a, \A k \in a : Served(k), acked' = a,
         receipts \subseteq receipts', receipts' \subseteq Key,
         \A k \in receipts' \ receipts :
            row.states[k.utt] # None /\ row.states[k.utt].key = k /\ k.gen = row.gen /\ k.rev = row.rev,
         \/ task' = NoTask
         \/ \E pc, b, s, todo, left, c :
              /\ task' = Round(pc, b, s, todo, left, c, "none") /\ s.exists /\ Agrees(row, b)
              /\ pc = "cancel" => ~row.enabled
              /\ pc \in {"sync", "enqueue"} => SignedBy(b, s)
              /\ pc = "enqueue" => c.key \in receipts'
  PROVE  SwitchInv'
  <1>1. /\ SamePlace(sub', sub) /\ Plain(sub') /\ sub'.pending \subseteq sub.pending
        /\ \A w \in sub.pending \ sub'.pending : rag[w].grant # "on"
        /\ Leads(sub'.states) /\ sub' \in Row
    BY DEF Carried
  <1>2. \A k \in receipts' \ receipts :
          sub'.states[k.utt] # None /\ sub'.states[k.utt].key = k /\ k.gen = sub.gen /\ k.rev = sub.rev
    BY <1>1 DEF SamePlace
  <1>3. task' # NoTask =>
            /\ task'.answer = "none" /\ task'.sess.exists /\ Agrees(sub', task'.sub)
            /\ task'.pc = "cancel" => ~sub'.enabled
            /\ task'.pc \in {"sync", "enqueue"} => SignedBy(task'.sub, task'.sess)
            /\ task'.pc = "enqueue" => task'.call.key \in receipts'
    BY RoundFields
  <1> QED
    BY <1>1, <1>2, <1>3, RoundSwitch

\* The next delivery of a round, or its end.
LEMMA AdmittingSwitch ==
  ASSUME SwitchInv, TypeInv', sub # None, api.pc # "granting",
         UNCHANGED <<session, api, rag, lost, crashes>>,
         NEW row \in Row, Carried(row), NEW b \in Row, Agrees(row, b),
         NEW s \in Session, s.exists, Shows(b, s), SignedBy(b, s),
         NEW a, \A k \in a : Served(k), NEW todo \in SUBSET Spoken(s), NEW left,
         Admitting(row, a, b, s, todo, left)
  PROVE  SwitchInv'
  <1>0. receipts \subseteq Key
    BY DEF SwitchInv, TypeInv, TablesOK
  <1>1. CASE Ending(row, a)
    BY <1>0, <1>1, CarriedSwitch DEF Ending
  <1>2. CASE Ending(b, a)
    <2>1. Carried(b)
      BY DEF Carried, Agrees, SamePlace, Plain
    <2> QED
      BY <1>0, <1>2, <2>1, CarriedSwitch DEF Ending
  <1>3. ASSUME NEW u \in todo,
               sub' = row, receipts' = receipts \cup {b.states[u].key}, acked' = a,
               task' = Round("enqueue", b, s, todo, left, EnqueueCall(b, s, u), "none")
        PROVE  SwitchInv'
    <2> DEFINE k == b.states[u].key
               c == EnqueueCall(b, s, u)
    <2>1. u \in Utts /\ b.states[u] # None /\ u \in Spoken(s)
      BY DEF Shows, Spoken
    <2>2. k \in Key /\ k.utt = u /\ row.states[u] # None /\ row.states[u].key = k
          /\ k.gen = row.gen /\ k.rev = row.rev
      <3>1. k \in Key /\ k.utt = u
        BY <2>1, StateOfRow
      <3>2. k.gen = b.gen /\ k.rev = b.rev
        BY <2>1 DEF SignedBy
      <3> QED
        BY <2>1, <3>1, <3>2 DEF Agrees, SamePlace
    <2>3. c.key = k
      BY DEF EnqueueCall
    <2> HIDE DEF k, c
    <2>4. receipts' = receipts \cup {k} /\ task' = Round("enqueue", b, s, todo, left, c, "none")
      BY <1>3 DEF k, c
    <2>5. receipts \subseteq receipts' /\ receipts' \subseteq Key
      BY <1>0, <2>2, <2>4
    <2>6. \A j \in receipts' \ receipts :
            row.states[j.utt] # None /\ row.states[j.utt].key = j /\ j.gen = row.gen /\ j.rev = row.rev
      BY <2>2, <2>4
    <2>7. \E pc, x, y, d, l, e :
              /\ task' = Round(pc, x, y, d, l, e, "none") /\ y.exists /\ Agrees(row, x)
              /\ pc = "cancel" => ~row.enabled
              /\ pc \in {"sync", "enqueue"} => SignedBy(x, y)
              /\ pc = "enqueue" => e.key \in receipts'
      BY <2>3, <2>4
    <2> QED
      BY <1>3, <2>5, <2>6, <2>7, CarriedSwitch
  <1> QED
    BY <1>1, <1>2, <1>3 DEF Admitting

\* Whatever is due.
LEMMA RoutingSwitch ==
  ASSUME SwitchInv, TypeInv', sub # None, api.pc # "granting",
         UNCHANGED <<session, api, rag, lost, crashes>>,
         NEW b \in Row, Carried(b), b.states = sub.states,
         NEW s \in Session, s.exists, NEW todo, NEW left, Routing(b, s, todo, left)
  PROVE  SwitchInv'
  <1>0. receipts \subseteq Key /\ (\A k \in acked : Served(k)) /\ Agrees(b, b)
    BY DEF SwitchInv, TypeInv, TablesOK, Served, Agrees, SamePlace
  <1>1. ASSUME NEW w, NEW pc, NEW c, pc \in {"cleanup", "cancel"}, pc = "cancel" => ~b.enabled,
               Calling(b, acked, pc, b, s, todo, left, c)
        PROVE  SwitchInv'
    <2>1. sub' = b /\ receipts' = receipts /\ acked' = acked /\ task' = Round(pc, b, s, todo, left, c, "none")
      BY <1>1 DEF Calling
    <2>2. \E qc, x, y, d, l, e :
              /\ task' = Round(qc, x, y, d, l, e, "none") /\ y.exists /\ Agrees(b, x)
              /\ qc = "cancel" => ~b.enabled
              /\ qc \in {"sync", "enqueue"} => SignedBy(x, y)
              /\ qc = "enqueue" => e.key \in receipts'
      BY <1>0, <1>1, <2>1
    <2> QED
      BY <1>0, <2>1, <2>2, CarriedSwitch
  <1>2. CASE Ending(b, acked)
    BY <1>0, <1>2, CarriedSwitch DEF Ending
  <1>3. CASE b.enabled /\ Preparing(Prepared(b, s), s, left)
    <2> DEFINE p == Prepared(b, s)
               m == Missing(p, s)
    <2>1. /\ p \in Row /\ p.states = States(s, b) /\ Shows(p, s) /\ SamePlace(p, b)
          /\ p.cleanup = b.cleanup /\ p.pending = b.pending
      <3>1. p = [b EXCEPT !.states = States(s, b)]
        BY DEF Prepared
      <3>2. b \in Subscription
        BY DEF Row
      <3>3. p.states = States(s, b) /\ p.cleanup = b.cleanup /\ p.pending = b.pending
        BY <3>1, <3>2 DEF Subscription
      <3>4. SamePlace(p, b)
        BY <3>1, <3>2 DEF Subscription, SamePlace
      <3>5. /\ p \in Row /\ p.enabled
            /\ \A u \in Utts : u \in Spoken(s) <=> (p.states[u] # None /\ p.states[u].active)
        BY <1>3, PreparedRow
      <3>6. Shows(p, s)
        <4> HIDE DEF p
        <4> QED
          BY <3>5 DEF Shows
      <3> QED
        BY <3>3, <3>4, <3>5, <3>6
    <2>2. Leads(p.states)
      BY <2>1, PreparedLeads DEF SwitchInv, SwitchKeys
    <2>3. SignedBy(p, s)
      <3>1. ASSUME NEW u \in Spoken(s) PROVE States(s, b)[u].key.gen = b.gen /\ States(s, b)[u].key.rev = b.rev
        <4>1. u \in Utts
          BY DEF Spoken
        <4>2. States(s, b)[u].key = KeyOf(u, s, b)
          BY <4>1, PreparedStates
        <4> QED
          BY <4>1, <4>2, KeyOfRow
      <3> HIDE DEF p
      <3> QED
        BY <2>1, <3>1 DEF SignedBy, SamePlace
    <2>4. m \in SUBSET Spoken(s)
      BY DEF Missing
    <2>5. Preparing(p, s, left)
      BY <1>3
    <2> HIDE DEF p, m
    <2>6. Carried(p) /\ Agrees(p, p)
      BY <2>1, <2>2 DEF Carried, SamePlace, Plain, Agrees
    <2>7. CASE Admitting(p, acked, p, s, m, left)
      BY <1>0, <2>1, <2>3, <2>4, <2>6, <2>7, AdmittingSwitch
    <2>8. CASE Calling(p, acked, "sync", p, s, m, left, SyncCall(p, s))
      <3>1. /\ sub' = p /\ receipts' = receipts /\ acked' = acked
            /\ task' = Round("sync", p, s, m, left, SyncCall(p, s), "none")
        BY <2>8 DEF Calling
      <3>2. \E qc, x, y, d, l, e :
                /\ task' = Round(qc, x, y, d, l, e, "none") /\ y.exists /\ Agrees(p, x)
                /\ qc = "cancel" => ~p.enabled
                /\ qc \in {"sync", "enqueue"} => SignedBy(x, y)
                /\ qc = "enqueue" => e.key \in receipts'
        BY <2>3, <2>6, <3>1
      <3> QED
        BY <1>0, <2>1, <2>6, <3>1, <3>2, CarriedSwitch
    <2> QED
      BY <2>5, <2>7, <2>8 DEF Preparing, m
  <1>4. b.cleanup => ~b.enabled
    BY DEF Carried, Plain
  <1> QED
    BY <1>1, <1>2, <1>3, <1>4 DEF Routing

\* The row as it is may be saved.
LEMMA RowIsCarried == ASSUME SwitchInv, sub # None PROVE Carried(sub) /\ sub \in Row
  BY LeadsItself DEF Carried, SamePlace, SwitchInv, SwitchRows, TypeInv, TablesOK

\* A round that starts.
LEMMA StartSwitch == ASSUME SwitchInv, TypeInv', Start PROVE SwitchInv'
  <1>0. sub \in Subscription \cup {None} /\ session \in Session /\ session.exists /\ sub # None
    BY DEF SwitchInv, SwitchRows, TypeInv, TablesOK, Row, Start
  <1>1. /\ api.pc # "granting" /\ Routing(sub, session, {}, Batch)
        /\ UNCHANGED <<session, api, rag, lost, crashes>>
    BY <1>0, StartShape DEF Locked
  <1>2. Carried(sub) /\ sub \in Row
    BY <1>0, RowIsCarried
  <1> QED
    BY <1>0, <1>1, <1>2, RoutingSwitch

\* A round that goes on.
LEMMA ContinueSwitch == ASSUME SwitchInv, TypeInv', Continue PROVE SwitchInv'
  <1> DEFINE t == task
  <1>1. t.pc # "idle" /\ t # NoTask /\ InRound(t) /\ sub # None /\ sub \in Row /\ api.pc # "granting"
    BY RoundFacts, RouteFacts DEF Continue, SwitchInv, TypeInv, TablesOK
  <1>2. t.answer = "ok" /\ Continued /\ UNCHANGED <<session, api, rag, lost, crashes>>
    BY <1>1, ContinueShape DEF InRound, Row
  <1>3. /\ t.sub \in Row /\ t.sess \in Session /\ t.sess.exists /\ Agrees(sub, t.sub) /\ Plain(sub)
        /\ t.pc = "cancel" => ~sub.enabled
        /\ t.pc \in {"sync", "enqueue"} => SignedBy(t.sub, t.sess)
        /\ acked \subseteq receipts /\ receipts \subseteq Key
    BY <1>1 DEF SwitchInv, SwitchRows, InRound, TypeInv, TablesOK
  <1>4. Carried(sub)
    BY <1>1, RowIsCarried
  <1>5. CASE t.pc = "cleanup" /\ ContinueAfterCleanup
    <2> DEFINE b == Relieved(t.sub, t.call.ws)
    <2>1. Routing(b, t.sess, t.todo, t.left)
      BY <1>3, <1>5 DEF ContinueAfterCleanup, Plain
    <2>2. /\ b \in Row /\ SamePlace(b, t.sub) /\ b.states = t.sub.states /\ b.cleanup = t.sub.cleanup
          /\ b.pending = t.sub.pending \ {t.call.ws}
      BY <1>3 DEF Relieved, Row, Subscription, SamePlace
    <2>3. rag[t.call.ws].grant # "on"
      BY <1>2, <1>5 DEF SwitchInv, SwitchGrants
    <2> HIDE DEF b
    <2>4. Carried(b) /\ b.states = sub.states
      BY <1>3, <1>4, <2>2, <2>3 DEF Carried, Agrees, SamePlace, Plain
    <2> QED
      BY <1>1, <1>2, <1>3, <2>1, <2>2, <2>4, RoutingSwitch
  <1>6. CASE t.pc = "cancel" /\ ContinueAfterCancel
    <2> DEFINE b == Cleaned(t.sub)
    <2>1. sub' = b /\ receipts' = receipts /\ acked' = acked /\ task' = NoTask
      BY <1>3, <1>6 DEF ContinueAfterCancel, Ending
    <2>2. /\ b \in Row /\ SamePlace(b, t.sub) /\ b.states = t.sub.states /\ ~b.cleanup
          /\ b.pending = t.sub.pending
      BY <1>3 DEF Cleaned, Row, Subscription, SamePlace
    <2> HIDE DEF b
    <2>3. Carried(b)
      BY <1>3, <1>4, <2>2 DEF Carried, Agrees, SamePlace, Plain
    <2>4. \A k \in acked : Served(k)
      BY DEF Served
    <2> QED
      BY <1>1, <1>2, <1>3, <2>1, <2>2, <2>3, <2>4, CarriedSwitch
  <1>7. CASE t.pc = "sync" /\ ContinueAfterSync
    <2> DEFINE b == Announced(t.sub, t.sess)
    <2>1. Admitting(sub, acked, b, t.sess, t.todo, t.left)
      BY <1>7 DEF ContinueAfterSync
    <2>2. t.sess.gen \in (1..MaxGen) \cup {None}
      BY <1>3 DEF Session
    <2>3. /\ b \in Row /\ SamePlace(b, t.sub) /\ b.states = t.sub.states /\ b.cleanup = t.sub.cleanup
          /\ b.pending = t.sub.pending
      BY <1>3, <2>2 DEF Announced, Row, Subscription, SamePlace
    <2>4. Shows(t.sub, t.sess) /\ t.todo \in SUBSET Spoken(t.sess)
      BY <1>1, <1>7 DEF InRound
    <2> HIDE DEF b
    <2>5. Shows(b, t.sess) /\ SignedBy(b, t.sess) /\ Agrees(sub, b)
      BY <1>3, <1>7, <2>3, <2>4 DEF Shows, SignedBy, Agrees, SamePlace
    <2>6. \A k \in acked : Served(k)
      BY DEF Served
    <2> HIDE DEF t
    <2> QED
      BY <1>1, <1>2, <1>3, <1>4, <2>1, <2>3, <2>4, <2>5, <2>6, AdmittingSwitch
  <1>8. CASE t.pc = "enqueue" /\ ContinueAfterEnqueue
    <2> DEFINE a == acked \cup ({t.call.key} \cap receipts)
               d == t.todo \ {t.call.key.utt}
               l == t.left - 1
    <2>1. Admitting(sub, a, t.sub, t.sess, d, l)
      BY <1>8 DEF ContinueAfterEnqueue
    <2>2. \A k \in a : Served(k)
      BY <1>2, <1>8 DEF Served
    <2>3. Shows(t.sub, t.sess) /\ SignedBy(t.sub, t.sess) /\ d \in SUBSET Spoken(t.sess)
      BY <1>1, <1>3, <1>8 DEF InRound
    <2> HIDE DEF a, d, l, t
    <2> QED
      BY <1>1, <1>2, <1>3, <1>4, <2>1, <2>2, <2>3, AdmittingSwitch
  <1> QED
    BY <1>2, <1>5, <1>6, <1>7, <1>8 DEF Continued

\* The service answers a round: it grants nothing, and of the place that is on it
\* takes nothing that is held to stand.
LEMMA AnsweredSwitch ==
  ASSUME SwitchInv, TypeInv', UNCHANGED <<session, sub, receipts, acked, api, lost>>,
         sub # None, ~Answered, task # NoTask, task' # NoTask, SameRound,
         \A w \in Workspaces : rag'[w].grant = "on" => rag[w].grant = "on",
         (task.pc = "cleanup" /\ task'.answer = "ok") => rag'[task.call.ws].grant # "on",
         rag'[sub.ws].active = rag[sub.ws].active,
         sub.enabled => rag'[sub.ws].grant = rag[sub.ws].grant /\ rag'[sub.ws].rev = rag[sub.ws].rev,
         \A u \in Utts : (sub.enabled /\ Kept(u) /\ Served(sub.states[u].key)' /\ sub.states[u].key.gen = sub.gen
                            /\ sub.states[u].key.rev = sub.rev) => Stands(rag'[sub.ws], u)
  PROVE  SwitchInv'
  <1>1. task'.pc = task.pc /\ task'.sub = task.sub /\ task'.sess = task.sess /\ task'.call = task.call
    BY DEF SameRound
  <1>2. SwitchRows'
    BY <1>1 DEF SwitchInv, SwitchRows, Plain, Agrees, SamePlace, SignedBy, Spoken
  <1>3. SwitchGrants'
    BY <1>1 DEF SwitchInv, SwitchGrants, Answered, Resolved
  <1>4. ASSUME NEW u \in Utts PROVE Upheld(u)'
    BY DEF Upheld, Kept, Stands, Answered
  <1>5. SwitchKeys'
    BY <1>4 DEF SwitchInv, SwitchKeys, Chained
  <1> QED
    BY <1>2, <1>3, <1>5 DEF SwitchInv

\* The service answers the round.
LEMMA ServeSwitch == ASSUME SwitchInv, TypeInv', Serve PROVE SwitchInv'
  <1> DEFINE c == task.call
             r == rag[c.ws]
  <1>0. /\ task.pc # "idle" /\ task # NoTask /\ InRound(task) /\ task.answer = "none"
        /\ UNCHANGED <<session, sub, receipts, acked, api, lost>>
        /\ sub # None /\ sub \in Row /\ api.pc # "granting" /\ ~Answered
    BY RoundFacts, RouteFacts DEF Serve, Waits, db, SwitchInv, TypeInv, TablesOK, Answered
  <1>1. PICK answer \in {"ok", "failed"} : Handle(c, answer) /\ task' = [task EXCEPT !.answer = answer]
    BY DEF Serve
  <1>2. /\ task' # NoTask /\ task'.answer = answer
        /\ task'.pc = task.pc /\ task'.sub = task.sub /\ task'.sess = task.sess /\ task'.call = task.call
    <2>1. answer \in Answer
      BY DEF Answer
    <2> QED
      BY <1>0, <1>1, <2>1, AnsweredRound
  <1>3. SameRound
    BY <1>0, <1>2 DEF SameRound
  <1>4. /\ c \in Call /\ c.ws \in Workspaces /\ r \in RagRow /\ sub.ws \in Workspaces
        /\ rag \in [Workspaces -> RagRow]
    BY <1>0, CallFields DEF InRound, SwitchInv, TypeInv, TablesOK, Row, Subscription
  <1>5. CASE UNCHANGED rag /\ answer = "failed"
    BY <1>0, <1>2, <1>3, <1>5, UnansweredSwitch DEF SwitchInv, SwitchRows
  <1>6. CASE /\ answer = "ok" /\ Accepts(r, c) /\ rag'[c.ws] \in Results(r, c)
             /\ \A w \in Workspaces \ {c.ws} : rag'[w] = rag[w]
    <2> DEFINE q == rag'[c.ws]
    <2>1. Agrees(sub, task.sub) /\ Plain(sub)
      BY <1>0 DEF SwitchInv, SwitchRows
    <2>2. ASSUME NEW u \in Utts, sub.enabled, Kept(u), Served(sub.states[u].key),
                 sub.states[u].key.gen = sub.gen, sub.states[u].key.rev = sub.rev
          PROVE  Stands(rag[sub.ws], u)
      BY <1>0, <2>2 DEF SwitchInv, SwitchKeys, Upheld
    <2>3. ASSUME task.pc # "enqueue", NEW k PROVE Served(k)' => Served(k)
      BY <1>0, <1>2, <2>3 DEF Served
    <2>4. CASE task.pc \in {"cleanup", "cancel"}
      <3>1. c.kind = "cancel" /\ c.delete \in BOOLEAN
        BY <1>0, <1>4, <2>4, CallFields DEF InRound
      <3>2. PICK finished \in SUBSET Utts : q = Cancelled(r, c.delete, finished)
        BY <1>6, <3>1 DEF Results
      <3>3. q.active = r.active /\ q.grant = "off"
        BY <1>4, <3>1, <3>2, CancelledRow
      <3>4. sub.enabled => rag'[sub.ws] = rag[sub.ws]
        <4>1. CASE task.pc = "cleanup"
          <5>1. c.ws # sub.ws
            BY <1>0, <2>1, <4>1 DEF InRound, Agrees, Plain
          <5> QED
            BY <1>4, <1>6, <5>1
        <4>2. CASE task.pc = "cancel"
          BY <1>0, <4>2 DEF SwitchInv, SwitchRows
        <4> QED
          BY <2>4, <4>1, <4>2
      <3>5. rag'[sub.ws].active = rag[sub.ws].active
        BY <1>4, <1>6, <3>3
      <3>6. \A w \in Workspaces : rag'[w].grant = "on" => rag[w].grant = "on"
        BY <1>4, <1>6, <3>3
      <3>7. \A u \in Utts : (sub.enabled /\ Kept(u) /\ Served(sub.states[u].key)' /\ sub.states[u].key.gen = sub.gen
                            /\ sub.states[u].key.rev = sub.rev) => Stands(rag'[sub.ws], u)
        <4>1. task.pc # "enqueue"
          BY <2>4
        <4>2. \A u : Served(sub.states[u].key)' => Served(sub.states[u].key)
          BY <1>0, <2>3, <4>1
        <4> QED
          BY <2>2, <3>4, <4>2
      <3> HIDE DEF c
      <3> QED
        BY <1>0, <1>2, <1>3, <3>3, <3>4, <3>5, <3>6, <3>7, AnsweredSwitch DEF c
    <2>5. CASE task.pc = "sync"
      <3>1. /\ c.kind = "sync" /\ c.present \in SUBSET Utts /\ c.gen \in 1..MaxGen /\ c.ws = sub.ws
            /\ \A u \in Utts : Kept(u) => u \in c.present
        BY <1>0, <1>4, <2>1, <2>5, CallFields DEF InRound, Shows, Agrees, SamePlace, Kept
      <3>2. q = Synced(r, c.present, c.gen)
        BY <1>6, <3>1 DEF Results
      <3>3. TakesAnnouncement(q, r, c.present, c.gen)
        BY <1>4, <3>1, <3>2, SyncedRow
      <3>4. q.active = r.active /\ q.grant = r.grant /\ q.rev = r.rev
        BY <3>3 DEF TakesAnnouncement
      <3>5. \A w \in Workspaces : rag'[w].grant = "on" => rag[w].grant = "on"
        BY <1>6, <3>4
      <3>6. \A u \in Utts : (sub.enabled /\ Kept(u) /\ Served(sub.states[u].key)' /\ sub.states[u].key.gen = sub.gen
                            /\ sub.states[u].key.rev = sub.rev) => Stands(rag'[sub.ws], u)
        <4>1. ASSUME NEW u \in Utts, Kept(u), Stands(r, u) PROVE Stands(q, u)
          <5>1. q.live[u] = r.live[u]
            BY <3>1, <3>3, <4>1 DEF TakesAnnouncement
          <5> QED
            BY <4>1, <5>1 DEF Stands
        <4>2. \A u : Served(sub.states[u].key)' => Served(sub.states[u].key)
          BY <1>0, <2>3, <2>5
        <4> QED
          BY <2>2, <3>1, <4>1, <4>2
      <3> QED
        BY <1>0, <1>2, <1>3, <2>5, <3>1, <3>4, <3>5, <3>6, AnsweredSwitch
    <2>6. CASE task.pc = "enqueue"
      <3> DEFINE k == c.key
      <3>1. /\ c.kind = "enqueue" /\ k \in Key /\ k.utt \in Utts /\ c.gen \in 1..MaxGen /\ c.ws = sub.ws
            /\ sub.states[k.utt].key = k
        BY <1>0, <1>4, <2>1, <2>6, CallFields DEF InRound, Agrees, SamePlace
      <3>2. q = Enqueued(r, k, c.gen)
        BY <1>6, <3>1 DEF Results
      <3>3. /\ q.active = r.active /\ q.grant = r.grant /\ q.rev = r.rev
            /\ q.live[k.utt] # None /\ q.live[k.utt].key = k
            /\ \A u \in Utts \ {k.utt} : q.live[u] = r.live[u]
        <4> HIDE DEF c, k, r, q
        <4> QED
          BY <1>4, <3>1, <3>2, EnqueuedRow
      <3>4. \A w \in Workspaces : rag'[w].grant = "on" => rag[w].grant = "on"
        BY <1>6, <3>3
      <3>5. ASSUME NEW u \in Utts, sub.enabled, Kept(u), Served(sub.states[u].key)',
                   sub.states[u].key.gen = sub.gen, sub.states[u].key.rev = sub.rev
            PROVE  Stands(rag'[sub.ws], u)
        <4>1. CASE u = k.utt
          BY <3>1, <3>3, <4>1 DEF Stands
        <4>2. CASE u # k.utt
          <5>1. sub.states[u].key.utt = u
            BY <1>0, <3>5, StateOfRow DEF Kept
          <5>2. sub.states[u].key # k
            BY <4>2, <5>1
          <5>3. Served(sub.states[u].key)
            BY <1>0, <1>2, <3>5, <5>2 DEF Served
          <5>4. Stands(rag[sub.ws], u)
            BY <2>2, <3>5, <5>3
          <5> QED
            BY <3>1, <3>3, <4>2, <5>4 DEF Stands
        <4> QED
          BY <4>1, <4>2
      <3> QED
        BY <1>0, <1>2, <1>3, <2>6, <3>1, <3>3, <3>4, <3>5, AnsweredSwitch
    <2> QED
      BY <1>0, <2>4, <2>5, <2>6, RoundFacts DEF SwitchInv, TypeInv
  <1> QED
    BY <1>1, <1>4, <1>5, <1>6, HandleShape

\* The round or the route loses its answer.
LEMMA LostSwitch ==
  ASSUME SwitchInv, OnlySwitch, TypeInv', Fail \/ Defer \/ FailApi \/ Crash PROVE SwitchInv'
  <1>0. ~Crash
    <2>1. crashes \in 0..0
      BY DEF SwitchInv, TypeInv, TablesOK, OnlySwitch
    <2> QED
      BY <2>1 DEF Crash, OnlySwitch
  <1>1. /\ UNCHANGED <<session, sub, receipts, acked, rag>> /\ session.exists
        /\ \/ UNCHANGED api
           \/ api' = NoApi /\ ~Answered
    BY <1>0 DEF Fail, Defer, FailApi, db, SwitchInv, SwitchRows, Answered
  <1>2. task.pc # "idle" => task # NoTask /\ InRound(task)
    BY RoundFacts DEF SwitchInv, TypeInv
  <1>3. SameRound /\ (UNCHANGED task \/ task'.answer # "ok")
    <2>1. CASE Fail
      <3>1. task.pc # "idle" /\ task' = [task EXCEPT !.answer = "failed"]
        BY <2>1 DEF Fail, Waits
      <3>2. "failed" \in Answer
        BY DEF Answer
      <3> QED
        BY <1>2, <3>1, <3>2, AnsweredRound DEF SameRound
    <2>2. CASE Defer \/ FailApi
      BY <2>2 DEF Defer, FailApi, db, SameRound, NoTask
    <2> QED
      BY <1>0, <2>1, <2>2
  <1>4. lost' = {}
    <2>1. lost = {}
      BY DEF SwitchInv, SwitchRows
    <2> QED
      BY <1>0, <2>1, NothingLost DEF Fail, Defer, FailApi
  <1>5. NoApi.answer = "none" /\ NoApi.pc = "idle"
    BY DEF NoApi
  <1> QED
    BY <1>1, <1>3, <1>4, <1>5, UnansweredSwitch DEF Answered

\* The transcript is saved, or the route is asked for a grant and waits for it.
LEMMA AskSwitch ==
  ASSUME SwitchInv, TypeInv',
         \/ \E text \in [Utts -> Texts \cup {None}] : Save(text)
         \/ \E on \in BOOLEAN, w \in Workspaces, rev \in Revs \cup {None} : Ask(on, w, rev)
         \/ Register
         \/ UNCHANGED vars
  PROVE  SwitchInv'
  <1>1. UNCHANGED <<sub, receipts, acked, rag, task, lost>> /\ lost = {} /\ SameRound
    BY DEF Save, Ask, Register, db, vars, SwitchInv, SwitchRows, SameRound
  <1>2. session'.exists
    <2>1. session \in Session /\ session.exists
      BY DEF SwitchInv, SwitchRows, TypeInv, TablesOK
    <2>2. ASSUME NEW text, session' = [session EXCEPT !.gen = @ + 1, !.text = text] PROVE session'.exists
      BY <2>1, <2>2 DEF Session
    <2> QED
      BY <2>1, <2>2 DEF Save, Ask, Register, vars
  <1>3. UNCHANGED api \/ (~Answered /\ ~Answered' /\ (api'.pc = "granting" => api'.prev = sub))
    <2>1. ASSUME NEW on, NEW w, NEW rev, Ask(on, w, rev)
          PROVE  ~Answered /\ ~Answered' /\ api'.pc # "granting"
      <3>1. api.answer = "none" /\ api'.answer = "none" /\ api'.pc = "waiting"
        BY <2>1 DEF Ask, NoApi
      <3> QED
        BY <3>1 DEF Answered
    <2>2. CASE Register
      <3>1. InRoute(api) /\ api.pc = "waiting" /\ api' = [api EXCEPT !.pc = "granting", !.prev = sub]
        BY <2>2, RouteFacts DEF Register, SwitchInv, TypeInv
      <3>2. api'.prev = sub /\ api'.answer = "none" /\ api.answer = "none"
        BY <3>1 DEF InRoute, Api
      <3> QED
        BY <3>2 DEF Answered
    <2> QED
      BY <2>1, <2>2 DEF Save, vars
  <1> QED
    BY <1>1, <1>2, <1>3, UnansweredSwitch

\* A revision that is activated leaves every grant and every row.
LEMMA ActivateSwitch == ASSUME SwitchInv, TypeInv', NEW x \in Workspaces, Activate(x) PROVE SwitchInv'
  <1>1. UNCHANGED <<session, sub, receipts, acked, task, api, lost>> /\ rag \in [Workspaces -> RagRow]
    BY DEF Activate, db, SwitchInv, TypeInv, TablesOK
  <1>2. ASSUME NEW w \in Workspaces
        PROVE  /\ rag'[w].grant = rag[w].grant /\ rag'[w].rev = rag[w].rev /\ rag'[w].live = rag[w].live
               /\ rag[w].active \in Nat /\ rag'[w].active \in Nat /\ rag[w].active <= rag'[w].active
    <2> DEFINE q == [rag[x] EXCEPT !.active = @ + 1]
    <2>1. rag' = [rag EXCEPT ![x] = q]
      BY DEF Activate
    <2>2. rag[w] \in RagRow /\ rag[x] \in RagRow /\ rag[w].active \in Nat /\ rag[x].active \in Nat
      BY <1>1 DEF RagRow, Revs
    <2>3. q.grant = rag[x].grant /\ q.rev = rag[x].rev /\ q.live = rag[x].live /\ q.active = rag[x].active + 1
      BY <2>2 DEF RagRow
    <2> HIDE DEF q
    <2>4. rag'[w] = IF w = x THEN q ELSE rag[w]
      BY <1>1, <2>1
    <2> QED
      BY <2>2, <2>3, <2>4
  <1>3. SwitchRows'
    BY <1>1 DEF SwitchInv, SwitchRows, Plain, Agrees, SamePlace, SignedBy, Spoken
  <1>4. /\ task.pc = "cleanup" => task.call.ws \in Workspaces
        /\ sub # None => sub.ws \in Workspaces /\ sub.rev \in Nat
        /\ Answered => api.ws \in Workspaces /\ api.rev \in Nat
    <2>1. task.pc = "cleanup" => task.call.ws \in Workspaces
      BY RoundFacts, CallFields DEF SwitchInv, TypeInv, InRound
    <2>2. sub # None => sub.ws \in Workspaces /\ sub.rev \in Nat
      BY DEF SwitchInv, TypeInv, TablesOK, Row, Subscription, Revs
    <2>3. Answered => api.ws \in Workspaces /\ api.rev \in Nat
      BY RouteFacts DEF SwitchInv, TypeInv, InRoute, Answered, Revs
    <2> QED
      BY <2>1, <2>2, <2>3
  <1>5. ASSUME NEW w \in Workspaces, NEW asked, NEW rev \in Nat, Resolved(asked, rev, rag[w].active)
        PROVE  Resolved(asked, rev, rag'[w].active)
    BY <1>2, <1>5 DEF Resolved
  <1>6. SwitchGrants'
    <2>1. \A w \in Workspaces : (rag[w].grant = "on" =>
                                   \/ sub # None /\ (w = sub.ws \/ w \in sub.pending)
                                   \/ Answered /\ w = api.ws)'
      BY <1>1, <1>2 DEF SwitchInv, SwitchGrants, Answered
    <2>2. ((task.pc = "cleanup" /\ task.answer = "ok") => rag[task.call.ws].grant # "on")'
      BY <1>1, <1>2, <1>4 DEF SwitchInv, SwitchGrants
    <2>3. (sub # None => /\ Resolved(sub.asked, sub.rev, rag[sub.ws].active)
                         /\ (sub.enabled /\ ~Answered) => rag[sub.ws].grant = "on" /\ rag[sub.ws].rev = sub.rev)'
      BY <1>1, <1>2, <1>4, <1>5 DEF SwitchInv, SwitchGrants, Answered
    <2>4. (Answered => /\ rag[api.ws].grant = "on" /\ rag[api.ws].rev = api.rev
                       /\ Resolved(api.asked, api.rev, rag[api.ws].active)
                       /\ Same(sub, api.ws, api.asked) => sub.rev <= api.rev)'
      BY <1>1, <1>2, <1>4, <1>5 DEF SwitchInv, SwitchGrants, Answered, Same
    <2> QED
      BY <2>1, <2>2, <2>3, <2>4 DEF SwitchGrants
  <1>7. ASSUME sub # None, NEW u \in Utts PROVE Upheld(u)'
    <2>1. Upheld(u)
      BY <1>7 DEF SwitchInv, SwitchKeys
    <2>2. \A w \in Workspaces : Stands(rag[w], u)' <=> Stands(rag[w], u)
      BY <1>1, <1>2 DEF Stands
    <2> QED
      BY <1>1, <1>4, <1>7, <2>1, <2>2 DEF Upheld, Kept, Served, Answered, NextGen, Same
  <1>8. SwitchKeys'
    BY <1>1, <1>7 DEF SwitchInv, SwitchKeys, Chained
  <1> QED
    BY <1>3, <1>6, <1>8 DEF SwitchInv

\* The subscription is switched off and its grant is to be cancelled.
LEMMA DisableSwitch == ASSUME SwitchInv, TypeInv', Disable PROVE SwitchInv'
  <1>1. /\ UNCHANGED <<session, receipts, acked, task, rag, lost>> /\ api' = NoApi
        /\ api.pc = "waiting" /\ ~Answered /\ ~Answered' /\ task = NoTask
        /\ session.exists /\ lost = {}
    BY RouteFacts, RoundFacts DEF Disable, Locked, SwitchInv, SwitchRows, TypeInv, Answered, NoApi
  <1>2. CASE sub = None
    <2>1. UNCHANGED sub
      BY <1>2 DEF Disable
    <2> QED
      BY <1>1, <2>1, UnansweredSwitch DEF SameRound, NoApi
  <1>3. CASE sub # None
    <2>1. sub' = [sub EXCEPT !.enabled = FALSE, !.cleanup = TRUE] /\ sub \in Row
      BY <1>3 DEF Disable, SwitchInv, TypeInv, TablesOK
    <2>2. /\ ~sub'.enabled /\ sub'.ws = sub.ws /\ sub'.pending = sub.pending /\ sub'.deleted = sub.deleted
          /\ sub'.states = sub.states /\ sub'.gen = sub.gen /\ sub'.rev = sub.rev /\ sub'.asked = sub.asked
          /\ sub' \in Subscription
      BY <2>1 DEF Row, Subscription
    <2>3. sub' # None
      BY <2>2, NoneIsNone
    <2>4. SwitchRows'
      BY <1>1, <1>3, <2>2 DEF SwitchInv, SwitchRows, Plain, NoApi
    <2>5. SwitchGrants'
      BY <1>1, <1>3, <2>2, <2>3 DEF SwitchInv, SwitchGrants, Answered, NoTask
    <2>6. \A u \in Utts : Upheld(u)'
      BY <1>1, <2>2 DEF Upheld
    <2>7. SwitchKeys'
      BY <1>1, <1>3, <2>2, <2>3, <2>6 DEF SwitchInv, SwitchKeys, Chained
    <2> QED
      BY <2>4, <2>5, <2>7 DEF SwitchInv
  <1> QED
    BY <1>2, <1>3

\* The route is granted a place: what stood there at the revision granted stands.
LEMMA GrantSwitch ==
  ASSUME SwitchInv, TypeInv', ServeApi, Handle(GrantCall, "ok"),
         api' = [api EXCEPT !.answer = "ok", !.rev = rag'[api.ws].rev]
  PROVE  SwitchInv'
  <1> DEFINE w == api.ws
             r == rag[w]
             q == rag'[w]
  <1>0. /\ UNCHANGED <<session, sub, receipts, acked, task, lost>>
        /\ api.pc = "granting" /\ InRoute(api) /\ api.prev = sub /\ task = NoTask /\ ~Answered
        /\ w \in Workspaces /\ rag \in [Workspaces -> RagRow] /\ r \in RagRow
        /\ api.asked \in Revs \cup {None}
    BY RouteFacts DEF ServeApi, db, SwitchInv, SwitchRows, TypeInv, TablesOK, InRoute, Answered, Api
  <1>1. PICK v \in Revs : v = (IF api.asked = None THEN r.active ELSE api.asked)
    BY <1>0, RagFields
  <1>2. /\ q = Granted(r, v) /\ \A x \in Workspaces \ {w} : rag'[x] = rag[x]
    <2>1. GrantCall \in Call /\ GrantCall.kind = "grant" /\ GrantCall.ws = w /\ GrantCall.rev = api.asked
      BY <1>0, GrantIsCall DEF GrantCall, SwitchInv, TypeInv
    <2>2. rag'[w] \in Results(r, GrantCall) /\ \A x \in Workspaces \ {w} : rag'[x] = rag[x]
      BY <1>0, <2>1, HandleShape
    <2> QED
      BY <1>1, <2>1, <2>2 DEF Results
  <1>3. /\ q.active = r.active /\ q.grant = "on" /\ q.rev = v
        /\ r.rev = v => q.live = r.live
    BY <1>0, <1>2, GrantedRow
  <1>4. /\ api'.pc = "granting" /\ api'.prev = sub /\ api'.ws = w /\ api'.asked = api.asked
        /\ api'.answer = "ok" /\ api'.rev = v
    <2> DEFINE x == rag'[w].rev
    <2>1. x = v /\ api' = [api EXCEPT !.answer = "ok", !.rev = x]
      BY <1>3
    <2> HIDE DEF x
    <2> QED
      BY <1>0, <2>1 DEF InRoute, Api
  <1>5. Answered'
    BY <1>4 DEF Answered
  <1>6. v \in Nat /\ r.active \in Nat
    BY <1>0 DEF RagRow, Revs
  <1> HIDE DEF q, r, w
  <1>7. SwitchRows'
    BY <1>0, <1>4 DEF SwitchInv, SwitchRows, Plain, Agrees, SamePlace, SignedBy, Spoken
  <1>8. ASSUME Same(sub, w, api.asked) PROVE /\ sub.rev \in Nat /\ sub.rev <= v /\ sub.enabled /\ sub.ws = w
                                             /\ r.grant = "on" /\ r.rev = sub.rev
    <2>1. sub # None /\ sub.enabled /\ sub.ws = w /\ sub.asked = api.asked /\ sub \in Row
      BY <1>8 DEF Same, SwitchInv, TypeInv, TablesOK
    <2>2. Resolved(sub.asked, sub.rev, r.active) /\ r.grant = "on" /\ r.rev = sub.rev
      BY <1>0, <2>1 DEF SwitchInv, SwitchGrants, r
    <2>3. sub.rev \in Nat
      BY <2>1 DEF Row, Subscription, Revs
    <2> QED
      BY <1>1, <1>6, <2>1, <2>2, <2>3 DEF Resolved
  <1>9. SwitchGrants'
    <2>1. \A x \in Workspaces : rag'[x].active = rag[x].active
      BY <1>2, <1>3 DEF q, r
    <2>2. (\A x \in Workspaces : rag[x].grant = "on" =>
                                   \/ sub # None /\ (x = sub.ws \/ x \in sub.pending)
                                   \/ Answered /\ x = api.ws)'
      BY <1>0, <1>2, <1>4, <1>5 DEF SwitchInv, SwitchGrants
    <2>3. ((task.pc = "cleanup" /\ task.answer = "ok") => rag[task.call.ws].grant # "on")'
      BY <1>0 DEF NoTask
    <2>4. (sub # None => /\ Resolved(sub.asked, sub.rev, rag[sub.ws].active)
                         /\ (sub.enabled /\ ~Answered) => rag[sub.ws].grant = "on" /\ rag[sub.ws].rev = sub.rev)'
      <3>1. sub # None => sub.ws \in Workspaces
        BY DEF SwitchInv, TypeInv, TablesOK, Row, Subscription
      <3> QED
        BY <1>0, <1>5, <2>1, <3>1 DEF SwitchInv, SwitchGrants
    <2>5. (Answered => /\ rag[api.ws].grant = "on" /\ rag[api.ws].rev = api.rev
                       /\ Resolved(api.asked, api.rev, rag[api.ws].active)
                       /\ Same(sub, api.ws, api.asked) => sub.rev <= api.rev)'
      <3>1. Resolved(api.asked, v, q.active)
        BY <1>1, <1>3, <1>6 DEF Resolved
      <3>2. rag'[api'.ws] = q
        BY <1>4 DEF q
      <3>3. Same(sub, w, api.asked)' <=> Same(sub, w, api.asked)
        BY <1>0, <1>4 DEF Same, w
      <3> QED
        BY <1>0, <1>3, <1>4, <1>8, <3>1, <3>2 DEF Same
    <2> QED
      BY <2>2, <2>3, <2>4, <2>5 DEF SwitchGrants
  <1>10. ASSUME sub # None, NEW u \in Utts PROVE Upheld(u)'
    <2> DEFINE k == sub.states[u].key
    <2>1. SUFFICES ASSUME Kept(u), Served(k), k.gen = NextGen(sub, w, api.asked), k.rev = v
                   PROVE  Stands(q, u)
      <3>1. /\ (Kept(u)' <=> Kept(u)) /\ (Served(k)' <=> Served(k))
            /\ NextGen(sub, api.ws, api.asked)' = NextGen(sub, w, api.asked)
            /\ Stands(rag[api.ws], u)' <=> Stands(q, u)
        BY <1>0, <1>4 DEF Kept, Served, NextGen, Same, Stands, q
      <3> QED
        BY <1>0, <1>4, <1>5, <3>1 DEF Upheld
    <2>2. k \in receipts /\ sub \in Row /\ k \in Key
      BY <1>0, <1>10, <2>1 DEF Served, NoTask, SwitchInv, TypeInv, TablesOK
    <2>3. k.gen \in Nat /\ sub.gen \in Nat /\ k.rev \in Nat /\ sub.rev \in Nat
      BY <2>2 DEF Key, Row, Subscription, Revs
    <2>4. k.gen <= sub.gen /\ (k.gen = sub.gen => k.rev <= sub.rev)
      BY <1>10, <2>2 DEF SwitchInv, SwitchKeys
    <2> HIDE DEF k
    <2>5. Same(sub, w, api.asked) /\ k.gen = sub.gen
      BY <1>10, <2>1, <2>3, <2>4 DEF NextGen
    <2>6. sub.rev = v /\ sub.enabled /\ sub.ws = w /\ r.rev = v
      BY <1>6, <1>8, <2>1, <2>3, <2>4, <2>5
    <2>7. Stands(r, u)
      BY <1>0, <1>10, <2>1, <2>5, <2>6 DEF SwitchInv, SwitchKeys, Upheld, r, k
    <2> QED
      BY <1>3, <2>6, <2>7 DEF Stands
  <1>11. SwitchKeys'
    BY <1>0, <1>10 DEF SwitchInv, SwitchKeys, Chained
  <1> QED
    BY <1>7, <1>9, <1>11 DEF SwitchInv

\* The service answers the route.
LEMMA ServeApiSwitch == ASSUME SwitchInv, TypeInv', ServeApi PROVE SwitchInv'
  <1>1. CASE Handle(GrantCall, "ok") /\ api' = [api EXCEPT !.answer = "ok", !.rev = rag'[api.ws].rev]
    BY <1>1, GrantSwitch
  <1>2. CASE Handle(GrantCall, "failed") /\ api' = NoApi
    <2>1. /\ UNCHANGED <<session, sub, receipts, acked, task, lost, rag>> /\ lost = {} /\ session.exists
          /\ ~Answered
      BY <1>2 DEF ServeApi, Handle, db, SwitchInv, SwitchRows, Answered
    <2>2. ~Answered' /\ api'.pc # "granting"
      BY <1>2 DEF Answered, NoApi
    <2> QED
      BY <2>1, <2>2, UnansweredSwitch DEF SameRound
  <1> QED
    BY <1>1, <1>2 DEF ServeApi

\* The grant becomes the row, and what was granted before joins the list.
LEMMA SubscribeSwitch == ASSUME SwitchInv, TypeInv', Subscribe PROVE SwitchInv'
  <1> DEFINE w == api.ws
             asked == api.asked
             v == api.rev
  <1>0. /\ UNCHANGED <<session, receipts, acked, task, rag, lost>> /\ api' = NoApi
        /\ task = NoTask /\ w \in Workspaces /\ asked \in Revs \cup {None} /\ v \in Revs
        /\ session.exists /\ session \in Session /\ lost = {} /\ Answered /\ ~Answered'
        /\ sub' = Subscribed(sub, w, asked, v) /\ sub \in Row \cup {None}
        /\ sub # None => sub.gen < MaxGrants
    BY RouteFacts DEF Subscribe, SwitchInv, SwitchRows, TypeInv, TablesOK, InRoute, Answered, Api, NoApi
  <1>1. sub' \in Row /\ sub' # None
    BY <1>0, SubscribedRow, NoneIsNone
  <1>2. /\ sub'.ws = w /\ sub'.asked = asked /\ sub'.rev = v /\ sub'.enabled /\ ~sub'.deleted /\ ~sub'.cleanup
        /\ sub'.pending = NewPending(sub, w) /\ sub'.gen = NextGen(sub, w, asked)
        /\ sub'.states = IF sub = None THEN [u \in Utts |-> None] ELSE sub.states
    BY <1>0 DEF Subscribed
  <1> HIDE DEF w, asked, v
  <1>3. SwitchRows'
    BY <1>0, <1>2 DEF SwitchRows, Plain, NewPending, NoApi
  <1>4. /\ rag[w].grant = "on" /\ rag[w].rev = v /\ Resolved(asked, v, rag[w].active)
        /\ Same(sub, w, asked) => sub.rev <= v
    BY <1>0 DEF SwitchInv, SwitchGrants, w, asked, v
  <1>5. SwitchGrants'
    <2>1. ASSUME NEW x \in Workspaces, rag[x].grant = "on" PROVE x = sub'.ws \/ x \in sub'.pending
      BY <1>0, <1>2, <2>1 DEF SwitchInv, SwitchGrants, NewPending, w
    <2> QED
      BY <1>0, <1>1, <1>2, <1>4, <2>1 DEF SwitchGrants, NoTask
  <1>6. sub = None => receipts = {}
    BY DEF SwitchInv, SwitchKeys, Chained
  <1>7. ASSUME NEW k \in receipts PROVE k.gen <= sub'.gen /\ (k.gen = sub'.gen => k.rev <= sub'.rev)
    <2>1. sub # None /\ sub \in Row /\ k \in Key
      BY <1>0, <1>6 DEF SwitchInv, TypeInv, TablesOK
    <2>2. k.gen \in Nat /\ sub.gen \in Nat /\ k.rev \in Nat /\ sub.rev \in Nat /\ v \in Nat
      BY <1>0, <2>1 DEF Key, Row, Subscription, Revs
    <2>3. k.gen <= sub.gen /\ (k.gen = sub.gen => k.rev <= sub.rev)
      BY <2>1 DEF SwitchInv, SwitchKeys
    <2>4. sub'.gen = sub.gen + IF Same(sub, w, asked) THEN 0 ELSE 1
      BY <1>2, <2>1 DEF NextGen
    <2> QED
      BY <1>2, <1>4, <2>2, <2>3, <2>4
  <1>8. Chained'
    BY <1>0, <1>1, <1>2, <1>6 DEF SwitchInv, SwitchKeys, Chained
  <1>9. ASSUME NEW u \in Utts PROVE Upheld(u)'
    <2>1. SUFFICES ASSUME Kept(u)', Served(sub.states[u].key)', sub'.states[u].key.gen = sub'.gen,
                          sub'.states[u].key.rev = sub'.rev
                   PROVE  Stands(rag[sub.ws], u)'
      BY <1>0 DEF Upheld
    <2>2. sub # None /\ sub'.states = sub.states
      BY <1>2, <2>1 DEF Kept
    <2>3. Upheld(u) /\ Kept(u) /\ Served(sub.states[u].key)
      BY <1>0, <2>1, <2>2 DEF SwitchInv, SwitchKeys, Kept, Served
    <2>4. Stands(rag[w], u)
      BY <1>0, <1>2, <2>1, <2>2, <2>3 DEF Upheld, w, asked, v
    <2> QED
      BY <1>0, <1>2, <2>2, <2>4 DEF Stands
  <1>10. SwitchKeys'
    BY <1>0, <1>7, <1>8, <1>9 DEF SwitchKeys
  <1> QED
    BY <1>3, <1>5, <1>10 DEF SwitchInv

\* Nothing has been granted or sent.
LEMMA InitSwitch == Init => SwitchInv
  <1> SUFFICES ASSUME Init PROVE SwitchInv
    OBVIOUS
  <1>1. /\ session.exists /\ sub = None /\ receipts = {} /\ acked = {} /\ task = NoTask
        /\ api = NoApi /\ lost = {} /\ ~Answered
    BY DEF Init, NoApi, Answered
  <1>2. \A w \in Workspaces : rag[w].grant = "none"
    BY DEF Init, NoRows
  <1>3. SwitchRows /\ SwitchGrants /\ SwitchKeys
    BY <1>1, <1>2 DEF SwitchRows, SwitchGrants, SwitchKeys, Chained, NoTask, NoApi
  <1> QED
    BY <1>3, InitTypes DEF SwitchInv

\* Every step of the users, the backend, the service and the machine.
LEMMA StepSwitch == ASSUME SwitchInv, OnlySwitch, [Next]_vars PROVE SwitchInv'
  <1>0. TypeInv' /\ lost = {}
    BY StepTypes DEF SwitchInv, SwitchRows
  <1>1. CASE UNCHANGED vars
    BY <1>0, <1>1, AskSwitch
  <1>2. CASE UserStep
    <2>1. ~Delete
      BY DEF OnlySwitch, Delete
    <2> QED
      BY <1>0, <1>2, <2>1, AskSwitch, ActivateSwitch DEF UserStep
  <1>3. CASE ApiStep
    BY <1>0, <1>3, AskSwitch, DisableSwitch, SubscribeSwitch DEF ApiStep
  <1>4. CASE TaskStep
    BY <1>0, <1>4, StartSwitch, ContinueSwitch, LostSwitch DEF TaskStep
  <1>5. CASE ServeApi \/ FailApi \/ Serve \/ Fail \/ Crash \/ \E c \in lost : Late(c)
    BY <1>0, <1>5, ServeApiSwitch, ServeSwitch, LostSwitch
  <1> QED
    BY <1>1, <1>2, <1>3, <1>4, <1>5 DEF Next

\* What the invariant says of the receipts and of the grants between two rounds.
LEMMA SwitchIsKept ==
  ASSUME SwitchInv PROVE ReceiptHasRow /\ ActiveGrantStands /\ FormerGrantsAreCancelled
  <1>0. ~Locked => ~Answered
    BY RouteFacts DEF SwitchInv, TypeInv, Locked, Answered
  <1>1. ReceiptHasRow
    <2> SUFFICES ASSUME Active, ~Locked, NEW u \in Utts, Kept(u), sub.states[u].key \in acked,
                        sub.states[u].key.gen = sub.gen, sub.states[u].key.rev = sub.rev
                 PROVE  Stands(rag[sub.ws], u)
      BY DEF ReceiptHasRow, Stands, Kept
    <2> QED
      BY <1>0 DEF Active, SwitchInv, SwitchKeys, Upheld, Served
  <1>2. ActiveGrantStands
    BY <1>0 DEF ActiveGrantStands, Active, SwitchInv, SwitchGrants
  <1>3. FormerGrantsAreCancelled
    BY <1>0 DEF FormerGrantsAreCancelled, SwitchInv, SwitchGrants
  <1> QED
    BY <1>1, <1>2, <1>3

\* However the subscription is moved between workspaces and revisions, switched off
\* and on, saved and refused, with no call carried out late: what was acknowledged
\* under the present grant has its row, the grant that is shown as enabled stands,
\* and every other workspace with a grant waits for its cancellation.
THEOREM SwitchingIsSafe ==
  OnlySwitch => (Spec => [](ReceiptHasRow /\ ActiveGrantStands /\ FormerGrantsAreCancelled))
  <1> SUFFICES ASSUME OnlySwitch PROVE Spec => [](ReceiptHasRow /\ ActiveGrantStands /\ FormerGrantsAreCancelled)
    OBVIOUS
  <1>1. Init => SwitchInv
    BY InitSwitch
  <1>2. SwitchInv /\ [Next]_vars => SwitchInv'
    BY StepSwitch
  <1>3. SwitchInv => ReceiptHasRow /\ ActiveGrantStands /\ FormerGrantsAreCancelled
    BY SwitchIsKept
  <1> QED
    BY <1>1, <1>2, <1>3, PTL DEF Spec
=============================================================================
