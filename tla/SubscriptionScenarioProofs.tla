---------------------- MODULE SubscriptionScenarioProofs ----------------------
(***************************************************************************)
(* The scenarios of SubscriptionDeliveryScenarios: what the proofs of      *)
(* SubscriptionDelivery say of every instance, said of these.  A scenario  *)
(* is an instance of the module, and its proofs are that instance of       *)
(* SubscriptionDeliveryProofs: the two have the same steps.                *)
(***************************************************************************)
EXTENDS SubscriptionDeliveryProofs, SubscriptionDeliveryScenarios

\* The proofs for the scenario that switches, and for the one that deletes.
Sw == INSTANCE SubscriptionDeliveryProofs WITH
    Workspaces <- {w1, w2}, Utts <- {1}, Texts <- {t1}, MaxRev <- 2, Batch <- 1, MaxGen <- 2,
    MaxGrants <- 3, MaxLost <- 0, MaxCrashes <- 0,
    Ops <- {"save", "enable", "disable", "pin", "index", "failures"}
De == INSTANCE SubscriptionDeliveryProofs WITH
    Workspaces <- {w1, w2}, Utts <- {1}, Texts <- {t1}, MaxRev <- 1, Batch <- 1, MaxGen <- 2,
    MaxGrants <- 2, MaxLost <- 0, MaxCrashes <- 1,
    Ops <- {"save", "enable", "delete", "failures"}

-----------------------------------------------------------------------------
(* One utterance rewritten *)

\* While one utterance, or any number of them, is rewritten in one workspace and
\* calls fail, come late or are lost with the backend: receipts have their rows,
\* announced snapshots are clean, and texts return under new keys.
THEOREM SpeechScenarioHolds == OnlySpeech => (SafetySpec => []SpeechHolds)
  <1> SUFFICES ASSUME OnlySpeech PROVE SafetySpec => []SpeechHolds
    OBVIOUS
  <1> DEFINE I == scenario = "speech" => SpeechInv
  <1>1. SafetyInit => I
    BY InitSpeech DEF SafetyInit
  <1>2. ASSUME I, [SafetyNext]_scenarioVars PROVE I'
    <2>1. scenario' = scenario /\ (scenario = "speech" => [Next]_vars)
      BY <1>2 DEF SafetyNext, scenarioVars
    <2> QED
      BY <1>2, <2>1, StepSpeech
  <1>3. I => SpeechHolds
    BY SpeechIsKept DEF SpeechHolds
  <1> HIDE DEF I
  <1> QED
    BY <1>1, <1>2, <1>3, PTL DEF SafetySpec

-----------------------------------------------------------------------------
(* One grant after another *)

\* The constants of the scenario are those of an instance.
LEMMA SwitchingConstants == Sw!ConstantsAssumption /\ Sw!NoneAssumption
  <1>1. Switching!Revs = Sw!Revs
    BY DEF Switching!Revs, Sw!Revs
  <1>2. Switching!Key = Sw!Key
    BY <1>1 DEF Switching!Key, Sw!Key
  <1>3. Switching!State = Sw!State
    BY <1>2 DEF Switching!State, Sw!State
  <1>4. Switching!Subscription = Sw!Subscription
    BY <1>1, <1>3 DEF Switching!Subscription, Sw!Subscription
  <1>5. Sw!ConstantsAssumption
    BY ScenarioAssumption DEF Sw!ConstantsAssumption
  <1>6. Sw!NoneAssumption
    BY <1>2, <1>4, ScenarioAssumption DEF Sw!NoneAssumption
  <1> QED
    BY <1>5, <1>6

\* The scenario that switches has the steps its proofs are about.
LEMMA SwitchingSteps ==
  /\ Switching!Init <=> Sw!Init
  /\ Switching!Next <=> Sw!Next
  <1>1. /\ Switching!NoTask = Sw!NoTask /\ Switching!NoApi = Sw!NoApi /\ Switching!NoRows = Sw!NoRows /\ Switching!db = Sw!db
        /\ Switching!vars = Sw!vars /\ (Switching!Locked <=> Sw!Locked) /\ (Switching!Waits <=> Sw!Waits) /\ Switching!GrantCall = Sw!GrantCall
    BY DEF Switching!NoTask, Sw!NoTask, Switching!NoApi, Sw!NoApi, Switching!NoRows, Sw!NoRows,
        Switching!db, Sw!db, Switching!vars, Sw!vars, Switching!Locked, Sw!Locked, Switching!Waits,
        Sw!Waits, Switching!GrantCall, Sw!GrantCall
  <1>2. \A r, S : Switching!Superseded(r, S) = Sw!Superseded(r, S)
    BY DEF Switching!Superseded, Sw!Superseded
  <1>3. \A r, v : Switching!Granted(r, v) = Sw!Granted(r, v)
    BY <1>2 DEF Switching!Granted, Sw!Granted
  <1>4. \A r, v, S : Switching!Cancelled(r, v, S) = Sw!Cancelled(r, v, S)
    BY <1>1 DEF Switching!Cancelled, Sw!Cancelled
  <1>5. \A r, S, g : Switching!Synced(r, S, g) = Sw!Synced(r, S, g)
    BY <1>2 DEF Switching!Synced, Sw!Synced
  <1>6. \A r, k, g : Switching!Enqueued(r, k, g) = Sw!Enqueued(r, k, g)
    BY <1>2 DEF Switching!Enqueued, Sw!Enqueued
  <1>7. \A r, c : (Switching!Accepts(r, c) <=> Sw!Accepts(r, c))
    BY DEF Switching!Accepts, Sw!Accepts, Switching!Current, Sw!Current
  <1>8. \A r, c : Switching!Results(r, c) = Sw!Results(r, c)
    BY <1>3, <1>4, <1>5, <1>6 DEF Switching!Results, Sw!Results
  <1>9. \A c, a : (Switching!Handle(c, a) <=> Sw!Handle(c, a))
    BY <1>7, <1>8 DEF Switching!Handle, Sw!Handle
  <1>10. \A c : (Switching!GiveUp(c) <=> Sw!GiveUp(c))
    BY DEF Switching!GiveUp, Sw!GiveUp, Switching!Cardinality, Sw!Cardinality
  <1>11. \A x : Switching!Admit(x) = Sw!Admit(x)
    BY <1>1 DEF Switching!Admit, Sw!Admit, Switching!Finish, Sw!Finish, Switching!First, Sw!First,
        Switching!Sends, Sw!Sends, Switching!Ends, Sw!Ends
  <1>12. \A s, b : Switching!States(s, b) = Sw!States(s, b)
    BY DEF Switching!States, Sw!States, Switching!KeyOf, Sw!KeyOf, Switching!Signed, Sw!Signed,
        Switching!Spoken, Sw!Spoken
  <1>13. (\A s : Switching!Spoken(s) = Sw!Spoken(s)) /\ (\A x, s, q : Switching!Undelivered(x, s, q) = Sw!Undelivered(x, s, q))
    BY DEF Switching!Spoken, Sw!Spoken, Switching!Undelivered, Sw!Undelivered
  <1>14. \A x, l, c : Switching!Sends(x, l, c) = Sw!Sends(x, l, c)
    BY DEF Switching!Sends, Sw!Sends
  <1>15. \A x : Switching!Prepare(x) = Sw!Prepare(x)
    <2> TAKE x
    <2> DEFINE t == x.task
               b(q) == [t.sub EXCEPT !.states = q]
               y(q, todo) == [x EXCEPT !.task.sub = b(q), !.sub = IF t.sub.states # q THEN b(q) ELSE @,
                                       !.task.todo = todo]
               call(q, spoken) == [kind |-> "sync", ws |-> b(q).ws, present |-> spoken, gen |-> t.sess.gen]
               f(q, todo, spoken) == IF b(q).synced = t.sess.gen THEN Switching!Admit(y(q, todo))
                                     ELSE {Switching!Sends(y(q, todo), "sync", call(q, spoken))}
               g(q, todo, spoken) == IF b(q).synced = t.sess.gen THEN Sw!Admit(y(q, todo))
                                     ELSE {Sw!Sends(y(q, todo), "sync", call(q, spoken))}
               p == Switching!States(t.sess, t.sub)
               q == Sw!States(t.sess, t.sub)
    <2>1. Switching!Prepare(x) = f(p, Switching!Undelivered(x, t.sess, p), Switching!Spoken(t.sess))
      BY DEF Switching!Prepare
    <2>2. Sw!Prepare(x) = g(q, Sw!Undelivered(x, t.sess, q), Sw!Spoken(t.sess))
      BY DEF Sw!Prepare
    <2>3. p = q
      BY <1>12
    <2> HIDE DEF p, q
    <2>4. /\ Switching!Undelivered(x, t.sess, p) = Sw!Undelivered(x, t.sess, q)
          /\ Switching!Spoken(t.sess) = Sw!Spoken(t.sess)
      BY <2>3, <1>13
    <2>5. \A r, todo, spoken : f(r, todo, spoken) = g(r, todo, spoken)
      <3> HIDE DEF y, b, call
      <3> QED
        BY <1>11, <1>14
    <2> HIDE DEF f, g
    <2> QED
      BY <2>1, <2>2, <2>3, <2>4, <2>5
  <1>16. \A x : Switching!Route(x) = Sw!Route(x)
    BY <1>1, <1>15 DEF Switching!Route, Sw!Route, Switching!Sends, Sw!Sends, Switching!Ends,
        Sw!Ends
  <1>17. \A x : Switching!Resume(x) = Sw!Resume(x)
    BY <1>1, <1>11, <1>16 DEF Switching!Resume, Sw!Resume, Switching!Ends, Sw!Ends,
        Switching!Acknowledged, Sw!Acknowledged
  <1>18. \A text : (Switching!Save(text) <=> Sw!Save(text))
    BY DEF Switching!Save, Sw!Save, Switching!db, Sw!db
  <1>19. (Switching!Delete <=> Sw!Delete)
    BY DEF Switching!Delete, Sw!Delete
  <1>20. \A on, w, v : (Switching!Ask(on, w, v) <=> Sw!Ask(on, w, v))
    BY DEF Switching!Ask, Sw!Ask, Switching!NoApi, Sw!NoApi, Switching!db, Sw!db
  <1>21. \A w : (Switching!Activate(w) <=> Sw!Activate(w))
    BY DEF Switching!Activate, Sw!Activate, Switching!db, Sw!db
  <1>22. (Switching!Disable <=> Sw!Disable)
    BY DEF Switching!Disable, Sw!Disable, Switching!Locked, Sw!Locked, Switching!NoApi, Sw!NoApi
  <1>23. (Switching!Register <=> Sw!Register)
    BY DEF Switching!Register, Sw!Register, Switching!Locked, Sw!Locked, Switching!db, Sw!db
  <1>24. (Switching!Subscribe <=> Sw!Subscribe)
    BY DEF Switching!Subscribe, Sw!Subscribe, Switching!Subscribed, Sw!Subscribed,
        Switching!NewPending, Sw!NewPending, Switching!NextGen, Sw!NextGen, Switching!Same,
        Sw!Same, Switching!NoApi, Sw!NoApi
  <1>25. (Switching!ServeApi <=> Sw!ServeApi)
    BY <1>9 DEF Switching!ServeApi, Sw!ServeApi, Switching!GrantCall, Sw!GrantCall,
        Switching!NoApi, Sw!NoApi, Switching!db, Sw!db
  <1>26. (Switching!FailApi <=> Sw!FailApi)
    BY <1>10 DEF Switching!FailApi, Sw!FailApi, Switching!GrantCall, Sw!GrantCall, Switching!NoApi,
        Sw!NoApi, Switching!db, Sw!db
  <1>27. (Switching!Start <=> Sw!Start)
    BY <1>16 DEF Switching!Start, Sw!Start, Switching!Runs, Sw!Runs, Switching!Here, Sw!Here,
        Switching!Due, Sw!Due, Switching!NoTask, Sw!NoTask, Switching!Locked, Sw!Locked
  <1>28. (Switching!Continue <=> Sw!Continue)
    BY <1>17 DEF Switching!Continue, Sw!Continue, Switching!Runs, Sw!Runs, Switching!Here, Sw!Here
  <1>29. (Switching!Defer <=> Sw!Defer)
    BY DEF Switching!Defer, Sw!Defer, Switching!NoTask, Sw!NoTask, Switching!db, Sw!db
  <1>30. (Switching!Serve <=> Sw!Serve)
    BY <1>9 DEF Switching!Serve, Sw!Serve, Switching!Waits, Sw!Waits, Switching!db, Sw!db
  <1>31. (Switching!Fail <=> Sw!Fail)
    BY <1>10 DEF Switching!Fail, Sw!Fail, Switching!Waits, Sw!Waits, Switching!db, Sw!db
  <1>32. \A c : (Switching!Late(c) <=> Sw!Late(c))
    BY <1>9 DEF Switching!Late, Sw!Late, Switching!db, Sw!db
  <1>33. (Switching!Crash <=> Sw!Crash)
    BY <1>10 DEF Switching!Crash, Sw!Crash, Switching!NoTask, Sw!NoTask, Switching!NoApi, Sw!NoApi,
        Switching!Waits, Sw!Waits, Switching!GrantCall, Sw!GrantCall, Switching!db, Sw!db
  <1>34. (Switching!Init <=> Sw!Init)
    BY <1>1 DEF Switching!Init, Sw!Init
  <1> QED
    BY <1>18, <1>19, <1>20, <1>21, <1>22, <1>23, <1>24, <1>25, <1>26, <1>27, <1>28, <1>29, <1>30,
        <1>31, <1>32, <1>33, <1>34 DEF Switching!Next, Sw!Next, Switching!Revs, Sw!Revs,
        Switching!UserStep, Sw!UserStep, Switching!ApiStep, Sw!ApiStep, Switching!TaskStep,
        Sw!TaskStep

\* The scenario promises what its proofs do.
LEMMA SwitchingPromises ==
  (Sw!ReceiptHasRow /\ Sw!ActiveGrantStands /\ Sw!FormerGrantsAreCancelled)
    => (Switching!ReceiptHasRow /\ Switching!ActiveGrantStands /\ Switching!FormerGrantsAreCancelled)
  <1>1. (Switching!Locked <=> Sw!Locked) /\ (Switching!Active <=> Sw!Active)
    BY DEF Switching!Locked, Sw!Locked, Switching!Active, Sw!Active
  <1>2. Sw!ReceiptHasRow => Switching!ReceiptHasRow
    BY <1>1 DEF Switching!ReceiptHasRow, Sw!ReceiptHasRow
  <1>3. Sw!ActiveGrantStands => Switching!ActiveGrantStands
    BY <1>1 DEF Switching!ActiveGrantStands, Sw!ActiveGrantStands
  <1>4. Sw!FormerGrantsAreCancelled => Switching!FormerGrantsAreCancelled
    BY <1>1 DEF Switching!FormerGrantsAreCancelled, Sw!FormerGrantsAreCancelled
  <1> QED
    BY <1>2, <1>3, <1>4

\* While the subscription is moved, pinned, switched off and on and calls fail:
\* acknowledged deliveries have their rows, the enabled grant stands, and former
\* grants wait for their cancellation.
THEOREM SwitchScenarioHolds == SafetySpec => []SwitchHolds
  <1> DEFINE I == scenario = "switch" => Sw!SwitchInv
  <1>0. Sw!ConstantsAssumption /\ Sw!NoneAssumption
    BY SwitchingConstants
  <1>1. Sw!OnlySwitch
    BY DEF Sw!OnlySwitch
  <1>2. SafetyInit => I
    BY <1>0, SwitchingSteps, Sw!InitSwitch DEF SafetyInit
  <1>3. ASSUME I, [SafetyNext]_scenarioVars PROVE I'
    <2>1. scenario' = scenario /\ (scenario = "switch" => (Sw!Next \/ UNCHANGED vars))
      BY <1>3, SwitchingSteps DEF SafetyNext, scenarioVars
    <2>2. scenario = "switch" => [Sw!Next]_Sw!vars
      BY <2>1 DEF Sw!vars, vars
    <2> QED
      BY <1>0, <1>1, <1>3, <2>1, <2>2, Sw!StepSwitch
  <1>4. I => SwitchHolds
    BY <1>0, Sw!SwitchIsKept, SwitchingPromises DEF SwitchHolds
  <1> HIDE DEF I
  <1> QED
    BY <1>2, <1>3, <1>4, PTL DEF SafetySpec

-----------------------------------------------------------------------------
(* The session deleted at any await *)

\* The constants of the scenario are those of an instance.
LEMMA DeletingConstants == De!ConstantsAssumption /\ De!NoneAssumption
  <1>1. Deleting!Revs = De!Revs
    BY DEF Deleting!Revs, De!Revs
  <1>2. Deleting!Key = De!Key
    BY <1>1 DEF Deleting!Key, De!Key
  <1>3. Deleting!State = De!State
    BY <1>2 DEF Deleting!State, De!State
  <1>4. Deleting!Subscription = De!Subscription
    BY <1>1, <1>3 DEF Deleting!Subscription, De!Subscription
  <1>5. De!ConstantsAssumption
    BY ScenarioAssumption DEF De!ConstantsAssumption
  <1>6. De!NoneAssumption
    BY <1>2, <1>4, ScenarioAssumption DEF De!NoneAssumption
  <1> QED
    BY <1>5, <1>6

\* The scenario that deletes has the steps its proofs are about.
LEMMA DeletingSteps ==
  /\ Deleting!Init <=> De!Init
  /\ Deleting!Next <=> De!Next
  <1>1. /\ Deleting!NoTask = De!NoTask /\ Deleting!NoApi = De!NoApi /\ Deleting!NoRows = De!NoRows /\ Deleting!db = De!db
        /\ Deleting!vars = De!vars /\ (Deleting!Locked <=> De!Locked) /\ (Deleting!Waits <=> De!Waits) /\ Deleting!GrantCall = De!GrantCall
    BY DEF Deleting!NoTask, De!NoTask, Deleting!NoApi, De!NoApi, Deleting!NoRows, De!NoRows,
        Deleting!db, De!db, Deleting!vars, De!vars, Deleting!Locked, De!Locked, Deleting!Waits,
        De!Waits, Deleting!GrantCall, De!GrantCall
  <1>2. \A r, S : Deleting!Superseded(r, S) = De!Superseded(r, S)
    BY DEF Deleting!Superseded, De!Superseded
  <1>3. \A r, v : Deleting!Granted(r, v) = De!Granted(r, v)
    BY <1>2 DEF Deleting!Granted, De!Granted
  <1>4. \A r, v, S : Deleting!Cancelled(r, v, S) = De!Cancelled(r, v, S)
    BY <1>1 DEF Deleting!Cancelled, De!Cancelled
  <1>5. \A r, S, g : Deleting!Synced(r, S, g) = De!Synced(r, S, g)
    BY <1>2 DEF Deleting!Synced, De!Synced
  <1>6. \A r, k, g : Deleting!Enqueued(r, k, g) = De!Enqueued(r, k, g)
    BY <1>2 DEF Deleting!Enqueued, De!Enqueued
  <1>7. \A r, c : (Deleting!Accepts(r, c) <=> De!Accepts(r, c))
    BY DEF Deleting!Accepts, De!Accepts, Deleting!Current, De!Current
  <1>8. \A r, c : Deleting!Results(r, c) = De!Results(r, c)
    BY <1>3, <1>4, <1>5, <1>6 DEF Deleting!Results, De!Results
  <1>9. \A c, a : (Deleting!Handle(c, a) <=> De!Handle(c, a))
    BY <1>7, <1>8 DEF Deleting!Handle, De!Handle
  <1>10. \A c : (Deleting!GiveUp(c) <=> De!GiveUp(c))
    BY DEF Deleting!GiveUp, De!GiveUp, Deleting!Cardinality, De!Cardinality
  <1>11. \A x : Deleting!Admit(x) = De!Admit(x)
    BY <1>1 DEF Deleting!Admit, De!Admit, Deleting!Finish, De!Finish, Deleting!First, De!First,
        Deleting!Sends, De!Sends, Deleting!Ends, De!Ends
  <1>12. \A s, b : Deleting!States(s, b) = De!States(s, b)
    BY DEF Deleting!States, De!States, Deleting!KeyOf, De!KeyOf, Deleting!Signed, De!Signed,
        Deleting!Spoken, De!Spoken
  <1>13. (\A s : Deleting!Spoken(s) = De!Spoken(s)) /\ (\A x, s, q : Deleting!Undelivered(x, s, q) = De!Undelivered(x, s, q))
    BY DEF Deleting!Spoken, De!Spoken, Deleting!Undelivered, De!Undelivered
  <1>14. \A x, l, c : Deleting!Sends(x, l, c) = De!Sends(x, l, c)
    BY DEF Deleting!Sends, De!Sends
  <1>15. \A x : Deleting!Prepare(x) = De!Prepare(x)
    <2> TAKE x
    <2> DEFINE t == x.task
               b(q) == [t.sub EXCEPT !.states = q]
               y(q, todo) == [x EXCEPT !.task.sub = b(q), !.sub = IF t.sub.states # q THEN b(q) ELSE @,
                                       !.task.todo = todo]
               call(q, spoken) == [kind |-> "sync", ws |-> b(q).ws, present |-> spoken, gen |-> t.sess.gen]
               f(q, todo, spoken) == IF b(q).synced = t.sess.gen THEN Deleting!Admit(y(q, todo))
                                     ELSE {Deleting!Sends(y(q, todo), "sync", call(q, spoken))}
               g(q, todo, spoken) == IF b(q).synced = t.sess.gen THEN De!Admit(y(q, todo))
                                     ELSE {De!Sends(y(q, todo), "sync", call(q, spoken))}
               p == Deleting!States(t.sess, t.sub)
               q == De!States(t.sess, t.sub)
    <2>1. Deleting!Prepare(x) = f(p, Deleting!Undelivered(x, t.sess, p), Deleting!Spoken(t.sess))
      BY DEF Deleting!Prepare
    <2>2. De!Prepare(x) = g(q, De!Undelivered(x, t.sess, q), De!Spoken(t.sess))
      BY DEF De!Prepare
    <2>3. p = q
      BY <1>12
    <2> HIDE DEF p, q
    <2>4. /\ Deleting!Undelivered(x, t.sess, p) = De!Undelivered(x, t.sess, q)
          /\ Deleting!Spoken(t.sess) = De!Spoken(t.sess)
      BY <2>3, <1>13
    <2>5. \A r, todo, spoken : f(r, todo, spoken) = g(r, todo, spoken)
      <3> HIDE DEF y, b, call
      <3> QED
        BY <1>11, <1>14
    <2> HIDE DEF f, g
    <2> QED
      BY <2>1, <2>2, <2>3, <2>4, <2>5
  <1>16. \A x : Deleting!Route(x) = De!Route(x)
    BY <1>1, <1>15 DEF Deleting!Route, De!Route, Deleting!Sends, De!Sends, Deleting!Ends, De!Ends
  <1>17. \A x : Deleting!Resume(x) = De!Resume(x)
    BY <1>1, <1>11, <1>16 DEF Deleting!Resume, De!Resume, Deleting!Ends, De!Ends,
        Deleting!Acknowledged, De!Acknowledged
  <1>18. \A text : (Deleting!Save(text) <=> De!Save(text))
    BY DEF Deleting!Save, De!Save, Deleting!db, De!db
  <1>19. (Deleting!Delete <=> De!Delete)
    BY DEF Deleting!Delete, De!Delete
  <1>20. \A on, w, v : (Deleting!Ask(on, w, v) <=> De!Ask(on, w, v))
    BY DEF Deleting!Ask, De!Ask, Deleting!NoApi, De!NoApi, Deleting!db, De!db
  <1>21. \A w : (Deleting!Activate(w) <=> De!Activate(w))
    BY DEF Deleting!Activate, De!Activate, Deleting!db, De!db
  <1>22. (Deleting!Disable <=> De!Disable)
    BY DEF Deleting!Disable, De!Disable, Deleting!Locked, De!Locked, Deleting!NoApi, De!NoApi
  <1>23. (Deleting!Register <=> De!Register)
    BY DEF Deleting!Register, De!Register, Deleting!Locked, De!Locked, Deleting!db, De!db
  <1>24. (Deleting!Subscribe <=> De!Subscribe)
    BY DEF Deleting!Subscribe, De!Subscribe, Deleting!Subscribed, De!Subscribed,
        Deleting!NewPending, De!NewPending, Deleting!NextGen, De!NextGen, Deleting!Same, De!Same,
        Deleting!NoApi, De!NoApi
  <1>25. (Deleting!ServeApi <=> De!ServeApi)
    BY <1>9 DEF Deleting!ServeApi, De!ServeApi, Deleting!GrantCall, De!GrantCall, Deleting!NoApi,
        De!NoApi, Deleting!db, De!db
  <1>26. (Deleting!FailApi <=> De!FailApi)
    BY <1>10 DEF Deleting!FailApi, De!FailApi, Deleting!GrantCall, De!GrantCall, Deleting!NoApi,
        De!NoApi, Deleting!db, De!db
  <1>27. (Deleting!Start <=> De!Start)
    BY <1>16 DEF Deleting!Start, De!Start, Deleting!Runs, De!Runs, Deleting!Here, De!Here,
        Deleting!Due, De!Due, Deleting!NoTask, De!NoTask, Deleting!Locked, De!Locked
  <1>28. (Deleting!Continue <=> De!Continue)
    BY <1>17 DEF Deleting!Continue, De!Continue, Deleting!Runs, De!Runs, Deleting!Here, De!Here
  <1>29. (Deleting!Defer <=> De!Defer)
    BY DEF Deleting!Defer, De!Defer, Deleting!NoTask, De!NoTask, Deleting!db, De!db
  <1>30. (Deleting!Serve <=> De!Serve)
    BY <1>9 DEF Deleting!Serve, De!Serve, Deleting!Waits, De!Waits, Deleting!db, De!db
  <1>31. (Deleting!Fail <=> De!Fail)
    BY <1>10 DEF Deleting!Fail, De!Fail, Deleting!Waits, De!Waits, Deleting!db, De!db
  <1>32. \A c : (Deleting!Late(c) <=> De!Late(c))
    BY <1>9 DEF Deleting!Late, De!Late, Deleting!db, De!db
  <1>33. (Deleting!Crash <=> De!Crash)
    BY <1>10 DEF Deleting!Crash, De!Crash, Deleting!NoTask, De!NoTask, Deleting!NoApi, De!NoApi,
        Deleting!Waits, De!Waits, Deleting!GrantCall, De!GrantCall, Deleting!db, De!db
  <1>34. (Deleting!Init <=> De!Init)
    BY <1>1 DEF Deleting!Init, De!Init
  <1> QED
    BY <1>18, <1>19, <1>20, <1>21, <1>22, <1>23, <1>24, <1>25, <1>26, <1>27, <1>28, <1>29, <1>30,
        <1>31, <1>32, <1>33, <1>34 DEF Deleting!Next, De!Next, Deleting!Revs, De!Revs,
        Deleting!UserStep, De!UserStep, Deleting!ApiStep, De!ApiStep, Deleting!TaskStep,
        De!TaskStep

\* The types of the scenario are those of its proofs.
LEMMA DeletingTypes == De!TypeOK => Deleting!TypeOK
  <1>1. Deleting!Revs = De!Revs /\ Deleting!Session = De!Session /\ Deleting!Answer = De!Answer
    BY DEF Deleting!Revs, De!Revs, Deleting!Session, De!Session, Deleting!Answer, De!Answer
  <1>2. Deleting!Key = De!Key
    BY <1>1 DEF Deleting!Key, De!Key
  <1>3. Deleting!State = De!State
    BY <1>2 DEF Deleting!State, De!State
  <1>4. Deleting!Subscription = De!Subscription
    BY <1>1, <1>3 DEF Deleting!Subscription, De!Subscription
  <1>5. Deleting!Call = De!Call
    BY <1>1, <1>2 DEF Deleting!Call, De!Call
  <1>6. Deleting!Task = De!Task
    BY <1>1, <1>4, <1>5 DEF Deleting!Task, De!Task
  <1>7. Deleting!Api = De!Api
    BY <1>1, <1>4 DEF Deleting!Api, De!Api
  <1> QED
    BY <1>1, <1>2, <1>4, <1>5, <1>6, <1>7 DEF Deleting!TypeOK, De!TypeOK

\* While the session is deleted at any await and the backend dies: every row,
\* receipt and call is of its type.
THEOREM DeletionTypes == LivenessSpec => []DeletionTypeOK
  <1> DEFINE I == scenario = "deletion" => De!TypeInv
  <1>0. De!ConstantsAssumption /\ De!NoneAssumption
    BY DeletingConstants
  <1>1. LivenessInit => I
    BY <1>0, DeletingSteps, De!InitTypes DEF LivenessInit
  <1>2. ASSUME I, [LivenessNext]_scenarioVars PROVE I'
    <2>1. scenario' = scenario /\ (scenario = "deletion" => (De!Next \/ UNCHANGED vars))
      BY <1>2, DeletingSteps DEF LivenessNext, Analysing, Tombstone, scenarioVars
    <2>2. scenario = "deletion" => [De!Next]_De!vars
      BY <2>1 DEF De!vars, vars
    <2> QED
      BY <1>0, <1>2, <2>1, <2>2, De!StepTypes
  <1>3. I => DeletionTypeOK
    BY <1>0, De!TypesAreDeclared, DeletingTypes DEF DeletionTypeOK
  <1> HIDE DEF I
  <1> QED
    BY <1>1, <1>2, <1>3, PTL DEF LivenessSpec

\* No round and no request undoes a tombstone before RAG has confirmed the deletion.
THEOREM DeletionTombstones == LivenessSpec => DeletionTombstoneKept
  <1> DEFINE I == scenario = "deletion" => De!TombInv
  <1>0. De!ConstantsAssumption /\ De!NoneAssumption /\ "disable" \notin {"save", "enable", "delete", "failures"}
    BY DeletingConstants
  <1>1. LivenessInit => I
    BY <1>0, DeletingSteps, De!InitTomb DEF LivenessInit
  <1>2. ASSUME I, [LivenessNext]_scenarioVars PROVE I' /\ [scenario = "deletion" => KeepsTombstone]_scenarioVars
    <2>1. scenario' = scenario /\ (scenario = "deletion" => (De!Next \/ UNCHANGED vars))
      BY <1>2, DeletingSteps DEF LivenessNext, Analysing, Tombstone, scenarioVars
    <2>2. scenario = "deletion" => [De!Next]_De!vars
      BY <2>1 DEF De!vars, vars
    <2>3. scenario = "deletion" => De!TombInv' /\ [De!KeepsTombstone]_De!vars
      BY <1>0, <1>2, <2>2, De!StepTomb
    <2> QED
      BY <2>1, <2>3 DEF KeepsTombstone, De!KeepsTombstone, De!vars, vars, scenarioVars
  <1> HIDE DEF I
  <1> QED
    BY <1>1, <1>2, PTL DEF DeletionTombstoneKept, LivenessSpec
=============================================================================
