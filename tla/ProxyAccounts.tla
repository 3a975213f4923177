-------------------------------- MODULE ProxyAccounts --------------------------------
(***************************************************************************)
(* ProxyAccounts: choosing and deleting the account a managed proxy uses.  *)
(* Every change is a request to the proxy's management interface whose     *)
(* response may be lost whether or not the request took effect; a failed   *)
(* selection is rolled back request by request.  The proxy itself may add  *)
(* an account when a login completes.  ManagedProxy.lock admits one        *)
(* operation at a time.                                                    *)
(***************************************************************************)
EXTENDS Naturals, Sequences, SequencesExt

CONSTANTS Accounts, None,
    MaxFailures,    \* bound: requests that fail or whose response is lost
    MaxLogins       \* bound: logins started

VARIABLES
    enabled, known,     \* accounts the proxy has, and those it uses
    login,              \* none, wait (a link was handed out), submitted
    logins,
    op,                 \* the operation in progress
    report,             \* what the last operation told: [kind, target, outcome, before]
    failures,
    meddled             \* the proxy changed its accounts while the operation ran

paVars == <<enabled, known, login, logins, op, report, failures, meddled>>

NoOp == [pc |-> "idle", target |-> None, todo |-> <<>>, changed |-> <<>>, before |-> {}, restored |-> TRUE]
NoReport == [kind |-> "none", target |-> None, outcome |-> "none", before |-> {}]

TypeOK ==
    /\ enabled \subseteq known /\ known \subseteq Accounts /\ login \in {"none", "wait", "submitted"}
    /\ logins \in 0..MaxLogins /\ failures \in 0..MaxFailures /\ meddled \in BOOLEAN
    /\ op.pc \in {"idle", "forward", "rollback", "delete", "deleted"} /\ op.target \in Accounts \cup {None}

Init ==
    /\ known \in SUBSET Accounts /\ enabled \in SUBSET known
    /\ login = "none" /\ logins = 0 /\ op = NoOp /\ report = NoReport /\ failures = 0 /\ meddled = FALSE

\* What a status request makes of the accounts.
Patched(a, on) == IF a \notin known THEN enabled ELSE IF on THEN enabled \cup {a} ELSE enabled \ {a}

---------------------------------------------------------------------------

\* Refused while a login is open, and unless the list is the one the screen showed.
\* The others are switched off first, so that no request uses the former account beside the new one.
TodoTargetFirst(a) == (IF a \in enabled THEN <<>> ELSE <<a>>) \o SetToSeq(enabled \ {a})  \* Mutant
Todo(a) == SetToSeq(enabled \ {a}) \o (IF a \in enabled THEN <<>> ELSE <<a>>)

Select(a) ==
    /\ op.pc = "idle" /\ login # "wait" /\ a \in known
    /\ op' = [NoOp EXCEPT !.pc = "forward", !.target = a, !.todo = Todo(a), !.before = enabled]
    /\ meddled' = FALSE /\ UNCHANGED <<enabled, known, login, logins, report, failures>>

\* The account is noted before the request, since its response may be lost.
NotedAfter(answered) == IF answered THEN Append(op.changed, Head(op.todo)) ELSE op.changed \* Mutant
Noted(answered) == Append(op.changed, Head(op.todo))

Answered == /\ enabled' = Patched(Head(op.todo), Head(op.todo) = op.target) /\ UNCHANGED failures
Failed ==
    /\ failures < MaxFailures /\ failures' = failures + 1
    /\ enabled' \in {enabled, Patched(Head(op.todo), Head(op.todo) = op.target)}

Forward ==
    /\ op.pc = "forward" /\ op.todo # <<>>
    /\ \/ Answered /\ op' = [op EXCEPT !.todo = Tail(@), !.changed = Noted(TRUE)]
       \/ Failed /\ op' = [op EXCEPT !.pc = "rollback", !.todo = Reverse(Noted(FALSE))]
    /\ UNCHANGED <<known, login, logins, report, meddled>>

Tell(kind, outcome) ==
    /\ report' = [kind |-> kind, target |-> op.target, outcome |-> outcome, before |-> op.before]
    /\ op' = NoOp

\* The list is read again: the target and nothing else.
VerifiedTarget == op.target \in enabled                     \* Mutant: the others are not looked at
Verified == enabled = {op.target}

Verify ==
    /\ op.pc = "forward" /\ op.todo = <<>>
    /\ \/ Verified /\ Tell("select", "selected") /\ UNCHANGED failures
       \/ /\ ~Verified /\ op' = [op EXCEPT !.pc = "rollback", !.todo = Reverse(op.changed)] /\ UNCHANGED <<report, failures>>
       \/ /\ failures < MaxFailures /\ failures' = failures + 1
          /\ op' = [op EXCEPT !.pc = "rollback", !.todo = Reverse(op.changed)] /\ UNCHANGED report
    /\ UNCHANGED <<enabled, known, login, logins, meddled>>

\* Each noted account gets back the state it had, in the reverse order; a failure is remembered.
Rollback ==
    /\ op.pc = "rollback" /\ op.todo # <<>>
    /\ LET a == Head(op.todo) was == Patched(a, a \in op.before) IN
        \/ /\ a \in known /\ enabled' = was /\ op' = [op EXCEPT !.todo = Tail(@)] /\ UNCHANGED failures
        \/ /\ failures < MaxFailures /\ failures' = failures + 1 /\ enabled' \in {enabled, was}
           /\ op' = [op EXCEPT !.todo = Tail(@), !.restored = FALSE]
    /\ UNCHANGED <<known, login, logins, report, meddled>>

RolledBack ==
    /\ op.pc = "rollback" /\ op.todo = <<>>
    /\ Tell("select", IF op.restored THEN "failed" ELSE "unclear")
    /\ UNCHANGED <<enabled, known, login, logins, failures, meddled>>

---------------------------------------------------------------------------

Delete(a) ==
    /\ op.pc = "idle" /\ login # "wait" /\ a \in known
    /\ op' = [NoOp EXCEPT !.pc = "delete", !.target = a, !.before = enabled] /\ meddled' = FALSE
    /\ UNCHANGED <<enabled, known, login, logins, report, failures>>

\* A lost response is an error, whatever became of the account; otherwise the list is read again.
DeleteRequest ==
    /\ op.pc = "delete"
    /\ \/ /\ known' = known \ {op.target} /\ enabled' = enabled \ {op.target}
          /\ op' = [op EXCEPT !.pc = "deleted"] /\ UNCHANGED <<report, failures>>
       \/ /\ failures < MaxFailures /\ failures' = failures + 1 /\ Tell("delete", "unclear")
          /\ known' \in {known, known \ {op.target}} /\ enabled' = enabled \cap known'
    /\ UNCHANGED <<login, logins, meddled>>

DeleteVerified ==
    /\ op.pc = "deleted" /\ Tell("delete", IF op.target \in known THEN "failed" ELSE "deleted")
    /\ UNCHANGED <<enabled, known, login, logins, failures, meddled>>

\* start() hands out the link there is while it is open.
StartLogin ==
    /\ op.pc = "idle" /\ login # "wait" /\ logins < MaxLogins /\ logins' = logins + 1 /\ login' = "wait"
    /\ UNCHANGED <<enabled, known, op, report, failures, meddled>>
Callback ==
    /\ op.pc = "idle" /\ login = "wait" /\ login' = "submitted"
    /\ UNCHANGED <<enabled, known, logins, op, report, failures, meddled>>

\* The proxy completes a login: a new account in use, or an old one again.
LoggedIn(a) ==
    /\ login = "submitted" /\ login' = "none" /\ known' = known \cup {a} /\ enabled' = enabled \cup {a}
    /\ meddled' = (op.pc # "idle" \/ meddled)
    /\ UNCHANGED <<logins, op, report, failures>>

Next ==
    \/ \E a \in Accounts : Select(a) \/ Delete(a) \/ LoggedIn(a)
    \/ Forward \/ Verify \/ Rollback \/ RolledBack \/ DeleteRequest \/ DeleteVerified \/ StartLogin \/ Callback

---------------------------------------------------------------------------

\* While a selection goes forward, the account it switches on is never on beside another one.
NeverBeside ==
    op.pc = "forward" /\ op.target \in enabled /\ op.target \notin op.before /\ ~meddled => enabled = {op.target}

\* A selection is reported only when the target is the one account in use at that moment.
SelectedIsAlone ==
    [][report' # report /\ report'.outcome = "selected" => enabled' = {report'.target}]_paVars

\* "Failed, try again" is said only if everything is as it was; otherwise the user is told to look,
\* unless the proxy itself changed the accounts meanwhile.
FailedIsRestored ==
    [][op.pc = "rollback" /\ op'.pc = "idle" /\ report'.outcome = "failed" /\ ~meddled => enabled' = report'.before]_paVars
=============================================================================
