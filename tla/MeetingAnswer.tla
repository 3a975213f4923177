------------------------------- MODULE MeetingAnswer -------------------------------
(***************************************************************************)
(* MeetingAnswer: an utterance becomes a popup in several steps with a     *)
(* provider call or a search between them, while an administrator saves    *)
(* settings, withdraws the consent, revokes the source or edits the access *)
(* scope.  An analysis does all steps in one request and takes a permit of *)
(* the LLM gate; a job stores a checkpoint after its search, and resumes   *)
(* from it in another thread (whose permit is the scheduler's).            *)
(***************************************************************************)
EXTENDS Naturals, FiniteSets

CONSTANTS Analyses, Jobs, Vendors, None,
    PERMITS,
    MaxChanges      \* bound: saves of the settings and edits of the access scope

VARIABLES
    world,      \* [vendor, version, consent, scope, open]; open: the source and the revision resolve
    call,       \* [pc, expected, checkpoint, evidence, status] of each call
    doubt,      \* calls for which something was withdrawn while they rested or were written
    told,       \* utterances whose evidence went to a provider: [call, doubted]
    free        \* permits of the gate

maVars == <<world, call, doubt, told, free>>

Calls == Analyses \cup Jobs
Config == [vendor : Vendors \cup {None}, version : 0..MaxChanges]
Idle == [pc |-> "idle", expected |-> None, checkpoint |-> None, evidence |-> FALSE, status |-> "none"]
Finals == {"unavailable", "suppressed", "insufficient_evidence", "popup"}

TypeOK ==
    /\ world \in [vendor : Vendors \cup {None}, version : 0..MaxChanges, consent : Vendors \cup {None},
                  scope : 0..MaxChanges, open : BOOLEAN]
    /\ \A c \in Calls :
        /\ call[c].pc \in {"idle", "resolve", "gate", "ask", "extract", "again", "search", "searched", "prepared",
                           "compare", "draft", "write", "final", "confirm", "done"}
        /\ call[c].expected \in Config \cup {None} /\ call[c].evidence \in BOOLEAN
        /\ call[c].status \in Finals \cup {"none"}
    /\ doubt \subseteq Calls /\ free \in 0..PERMITS

Init ==
    /\ \E v \in Vendors : world = [vendor |-> v, version |-> 0, consent |-> v, scope |-> 0, open |-> TRUE]
    /\ call = [c \in Calls |-> Idle] /\ doubt = {} /\ told = {} /\ free = PERMITS

Saved == [vendor |-> world.vendor, version |-> world.version]
\* approved_config: enabled, consented to, and the settings that were expected.
Approved(expected) == world.vendor # None /\ world.consent = world.vendor /\ expected = Saved

At(c, pc) == call[c].pc = pc
Go(c, pc) == call' = [call EXCEPT ![c].pc = pc]
Holds(c) == c \in Analyses /\ call[c].pc \in {"ask", "extract", "again", "search", "draft", "write", "final", "confirm"}

\* `finally` gives the permit back if it was acquired.
ReleasedAlways(c) == free + 1                              \* Mutant: a refused acquire releases too
Released(c) == IF Holds(c) THEN free + 1 ELSE free

\* The end of a call; every exception ends it "unavailable", with neither popup nor evidence.
Finish(c, status, evidence) ==
    /\ call' = [call EXCEPT ![c].pc = "done", ![c].status = status, ![c].evidence = evidence]
    /\ free' = Released(c)
RefusedKeeps(c) == Finish(c, "unavailable", call[c].evidence) \* Mutant: excerpts stay in the result
Refused(c) == Finish(c, "unavailable", FALSE)

Step(c, from, holds, to) ==
    /\ At(c, from) /\ IF holds THEN (Go(c, to) /\ UNCHANGED free) ELSE Refused(c)
    /\ UNCHANGED <<world, doubt, told>>

Start(c) ==
    /\ At(c, "idle")
    /\ IF Approved(Saved) THEN call' = [call EXCEPT ![c].pc = "resolve", ![c].expected = Saved] /\ UNCHANGED free
       ELSE Refused(c)
    /\ UNCHANGED <<world, doubt, told>>

Resolve(c) == Step(c, "resolve", world.open, IF c \in Analyses THEN "gate" ELSE "search")

\* The gate is not waited for.
Gate(c) ==
    /\ At(c, "gate")
    /\ IF free > 0 THEN (Go(c, "ask") /\ free' = free - 1) ELSE Refused(c)
    /\ UNCHANGED <<world, doubt, told>>

Ask(c) == Step(c, "ask", Approved(call[c].expected), "extract")

\* The model extracts: relevant, not relevant, or no valid answer in time.
Extract(c) ==
    /\ At(c, "extract")
    /\ \/ (Go(c, "again") /\ UNCHANGED free) \/ Finish(c, "suppressed", FALSE) \/ Refused(c)
    /\ UNCHANGED <<world, doubt, told>>

\* Approved again after the extraction (an analysis) or the search (a job).
Again(c) == Step(c, "again", Approved(call[c].expected), IF c \in Analyses THEN "search" ELSE "searched")

\* A job whose classification is not relevant is not searched for.
Irrelevant(c) ==
    /\ c \in Jobs /\ At(c, "search") /\ Finish(c, "suppressed", FALSE) /\ UNCHANGED <<world, doubt, told>>

\* The search fails if the source is not there or the scope changes under it; it may find nothing.
Search(c) ==
    /\ At(c, "search")
    /\ \/ \E found \in BOOLEAN :
          /\ world.open /\ (c \in Analyses => found) /\ UNCHANGED free
          /\ call' = [call EXCEPT ![c].pc = (IF c \in Analyses THEN "draft" ELSE "again"), ![c].evidence = found,
                                  ![c].checkpoint = [scope |-> world.scope]]
       \/ (c \in Analyses /\ world.open /\ Finish(c, "insufficient_evidence", FALSE))
       \/ Refused(c)
    /\ UNCHANGED <<world, doubt, told>>

\* The checkpoint names settings, input, evidence, revision and scope; the job row stores it.
Searched(c) ==
    /\ At(c, "searched")
    /\ IF ~world.open THEN Refused(c)
       ELSE IF call[c].evidence THEN (Go(c, "prepared") /\ UNCHANGED free)
       ELSE Finish(c, "insufficient_evidence", FALSE)
    /\ UNCHANGED <<world, doubt, told>>

\* Another thread takes the checkpoint up; the settings must be those of the checkpoint.
MatchesAny(c) == TRUE                                       \* Mutant: only the consent is asked for
Matches(c) == call[c].expected = Saved

Resume(c) ==
    /\ At(c, "prepared")
    /\ IF Approved(Saved) /\ Matches(c)
         THEN call' = [call EXCEPT ![c].pc = "compare", ![c].expected = Saved] /\ UNCHANGED free
         ELSE Refused(c)
    /\ UNCHANGED <<world, doubt, told>>

InScope(c) == c \in Jobs => call[c].checkpoint.scope = world.scope
Compare(c) == Step(c, "compare", world.open /\ InScope(c), "draft")

\* Evidence and utterance go to the provider.
Draft(c) ==
    /\ At(c, "draft")
    /\ IF Approved(call[c].expected)
         THEN /\ Go(c, "write") /\ doubt' = doubt \ {c} /\ UNCHANGED free
              /\ told' = told \cup {[call |-> c, doubted |-> c \in doubt]}
         ELSE Refused(c) /\ UNCHANGED <<doubt, told>>
    /\ UNCHANGED world

\* A valid answer in time, or not.
Write(c) ==
    /\ At(c, "write") /\ ((Go(c, "final") /\ UNCHANGED free) \/ Refused(c)) /\ UNCHANGED <<world, doubt, told>>

Final(c) == Step(c, "final", Approved(call[c].expected), "confirm")

\* The last look at the source, then the verdict on the answer.
StandsAlways(c) == TRUE                                     \* Mutant: the revision is not resolved again
Stands(c) == world.open /\ InScope(c)

Confirm(c) ==
    /\ At(c, "confirm")
    /\ IF Stands(c) THEN \E s \in Finals \ {"unavailable"} : Finish(c, s, TRUE)
       ELSE Refused(c)
    /\ UNCHANGED <<world, doubt, told>>

Forward(c) ==
    \/ Start(c) \/ Resolve(c) \/ Gate(c) \/ Ask(c) \/ Extract(c) \/ Again(c) \/ Irrelevant(c) \/ Search(c)
    \/ Searched(c) \/ Resume(c) \/ Compare(c) \/ Draft(c) \/ Write(c) \/ Final(c) \/ Confirm(c)

\* What world w no longer covers: stale for ever (versions only grow), or until it is restored.
Stale(c, w) ==
    \/ call[c].expected # [vendor |-> w.vendor, version |-> w.version]
    \/ (c \in Jobs /\ call[c].checkpoint.scope # w.scope)
Uncovered(c, w) == Stale(c, w) \/ w.consent # w.vendor \/ w.vendor = None \/ ~w.open

Change(w) ==
    /\ world' = w /\ w # world
    /\ doubt' = {c \in Calls :
                   CASE At(c, "prepared") -> Stale(c, w)
                     [] At(c, "write") -> Uncovered(c, w)
                     [] At(c, "final") -> c \in doubt /\ Uncovered(c, w)
                     [] At(c, "confirm") -> c \in doubt /\ ~w.open
                     [] OTHER -> c \in doubt}
    /\ UNCHANGED <<call, told, free>>

\* A save that names another provider clears the consent.
SaveSettings(v) ==
    /\ world.version < MaxChanges
    /\ Change([world EXCEPT !.vendor = v, !.version = @ + 1, !.consent = IF v = world.vendor THEN @ ELSE None])
SetConsent(given) == Change([world EXCEPT !.consent = IF given THEN world.vendor ELSE None])
EditScope == world.scope < MaxChanges /\ Change([world EXCEPT !.scope = @ + 1])
Revoke == Change([world EXCEPT !.open = ~@])

Next ==
    \/ \E c \in Calls : Forward(c)
    \/ (\E v \in Vendors \cup {None} : SaveSettings(v)) \/ (\E given \in BOOLEAN : SetConsent(given))
    \/ EditScope \/ Revoke

---------------------------------------------------------------------------

\* Consent, settings or sources withdrawn while the model writes, and not restored before its
\* answer came: the result carries neither a popup nor the excerpts.
NoLatePopup ==
    \A c \in doubt : At(c, "done") => call[c].status = "unavailable" /\ ~call[c].evidence

\* A checkpoint that went stale while it rested is never sent.
StaleCheckpointRests == \A m \in told : ~m.doubted

\* Every permit is free or held by one analysis, however the analysis ends.
PermitsReturn == free + Cardinality({c \in Calls : Holds(c)}) = PERMITS
=============================================================================
