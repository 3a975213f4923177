------------------------------- MODULE KnowledgeBase -------------------------------
(***************************************************************************)
(* One workspace of the RAG service: builds that read the connected        *)
(* folder, document versions shared by the revisions, the vector and       *)
(* keyword index of each revision, activation, removal, deletion, search   *)
(* and restart.                                                            *)
(*                                                                         *)
(* `locked` is the workspace lock.  A locked stretch that only writes what *)
(* the lock protects is one action; the stretches that touch disk before   *)
(* they commit are split, for a crash or an error between the two.         *)
(***************************************************************************)
EXTENDS Naturals, FiniteSets

CONSTANTS Revs, Files, Contents, None,
    MaxFaults,  \* bound: restarts and failed file operations
    MaxEdits    \* bound: changes of the connected folder

VARIABLES
    workspace,  \* live; marked: deleted=1 is committed; gone
    active,     \* knowledge_bases.active_revision_id
    build,      \* each revision with its job
    versions,   \* rows of document_versions
    snapshots,  \* their files
    vectors, keyword,   \* files indexed for each revision, None without a collection
    folder,     \* content of the connected folder
    worker,     \* the ingestion thread
    locked,     \* None, or who holds the workspace lock over several steps
    removing,   \* where remove() and delete() are
    asked,      \* revision of a pending question, or None
    reader,     \* a search without the lock
    edits, faults

kbVars == <<workspace, active, build, versions, snapshots, vectors, keyword, folder, worker, locked,
            removing, asked, reader, edits, faults>>

Version == [file : Files, content : Contents, review : BOOLEAN]
Unfinished == {"registered", "scanning", "building", "validating"}
NoBuild == [job |-> "none", rev |-> "none", cancel |-> FALSE, pinned |-> FALSE, review |-> FALSE,
            manifest |-> {}]
Asleep == [pc |-> "idle", rev |-> None, left |-> {}, file |-> None, done |-> {}, failed |-> FALSE]
NoReader == [pc |-> "idle", rev |-> None, whole |-> FALSE]

TypeOK ==
    /\ workspace \in {"live", "marked", "gone"} /\ active \in Revs \cup {None}
    /\ build \in [Revs -> [job : {"none", "queued", "running", "ready", "partial", "failed", "cancelled"},
                           rev : Unfinished \cup {"none", "ready", "partial", "failed", "cancelled"},
                           cancel : BOOLEAN, pinned : BOOLEAN, review : BOOLEAN,
                           manifest : SUBSET Version]]
    /\ versions \subseteq Version /\ snapshots \subseteq Version
    /\ \A r \in Revs : {vectors[r], keyword[r]} \subseteq (SUBSET Files) \cup {None}
    /\ folder \in [Files -> Contents] /\ locked \in {None, "worker", "remove", "delete"}
    /\ worker.pc \in {"idle", "scan", "make", "file", "parse", "store", "index", "publish"}
    /\ removing.pc \in {"idle", "dropped", "cleared", "unlinked", "marked", "wiped"}
    /\ asked \in Revs \cup {None}

Init ==
    /\ workspace = "live" /\ active = None /\ build = [r \in Revs |-> NoBuild]
    /\ versions = {} /\ snapshots = {}
    /\ vectors = [r \in Revs |-> None] /\ keyword = [r \in Revs |-> None]
    /\ folder \in [Files -> Contents] /\ worker = Asleep /\ locked = None
    /\ removing = [pc |-> "idle", rev |-> None] /\ asked = None /\ reader = NoReader
    /\ edits = 0 /\ faults = 0

Pending == {r \in Revs : build[r].job \in {"queued", "running"}}

\* An index request; one while a build is under way returns that build, as does one with the
\* idempotency key of an earlier build.
Create(r, review) ==
    /\ workspace = "live" /\ build[r] = NoBuild /\ vectors[r] = None
    /\ Pending = {}
    /\ build' = [build EXCEPT ![r] = [NoBuild EXCEPT !.job = "queued", !.rev = "registered",
                                                     !.review = review]]
    /\ UNCHANGED <<workspace, active, versions, snapshots, vectors, keyword, folder, worker, locked,
                   removing, asked, reader, edits, faults>>

\* The check of the job between the steps of a build.
Checked(r) == build[r].job # "none" /\ ~build[r].cancel /\ workspace = "live"

\* The handler of run(): it never takes a READY job or revision back.
Failed(r, state) ==
    IF build[r].job = "none" THEN build
    ELSE [build EXCEPT ![r].job = IF @ = "ready" THEN @ ELSE state,
                       ![r].rev = IF @ = "ready" THEN @ ELSE state]

Leave(r, state) ==
    /\ build' = Failed(r, state) /\ worker' = Asleep
    /\ locked' = IF locked = "worker" THEN None ELSE locked

WorkerStops ==
    /\ worker.pc # "idle" /\ ~Checked(worker.rev) /\ Leave(worker.rev, "cancelled")
    /\ worker.pc \in {"make", "store", "index"} => locked = None
    /\ UNCHANGED <<workspace, active, versions, snapshots, vectors, keyword, folder, removing, asked, reader,
                   edits, faults>>

\* An index, model or disk error ends the build.
WorkerFails ==
    /\ worker.pc # "idle" /\ faults < MaxFaults /\ faults' = faults + 1
    /\ Leave(worker.rev, "failed")
    /\ UNCHANGED <<workspace, active, versions, snapshots, vectors, keyword, folder, removing, asked, reader,
                   edits>>

Start(r) ==
    /\ worker.pc = "idle" /\ build[r].job = "queued"
    /\ IF Checked(r)
       THEN build' = [build EXCEPT ![r].job = "running", ![r].rev = "scanning"]
            /\ worker' = [Asleep EXCEPT !.pc = "scan", !.rev = r]
       ELSE build' = Failed(r, "cancelled") /\ UNCHANGED worker
    /\ UNCHANGED <<workspace, active, versions, snapshots, vectors, keyword, folder, locked, removing, asked,
                   reader, edits, faults>>

\* A file over the size limit is FAILED in the scan already.
Scan(oversize) ==
    /\ worker.pc = "scan" /\ Checked(worker.rev)
    /\ worker' = [worker EXCEPT !.pc = "make", !.left = Files \ oversize, !.failed = oversize # {}]
    /\ UNCHANGED <<workspace, active, build, versions, snapshots, vectors, keyword, folder, locked, removing,
                   asked, reader, edits, faults>>

Make ==
    LET r == worker.rev IN
    /\ worker.pc = "make" /\ locked = None /\ Checked(r)
    /\ vectors' = [vectors EXCEPT ![r] = {}] /\ keyword' = [keyword EXCEPT ![r] = {}]
    /\ build' = [build EXCEPT ![r].rev = "building"]
    /\ worker' = [worker EXCEPT !.pc = "file"]
    /\ UNCHANGED <<workspace, active, versions, snapshots, folder, locked, removing, asked, reader, edits, faults>>

\* The fingerprint of a build that accepts reviews differs from an ordinary one.
SameText(v, f, r) == v.file = f /\ v.content = folder[f]      \* Mutant: one fingerprint for both
Same(v, f, r) == v.file = f /\ v.content = folder[f] /\ v.review = build[r].review

\* Reads a file and looks its version up.
Take(f) ==
    LET found == {v \in versions : Same(v, f, worker.rev)} IN
    /\ worker.pc = "file" /\ locked = None /\ Checked(worker.rev) /\ f \in worker.left
    /\ \/ \E v \in found : worker' = [worker EXCEPT !.pc = "index", !.file = v, !.left = @ \ {f}]
       \/ /\ found = {}
          /\ worker' = [worker EXCEPT !.pc = "parse", !.left = @ \ {f},
                          !.file = [file |-> f, content |-> folder[f], review |-> build[worker.rev].review]]
       \/ worker' = [worker EXCEPT !.failed = TRUE, !.left = @ \ {f}]
    /\ UNCHANGED <<workspace, active, build, versions, snapshots, vectors, keyword, folder, locked, removing,
                   asked, reader, edits, faults>>

Parse ==
    /\ worker.pc = "parse" /\ Checked(worker.rev)
    /\ \/ worker' = [worker EXCEPT !.pc = "store"]
       \/ worker' = [worker EXCEPT !.pc = "file", !.file = None, !.failed = TRUE]
    /\ UNCHANGED <<workspace, active, build, versions, snapshots, vectors, keyword, folder, locked, removing,
                   asked, reader, edits, faults>>

StoreUnchecked ==                                             \* Mutant: no check under the lock
    /\ worker.pc = "store" /\ locked = None
    /\ snapshots' = snapshots \cup {worker.file} /\ versions' = versions \cup {worker.file}
    /\ worker' = [worker EXCEPT !.pc = "index"]
    /\ UNCHANGED <<workspace, active, build, vectors, keyword, folder, locked, removing, asked, reader, edits, faults>>

Store == worker.pc = "store" /\ Checked(worker.rev) /\ StoreUnchecked

Index ==
    LET r == worker.rev f == worker.file IN
    /\ worker.pc = "index" /\ locked = None /\ Checked(r)
    /\ vectors' = [vectors EXCEPT ![r] = @ \cup {f.file}]
    /\ keyword' = [keyword EXCEPT ![r] = @ \cup {f.file}]
    /\ worker' = [worker EXCEPT !.pc = "file", !.file = None, !.done = @ \cup {f}]
    /\ UNCHANGED <<workspace, active, build, versions, snapshots, folder, locked, removing, asked, reader, edits, faults>>

\* A strict build with a failed file is PARTIAL; one without any chunk fails.
Tolerates(r) == build[r].review

Partial ==
    LET r == worker.rev IN
    /\ worker.pc = "file" /\ worker.left = {} /\ Checked(r) /\ worker.failed /\ ~Tolerates(r)
    /\ build' = [build EXCEPT ![r].rev = "partial", ![r].job = "partial", ![r].manifest = worker.done]
    /\ worker' = Asleep
    /\ UNCHANGED <<workspace, active, versions, snapshots, vectors, keyword, folder, locked, removing, asked,
                   reader, edits, faults>>

Empty ==
    /\ worker.pc = "file" /\ worker.left = {} /\ worker.done = {} /\ Leave(worker.rev, "failed")
    /\ worker.failed => Tolerates(worker.rev)
    /\ UNCHANGED <<workspace, active, versions, snapshots, vectors, keyword, folder, removing, asked, reader,
                   edits, faults>>

\* activate() compares both indexes and every snapshot with the manifest, under the lock.
WholeIndex(r) == vectors[r] = {v.file : v \in worker.done} /\ keyword[r] = vectors[r]   \* Mutant: no snapshots
Whole(r) ==
    /\ vectors[r] = {v.file : v \in worker.done} /\ keyword[r] = vectors[r]
    /\ worker.done \subseteq versions /\ worker.done \subseteq snapshots

Validate ==
    LET r == worker.rev IN
    /\ worker.pc = "file" /\ worker.left = {} /\ worker.done # {} /\ locked = None /\ Checked(r)
    /\ worker.failed => Tolerates(r)
    /\ IF Whole(r)
       THEN /\ locked' = "worker" /\ worker' = [worker EXCEPT !.pc = "publish"]
            /\ build' = [build EXCEPT ![r].rev = "validating"]
       ELSE Leave(r, "failed")
    /\ UNCHANGED <<workspace, active, versions, snapshots, vectors, keyword, folder, removing, asked, reader,
                   edits, faults>>

PublishUnchecked ==                                           \* Mutant: no check in the transaction
    LET r == worker.rev IN
    /\ worker.pc = "publish" /\ locked' = None /\ worker' = Asleep /\ active' = r
    /\ build' = [build EXCEPT ![r].rev = "ready", ![r].job = "ready", ![r].manifest = worker.done]
    /\ UNCHANGED <<workspace, versions, snapshots, vectors, keyword, folder, removing, asked, reader, edits, faults>>

Publish == worker.pc = "publish" /\ Checked(worker.rev) /\ PublishUnchecked

Worker ==
    \/ (\E r \in Revs : Start(r)) \/ (\E o \in SUBSET Files : Scan(o)) \/ Make \/ (\E f \in Files : Take(f))
    \/ Parse \/ Store \/ Index \/ Partial \/ Empty \/ Validate \/ Publish \/ WorkerStops

Cancel(r) ==
    /\ workspace = "live" /\ r \in Pending /\ build' = [build EXCEPT ![r].cancel = TRUE]
    /\ UNCHANGED <<workspace, active, versions, snapshots, vectors, keyword, folder, worker, locked, removing,
                   asked, reader, edits, faults>>

Pin(r) ==
    /\ workspace = "live" /\ locked = None /\ build[r].rev # "none"
    /\ build' = [build EXCEPT ![r].pinned = ~@]
    /\ UNCHANGED <<workspace, active, versions, snapshots, vectors, keyword, folder, worker, locked, removing,
                   asked, reader, edits, faults>>

\* A queued question is bound to the READY revision it names, or to the active one; answering it
\* frees the revision.
Ask(r) ==
    /\ workspace = "live" /\ locked = None /\ asked = None /\ build[r].rev = "ready" /\ asked' = r
    /\ UNCHANGED <<workspace, active, build, versions, snapshots, vectors, keyword, folder, worker, locked,
                   removing, reader, edits, faults>>

Answered ==
    /\ asked # None /\ locked = None /\ asked' = None
    /\ UNCHANGED <<workspace, active, build, versions, snapshots, vectors, keyword, folder, worker, locked,
                   removing, reader, edits, faults>>

RemovableAsked(r) == r # active /\ ~build[r].pinned /\ Pending = {}      \* Mutant: pending questions are ignored
Removable(r) == r # active /\ ~build[r].pinned /\ Pending = {} /\ asked # r

Remove(r) ==
    /\ workspace = "live" /\ locked = None /\ build[r].rev # "none" /\ Removable(r)
    /\ locked' = "remove" /\ removing' = [pc |-> "dropped", rev |-> r] /\ vectors' = [vectors EXCEPT ![r] = None]
    /\ UNCHANGED <<workspace, active, build, versions, snapshots, keyword, folder, worker, asked, reader, edits, faults>>

RemoveDir ==
    /\ removing.pc = "dropped" /\ removing' = [removing EXCEPT !.pc = "cleared"]
    /\ keyword' = [keyword EXCEPT ![removing.rev] = None]
    /\ UNCHANGED <<workspace, active, build, versions, snapshots, vectors, folder, worker, locked, asked, reader,
                   edits, faults>>

\* Versions no manifest of another revision names lose file and row, the file before the commit.
Unlisted(r) == versions \ build[r].manifest                  \* Mutant: removes all it lists
Referenced(r) == UNION {build[q].manifest : q \in Revs \ {r}}

Unlink ==
    /\ removing.pc = "cleared" /\ removing' = [removing EXCEPT !.pc = "unlinked"]
    /\ snapshots' = snapshots \ (versions \ Referenced(removing.rev))
    /\ UNCHANGED <<workspace, active, build, versions, vectors, keyword, folder, worker, locked, asked, reader,
                   edits, faults>>

RemoveCommits ==
    LET r == removing.rev IN
    /\ removing.pc = "unlinked" /\ versions' = versions \cap Referenced(r)
    /\ build' = [build EXCEPT ![r] = NoBuild] /\ removing' = [pc |-> "idle", rev |-> None] /\ locked' = None
    /\ UNCHANGED <<workspace, active, snapshots, vectors, keyword, folder, worker, asked, reader, edits, faults>>

\* A file that cannot be removed ends remove() or delete() where it is.
RemoveFails ==
    /\ removing.pc \in {"dropped", "marked"} /\ faults < MaxFaults /\ faults' = faults + 1
    /\ removing' = [pc |-> "idle", rev |-> None] /\ locked' = None
    /\ UNCHANGED <<workspace, active, build, versions, snapshots, vectors, keyword, folder, worker, asked, reader, edits>>

Delete ==
    /\ workspace = "live" /\ locked = None /\ workspace' = "marked" /\ locked' = "delete"
    /\ build' = [r \in Revs |-> IF build[r] = NoBuild THEN NoBuild ELSE [build[r] EXCEPT !.cancel = TRUE]]
    /\ removing' = [pc |-> "marked", rev |-> None]
    /\ UNCHANGED <<active, versions, snapshots, vectors, keyword, folder, worker, asked, reader, edits, faults>>

DeleteFiles ==
    /\ removing.pc = "marked" /\ removing' = [removing EXCEPT !.pc = "wiped"] /\ snapshots' = {}
    /\ vectors' = [r \in Revs |-> None] /\ keyword' = [r \in Revs |-> None]
    /\ UNCHANGED <<workspace, active, build, versions, folder, worker, locked, asked, reader, edits, faults>>

DeleteCommits ==
    /\ removing.pc = "wiped" /\ workspace' = "gone" /\ active' = None /\ asked' = None /\ versions' = {}
    /\ build' = [r \in Revs |-> NoBuild] /\ removing' = [pc |-> "idle", rev |-> None] /\ locked' = None
    /\ UNCHANGED <<snapshots, vectors, keyword, folder, worker, reader, edits, faults>>

Removing == RemoveDir \/ Unlink \/ RemoveCommits \/ DeleteFiles \/ DeleteCommits

\* resolve() under the lock; both indexes are read without it; then _validate_snapshot.
Resolve(r) ==
    /\ reader.pc = "idle" /\ workspace = "live" /\ locked = None /\ build[r].rev = "ready"
    /\ reader' = [pc |-> "search", rev |-> r, whole |-> FALSE]
    /\ UNCHANGED <<workspace, active, build, versions, snapshots, vectors, keyword, folder, worker, locked,
                   removing, asked, edits, faults>>

Search ==
    LET r == reader.rev IN
    /\ reader.pc = "search"
    /\ reader' = [reader EXCEPT !.pc = "validate", !.whole = vectors[r] # None /\ keyword[r] # None]
    /\ UNCHANGED <<workspace, active, build, versions, snapshots, vectors, keyword, folder, worker, locked,
                   removing, asked, edits, faults>>

\* Evidence of a revision that is still there, or an error.
StandsAnyway(r) == TRUE                                       \* Mutant: what was read is returned
Stands(r) == workspace = "live" /\ build[r].rev = "ready"

Validated ==
    /\ reader.pc = "validate" /\ locked = None
    /\ reader' = IF Stands(reader.rev) /\ reader.whole THEN [reader EXCEPT !.pc = "found"] ELSE NoReader
    /\ UNCHANGED <<workspace, active, build, versions, snapshots, vectors, keyword, folder, worker, locked,
                   removing, asked, edits, faults>>

Seen ==
    /\ reader.pc = "found" /\ reader' = NoReader
    /\ UNCHANGED <<workspace, active, build, versions, snapshots, vectors, keyword, folder, worker, locked,
                   removing, asked, edits, faults>>

Edit(f, c) ==
    /\ edits < MaxEdits /\ folder[f] # c /\ edits' = edits + 1 /\ folder' = [folder EXCEPT ![f] = c]
    /\ UNCHANGED <<workspace, active, build, versions, snapshots, vectors, keyword, worker, locked, removing,
                   asked, reader, faults>>

\* recover(): builds under way are FAILED; an uncommitted removal or deletion is not taken up again.
RecoveredRunning == [r \in Revs |->                           \* Mutant: a queued job stays queued
    [build[r] EXCEPT !.job = IF @ = "queued" THEN "running" ELSE @, !.rev = IF @ \in Unfinished THEN "failed" ELSE @]]
Recovered == [r \in Revs |->
    [build[r] EXCEPT !.job = IF @ \in {"queued", "running"} THEN "failed" ELSE @,
                     !.rev = IF @ \in Unfinished THEN "failed" ELSE @]]

Restart ==
    /\ faults < MaxFaults /\ faults' = faults + 1 /\ build' = Recovered
    /\ worker' = Asleep /\ locked' = None /\ removing' = [pc |-> "idle", rev |-> None] /\ reader' = NoReader
    /\ UNCHANGED <<workspace, active, versions, snapshots, vectors, keyword, folder, asked, edits>>

\* The last step of remove() is a transaction: nothing else reaches the database meanwhile.
Next ==
    IF removing.pc = "unlinked" THEN RemoveCommits \/ Restart
    ELSE \/ Worker \/ WorkerFails \/ Removing \/ RemoveFails \/ Delete \/ Restart
         \/ \E r \in Revs : \/ (\E review \in BOOLEAN : Create(r, review))
                            \/ Cancel(r) \/ Pin(r) \/ Remove(r) \/ Ask(r) \/ Resolve(r)
         \/ Answered \/ Search \/ Validated \/ Seen
         \/ \E f \in Files, c \in Contents : Edit(f, c)

\* The ingestion thread is a loop; remove and delete run to their end unless they raise.
kbSpec == Init /\ [][Next]_kbVars /\ WF_kbVars(Worker /\ removing.pc # "unlinked") /\ WF_kbVars(Removing)

---------------------------------------------------------------------------

\* The active revision of a workspace is READY, and every document it lists is in both indexes
\* and has its row and its file: an answer can always be traced to its source.
ActiveIsWhole ==
    workspace = "live" /\ active # None =>
        LET m == build[active].manifest IN
        /\ build[active].rev = "ready" /\ m # {} /\ vectors[active] = {v.file : v \in m}
        /\ keyword[active] = vectors[active] /\ m \subseteq versions /\ m \subseteq snapshots

\* Removing one revision takes nothing that another READY revision lists.  (A revision whose own
\* removal broke off after its vectors went stays listed without its documents.)
KeptKeepDocuments ==
    workspace = "live" =>
        \A r \in Revs : build[r].rev = "ready" /\ vectors[r] # None =>
            build[r].manifest \subseteq versions /\ build[r].manifest \subseteq snapshots

\* A strict build becomes READY only with every file of the folder, and never with a document
\* that was parsed permissively.
StrictBuildIsComplete ==
    \A r \in Revs : build[r].rev = "ready" /\ ~build[r].review =>
        {v.file : v \in build[r].manifest} = Files /\ \A v \in build[r].manifest : ~v.review

\* The revision of a question that still waits for its answer stands.
QuestionKeepsRevision == workspace = "live" /\ asked # None => build[asked].rev = "ready"

\* Nothing is left of a deleted workspace, whatever was under way.
NothingOfDeleted ==
    workspace = "gone" =>
        /\ versions = {} /\ snapshots = {} /\ \A r \in Revs : build[r] = NoBuild /\ vectors[r] = None /\ keyword[r] = None

\* Evidence is returned only of a revision that stands when it is returned.
EvidenceStands == [][reader.pc # "found" /\ reader'.pc = "found" =>
                     workspace = "live" /\ build[reader.rev].rev = "ready"]_kbVars

\* A build that was cancelled does not become the active revision.
CancelledStaysOut == [][\A r \in Revs : build[r].cancel /\ active # r => active' # r]_kbVars

\* Every index job ends.
BuildEnds == \A r \in Revs : build[r].job \in {"queued", "running"} ~> build[r].job \notin {"queued", "running"}
=============================================================================
