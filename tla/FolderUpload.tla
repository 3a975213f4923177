-------------------------------- MODULE FolderUpload --------------------------------
(***************************************************************************)
(* Folder uploads of the RAG service: a session with a staging directory,  *)
(* files received one by one, publication by rename and one transaction,   *)
(* cancellation, expiry, deletion of the workspace, and a restart at any   *)
(* point between a change of the disk and a change of the database.        *)
(*                                                                         *)
(* One asyncio lock serialises the operations on sessions; `op` is the one *)
(* that holds it.  Workspaces are deleted by other threads.                *)
(***************************************************************************)
EXTENDS Naturals, FiniteSets

CONSTANTS Uploads, Parts, None,
    MaxCrashes,     \* bound: restarts
    MaxBreaks,      \* bound: failed disk operations and transactions
    MaxActive       \* sessions that may be UPLOADING at once

VARIABLES
    row,        \* upload_sessions: none, UPLOADING, COMMITTED, gone
    stored,     \* files the row records as received
    staging,    \* None, or the files in the session's staging directory
    partial,    \* files with a .part file
    published,  \* None, or the files in the published directory
    space,      \* how many workspaces were made for the session
    alive,      \* and whether the last one is live, marked as deleted or gone
    old,        \* the session's hours are over
    op,         \* the operation under the lock
    deleting,   \* None, or the session whose workspace is being deleted, with the step
    crashes, breaks

fuVars == <<row, stored, staging, partial, published, space, alive, old, op, deleting, crashes, breaks>>

NoOp == [name |-> "none", s |-> None, f |-> None]
NoDelete == [pc |-> "none", s |-> None]

TypeOK ==
    /\ row \in [Uploads -> {"none", "UPLOADING", "COMMITTED", "gone"}]
    /\ stored \in [Uploads -> SUBSET Parts] /\ partial \in [Uploads -> SUBSET Parts]
    /\ \A s \in Uploads : {staging[s], published[s]} \subseteq (SUBSET Parts) \cup {None}
    /\ space \in [Uploads -> 0..2] /\ alive \in [Uploads -> {"none", "live", "marked", "gone"}]
    /\ old \in [Uploads -> BOOLEAN] /\ op.s \in Uploads \cup {None}
    /\ deleting.pc \in {"none", "marked", "wiped"} /\ crashes \in 0..MaxCrashes /\ breaks \in 0..MaxBreaks

Init ==
    /\ row = [s \in Uploads |-> "none"] /\ stored = [s \in Uploads |-> {}] /\ partial = [s \in Uploads |-> {}]
    /\ staging = [s \in Uploads |-> None] /\ published = [s \in Uploads |-> None]
    /\ space = [s \in Uploads |-> 0] /\ alive = [s \in Uploads |-> "none"] /\ old = [s \in Uploads |-> FALSE]
    /\ op = NoOp /\ deleting = NoDelete /\ crashes = 0 /\ breaks = 0

Free == op = NoOp
Do(name, s, f) == op' = [name |-> name, s |-> s, f |-> f]

\* create(): the directory, then the row.  A failed INSERT removes the directory again.
Create(s) ==
    /\ Free /\ row[s] = "none" /\ staging[s] = None
    /\ Cardinality({u \in Uploads : row[u] = "UPLOADING"}) < MaxActive
    /\ staging' = [staging EXCEPT ![s] = {}] /\ Do("insert", s, None)
    /\ UNCHANGED <<row, stored, partial, published, space, alive, old, deleting, crashes, breaks>>

Insert ==
    /\ op.name = "insert" /\ op' = NoOp
    /\ \/ row' = [row EXCEPT ![op.s] = "UPLOADING"] /\ UNCHANGED <<staging, breaks>>
       \/ /\ breaks < MaxBreaks /\ breaks' = breaks + 1
          /\ staging' = [staging EXCEPT ![op.s] = None] /\ UNCHANGED row
    /\ UNCHANGED <<stored, partial, published, space, alive, old, deleting, crashes>>

Usable(s) == row[s] = "UPLOADING" /\ ~old[s]

\* receive(): a file that was received is acknowledged again; the others are streamed into a .part file.
Receive(s, f) ==
    /\ Free /\ Usable(s) /\ f \notin stored[s] /\ staging[s] # None /\ f \notin partial[s]
    /\ partial' = [partial EXCEPT ![s] = @ \cup {f}] /\ Do("stream", s, f)
    /\ UNCHANGED <<row, stored, staging, published, space, alive, old, deleting, crashes, breaks>>

\* The client leaves, the body is too short or too long, two minutes pass, or the disk fails.
Interrupted ==
    /\ op.name = "stream" /\ op' = NoOp /\ partial' = [partial EXCEPT ![op.s] = @ \ {op.f}]
    /\ UNCHANGED <<row, stored, staging, published, space, alive, old, deleting, crashes, breaks>>

Replace ==
    /\ op.name = "stream" /\ Do("record", op.s, op.f)
    /\ partial' = [partial EXCEPT ![op.s] = @ \ {op.f}]
    /\ staging' = [staging EXCEPT ![op.s] = @ \cup {op.f}]
    /\ UNCHANGED <<row, stored, published, space, alive, old, deleting, crashes, breaks>>

Record ==
    /\ op.name = "record" /\ op' = NoOp
    /\ \/ stored' = [stored EXCEPT ![op.s] = @ \cup {op.f}] /\ UNCHANGED breaks
       \/ breaks < MaxBreaks /\ breaks' = breaks + 1 /\ UNCHANGED stored
    /\ UNCHANGED <<row, staging, partial, published, space, alive, old, deleting, crashes>>

\* commit(): every file is copied and its hash compared, the tree is renamed to the published
\* directory, one transaction makes the workspace, and the staging directory goes last.
Commit(s) ==
    /\ Free /\ Usable(s) /\ stored[s] = Parts
    /\ staging[s] = Parts /\ published' = [published EXCEPT ![s] = Parts] /\ Do("transaction", s, None)
    /\ UNCHANGED <<row, stored, staging, partial, space, alive, old, deleting, crashes, breaks>>

RowsKeepState(s) ==                                           \* Mutant: the state is set by a later statement
    /\ row' = row /\ alive' = [alive EXCEPT ![s] = "live"] /\ space' = [space EXCEPT ![s] = @ + 1]
Rows(s) ==
    /\ row' = [row EXCEPT ![s] = "COMMITTED"] /\ alive' = [alive EXCEPT ![s] = "live"]
    /\ space' = [space EXCEPT ![s] = @ + 1]

Transaction ==
    /\ op.name = "transaction" /\ Rows(op.s) /\ Do("unstage", op.s, None)
    /\ UNCHANGED <<stored, staging, partial, published, old, deleting, crashes, breaks>>

\* The published directory is taken back when the transaction fails.
WithdrawnLater(s) == published                                \* Mutant: it stays until the next attempt
Withdrawn(s) == [published EXCEPT ![s] = None]

TransactionFails ==
    /\ op.name = "transaction" /\ breaks < MaxBreaks /\ breaks' = breaks + 1 /\ op' = NoOp
    /\ published' = Withdrawn(op.s)
    /\ UNCHANGED <<row, stored, staging, partial, space, alive, old, deleting, crashes>>

\* A failure here reports an error for what is committed.
Unstage ==
    /\ op.name = "unstage" /\ op' = NoOp
    /\ \/ staging' = [staging EXCEPT ![op.s] = None] /\ UNCHANGED breaks
       \/ breaks < MaxBreaks /\ breaks' = breaks + 1 /\ UNCHANGED staging
    /\ UNCHANGED <<row, stored, partial, published, space, alive, old, deleting, crashes>>

\* A repeated commit finds the workspace, and asks for the same index job again.
CommitAgain(s) == Free /\ row[s] = "COMMITTED" /\ UNCHANGED fuVars

\* cancel() and cleanup(): the files, then the row.
DiscardRow(s) ==                                              \* Mutant: the row first
    /\ Free /\ row[s] = "UPLOADING" /\ row' = [row EXCEPT ![s] = "gone"] /\ Do("files", s, None)
    /\ UNCHANGED <<stored, staging, partial, published, space, alive, old, deleting, crashes, breaks>>
Discard(s) ==
    /\ Free /\ row[s] = "UPLOADING"
    /\ staging' = [staging EXCEPT ![s] = None] /\ published' = [published EXCEPT ![s] = None]
    /\ partial' = [partial EXCEPT ![s] = {}] /\ Do("forget", s, None)
    /\ UNCHANGED <<row, stored, space, alive, old, deleting, crashes, breaks>>

Cancel(s) == Discard(s)
Expire(s) == old[s] /\ Discard(s)

Forget ==
    /\ op.name = "forget" /\ op' = NoOp /\ row' = [row EXCEPT ![op.s] = "gone"]
    /\ UNCHANGED <<stored, staging, partial, published, space, alive, old, deleting, crashes, breaks>>

Elapse(s) ==
    /\ row[s] = "UPLOADING" /\ ~old[s] /\ op.s # s /\ old' = [old EXCEPT ![s] = TRUE]
    /\ UNCHANGED <<row, stored, staging, partial, published, space, alive, op, deleting, crashes, breaks>>

\* Core.delete in another thread: the mark, the directories, the rows.
Delete(s) ==
    /\ deleting = NoDelete /\ alive[s] = "live" /\ alive' = [alive EXCEPT ![s] = "marked"]
    /\ deleting' = [pc |-> "marked", s |-> s]
    /\ UNCHANGED <<row, stored, staging, partial, published, space, old, op, crashes, breaks>>

Wipe ==
    /\ deleting.pc = "marked" /\ deleting' = [deleting EXCEPT !.pc = "wiped"]
    /\ staging' = [staging EXCEPT ![deleting.s] = None] /\ published' = [published EXCEPT ![deleting.s] = None]
    /\ partial' = [partial EXCEPT ![deleting.s] = {}]
    /\ UNCHANGED <<row, stored, space, alive, old, op, crashes, breaks>>

Deleted ==
    /\ deleting.pc = "wiped" /\ deleting' = NoDelete
    /\ row' = [row EXCEPT ![deleting.s] = "gone"] /\ alive' = [alive EXCEPT ![deleting.s] = "gone"]
    /\ UNCHANGED <<stored, staging, partial, published, space, old, op, crashes, breaks>>

\* At start: what was not committed loses its published directory and its .part files, what was
\* committed its staging directory, and what is too old everything.
Dropped(s) == row[s] = "UPLOADING" /\ old[s]
Unpublished(s) == row[s] = "UPLOADING"

Restart ==
    /\ crashes < MaxCrashes /\ crashes' = crashes + 1 /\ op' = NoOp /\ deleting' = NoDelete
    /\ published' = [s \in Uploads |-> IF Unpublished(s) THEN None ELSE published[s]]
    /\ partial' = [s \in Uploads |-> IF row[s] = "UPLOADING" THEN {} ELSE partial[s]]
    /\ staging' = [s \in Uploads |-> IF row[s] = "COMMITTED" \/ Dropped(s) THEN None ELSE staging[s]]
    /\ row' = [s \in Uploads |-> IF Dropped(s) THEN "gone" ELSE row[s]]
    /\ UNCHANGED <<stored, space, alive, old, breaks>>

Serve == Insert \/ Interrupted \/ Replace \/ Record \/ Transaction \/ TransactionFails \/ Unstage \/ Forget

Next ==
    \/ Serve \/ Wipe \/ Deleted \/ Restart
    \/ \E s \in Uploads : \/ Create(s) \/ Commit(s) \/ CommitAgain(s) \/ Cancel(s) \/ Expire(s) \/ Elapse(s) \/ Delete(s)
                          \/ \E f \in Parts : Receive(s, f)

---------------------------------------------------------------------------

\* Between operations a folder is published exactly for the committed sessions, with every file
\* of the manifest, and each has its workspace.
PublishedIsCommitted ==
    Free => \A s \in Uploads :
        /\ published[s] # None => row[s] = "COMMITTED"
        /\ row[s] = "COMMITTED" /\ alive[s] = "live" => published[s] = Parts

\* However often a commit is repeated, a session makes one workspace.
OneWorkspace == \A s \in Uploads : space[s] <= 1

\* Nothing is on disk for a session whose row is gone: the storage limit counts rows.
NoFilesWithoutRow == \A s \in Uploads : row[s] = "gone" => staging[s] = None /\ published[s] = None
=============================================================================
