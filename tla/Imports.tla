------------------------------- MODULE Imports -------------------------------
(***************************************************************************)
(* The import of tags and of users from a file: the upload stages the      *)
(* records under a lock, then an asynchronous task with the same lock      *)
(* imports them.  The lock has one identifier for all its holders, and the *)
(* upload releases it twice (at the end of the file and in finally, or     *)
(* when the socket closes), so that it may release the lock of somebody    *)
(* else.  The records of a file are numbered; a staged record keeps the    *)
(* upload it is from.  A JSON file has no handler for its end.             *)
(***************************************************************************)
EXTENDS Naturals, FiniteSets

CONSTANTS MaxUploads,    \* bound on the uploads, each with a task of its own
          Lines,         \* records of a file
          BatchSize,     \* IMPORT_BATCH_INSERT_SIZE
          PageSize       \* IMPORT_PAGE_SIZE

Uploads == 1..MaxUploads
NoRecord == [status |-> "none", upload |-> 0]

VARIABLES locked, uploads, tasks,
          staged,        \* the collection of imported records, by record
          imported,      \* records that were imported or marked in error
          reported,      \* records an upload counted in success
          skipped        \* a task found the lock taken and ended

vars == <<locked, uploads, tasks, staged, imported, reported, skipped>>

Init ==
    /\ locked = FALSE
    /\ uploads = [u \in Uploads |-> [st |-> "idle", line |-> 0, buffer |-> {}, csv |-> TRUE,
                                     closed |-> FALSE, final |-> FALSE]]
    /\ tasks = [u \in Uploads |-> [st |-> "none", page |-> {}]]
    /\ staged = [n \in 1..Lines |-> NoRecord]
    /\ imported = {}
    /\ reported = {}
    /\ skipped = FALSE

-----------------------------------------------------------------------------
\* handleImportTags, handleImportUsers: the lock, or an error.
StartUpload(u) ==
    /\ uploads[u].st = "idle" /\ \A v \in 1..(u - 1) : uploads[v].st # "idle"
    /\ ~locked
    /\ locked' = TRUE
    /\ \E csv \in BOOLEAN : uploads' = [uploads EXCEPT ![u].st = "clean", ![u].csv = csv]
    /\ UNCHANGED <<tasks, staged, imported, reported, skipped>>

DeleteImported(u) ==
    /\ uploads[u].st = "clean"
    /\ staged' = [n \in 1..Lines |-> NoRecord]
    /\ uploads' = [uploads EXCEPT ![u].st = "lines"]
    /\ UNCHANGED <<locked, tasks, imported, reported, skipped>>

\* processTag, processUser: a line that is not valid counts as an error.  A
\* closed connection only makes the promise fail: the lines go on.
Line(u) ==
    /\ \/ uploads[u].st = "lines"
       \/ ~uploads[u].csv /\ uploads[u].st = "insert"
    /\ uploads[u].line < Lines
    /\ LET n == uploads[u].line + 1
       IN  \E valid \in BOOLEAN :
           LET buffer == IF valid THEN uploads[u].buffer \cup {n} ELSE uploads[u].buffer
           IN  uploads' = [uploads EXCEPT ![u] = [uploads[u] EXCEPT
                  !.line = n, !.buffer = buffer,
                  !.st = IF buffer # {} /\ Cardinality(buffer) % BatchSize = 0 THEN "insert" ELSE @,
                  !.final = @ \/ uploads[u].closed]]
    /\ UNCHANGED <<locked, tasks, staged, imported, reported, skipped>>

\* insertTags, insertUsers: records already staged by another upload fail,
\* and the whole array is emptied afterwards.
Insert(u) ==
    /\ \/ uploads[u].st = "insert"
       \/ uploads[u].st = "lines" /\ uploads[u].csv /\ uploads[u].line = Lines /\ uploads[u].buffer # {}
    /\ LET new == {n \in uploads[u].buffer : staged[n] = NoRecord}
       IN  /\ staged' = [n \in 1..Lines |-> IF n \in new THEN [status |-> "READY", upload |-> u] ELSE staged[n]]
           /\ reported' = reported \cup {<<u, n>> : n \in new}
    /\ uploads' = [uploads EXCEPT ![u].buffer = {}, ![u].st = "lines"]
    /\ UNCHANGED <<locked, tasks, imported, skipped>>

\* The end of a CSV file: the lock is released before the task is created.
Completed(u) ==
    /\ uploads[u].st = "lines" /\ uploads[u].csv /\ uploads[u].line = Lines /\ uploads[u].buffer = {}
    /\ locked' = FALSE
    /\ uploads' = [uploads EXCEPT ![u].st = "task", ![u].closed = TRUE]
    /\ UNCHANGED <<tasks, staged, imported, reported, skipped>>

\* The task is created while the last records are still to be inserted.
CreateTaskEarly(u) ==
    /\ uploads[u].st \in {"lines", "task"} /\ uploads[u].line = Lines
    /\ tasks' = [tasks EXCEPT ![u].st = IF @ = "none" THEN "pending" ELSE @]
    /\ uploads' = [uploads EXCEPT ![u].st = IF @ = "task" THEN "done" ELSE @, ![u].final = TRUE]
    /\ UNCHANGED <<locked, staged, imported, reported, skipped>>

CreateTask(u) ==
    /\ uploads[u].st = "task"
    /\ tasks' = [tasks EXCEPT ![u].st = "pending"]
    /\ uploads' = [uploads EXCEPT ![u].st = "done", ![u].final = TRUE]
    /\ UNCHANGED <<locked, staged, imported, reported, skipped>>

\* req.socket.on('close')
Close(u) ==
    /\ uploads[u].st \in {"clean", "lines", "insert"} /\ ~uploads[u].closed
    /\ locked' = FALSE
    /\ uploads' = [uploads EXCEPT ![u].closed = TRUE]
    /\ UNCHANGED <<tasks, staged, imported, reported, skipped>>

\* finally
Finally(u) ==
    /\ uploads[u].final
    /\ locked' = FALSE
    /\ uploads' = [uploads EXCEPT ![u].final = FALSE]
    /\ UNCHANGED <<tasks, staged, imported, reported, skipped>>

-----------------------------------------------------------------------------
\* TagsImportAsyncTask, UsersImportAsyncTask: without the lock a task ends,
\* and counts as done.
StartTask(u) ==
    /\ tasks[u].st = "pending"
    /\ locked' = TRUE
    /\ tasks' = [tasks EXCEPT ![u].st = IF locked THEN "done" ELSE "read"]
    /\ skipped' = (skipped \/ locked)
    /\ UNCHANGED <<uploads, staged, imported, reported>>

Ready == {n \in 1..Lines : staged[n].status = "READY"}

\* getImportedTags, getImportedUsers: one page, until a page is empty.
ReadPage(u) ==
    /\ tasks[u].st = "read"
    /\ \E page \in {S \in SUBSET Ready : Cardinality(S) <= PageSize /\ (Ready # {} => S # {})} :
          tasks' = [tasks EXCEPT ![u] = [st |-> IF page = {} THEN "release" ELSE "page",
                                         page |-> {[n |-> n, upload |-> staged[n].upload] : n \in page}]]
    /\ UNCHANGED <<locked, uploads, staged, imported, reported, skipped>>

\* A record is imported and deleted, or marked and saved again.
ProcessImported(u) ==
    /\ tasks[u].st = "page"
    /\ \E r \in tasks[u].page :
          /\ \/ staged' = [staged EXCEPT ![r.n] = NoRecord]
             \/ staged' = [staged EXCEPT ![r.n] = [status |-> "ERROR", upload |-> r.upload]]
          /\ imported' = imported \cup {<<r.upload, r.n>>}
          /\ tasks' = [tasks EXCEPT ![u] = [st |-> IF @.page = {r} THEN "read" ELSE "page", page |-> @.page \ {r}]]
    /\ UNCHANGED <<locked, uploads, reported, skipped>>

EndTask(u) ==
    /\ tasks[u].st = "release"
    /\ locked' = FALSE
    /\ tasks' = [tasks EXCEPT ![u].st = "done"]
    /\ UNCHANGED <<uploads, staged, imported, reported, skipped>>

Next ==
    \E u \in Uploads :
        \/ StartUpload(u) \/ DeleteImported(u) \/ Line(u) \/ Insert(u) \/ Completed(u) \/ CreateTask(u)
        \/ Close(u) \/ Finally(u) \/ StartTask(u) \/ ReadPage(u) \/ ProcessImported(u) \/ EndTask(u)

Spec == Init /\ [][Next]_vars

-----------------------------------------------------------------------------
AtRest ==
    \A u \in Uploads : /\ uploads[u].st \in {"idle", "done"}
                       /\ tasks[u].st \in {"none", "done"}

\* When every upload and every task has ended and no task found the lock
\* taken, no record is still waiting for its import.
NoneLeftBehind == (AtRest /\ ~skipped) => Ready = {}

\* What the upload tells its client: the records counted in success are
\* "ready for asynchronous import", so in the end each was imported or marked.
UploadedIsImported == AtRest => reported \subseteq imported
=============================================================================
