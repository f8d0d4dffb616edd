--------------------------- MODULE MCRecords_proofs ---------------------------
(***************************************************************************)
(* Theorems about the imports (Imports), the cars and tags of the users    *)
(* (Cars, Tags) and the notifications (Notifications), for every number of *)
(* uploads, records, requests, users, their cars and tags, and calls that  *)
(* notify.                                                                 *)
(***************************************************************************)
EXTENDS MCRecords, FiniteSetTheorems, TLAPS

-----------------------------------------------------------------------------
(* Imports. *)

Upload == [st : {"idle", "clean", "lines", "insert", "task", "done"}, line : Nat,
           buffer : SUBSET Nat, csv : BOOLEAN, closed : BOOLEAN, final : BOOLEAN]
Task == [st : {"none", "pending", "read", "page", "release", "done"},
         page : SUBSET [n : 1..Lines, upload : Nat]]

ImportsTypeOK ==
  /\ uploads \in [I!Uploads -> Upload]
  /\ tasks \in [I!Uploads -> Task]
  /\ staged \in [1..Lines -> [status : {"none", "READY", "ERROR"}, upload : Nat]]

\* Somebody is still to come for the records that u staged: the upload that
\* will create its task, or the task that ends only when no record is ready.
Awaited(u) ==
  \/ uploads[u].st \in {"lines", "insert", "task"}
  \/ tasks[u].st \in {"pending", "read", "page"}
  \/ skipped

ReadyIsAwaited ==
  \A n \in 1..Lines : staged[n].status = "READY" => staged[n].upload \in I!Uploads /\ Awaited(staged[n].upload)

\* What a step of an upload leaves of it, and of the other uploads.
Leaves(u, st) ==
  /\ uploads' \in [I!Uploads -> Upload]
  /\ uploads'[u].st \in st
  /\ \A v \in I!Uploads : v # u => uploads'[v] = uploads[v]

LEMMA StartUploadStep ==
  ASSUME ImportsTypeOK, NEW u \in I!Uploads, I!StartUpload(u)
  PROVE  Leaves(u, {"clean"})
<1> DEFINE g == [uploads EXCEPT ![u].st = "clean"]
<1>1. PICK csv \in BOOLEAN : uploads' = [g EXCEPT ![u].csv = csv]
  BY DEF I!StartUpload
<1>2. g \in [I!Uploads -> Upload] /\ g[u].st = "clean" /\ \A v \in I!Uploads : v # u => g[v] = uploads[v]
  BY DEF ImportsTypeOK, Upload
<1> HIDE DEF g
<1> QED BY <1>1, <1>2 DEF Leaves, Upload

LEMMA LineStep ==
  ASSUME ImportsTypeOK, NEW u \in I!Uploads, I!Line(u)
  PROVE  Leaves(u, {"lines", "insert"})
<1> DEFINE n == uploads[u].line + 1
           buffer(valid) == IF valid THEN uploads[u].buffer \cup {n} ELSE uploads[u].buffer
           full(valid) == buffer(valid) # {} /\ I!Cardinality(buffer(valid)) % BatchSize = 0
<1> DEFINE st(valid) == IF full(valid) THEN "insert" ELSE uploads[u].st
           final == uploads[u].final \/ uploads[u].closed
<1>1. PICK valid \in BOOLEAN :
        uploads' = [uploads EXCEPT ![u] = [uploads[u] EXCEPT
                      !.line = n, !.buffer = buffer(valid), !.st = st(valid), !.final = final]]
  BY DEF I!Line
<1> DEFINE q1 == [uploads[u] EXCEPT !.line = n, !.buffer = buffer(valid)]
           q2 == [q1 EXCEPT !.st = st(valid)]
           q3 == [q2 EXCEPT !.final = final]
<1>2. uploads[u] \in Upload /\ n \in Nat /\ uploads[u].st \in {"lines", "insert"}
  BY DEF ImportsTypeOK, I!Line, Upload
<1>3. buffer(valid) \in SUBSET Nat
  BY <1>2 DEF Upload
<1>4. st(valid) \in {"lines", "insert"}
  BY <1>2
<1>5. final \in BOOLEAN
  OBVIOUS
<1> HIDE DEF n, buffer, full, st, final
<1>7. uploads' = [uploads EXCEPT ![u] = q3]
  BY <1>1
<1>8. q1 \in Upload
  BY <1>2, <1>3 DEF Upload
<1> HIDE DEF q1
<1>9. q2 \in Upload /\ q2.st = st(valid)
  BY <1>4, <1>8 DEF Upload
<1> HIDE DEF q2
<1>10. q3 \in Upload /\ q3.st = st(valid)
  BY <1>5, <1>9 DEF Upload
<1> HIDE DEF q3
<1> QED BY <1>4, <1>7, <1>10 DEF Leaves, ImportsTypeOK

LEMMA InsertStep ==
  ASSUME ImportsTypeOK, NEW u \in I!Uploads, I!Insert(u)
  PROVE  Leaves(u, {"lines"})
<1> DEFINE g == [uploads EXCEPT ![u].buffer = {}]
<1>1. uploads' = [g EXCEPT ![u].st = "lines"]
  BY DEF I!Insert
<1>2. g \in [I!Uploads -> Upload] /\ \A v \in I!Uploads : v # u => g[v] = uploads[v]
  BY DEF ImportsTypeOK, Upload
<1> HIDE DEF g
<1> QED BY <1>1, <1>2 DEF Leaves, Upload

LEMMA CompletedStep ==
  ASSUME ImportsTypeOK, NEW u \in I!Uploads, I!Completed(u)
  PROVE  Leaves(u, {"task"})
<1> DEFINE g == [uploads EXCEPT ![u].st = "task"]
<1>1. uploads' = [g EXCEPT ![u].closed = TRUE]
  BY DEF I!Completed
<1>2. g \in [I!Uploads -> Upload] /\ g[u].st = "task" /\ \A v \in I!Uploads : v # u => g[v] = uploads[v]
  BY DEF ImportsTypeOK, Upload
<1> HIDE DEF g
<1> QED BY <1>1, <1>2 DEF Leaves, Upload

LEMMA CreateTaskStep ==
  ASSUME ImportsTypeOK, NEW u \in I!Uploads, I!CreateTask(u)
  PROVE  /\ Leaves(u, {"done"})
         /\ tasks' \in [I!Uploads -> Task] /\ tasks'[u].st = "pending"
         /\ \A v \in I!Uploads : v # u => tasks'[v] = tasks[v]
<1> DEFINE g == [uploads EXCEPT ![u].st = "done"]
<1>1. uploads' = [g EXCEPT ![u].final = TRUE] /\ tasks' = [tasks EXCEPT ![u].st = "pending"]
  BY DEF I!CreateTask
<1>2. g \in [I!Uploads -> Upload] /\ g[u].st = "done" /\ \A v \in I!Uploads : v # u => g[v] = uploads[v]
  BY DEF ImportsTypeOK, Upload
<1> HIDE DEF g
<1>3. Leaves(u, {"done"})
  BY <1>1, <1>2 DEF Leaves, Upload
<1> QED BY <1>1, <1>3 DEF ImportsTypeOK, Task

LEMMA CloseStep ==
  ASSUME ImportsTypeOK, NEW u \in I!Uploads, I!Close(u) \/ I!Finally(u)
  PROVE  /\ uploads' \in [I!Uploads -> Upload]
         /\ \A v \in I!Uploads : uploads'[v].st = uploads[v].st
<1>1. CASE I!Close(u)
  <2>1. uploads' = [uploads EXCEPT ![u].closed = TRUE]
    BY <1>1 DEF I!Close
  <2> QED BY <2>1 DEF ImportsTypeOK, Upload
<1>2. CASE I!Finally(u)
  <2>1. uploads' = [uploads EXCEPT ![u].final = FALSE]
    BY <1>2 DEF I!Finally
  <2> QED BY <2>1 DEF ImportsTypeOK, Upload
<1> QED BY <1>1, <1>2

LEMMA ProcessImportedStep ==
  ASSUME ImportsTypeOK, NEW u \in I!Uploads, I!ProcessImported(u)
  PROVE  /\ staged' \in [1..Lines -> [status : {"none", "READY", "ERROR"}, upload : Nat]]
         /\ \A n \in 1..Lines : staged'[n] = staged[n] \/ staged'[n].status \in {"none", "ERROR"}
         /\ tasks' \in [I!Uploads -> Task] /\ tasks'[u].st \in {"read", "page"}
         /\ \A v \in I!Uploads : v # u => tasks'[v] = tasks[v]
<1>1. PICK r \in tasks[u].page :
        /\ \/ staged' = [staged EXCEPT ![r.n] = I!NoRecord]
           \/ staged' = [staged EXCEPT ![r.n] = [status |-> "ERROR", upload |-> r.upload]]
        /\ tasks' = [tasks EXCEPT ![u] = [st |-> IF @.page = {r} THEN "read" ELSE "page", page |-> @.page \ {r}]]
  BY DEF I!ProcessImported
<1>2. r.n \in 1..Lines /\ r.upload \in Nat /\ tasks[u].page \in SUBSET [n : 1..Lines, upload : Nat]
  BY <1>1 DEF ImportsTypeOK, Task
<1>3. PICK rec \in [status : {"none", "ERROR"}, upload : Nat] : staged' = [staged EXCEPT ![r.n] = rec]
  BY <1>1, <1>2 DEF I!NoRecord
<1> DEFINE t == [st |-> IF tasks[u].page = {r} THEN "read" ELSE "page", page |-> tasks[u].page \ {r}]
<1>4. tasks' = [tasks EXCEPT ![u] = t]
  BY <1>1
<1>5. t \in Task /\ t.st \in {"read", "page"}
  BY <1>2 DEF Task
<1> HIDE DEF t
<1>6. /\ staged' \in [1..Lines -> [status : {"none", "READY", "ERROR"}, upload : Nat]]
      /\ \A n \in 1..Lines : staged'[n] = staged[n] \/ staged'[n].status \in {"none", "ERROR"}
  BY <1>2, <1>3 DEF ImportsTypeOK
<1> QED BY <1>4, <1>5, <1>6 DEF ImportsTypeOK

\* Every step keeps the types.
LEMMA ImportsType ==
  ASSUME ImportsTypeOK, I!Next \/ UNCHANGED importVars
  PROVE  ImportsTypeOK'
<1> USE DEF ImportsTypeOK
<1>1. ASSUME NEW u \in I!Uploads, I!StartUpload(u) PROVE ImportsTypeOK'
  BY <1>1, StartUploadStep DEF I!StartUpload, Leaves
<1>2. ASSUME NEW u \in I!Uploads, I!DeleteImported(u) PROVE ImportsTypeOK'
  BY <1>2 DEF I!DeleteImported, I!NoRecord, Upload
<1>3. ASSUME NEW u \in I!Uploads, I!Line(u) PROVE ImportsTypeOK'
  <2>1. tasks' = tasks /\ staged' = staged
    BY <1>3 DEF I!Line
  <2> QED BY <1>3, <2>1, LineStep DEF Leaves
<1>4. ASSUME NEW u \in I!Uploads, I!Insert(u) PROVE ImportsTypeOK'
  <2>1. tasks' = tasks /\ u \in Nat
    BY <1>4 DEF I!Insert, I!Uploads
  <2>2. staged' \in [1..Lines -> [status : {"none", "READY", "ERROR"}, upload : Nat]]
    BY <1>4, <2>1 DEF I!Insert
  <2> QED BY <1>4, <2>1, <2>2, InsertStep DEF Leaves
<1>5. ASSUME NEW u \in I!Uploads, I!Completed(u) PROVE ImportsTypeOK'
  BY <1>5, CompletedStep DEF I!Completed, Leaves
<1>6. ASSUME NEW u \in I!Uploads, I!CreateTask(u) PROVE ImportsTypeOK'
  BY <1>6, CreateTaskStep DEF I!CreateTask, Leaves
<1>7. ASSUME NEW u \in I!Uploads, I!Close(u) \/ I!Finally(u) PROVE ImportsTypeOK'
  <2>1. tasks' = tasks /\ staged' = staged
    BY <1>7 DEF I!Close, I!Finally
  <2> QED BY <1>7, <2>1, CloseStep
<1>8. ASSUME NEW u \in I!Uploads, I!StartTask(u) \/ I!EndTask(u) PROVE ImportsTypeOK'
  BY <1>8 DEF I!StartTask, I!EndTask, Task
<1>9. ASSUME NEW u \in I!Uploads, I!ReadPage(u) PROVE ImportsTypeOK'
  BY <1>9 DEF I!ReadPage, I!Ready, Task
<1>10. ASSUME NEW u \in I!Uploads, I!ProcessImported(u) PROVE ImportsTypeOK'
  <2>1. uploads' = uploads
    BY <1>10 DEF I!ProcessImported
  <2> QED BY <1>10, <2>1, ProcessImportedStep
<1>11. CASE UNCHANGED importVars
  BY <1>11 DEF importVars
<1> QED BY <1>1, <1>2, <1>3, <1>4, <1>5, <1>6, <1>7, <1>8, <1>9, <1>10, <1>11 DEF I!Next

\* A step that stages no record keeps the invariant when it leaves nobody's
\* records alone.
LEMMA StillAwaited ==
  ASSUME ReadyIsAwaited,
         \A n \in 1..Lines : staged'[n].status = "READY" => staged'[n] = staged[n],
         \A u \in I!Uploads : Awaited(u) => Awaited(u)'
  PROVE  ReadyIsAwaited'
  BY DEF ReadyIsAwaited

LEMMA AwaitedPreserved ==
  ASSUME ImportsTypeOK, ReadyIsAwaited, I!Next \/ UNCHANGED importVars
  PROVE  ReadyIsAwaited'
<1> USE DEF ImportsTypeOK
<1>1. ASSUME NEW u \in I!Uploads,
             I!StartUpload(u) \/ I!Completed(u) \/ I!CreateTask(u) \/ I!Close(u) \/ I!Finally(u)
      PROVE  ReadyIsAwaited'
  <2>1. staged' = staged
    BY <1>1 DEF I!StartUpload, I!Completed, I!CreateTask, I!Close, I!Finally
  <2>2. CASE I!StartUpload(u)
    <3>1. uploads[u].st = "idle" /\ tasks' = tasks /\ skipped' = skipped
      BY <2>2 DEF I!StartUpload
    <3> QED BY <2>1, <2>2, <3>1, StartUploadStep, StillAwaited DEF Leaves, Awaited
  <2>3. CASE I!Completed(u)
    <3>1. tasks' = tasks /\ skipped' = skipped
      BY <2>3 DEF I!Completed
    <3> QED BY <2>1, <2>3, <3>1, CompletedStep, StillAwaited DEF Leaves, Awaited
  <2>4. CASE I!CreateTask(u)
    <3>1. skipped' = skipped
      BY <2>4 DEF I!CreateTask
    <3> QED BY <2>1, <2>4, <3>1, CreateTaskStep, StillAwaited DEF Leaves, Awaited
  <2>5. CASE I!Close(u) \/ I!Finally(u)
    <3>1. tasks' = tasks /\ skipped' = skipped
      BY <2>5 DEF I!Close, I!Finally
    <3> QED BY <2>1, <2>5, <3>1, CloseStep, StillAwaited DEF Awaited
  <2> QED BY <1>1, <2>2, <2>3, <2>4, <2>5
<1>2. ASSUME NEW u \in I!Uploads, I!DeleteImported(u) PROVE ReadyIsAwaited'
  BY <1>2 DEF I!DeleteImported, I!NoRecord, ReadyIsAwaited
<1>3. ASSUME NEW u \in I!Uploads, I!Line(u) PROVE ReadyIsAwaited'
  <2>1. staged' = staged /\ tasks' = tasks /\ skipped' = skipped
    BY <1>3 DEF I!Line
  <2>2. /\ \A v \in I!Uploads : v # u => uploads'[v] = uploads[v]
        /\ uploads'[u].st \in {"lines", "insert"}
    BY <1>3, LineStep DEF Leaves
  <2>3. \A v \in I!Uploads : Awaited(v) => Awaited(v)'
    BY <2>1, <2>2 DEF Awaited
  <2> QED BY <2>1, <2>3, StillAwaited
<1>4. ASSUME NEW u \in I!Uploads, I!Insert(u) PROVE ReadyIsAwaited'
  <2>1. /\ uploads'[u].st = "lines"
        /\ \A v \in I!Uploads : v # u => uploads'[v] = uploads[v]
        /\ tasks' = tasks /\ skipped' = skipped
    BY <1>4, InsertStep DEF I!Insert, Leaves
  <2>2. \A v \in I!Uploads : Awaited(v) => Awaited(v)'
    BY <2>1 DEF Awaited
  <2>3. \A n \in 1..Lines : staged'[n] = staged[n] \/ staged'[n].upload = u
    BY <1>4 DEF I!Insert
  <2> QED BY <2>1, <2>2, <2>3 DEF ReadyIsAwaited, Awaited
<1>5. ASSUME NEW u \in I!Uploads, I!StartTask(u) PROVE ReadyIsAwaited'
  <2>1. staged' = staged
    BY <1>5 DEF I!StartTask
  <2>2. \A v \in I!Uploads : Awaited(v) => Awaited(v)'
    BY <1>5 DEF I!StartTask, Awaited, Task
  <2> QED BY <2>1, <2>2, StillAwaited
<1>6. ASSUME NEW u \in I!Uploads, I!ReadPage(u) PROVE ReadyIsAwaited'
  <2>1. staged' = staged /\ uploads' = uploads /\ skipped' = skipped
    BY <1>6 DEF I!ReadPage
  <2>2. CASE I!Ready = {}
    BY <2>1, <2>2 DEF I!Ready, ReadyIsAwaited
  <2>3. CASE I!Ready # {}
    <3>1. tasks'[u].st = "page" /\ \A v \in I!Uploads : v # u => tasks'[v] = tasks[v]
      BY <1>6, <2>3 DEF I!ReadPage
    <3>2. \A v \in I!Uploads : Awaited(v) => Awaited(v)'
      BY <2>1, <3>1 DEF Awaited
    <3> QED BY <2>1, <3>2, StillAwaited
  <2> QED BY <2>2, <2>3
<1>7. ASSUME NEW u \in I!Uploads, I!ProcessImported(u) PROVE ReadyIsAwaited'
  <2>1. /\ uploads' = uploads /\ skipped' = skipped
        /\ tasks'[u].st \in {"read", "page"} /\ \A v \in I!Uploads : v # u => tasks'[v] = tasks[v]
    BY <1>7, ProcessImportedStep DEF I!ProcessImported
  <2>2. \A v \in I!Uploads : Awaited(v) => Awaited(v)'
    BY <2>1 DEF Awaited
  <2>3. \A n \in 1..Lines : staged'[n] = staged[n] \/ staged'[n].status \in {"none", "ERROR"}
    BY <1>7, ProcessImportedStep
  <2> QED BY <2>2, <2>3, StillAwaited
<1>8. ASSUME NEW u \in I!Uploads, I!EndTask(u) PROVE ReadyIsAwaited'
  <2>1. staged' = staged
    BY <1>8 DEF I!EndTask
  <2>2. \A v \in I!Uploads : Awaited(v) => Awaited(v)'
    BY <1>8 DEF I!EndTask, Awaited, Task
  <2> QED BY <2>1, <2>2, StillAwaited
<1>9. CASE UNCHANGED importVars
  BY <1>9 DEF importVars, ReadyIsAwaited, Awaited
<1> QED BY <1>1, <1>2, <1>3, <1>4, <1>5, <1>6, <1>7, <1>8, <1>9 DEF I!Next

LEMMA ImportsInvariant == MCSpec => [](ImportsTypeOK /\ ReadyIsAwaited)
<1>1. I!Init => ImportsTypeOK /\ ReadyIsAwaited
  BY DEF I!Init, I!NoRecord, ImportsTypeOK, ReadyIsAwaited, Upload, Task
<1>2. (ImportsTypeOK /\ ReadyIsAwaited) /\ [MCNext]_<<focus, recordVars, importVars, nVars>>
      => (ImportsTypeOK /\ ReadyIsAwaited)'
  <2>1. [MCNext]_<<focus, recordVars, importVars, nVars>> => I!Next \/ UNCHANGED importVars
    BY DEF MCNext
  <2> QED BY <2>1, ImportsType, AwaitedPreserved
<1> QED BY <1>1, <1>2, PTL DEF MCSpec, MCInit

\* No uploaded record waits for an import that does not come: the task of an
\* upload ends only when it finds no record ready, so once every upload and
\* every task has ended, and none found the lock taken, no record is left
\* (TagsImportAsyncTask, UsersImportAsyncTask), for any number of uploads and
\* records and whatever the locks allow.
THEOREM ImportsLeaveNothing == MCSpec => []NoneLeftBehind
<1>1. ImportsTypeOK /\ ReadyIsAwaited => NoneLeftBehind
  BY DEF ReadyIsAwaited, Awaited, NoneLeftBehind, I!NoneLeftBehind, I!AtRest, I!Ready
<1> QED BY <1>1, ImportsInvariant, PTL

-----------------------------------------------------------------------------
(* Cars: what the requests hold. *)

Car == [user : UserIDs \cup {C!NoUser}, default : BOOLEAN, private : BOOLEAN, stored : BOOLEAN]
Request == [st : {"idle", "default", "save", "delete", "first", "put", "cars"},
            op : {"none", "create", "update", "delete", "deleteUser"},
            car : IDs \cup {0}, user : UserIDs \cup {C!NoUser}, default : BOOLEAN, doc : Car,
            former : UserIDs \cup {C!NoUser}, list : SUBSET [car : IDs, doc : Car], clean : BOOLEAN]

CarsTypeOK ==
  /\ docs \in [IDs -> Car]
  /\ users \subseteq UserIDs
  /\ req \in [Requests -> Request]
  /\ \A r \in Requests : req[r].st \in {"default", "save", "delete", "put"} => req[r].car \in IDs

IsDefault(c, u) == docs[c].stored /\ docs[c].default /\ docs[c].user = u

\* The user has no other default car.
Only(u, car) == u # C!NoUser /\ \A c \in IDs : IsDefault(c, u) => c = car

\* What a request that nobody crossed still finds true of what it read.
Agrees(q) ==
  /\ C!About(q) \subseteq users
  /\ q.st = "default" => q.user # C!NoUser
  /\ q.st \in {"default", "save"} => q.doc.user = q.user
  /\ q.st \in {"default", "save"} /\ q.former # C!NoUser =>
       q.user \notin {C!NoUser, q.former} /\ Only(q.former, q.car)
  /\ q.st = "save" /\ q.default => Only(q.user, q.car)
  /\ q.st = "delete" /\ q.doc.default /\ q.doc.user # C!NoUser => Only(q.doc.user, q.car)
  /\ q.st \in {"first", "put"} /\ q.former # C!NoUser => \A c \in IDs : ~IsDefault(c, q.former)
  /\ q.st = "put" => q.doc.user = q.former
  /\ q.st = "cars" => q.user # C!NoUser /\ \A c \in C!CarsOf(q.user) : \E l \in q.list : l.car = c

OneDefault ==
  \A u \in UserIDs : \A c, d \in IDs : IsDefault(c, u) /\ IsDefault(d, u) => c = d

HaveOwners == \A c \in IDs : docs[c].stored => docs[c].user \in users \cup {C!NoUser}

RequestsAgree == \A r \in Requests : req[r].st # "idle" /\ req[r].clean => Agrees(req[r])

CarsInv == CarsTypeOK /\ (~crossed => OneDefault /\ HaveOwners /\ RequestsAgree)

\* A set of numbers that is not empty has a least element.
LEMMA LeastNumber ==
  ASSUME NEW S \in SUBSET Nat, S # {}
  PROVE  \E m \in S : \A n \in S : m <= n
<1> DEFINE segments == {0..n : n \in S}
<1>1. segments \subseteq FiniteSubsetsOf(Nat)
  <2>1. \A n \in S : IsFiniteSet(0..n) /\ 0..n \subseteq Nat
    BY FS_Interval
  <2> QED BY <2>1 DEF FiniteSubsetsOf
<1>2. segments # {}
  OBVIOUS
<1>3. PICK x \in segments : \A y \in segments : ~(<<y, x>> \in StrictSubsetOrdering(Nat))
  <2> HIDE DEF segments
  <2> QED BY <1>1, <1>2, FS_StrictSubsetOrderingWellFounded, WFMin
<1>4. PICK m \in S : x = 0..m
  OBVIOUS
<1>5. ASSUME NEW n \in S PROVE m <= n
  <2>1. ~(<<0..n, 0..m>> \in StrictSubsetOrdering(Nat))
    BY <1>3, <1>4
  <2>2. ~(0..n \subseteq 0..m /\ 0..n # 0..m)
    <3>1. 0..n \in SUBSET Nat /\ 0..m \in SUBSET Nat
      OBVIOUS
    <3> QED BY <2>1, <3>1 DEF StrictSubsetOrdering
  <2> QED BY <2>2
<1> QED BY <1>5

LEMMA FirstIsMember ==
  ASSUME NEW S \in SUBSET IDs
  PROVE  /\ S = {} => C!First(S) = 0
         /\ S # {} => C!First(S) \in S /\ C!First(S) # 0
<1>1. S \subseteq Nat /\ 0 \notin S
  BY IDsAssumption
<1>2. CASE S # {}
  <2>1. \E m \in S : \A n \in S : m <= n
    BY <1>1, <1>2, LeastNumber
  <2>2. C!First(S) \in S
    BY <1>2, <2>1 DEF C!First
  <2> QED BY <1>1, <1>2, <2>2
<1> QED BY <1>2 DEF C!First

-----------------------------------------------------------------------------
(* Cars: what a step leaves of the other requests. *)

\* The step gives nothing to a user whom the request r is not about, and does
\* not delete him.
Spares(r) ==
  /\ \A c \in IDs, u \in UserIDs :
       u \notin C!About(req[r]) /\ docs'[c].stored /\ docs'[c].user = u =>
         docs[c].stored /\ docs[c].user = u /\ (docs'[c].default => docs[c].default)
  /\ \A u \in users : u \notin C!About(req[r]) => u \in users'

LEMMA RequestShape ==
  ASSUME NEW q \in Request
  PROVE  /\ q.st \in {"idle", "default", "save", "delete", "first", "put", "cars"}
         /\ q.car \in IDs \cup {0} /\ q.default \in BOOLEAN /\ q.clean \in BOOLEAN /\ q.doc \in Car
         /\ q.user \in UserIDs \cup {C!NoUser} /\ q.former \in UserIDs \cup {C!NoUser}
         /\ q.doc.user \in UserIDs \cup {C!NoUser}
         /\ q.list \in SUBSET [car : IDs, doc : Car]
         /\ C!About(q) \subseteq UserIDs /\ C!NoUser \notin C!About(q)
  BY DEF Request, Car, C!About

LEMMA OthersStayTrue ==
  ASSUME CarsTypeOK, NEW r \in Requests, NEW p \in Requests, Spares(r), Agrees(req[p]),
         C!About(req[p]) \cap C!About(req[r]) = {}, req'[p] = req[p]
  PROVE  Agrees(req[p])'
<1>1. PICK q \in Request : q = req[p]
  BY DEF CarsTypeOK
<1>2. PICK a : a = C!About(req[r])
  OBVIOUS
<1>3. /\ \A c \in IDs, u \in UserIDs :
           u \notin a /\ docs'[c].stored /\ docs'[c].user = u =>
             docs[c].stored /\ docs[c].user = u /\ (docs'[c].default => docs[c].default)
      /\ \A u \in users : u \notin a => u \in users'
  BY <1>2 DEF Spares
<1>4. Agrees(q) /\ C!About(q) \cap a = {} /\ C!About(q) \subseteq UserIDs
  BY <1>1, <1>2, RequestShape
<1>5. \A u \in C!About(q), c \in IDs : (IsDefault(c, u)' => IsDefault(c, u)) /\ (c \in C!CarsOf(u)' => c \in C!CarsOf(u))
  <2> SUFFICES ASSUME NEW u \in C!About(q), NEW c \in IDs
               PROVE  (IsDefault(c, u)' => IsDefault(c, u)) /\ (c \in C!CarsOf(u)' => c \in C!CarsOf(u))
    OBVIOUS
  <2>1. u \in UserIDs /\ u \notin a
    BY <1>4
  <2> QED BY <1>3, <2>1 DEF IsDefault, C!CarsOf
<1>6. \A u \in C!About(q) : \A c : Only(u, c) => Only(u, c)'
  BY <1>5 DEF Only
<1>7. C!About(q) \subseteq users'
  BY <1>3, <1>4 DEF Agrees
<1>8. /\ q.former # C!NoUser => q.former \in C!About(q)
      /\ q.user # C!NoUser => q.user \in C!About(q)
      /\ q.doc.user # C!NoUser => q.doc.user \in C!About(q)
  BY DEF C!About
<1>9. Agrees(q)'
  <2>1. q.st = "default" => q.user # C!NoUser
    BY <1>4 DEF Agrees
  <2>2. q.st \in {"default", "save"} => q.doc.user = q.user
    BY <1>4 DEF Agrees
  <2>3. q.st \in {"default", "save"} /\ q.former # C!NoUser =>
          q.user \notin {C!NoUser, q.former} /\ Only(q.former, q.car)'
    BY <1>4, <1>6, <1>8 DEF Agrees
  <2>4. q.st = "save" /\ q.default => Only(q.user, q.car)'
    BY <1>4, <1>6, <1>8 DEF Agrees, Only
  <2>5. q.st = "delete" /\ q.doc.default /\ q.doc.user # C!NoUser => Only(q.doc.user, q.car)'
    BY <1>4, <1>6, <1>8 DEF Agrees
  <2>6. q.st \in {"first", "put"} /\ q.former # C!NoUser => \A c \in IDs : ~IsDefault(c, q.former)'
    BY <1>4, <1>5, <1>8 DEF Agrees
  <2>7. q.st = "put" => q.doc.user = q.former
    BY <1>4 DEF Agrees
  <2>8. q.st = "cars" => q.user # C!NoUser /\ \A c \in C!CarsOf(q.user)' : \E l \in q.list : l.car = c
    BY <1>4, <1>5, <1>8 DEF Agrees, C!CarsOf
  <2> QED BY <1>7, <2>1, <2>2, <2>3, <2>4, <2>5, <2>6, <2>7, <2>8 DEF Agrees
<1> QED BY <1>1, <1>9

\* After marks the requests about the same car or the same user.
LEMMA AfterStep ==
  ASSUME CarsTypeOK, NEW r \in Requests, NEW q \in Request, req' = C!After(r, q)
  PROVE  /\ req' \in [Requests -> Request] /\ req'[r] = q
         /\ \A p \in Requests \ {r} :
              /\ req'[p].st = req[p].st /\ req'[p].car = req[p].car
              /\ req'[p].st # "idle" /\ req'[p].clean =>
                   req'[p] = req[p] /\ C!About(req[p]) \cap C!About(req[r]) = {}
<1>1. req' = [p \in Requests |->
        IF p = r THEN q
        ELSE IF req[p].st # "idle" /\ (req[p].car = req[r].car \/ C!About(req[p]) \cap C!About(req[r]) # {})
             THEN [req[p] EXCEPT !.clean = FALSE] ELSE req[p]]
  BY DEF C!After
<1>2. \A p \in Requests : [req[p] EXCEPT !.clean = FALSE] \in Request
  BY DEF CarsTypeOK, Request
<1>3. \A p \in Requests : ~[req[p] EXCEPT !.clean = FALSE].clean /\ [req[p] EXCEPT !.clean = FALSE].st = req[p].st
                          /\ [req[p] EXCEPT !.clean = FALSE].car = req[p].car
  BY DEF CarsTypeOK, Request
<1>4. \A p \in Requests : req[p] \in Request
  BY DEF CarsTypeOK
<1>5. req' \in [Requests -> Request] /\ req'[r] = q
  BY <1>1, <1>2, <1>4
<1>6. ASSUME NEW p \in Requests \ {r}
      PROVE  /\ req'[p].st = req[p].st /\ req'[p].car = req[p].car
             /\ req'[p].st # "idle" /\ req'[p].clean =>
                  req'[p] = req[p] /\ C!About(req[p]) \cap C!About(req[r]) = {}
  <2>1. CASE req[p].st # "idle" /\ (req[p].car = req[r].car \/ C!About(req[p]) \cap C!About(req[r]) # {})
    <3>1. req'[p] = [req[p] EXCEPT !.clean = FALSE]
      BY <1>1, <2>1
    <3> QED BY <1>3, <3>1
  <2>2. CASE ~(req[p].st # "idle" /\ (req[p].car = req[r].car \/ C!About(req[p]) \cap C!About(req[r]) # {}))
    <3>1. req'[p] = req[p]
      BY <1>1, <2>2
    <3> QED BY <2>2, <3>1
  <2> QED BY <2>1, <2>2
<1> QED BY <1>5, <1>6

LEMMA WritePreserves ==
  ASSUME CarsTypeOK, RequestsAgree, NEW r \in Requests, NEW q \in Request, req' = C!After(r, q), Spares(r),
         q.st # "idle" => Agrees(q)'
  PROVE  RequestsAgree'
<1>1. ASSUME NEW p \in Requests, req'[p].st # "idle", req'[p].clean PROVE Agrees(req[p])'
  <2>1. CASE p = r
    <3>1. req'[p] = q
      BY <2>1, AfterStep
    <3> QED BY <1>1, <3>1
  <2>2. CASE p # r
    <3>1. req'[p] = req[p] /\ C!About(req[p]) \cap C!About(req[r]) = {}
      BY <1>1, <2>2, AfterStep
    <3>2. Agrees(req[p])
      BY <1>1, <3>1 DEF RequestsAgree
    <3> QED BY <3>1, <3>2, OthersStayTrue
  <2> QED BY <2>1, <2>2
<1> QED BY <1>1 DEF RequestsAgree

-----------------------------------------------------------------------------
(* Cars: the requests start. *)

LEMMA BeginStep ==
  ASSUME CarsInv, NEW r \in Requests, NEW q \in Request, C!Begin(r, q),
         q.st \in {"default", "save", "delete", "put"} => q.car \in IDs,
         OneDefault /\ HaveOwners => Agrees(q)
  PROVE  CarsInv'
<1>1. req' = [req EXCEPT ![r] = q] /\ docs' = docs /\ users' = users /\ ~crossed /\ crossed' = crossed
  BY DEF C!Begin
<1>2. CarsTypeOK'
  BY <1>1 DEF CarsInv, CarsTypeOK
<1>3. OneDefault /\ HaveOwners /\ RequestsAgree
  BY <1>1 DEF CarsInv
<1>4. OneDefault' /\ HaveOwners'
  BY <1>1, <1>3 DEF OneDefault, IsDefault, HaveOwners
<1>5. \A p \in Requests : Agrees(req'[p]) => Agrees(req[p])'
  BY <1>1 DEF Agrees, Only, IsDefault, C!CarsOf, C!About
<1>6. \A p \in Requests : req'[p].st # "idle" /\ req'[p].clean => Agrees(req'[p])
  <2> SUFFICES ASSUME NEW p \in Requests, req'[p].st # "idle", req'[p].clean PROVE Agrees(req'[p])
    OBVIOUS
  <2>1. CASE p = r
    <3>1. req'[p] = q
      BY <1>1, <2>1 DEF CarsInv, CarsTypeOK
    <3> QED BY <1>3, <3>1
  <2>2. CASE p # r
    <3>1. req'[p] = req[p]
      BY <1>1, <2>2 DEF CarsInv, CarsTypeOK
    <3> QED BY <1>3, <3>1 DEF RequestsAgree
  <2> QED BY <2>1, <2>2
<1>7. RequestsAgree'
  BY <1>5, <1>6 DEF RequestsAgree
<1> QED BY <1>2, <1>4, <1>7 DEF CarsInv

LEMMA CreateCarStep ==
  ASSUME CarsInv, NEW r \in Requests, C!HandleCreateCar(r)
  PROVE  CarsInv'
<1>1. PICK c \in IDs, u \in users \cup {C!NoUser}, default \in BOOLEAN, private \in BOOLEAN :
        C!Begin(r, [C!Idle EXCEPT !.op = "create", !.st = IF u = C!NoUser THEN "save" ELSE "default",
                      !.car = c, !.user = u, !.default = default /\ u # C!NoUser,
                      !.doc = [C!Gone EXCEPT !.user = u, !.private = private]])
  BY DEF C!HandleCreateCar
<1>2. u \in UserIDs \cup {C!NoUser} /\ C!NoUser \notin UserIDs
  BY NoUserAssumption DEF CarsInv, CarsTypeOK
<1>3. PICK doc \in Car : doc = [C!Gone EXCEPT !.user = u, !.private = private]
  BY <1>2 DEF C!Gone, Car
<1>4. doc.user = u
  BY <1>2, <1>3 DEF C!Gone
<1>5. PICK q : q = [C!Idle EXCEPT !.op = "create", !.st = IF u = C!NoUser THEN "save" ELSE "default",
                      !.car = c, !.user = u, !.default = default /\ u # C!NoUser, !.doc = doc]
  OBVIOUS
<1>6. C!Begin(r, q)
  BY <1>1, <1>3, <1>5
<1>7. q \in Request
  BY <1>2, <1>5 DEF C!Idle, Request
<1>8. /\ q.st = (IF u = C!NoUser THEN "save" ELSE "default") /\ q.car = c /\ q.user = u /\ q.doc = doc
      /\ q.default => u # C!NoUser
      /\ q.former = C!NoUser
  BY <1>5 DEF C!Idle
<1>9. Agrees(q)
  BY <1>4, <1>8 DEF Agrees, C!About
<1> QED BY <1>6, <1>7, <1>8, <1>9, BeginStep

LEMMA UpdateCarStep ==
  ASSUME CarsInv, NEW r \in Requests, C!HandleUpdateCar(r)
  PROVE  CarsInv'
<1>1. PICK c \in IDs, u \in users \cup {C!NoUser}, default \in BOOLEAN, private \in BOOLEAN :
        /\ docs[c].stored
        /\ C!Begin(r, [C!Idle EXCEPT !.op = "update", !.st = IF u = C!NoUser THEN "save" ELSE "default",
                      !.car = c, !.user = u, !.default = default /\ u # C!NoUser,
                      !.doc = [docs[c] EXCEPT !.user = u, !.private = private],
                      !.former = IF u # C!NoUser /\ docs[c].user \notin {u, C!NoUser} /\ docs[c].default
                                 THEN docs[c].user ELSE C!NoUser])
  BY DEF C!HandleUpdateCar
<1>2. u \in UserIDs \cup {C!NoUser} /\ C!NoUser \notin UserIDs /\ docs[c] \in Car
  BY NoUserAssumption DEF CarsInv, CarsTypeOK
<1>3. PICK former \in UserIDs \cup {C!NoUser} :
        former = IF u # C!NoUser /\ docs[c].user \notin {u, C!NoUser} /\ docs[c].default
                 THEN docs[c].user ELSE C!NoUser
  BY <1>2 DEF Car
<1>4. PICK doc \in Car : doc = [docs[c] EXCEPT !.user = u, !.private = private]
  BY <1>2 DEF Car
<1>5. doc.user = u
  BY <1>2, <1>4 DEF Car
<1>6. PICK q : q = [C!Idle EXCEPT !.op = "update", !.st = IF u = C!NoUser THEN "save" ELSE "default",
                      !.car = c, !.user = u, !.default = default /\ u # C!NoUser, !.doc = doc, !.former = former]
  OBVIOUS
<1>7. C!Begin(r, q)
  BY <1>1, <1>3, <1>4, <1>6
<1>8. q \in Request
  BY <1>2, <1>6 DEF C!Idle, Request
<1>9. /\ q.st = (IF u = C!NoUser THEN "save" ELSE "default") /\ q.car = c /\ q.user = u /\ q.doc = doc
      /\ q.default => u # C!NoUser
      /\ q.former = former
  BY <1>6 DEF C!Idle
<1>10. ASSUME OneDefault, HaveOwners PROVE Agrees(q)
  <2>1. former # C!NoUser => former = docs[c].user /\ IsDefault(c, former) /\ former \in users /\ u \notin {C!NoUser, former}
    BY <1>1, <1>3, <1>10 DEF IsDefault, HaveOwners
  <2>2. former # C!NoUser => Only(former, c)
    BY <1>3, <1>10, <2>1 DEF Only, OneDefault
  <2>3. q.st = "save" => ~q.default
    BY <1>9
  <2> QED BY <1>5, <1>9, <2>1, <2>2, <2>3 DEF Agrees, C!About
<1> QED BY <1>7, <1>8, <1>9, <1>10, BeginStep

LEMMA DeleteCarStep ==
  ASSUME CarsInv, NEW r \in Requests, C!HandleDeleteCar(r)
  PROVE  CarsInv'
<1>1. PICK c \in IDs :
        /\ docs[c].stored
        /\ C!Begin(r, [C!Idle EXCEPT !.op = "delete", !.st = "delete", !.car = c, !.doc = docs[c]])
  BY DEF C!HandleDeleteCar
<1>2. PICK doc \in Car : doc = docs[c]
  BY DEF CarsInv, CarsTypeOK
<1>3. PICK q : q = [C!Idle EXCEPT !.op = "delete", !.st = "delete", !.car = c, !.doc = doc]
  OBVIOUS
<1>4. C!Begin(r, q)
  BY <1>1, <1>2, <1>3
<1>5. q \in Request
  BY <1>3 DEF C!Idle, Request
<1>6. q.st = "delete" /\ q.car = c /\ q.user = C!NoUser /\ q.doc = doc /\ q.former = C!NoUser
  BY <1>3 DEF C!Idle
<1>7. ASSUME OneDefault, HaveOwners PROVE Agrees(q)
  <2>1. doc.user \in users \cup {C!NoUser}
    BY <1>1, <1>2, <1>7 DEF HaveOwners
  <2>2. doc.default /\ doc.user # C!NoUser => Only(doc.user, c)
    <3>1. doc.user # C!NoUser => doc.user \in UserIDs
      BY <2>1 DEF CarsInv, CarsTypeOK
    <3> QED BY <1>1, <1>2, <1>7, <3>1 DEF Only, OneDefault, IsDefault
  <2> QED BY <1>6, <2>1, <2>2 DEF Agrees, C!About
<1> QED BY <1>4, <1>5, <1>6, <1>7, BeginStep

LEMMA BeginDeleteUserStep ==
  ASSUME CarsInv, NEW r \in Requests, C!HandleDeleteUser(r)
  PROVE  CarsInv'
<1>1. PICK u \in users :
        C!Begin(r, [C!Idle EXCEPT !.op = "deleteUser", !.st = "cars", !.user = u,
                                  !.list = {[car |-> c, doc |-> docs[c]] : c \in C!CarsOf(u)}])
  BY DEF C!HandleDeleteUser
<1>2. u \in UserIDs /\ u # C!NoUser
  BY NoUserAssumption DEF CarsInv, CarsTypeOK
<1>3. PICK list \in SUBSET [car : IDs, doc : Car] :
        /\ list = {[car |-> c, doc |-> docs[c]] : c \in C!CarsOf(u)}
        /\ \A c \in C!CarsOf(u) : \E l \in list : l.car = c
  <2> DEFINE list == {[car |-> c, doc |-> docs[c]] : c \in C!CarsOf(u)}
  <2>1. \A c \in C!CarsOf(u) : c \in IDs /\ docs[c] \in Car
    BY DEF CarsInv, CarsTypeOK, C!CarsOf
  <2>2. ASSUME NEW l \in list PROVE l \in [car : IDs, doc : Car]
    <3>1. PICK c \in C!CarsOf(u) : l = [car |-> c, doc |-> docs[c]]
      OBVIOUS
    <3> QED BY <2>1, <3>1
  <2>3. ASSUME NEW c \in C!CarsOf(u) PROVE \E l \in list : l.car = c
    <3>1. [car |-> c, doc |-> docs[c]] \in list /\ [car |-> c, doc |-> docs[c]].car = c
      OBVIOUS
    <3> HIDE DEF list
    <3> QED BY <3>1
  <2> QED BY <2>2, <2>3
<1>4. PICK q : q = [C!Idle EXCEPT !.op = "deleteUser", !.st = "cars", !.user = u, !.list = list]
  OBVIOUS
<1>5. C!Begin(r, q)
  BY <1>1, <1>3, <1>4
<1>6. C!Gone \in Car
  BY DEF C!Gone, Car
<1>7. q \in Request
  BY <1>2, <1>4, <1>6 DEF C!Idle, Request
<1>8. q.st = "cars" /\ q.user = u /\ q.doc = C!Gone /\ q.former = C!NoUser /\ q.list = list
  BY <1>4 DEF C!Idle
<1>9. Agrees(q)
  <2>1. \A c \in C!CarsOf(u) : \E l \in list : l.car = c
    BY <1>3
  <2>2. C!About(q) \subseteq users
    BY <1>8 DEF C!About, C!Gone
  <2> QED BY <1>2, <1>8, <2>1, <2>2 DEF Agrees
<1> QED BY <1>5, <1>7, <1>8, <1>9, BeginStep

-----------------------------------------------------------------------------
(* Cars: the requests write. *)

\* A request that writes without having been crossed knows what it writes.
LEMMA UncrossedWrite ==
  ASSUME CarsInv, NEW r \in Requests, req[r].st # "idle", C!Writes(r), ~crossed'
  PROVE  OneDefault /\ HaveOwners /\ RequestsAgree /\ Agrees(req[r])
<1>1. ~crossed /\ req[r].clean
  BY DEF C!Writes
<1>2. RequestsAgree
  BY <1>1 DEF CarsInv
<1> QED BY <1>1, <1>2 DEF CarsInv, RequestsAgree

LEMMA ChooseDefaultStep ==
  ASSUME CarsInv, NEW r \in Requests, C!ChooseDefault(r)
  PROVE  CarsInv'
<1>1. PICK q \in Request : q = req[r]
  BY DEF CarsInv, CarsTypeOK
<1>2. q.st = "default" /\ q.car \in IDs
  BY <1>1 DEF C!ChooseDefault, CarsInv, CarsTypeOK
<1>3. users' = users
  BY DEF C!ChooseDefault
<1>4. CarsTypeOK
  BY DEF CarsInv
<1>5. CASE q.default
  <2>1. /\ docs' = C!ClearDefaultUserCar(q.user) /\ req' = C!After(r, [q EXCEPT !.st = "save"]) /\ C!Writes(r)
    BY <1>1, <1>5 DEF C!ChooseDefault
  <2>2. PICK n \in Request : n = [q EXCEPT !.st = "save"]
    BY DEF Request
  <2>3. /\ n.st = "save" /\ n.car = q.car /\ n.user = q.user /\ n.doc = q.doc /\ n.former = q.former
        /\ n.default = q.default
    BY <2>2 DEF Request
  <2>4. req' = C!After(r, n)
    BY <2>1, <2>2
  <2>5. /\ docs' \in [IDs -> Car]
        /\ \A c \in IDs : /\ docs'[c].stored = docs[c].stored /\ docs'[c].user = docs[c].user
                          /\ docs'[c].default => docs[c].default
                          /\ docs[c].stored /\ docs[c].user = q.user => ~docs'[c].default
    <3>1. docs' = [c \in IDs |-> IF c \in C!CarsOf(q.user) THEN [docs[c] EXCEPT !.default = FALSE] ELSE docs[c]]
      BY <2>1 DEF C!ClearDefaultUserCar
    <3>2. \A c \in IDs : docs[c] \in Car
      BY <1>4 DEF CarsTypeOK
    <3>3. \A c \in IDs : LET d == [docs[c] EXCEPT !.default = FALSE]
                         IN  d \in Car /\ ~d.default /\ d.stored = docs[c].stored /\ d.user = docs[c].user
      BY <3>2 DEF Car
    <3>4. ASSUME NEW c \in IDs
          PROVE  /\ docs'[c] \in Car /\ docs'[c].stored = docs[c].stored /\ docs'[c].user = docs[c].user
                 /\ docs'[c].default => docs[c].default
                 /\ docs[c].stored /\ docs[c].user = q.user => ~docs'[c].default
      <4>1. CASE c \in C!CarsOf(q.user)
        <5>1. docs'[c] = [docs[c] EXCEPT !.default = FALSE]
          BY <3>1, <4>1
        <5> QED BY <3>3, <5>1
      <4>2. CASE c \notin C!CarsOf(q.user)
        <5>1. docs'[c] = docs[c]
          BY <3>1, <4>2
        <5> QED BY <3>2, <4>2, <5>1 DEF C!CarsOf
      <4> QED BY <4>1, <4>2
    <3> QED BY <3>1, <3>4
  <2>6. CarsTypeOK'
    <3>1. \A p \in Requests : req'[p].st \in {"default", "save", "delete", "put"} => req'[p].car \in IDs
      BY <1>2, <1>4, <2>3, <2>4, AfterStep DEF CarsTypeOK
    <3> QED BY <1>3, <1>4, <2>4, <2>5, <3>1, AfterStep DEF CarsTypeOK
  <2>7. ASSUME ~crossed' PROVE OneDefault' /\ HaveOwners' /\ RequestsAgree'
    <3>1. OneDefault /\ HaveOwners /\ RequestsAgree /\ Agrees(q)
      BY <1>1, <1>2, <2>1, <2>7, UncrossedWrite
    <3>2. \A c \in IDs : \A u : IsDefault(c, u)' => IsDefault(c, u) /\ u # q.user
      BY <2>5 DEF IsDefault
    <3>3. Spares(r)
      BY <1>3, <2>5 DEF Spares
    <3>4. OneDefault'
      BY <3>1, <3>2 DEF OneDefault
    <3>5. HaveOwners'
      BY <1>3, <2>5, <3>1 DEF HaveOwners
    <3>6. Agrees(n)'
      <4>1. C!About(n) \subseteq users'
        BY <1>3, <2>3, <3>1 DEF Agrees, C!About
      <4>2. n.former # C!NoUser => n.user \notin {C!NoUser, n.former} /\ Only(n.former, n.car)'
        BY <1>2, <2>3, <3>1, <3>2 DEF Agrees, Only
      <4>3. Only(n.user, n.car)'
        BY <1>2, <2>3, <3>1, <3>2 DEF Agrees, Only
      <4>4. n.doc.user = n.user
        BY <1>2, <2>3, <3>1 DEF Agrees
      <4> QED BY <2>3, <4>1, <4>2, <4>3, <4>4 DEF Agrees
    <3> QED BY <1>4, <2>4, <3>1, <3>3, <3>4, <3>5, <3>6, WritePreserves
  <2> QED BY <2>6, <2>7 DEF CarsInv
<1>6. CASE ~q.default
  <2> DEFINE found == C!GetDefaultUserCar(q.user)
             default == (found = 0 \/ (q.op = "update" /\ found = q.car))
  <2>1. /\ req' = [req EXCEPT ![r] = [q EXCEPT !.st = "save", !.default = default]]
        /\ docs' = docs /\ crossed' = crossed
    BY <1>1, <1>6 DEF C!ChooseDefault
  <2>2. PICK n \in Request : n = [q EXCEPT !.st = "save", !.default = default]
    <3>1. default \in BOOLEAN
      OBVIOUS
    <3> HIDE DEF default
    <3> QED BY <3>1 DEF Request
  <2>3. /\ n.st = "save" /\ n.car = q.car /\ n.user = q.user /\ n.doc = q.doc /\ n.former = q.former
        /\ n.default = default /\ n.clean = q.clean
    <3> HIDE DEF default
    <3> QED BY <2>2 DEF Request
  <2>4. req' = [req EXCEPT ![r] = n]
    BY <2>1, <2>2
  <2>5. CarsTypeOK'
    BY <1>2, <1>3, <1>4, <2>1, <2>3, <2>4 DEF CarsTypeOK
  <2>6. ASSUME ~crossed, q.clean, q.user # C!NoUser, default PROVE Only(q.user, q.car)
    <3> DEFINE D == {c \in C!CarsOf(q.user) : docs[c].default}
    <3>1. D \in SUBSET IDs /\ found = C!First(D)
      BY DEF C!CarsOf, C!GetDefaultUserCar
    <3>2. \A c, d \in D : c = d
      <4>1. q.user \in UserIDs
        BY <2>6, RequestShape
      <4> QED BY <2>6, <4>1 DEF CarsInv, OneDefault, IsDefault, C!CarsOf
    <3>3. \A c \in IDs : IsDefault(c, q.user) => c \in D
      BY DEF IsDefault, C!CarsOf
    <3>4. (D = {} => found = 0) /\ (D # {} => found \in D /\ found # 0)
      <4> HIDE DEF D, found
      <4> QED BY <3>1, FirstIsMember
    <3>5. D = {} \/ q.car = found
      BY <2>6, <3>4
    <3> HIDE DEF D, found
    <3> QED BY <2>6, <3>2, <3>3, <3>4, <3>5 DEF Only
  <2> HIDE DEF default
  <2>7. ASSUME ~crossed' PROVE OneDefault' /\ HaveOwners' /\ RequestsAgree'
    <3>1. OneDefault /\ HaveOwners /\ RequestsAgree /\ ~crossed
      BY <2>1, <2>7 DEF CarsInv
    <3>2. OneDefault' /\ HaveOwners'
      BY <1>3, <2>1, <3>1 DEF OneDefault, IsDefault, HaveOwners
    <3>3. n.clean => Agrees(n)
      <4> SUFFICES ASSUME n.clean PROVE Agrees(n)
        OBVIOUS
      <4>1. Agrees(q) /\ q.clean
        BY <1>1, <1>2, <2>3, <3>1 DEF RequestsAgree
      <4>2. q.user # C!NoUser /\ q.doc.user = q.user
        BY <1>2, <4>1 DEF Agrees
      <4>3. n.default => Only(n.user, n.car)
        BY <2>3, <2>6, <3>1, <4>1, <4>2
      <4>4. n.former # C!NoUser => n.user \notin {C!NoUser, n.former} /\ Only(n.former, n.car)
        BY <1>2, <2>3, <4>1 DEF Agrees
      <4>5. C!About(n) \subseteq users
        BY <2>3, <4>1 DEF Agrees, C!About
      <4> QED BY <2>3, <4>2, <4>3, <4>4, <4>5 DEF Agrees
    <3>4. \A p \in Requests : Agrees(req'[p]) => Agrees(req[p])'
      BY <1>3, <2>1 DEF Agrees, Only, IsDefault, C!CarsOf, C!About
    <3>5. \A p \in Requests : p # r => req'[p] = req[p]
      BY <1>4, <2>4 DEF CarsTypeOK
    <3>6. req'[r] = n
      BY <1>4, <2>4 DEF CarsTypeOK
    <3>7. ASSUME NEW p \in Requests, req'[p].st # "idle", req'[p].clean PROVE Agrees(req'[p])
      BY <3>1, <3>3, <3>5, <3>6, <3>7 DEF RequestsAgree
    <3> QED BY <3>2, <3>4, <3>7 DEF RequestsAgree
  <2> QED BY <2>5, <2>7 DEF CarsInv
<1> QED BY <1>5, <1>6, RequestShape

LEMMA SaveStep ==
  ASSUME CarsInv, NEW r \in Requests, C!Save(r)
  PROVE  CarsInv'
<1>1. PICK q \in Request : q = req[r]
  BY DEF CarsInv, CarsTypeOK
<1>2. q.st = "save" /\ q.car \in IDs
  BY <1>1 DEF C!Save, CarsInv, CarsTypeOK
<1>3. users' = users /\ C!Writes(r) /\ CarsTypeOK
  BY DEF C!Save, CarsInv
<1>4. PICK doc \in Car : /\ docs' = [docs EXCEPT ![q.car] = doc]
                         /\ doc.default = q.default /\ doc.user = q.doc.user
  <2> DEFINE d1 == [q.doc EXCEPT !.default = q.default]
             d2 == [d1 EXCEPT !.stored = TRUE]
  <2>1. docs' = [docs EXCEPT ![q.car] = d2]
    BY <1>1 DEF C!Save, C!SaveCar
  <2>2. q.doc \in Car /\ q.default \in BOOLEAN
    BY RequestShape
  <2>3. d1 \in Car /\ d1.default = q.default /\ d1.user = q.doc.user
    BY <2>2 DEF Car
  <2> HIDE DEF d1
  <2>4. d2 \in Car /\ d2.default = q.default /\ d2.user = q.doc.user
    BY <2>3 DEF Car
  <2> HIDE DEF d2
  <2> QED BY <2>1, <2>4
<1>5. PICK n \in Request : /\ req' = C!After(r, n)
                           /\ n = C!Idle \/ (q.former # C!NoUser /\ n = [q EXCEPT !.st = "first"])
  <2>1. C!Idle \in Request
    BY DEF C!Idle, C!Gone, Request, Car
  <2>2. [q EXCEPT !.st = "first"] \in Request
    BY DEF Request
  <2>3. req' = C!After(r, IF q.former # C!NoUser THEN [q EXCEPT !.st = "first"] ELSE C!Idle)
    BY <1>1 DEF C!Save
  <2> QED BY <2>1, <2>2, <2>3
<1>6. n.st = "idle" \/ (n.st = "first" /\ n.user = q.user /\ n.doc = q.doc /\ n.former = q.former /\ q.former # C!NoUser)
  BY <1>5 DEF C!Idle, Request
<1>7. CarsTypeOK'
  <2>1. docs' \in [IDs -> Car]
    BY <1>3, <1>4 DEF CarsTypeOK
  <2>2. \A p \in Requests : req'[p].st \in {"default", "save", "delete", "put"} => req'[p].car \in IDs
    BY <1>3, <1>5, <1>6, AfterStep DEF CarsTypeOK
  <2> QED BY <1>3, <1>5, <2>1, <2>2, AfterStep DEF CarsTypeOK
<1>8. ASSUME ~crossed' PROVE OneDefault' /\ HaveOwners' /\ RequestsAgree'
  <2>1. OneDefault /\ HaveOwners /\ RequestsAgree /\ Agrees(q)
    BY <1>1, <1>2, <1>3, <1>8, UncrossedWrite
  <2>2. q.doc.user = q.user
    BY <1>2, <2>1 DEF Agrees
  <2>3. docs'[q.car] = doc /\ \A c \in IDs : c # q.car => docs'[c] = docs[c]
    BY <1>2, <1>3, <1>4 DEF CarsTypeOK
  <2>4. \A c \in IDs : \A u : IsDefault(c, u)' =>
          \/ c # q.car /\ IsDefault(c, u)
          \/ c = q.car /\ u = q.user /\ q.default
    BY <1>4, <2>2, <2>3 DEF IsDefault
  <2>5. Spares(r)
    <3>1. \A u \in UserIDs : u \notin C!About(q) => u # q.user
      BY NoUserAssumption DEF C!About
    <3>2. docs'[q.car].user = q.user
      BY <1>4, <2>2, <2>3
    <3> QED BY <1>1, <1>3, <2>3, <3>1, <3>2 DEF Spares
  <2>6. OneDefault'
    <3> SUFFICES ASSUME NEW u \in UserIDs, NEW c \in IDs, NEW d \in IDs, IsDefault(c, u)', IsDefault(d, u)'
                 PROVE  c = d
      BY DEF OneDefault
    <3>1. q.default => \A x \in IDs : IsDefault(x, q.user) => x = q.car
      BY <1>2, <2>1 DEF Agrees, Only
    <3>2. IsDefault(c, u) /\ IsDefault(d, u) => c = d
      BY <2>1 DEF OneDefault
    <3> QED BY <2>4, <3>1, <3>2
  <2>7. HaveOwners'
    <3>1. q.user \in users \cup {C!NoUser}
      BY <2>1 DEF Agrees, C!About
    <3> QED BY <1>3, <1>4, <2>1, <2>2, <2>3, <3>1 DEF HaveOwners
  <2>8. ASSUME n.st # "idle" PROVE Agrees(n)'
    <3>1. n.st = "first" /\ n.user = q.user /\ n.doc = q.doc /\ n.former = q.former /\ q.former # C!NoUser
      BY <1>6, <2>8
    <3>2. C!About(n) \subseteq users'
      BY <1>3, <2>1, <3>1 DEF Agrees, C!About
    <3>3. q.user # q.former /\ Only(q.former, q.car)
      BY <1>2, <2>1, <3>1 DEF Agrees
    <3>4. \A c \in IDs : ~IsDefault(c, n.former)'
      BY <2>4, <3>1, <3>3 DEF Only
    <3> QED BY <3>1, <3>2, <3>4 DEF Agrees
  <2> QED BY <1>3, <1>5, <2>1, <2>5, <2>6, <2>7, <2>8, WritePreserves
<1> QED BY <1>7, <1>8 DEF CarsInv

LEMMA DeleteStep ==
  ASSUME CarsInv, NEW r \in Requests, C!Delete(r)
  PROVE  CarsInv'
<1>1. PICK q \in Request : q = req[r]
  BY DEF CarsInv, CarsTypeOK
<1>2. q.st = "delete" /\ q.car \in IDs
  BY <1>1 DEF C!Delete, CarsInv, CarsTypeOK
<1>3. users' = users /\ C!Writes(r) /\ CarsTypeOK /\ docs' = [docs EXCEPT ![q.car] = C!Gone]
  BY <1>1 DEF C!Delete, CarsInv
<1>4. C!Gone \in Car /\ ~C!Gone.stored
  BY DEF C!Gone, Car
<1>5. PICK n \in Request : /\ req' = C!After(r, n)
                           /\ n = C!Idle \/ (q.doc.default /\ n = [q EXCEPT !.st = "first", !.former = q.doc.user])
  <2>1. C!Idle \in Request
    BY DEF C!Idle, C!Gone, Request, Car
  <2>2. [q EXCEPT !.st = "first", !.former = q.doc.user] \in Request
    BY RequestShape DEF Request
  <2>3. req' = C!After(r, IF q.doc.default THEN [q EXCEPT !.st = "first", !.former = q.doc.user] ELSE C!Idle)
    BY <1>1 DEF C!Delete
  <2> QED BY <2>1, <2>2, <2>3
<1>6. n.st = "idle" \/ (n.st = "first" /\ n.user = q.user /\ n.doc = q.doc /\ n.former = q.doc.user /\ q.doc.default)
  <2>1. CASE n = C!Idle
    BY <2>1 DEF C!Idle
  <2>2. CASE q.doc.default /\ n = [q EXCEPT !.st = "first", !.former = q.doc.user]
    <3>1. PICK former : former = q.doc.user
      OBVIOUS
    <3>2. n = [q EXCEPT !.st = "first", !.former = former]
      BY <2>2, <3>1
    <3> QED BY <2>2, <3>1, <3>2 DEF Request
  <2> QED BY <1>5, <2>1, <2>2
<1>7. CarsTypeOK'
  <2>1. docs' \in [IDs -> Car]
    BY <1>3, <1>4 DEF CarsTypeOK
  <2>2. \A p \in Requests : req'[p].st \in {"default", "save", "delete", "put"} => req'[p].car \in IDs
    BY <1>3, <1>5, <1>6, AfterStep DEF CarsTypeOK
  <2> QED BY <1>3, <1>5, <2>1, <2>2, AfterStep DEF CarsTypeOK
<1>8. ASSUME ~crossed' PROVE OneDefault' /\ HaveOwners' /\ RequestsAgree'
  <2>1. OneDefault /\ HaveOwners /\ RequestsAgree /\ Agrees(q)
    BY <1>1, <1>2, <1>3, <1>8, UncrossedWrite
  <2>2. ~docs'[q.car].stored /\ \A c \in IDs : c # q.car => docs'[c] = docs[c]
    BY <1>2, <1>3, <1>4 DEF CarsTypeOK
  <2>3. \A c \in IDs : \A u : IsDefault(c, u)' => c # q.car /\ IsDefault(c, u)
    BY <2>2 DEF IsDefault
  <2>4. Spares(r)
    BY <1>3, <2>2 DEF Spares
  <2>5. OneDefault'
    BY <2>1, <2>3 DEF OneDefault
  <2>6. HaveOwners'
    BY <1>3, <2>1, <2>2 DEF HaveOwners
  <2>7. ASSUME n.st # "idle" PROVE Agrees(n)'
    <3>1. n.st = "first" /\ n.user = q.user /\ n.doc = q.doc /\ n.former = q.doc.user /\ q.doc.default
      BY <1>6, <2>7
    <3>2. C!About(n) \subseteq users'
      BY <1>3, <2>1, <3>1 DEF Agrees, C!About
    <3>3. q.doc.user # C!NoUser => Only(q.doc.user, q.car)
      BY <1>2, <2>1, <3>1 DEF Agrees
    <3>4. n.former # C!NoUser => \A c \in IDs : ~IsDefault(c, n.former)'
      BY <2>3, <3>1, <3>3 DEF Only
    <3> QED BY <3>1, <3>2, <3>4 DEF Agrees
  <2> QED BY <1>3, <1>5, <2>1, <2>4, <2>5, <2>6, <2>7, WritePreserves
<1> QED BY <1>7, <1>8 DEF CarsInv

LEMMA SetDefaultStep ==
  ASSUME CarsInv, NEW r \in Requests, C!SetDefaultCarForUser(r)
  PROVE  CarsInv'
<1>1. PICK q \in Request : q = req[r]
  BY DEF CarsInv, CarsTypeOK
<1>2. users' = users /\ CarsTypeOK
  BY DEF C!SetDefaultCarForUser, CarsInv
<1>3. C!Idle \in Request /\ C!Idle.st = "idle"
  BY DEF C!Idle, C!Gone, Request, Car
<1>4. CASE /\ q.st = "first"
           /\ req' = [req EXCEPT ![r] = IF C!First(C!CarsOf(q.former)) = 0 THEN C!Idle
                       ELSE [q EXCEPT !.st = "put", !.car = C!First(C!CarsOf(q.former)),
                                      !.doc = [docs[C!First(C!CarsOf(q.former))] EXCEPT !.default = TRUE]]]
           /\ UNCHANGED <<docs, crossed>>
  <2> DEFINE c == C!First(C!CarsOf(q.former))
  <2>1. c = 0 \/ c \in C!CarsOf(q.former)
    <3>1. C!CarsOf(q.former) \in SUBSET IDs
      BY DEF C!CarsOf
    <3> QED BY <3>1, FirstIsMember
  <2>2. PICK n \in Request :
          /\ req' = [req EXCEPT ![r] = n]
          /\ \/ n.st = "idle"
             \/ /\ n.st = "put" /\ n.car \in IDs /\ n.user = q.user /\ n.former = q.former /\ n.clean = q.clean
                /\ n.doc.user = q.former
    <3>1. CASE c = 0
      BY <1>3, <1>4, <3>1
    <3>2. CASE c # 0
      <4>1. c \in IDs /\ docs[c].user = q.former /\ docs[c] \in Car
        BY <1>2, <2>1, <3>2 DEF C!CarsOf, CarsTypeOK
      <4>2. PICK doc \in Car : doc = [docs[c] EXCEPT !.default = TRUE] /\ doc.user = q.former
        <5> HIDE DEF c
        <5>1. PICK d \in Car : d = docs[c] /\ d.user = q.former
          BY <4>1
        <5>2. [d EXCEPT !.default = TRUE] \in Car /\ [d EXCEPT !.default = TRUE].user = q.former
          BY <5>1 DEF Car
        <5> QED BY <5>1, <5>2
      <4>3. req' = [req EXCEPT ![r] = [q EXCEPT !.st = "put", !.car = c, !.doc = doc]]
        BY <1>4, <3>2, <4>2
      <4> HIDE DEF c
      <4>4. PICK n \in Request : n = [q EXCEPT !.st = "put", !.car = c, !.doc = doc]
        BY <4>1 DEF Request
      <4>5. n.st = "put" /\ n.car = c /\ n.user = q.user /\ n.former = q.former /\ n.clean = q.clean /\ n.doc = doc
        BY <4>4 DEF Request
      <4> QED BY <4>1, <4>2, <4>3, <4>4, <4>5
    <3> QED BY <3>1, <3>2
  <2>3. docs' = docs /\ crossed' = crossed
    BY <1>4
  <2>4. CarsTypeOK'
    BY <1>2, <2>2, <2>3 DEF CarsTypeOK
  <2>5. ASSUME ~crossed' PROVE OneDefault' /\ HaveOwners' /\ RequestsAgree'
    <3>1. OneDefault /\ HaveOwners /\ RequestsAgree
      BY <2>3, <2>5 DEF CarsInv
    <3>2. OneDefault' /\ HaveOwners'
      BY <1>2, <2>3, <3>1 DEF OneDefault, IsDefault, HaveOwners
    <3>3. n.st # "idle" /\ n.clean => Agrees(n)
      <4> SUFFICES ASSUME n.st # "idle", n.clean PROVE Agrees(n)
        OBVIOUS
      <4>1. /\ n.st = "put" /\ n.user = q.user /\ n.former = q.former /\ n.doc.user = q.former
            /\ q.clean
        BY <2>2
      <4>2. Agrees(q)
        BY <1>1, <1>4, <3>1, <4>1 DEF RequestsAgree
      <4>3. C!About(n) \subseteq users
        BY <4>1, <4>2 DEF Agrees, C!About
      <4>4. n.former # C!NoUser => \A x \in IDs : ~IsDefault(x, n.former)
        BY <1>4, <4>1, <4>2 DEF Agrees
      <4> QED BY <4>1, <4>3, <4>4 DEF Agrees
    <3>4. \A p \in Requests : Agrees(req'[p]) => Agrees(req[p])'
      BY <1>2, <2>3 DEF Agrees, Only, IsDefault, C!CarsOf, C!About
    <3>5. req'[r] = n /\ \A p \in Requests : p # r => req'[p] = req[p]
      BY <1>2, <2>2 DEF CarsTypeOK
    <3>6. ASSUME NEW p \in Requests, req'[p].st # "idle", req'[p].clean PROVE Agrees(req'[p])
      BY <3>1, <3>3, <3>5, <3>6 DEF RequestsAgree
    <3> QED BY <3>2, <3>4, <3>6 DEF RequestsAgree
  <2> QED BY <2>4, <2>5 DEF CarsInv
<1>5. CASE q.st = "put" /\ docs' = C!SaveCar(q.car, q.doc) /\ req' = C!After(r, C!Idle) /\ C!Writes(r)
  <2>1. q.car \in IDs
    BY <1>1, <1>2, <1>5 DEF CarsTypeOK
  <2>2. PICK doc \in Car : docs' = [docs EXCEPT ![q.car] = doc] /\ doc.user = q.doc.user
    <3>1. docs' = [docs EXCEPT ![q.car] = [q.doc EXCEPT !.stored = TRUE]]
      BY <1>5 DEF C!SaveCar
    <3>2. q.doc \in Car
      BY RequestShape
    <3>3. [q.doc EXCEPT !.stored = TRUE] \in Car /\ [q.doc EXCEPT !.stored = TRUE].user = q.doc.user
      BY <3>2 DEF Car
    <3> QED BY <3>1, <3>3
  <2>3. CarsTypeOK'
    <3>1. docs' \in [IDs -> Car]
      BY <1>2, <2>2 DEF CarsTypeOK
    <3>2. \A p \in Requests : req'[p].st \in {"default", "save", "delete", "put"} => req'[p].car \in IDs
      BY <1>2, <1>3, <1>5, AfterStep DEF CarsTypeOK
    <3> QED BY <1>2, <1>3, <1>5, <3>1, <3>2, AfterStep DEF CarsTypeOK
  <2>4. ASSUME ~crossed' PROVE OneDefault' /\ HaveOwners' /\ RequestsAgree'
    <3>1. OneDefault /\ HaveOwners /\ RequestsAgree /\ Agrees(q)
      BY <1>1, <1>5, <2>4, UncrossedWrite
    <3>2. q.doc.user = q.former /\ (q.former # C!NoUser => \A c \in IDs : ~IsDefault(c, q.former))
      BY <1>5, <3>1 DEF Agrees
    <3>3. docs'[q.car] = doc /\ \A c \in IDs : c # q.car => docs'[c] = docs[c]
      BY <1>2, <2>1, <2>2 DEF CarsTypeOK
    <3>4. \A c \in IDs, u \in UserIDs : IsDefault(c, u)' =>
            \/ c # q.car /\ IsDefault(c, u) /\ u # q.former
            \/ c = q.car /\ u = q.former
      BY <2>2, <3>2, <3>3, NoUserAssumption DEF IsDefault
    <3>5. Spares(r)
      <4>1. \A u \in UserIDs : u \notin C!About(q) => u # q.former
        BY NoUserAssumption DEF C!About
      <4>2. docs'[q.car].user = q.former
        BY <2>2, <3>2, <3>3
      <4> QED BY <1>1, <1>2, <3>3, <4>1, <4>2 DEF Spares
    <3>6. OneDefault'
      <4> SUFFICES ASSUME NEW u \in UserIDs, NEW c \in IDs, NEW d \in IDs, IsDefault(c, u)', IsDefault(d, u)'
                   PROVE  c = d
        BY DEF OneDefault
      <4>1. IsDefault(c, u) /\ IsDefault(d, u) => c = d
        BY <3>1 DEF OneDefault
      <4> QED BY <3>4, <4>1
    <3>7. HaveOwners'
      <4>1. q.former \in users \cup {C!NoUser}
        BY <3>1 DEF Agrees, C!About
      <4> QED BY <1>2, <2>2, <3>1, <3>2, <3>3, <4>1 DEF HaveOwners
    <3> QED BY <1>2, <1>3, <1>5, <3>1, <3>5, <3>6, <3>7, WritePreserves
  <2> QED BY <2>3, <2>4 DEF CarsInv
<1> QED BY <1>1, <1>4, <1>5 DEF C!SetDefaultCarForUser

LEMMA CheckAndDeleteCarStep ==
  ASSUME CarsInv, NEW r \in Requests, C!CheckAndDeleteCar(r)
  PROVE  CarsInv'
<1>1. PICK q \in Request : q = req[r]
  BY DEF CarsInv, CarsTypeOK
<1>2. users' = users /\ C!Writes(r) /\ CarsTypeOK /\ q.st = "cars"
  BY <1>1 DEF C!CheckAndDeleteCar, CarsInv
<1>3. PICK l \in q.list :
        /\ docs' = IF l.doc.private THEN [docs EXCEPT ![l.car] = C!Gone]
                   ELSE C!SaveCar(l.car, [l.doc EXCEPT !.user = C!NoUser, !.default = FALSE])
        /\ req' = C!After(r, [q EXCEPT !.list = @ \ {l}])
  BY <1>1 DEF C!CheckAndDeleteCar
<1>4. l \in [car : IDs, doc : Car]
  BY RequestShape
<1>5. PICK doc \in Car : docs' = [docs EXCEPT ![l.car] = doc] /\ (doc.stored => doc.user = C!NoUser)
  <2>1. CASE l.doc.private
    <3>1. C!Gone \in Car /\ ~C!Gone.stored
      BY DEF C!Gone, Car
    <3> QED BY <1>3, <2>1, <3>1
  <2>2. CASE ~l.doc.private
    <3> DEFINE d1 == [l.doc EXCEPT !.user = C!NoUser]
               d2 == [d1 EXCEPT !.default = FALSE]
               d3 == [d2 EXCEPT !.stored = TRUE]
    <3>1. docs' = [docs EXCEPT ![l.car] = d3]
      BY <1>3, <2>2 DEF C!SaveCar
    <3>2. d1 \in Car /\ d1.user = C!NoUser
      BY <1>4 DEF Car
    <3> HIDE DEF d1
    <3>3. d2 \in Car /\ d2.user = C!NoUser
      BY <3>2 DEF Car
    <3> HIDE DEF d2
    <3>4. d3 \in Car /\ d3.user = C!NoUser
      BY <3>3 DEF Car
    <3> HIDE DEF d3
    <3> QED BY <3>1, <3>4
  <2> QED BY <2>1, <2>2
<1>6. PICK n \in Request : n = [q EXCEPT !.list = q.list \ {l}]
  <2>1. q.list \ {l} \in SUBSET [car : IDs, doc : Car]
    BY RequestShape
  <2> QED BY <2>1 DEF Request
<1>7. req' = C!After(r, n) /\ n.st = "cars" /\ n.user = q.user /\ n.doc = q.doc /\ n.former = q.former
      /\ n.list = q.list \ {l}
  BY <1>2, <1>3, <1>6 DEF Request
<1>8. docs'[l.car] = doc /\ \A c \in IDs : c # l.car => docs'[c] = docs[c]
  BY <1>2, <1>4, <1>5 DEF CarsTypeOK
<1>9. CarsTypeOK'
  <2>1. docs' \in [IDs -> Car]
    BY <1>2, <1>4, <1>5 DEF CarsTypeOK
  <2>2. \A p \in Requests : req'[p].st \in {"default", "save", "delete", "put"} => req'[p].car \in IDs
    BY <1>2, <1>7, AfterStep DEF CarsTypeOK
  <2> QED BY <1>2, <1>7, <2>1, <2>2, AfterStep DEF CarsTypeOK
<1>10. ASSUME ~crossed' PROVE OneDefault' /\ HaveOwners' /\ RequestsAgree'
  <2>1. OneDefault /\ HaveOwners /\ RequestsAgree /\ Agrees(q)
    BY <1>1, <1>2, <1>10, UncrossedWrite
  <2>2. \A c \in IDs : \A u : u # C!NoUser /\ docs'[c].stored /\ docs'[c].user = u => c # l.car /\ docs'[c] = docs[c]
    BY <1>5, <1>8
  <2>3. Spares(r)
    BY <1>2, <2>2, NoUserAssumption DEF Spares
  <2>4. OneDefault'
    BY <2>1, <2>2, NoUserAssumption DEF OneDefault, IsDefault
  <2>5. HaveOwners'
    BY <1>2, <1>5, <1>8, <2>1 DEF HaveOwners
  <2>6. Agrees(n)'
    <3>1. C!About(n) \subseteq users'
      BY <1>2, <1>7, <2>1 DEF Agrees, C!About
    <3>2. q.user # C!NoUser /\ \A c \in C!CarsOf(q.user) : \E m \in q.list : m.car = c
      BY <1>2, <2>1 DEF Agrees
    <3>3. \A c \in C!CarsOf(q.user)' : c \in C!CarsOf(q.user) /\ c # l.car
      BY <2>2, <3>2 DEF C!CarsOf
    <3>4. \A c \in C!CarsOf(q.user)' : \E m \in q.list \ {l} : m.car = c
      BY <3>2, <3>3
    <3> QED BY <1>7, <3>1, <3>2, <3>4 DEF Agrees, C!CarsOf
  <2> QED BY <1>2, <1>7, <2>1, <2>3, <2>4, <2>5, <2>6, WritePreserves
<1> QED BY <1>9, <1>10 DEF CarsInv

LEMMA DeleteUserStep ==
  ASSUME CarsInv, NEW r \in Requests, C!DeleteUser(r)
  PROVE  CarsInv'
<1>1. PICK q \in Request : q = req[r]
  BY DEF CarsInv, CarsTypeOK
<1>2. C!Writes(r) /\ CarsTypeOK /\ q.st = "cars" /\ q.list = {} /\ docs' = docs
      /\ users' = users \ {q.user} /\ req' = C!After(r, C!Idle)
  BY <1>1 DEF C!DeleteUser, CarsInv
<1>3. C!Idle \in Request /\ C!Idle.st = "idle"
  BY DEF C!Idle, C!Gone, Request, Car
<1>4. CarsTypeOK'
  <2>1. \A p \in Requests : req'[p].st \in {"default", "save", "delete", "put"} => req'[p].car \in IDs
    BY <1>2, <1>3, AfterStep DEF CarsTypeOK
  <2> QED BY <1>2, <1>3, <2>1, AfterStep DEF CarsTypeOK
<1>5. ASSUME ~crossed' PROVE OneDefault' /\ HaveOwners' /\ RequestsAgree'
  <2>1. OneDefault /\ HaveOwners /\ RequestsAgree /\ Agrees(q)
    BY <1>1, <1>2, <1>5, UncrossedWrite
  <2>2. q.user # C!NoUser /\ C!CarsOf(q.user) = {}
    BY <1>2, <2>1 DEF Agrees
  <2>3. Spares(r)
    BY <1>1, <1>2, <2>2 DEF Spares, C!About
  <2>4. OneDefault'
    BY <1>2, <2>1 DEF OneDefault, IsDefault
  <2>5. HaveOwners'
    BY <1>2, <2>1, <2>2 DEF HaveOwners, C!CarsOf
  <2> QED BY <1>2, <1>3, <2>1, <2>3, <2>4, <2>5, WritePreserves
<1> QED BY <1>4, <1>5 DEF CarsInv

LEMMA CrashStep ==
  ASSUME CarsInv, C!Crash
  PROVE  CarsInv'
<1>1. C!Idle \in Request /\ C!Idle.st = "idle"
  BY DEF C!Idle, C!Gone, Request, Car
<1>2. /\ req' = [r \in Requests |-> C!Idle] /\ docs' = docs /\ users' = users /\ crossed' = crossed
  BY DEF C!Crash
<1>3. CarsTypeOK'
  BY <1>1, <1>2 DEF CarsInv, CarsTypeOK
<1>4. ~crossed' => OneDefault' /\ HaveOwners' /\ RequestsAgree'
  BY <1>1, <1>2 DEF CarsInv, OneDefault, IsDefault, HaveOwners, RequestsAgree
<1> QED BY <1>3, <1>4 DEF CarsInv

-----------------------------------------------------------------------------
(* Cars: the theorem. *)

LEMMA CarsInvariant == MCSpec => [](focus = "cars" => CarsInv)
<1>1. MCInit => (focus = "cars" => CarsInv)
  <2> SUFFICES ASSUME C!Init PROVE CarsInv
    BY DEF MCInit
  <2>1. C!Idle \in Request /\ C!Idle.st = "idle" /\ C!Gone \in Car /\ ~C!Gone.stored
    BY DEF C!Idle, C!Gone, Request, Car
  <2> QED BY <2>1 DEF C!Init, CarsInv, CarsTypeOK, OneDefault, IsDefault, HaveOwners, RequestsAgree
<1>2. (focus = "cars" => CarsInv) /\ [MCNext]_<<focus, recordVars, importVars, nVars>>
      => (focus = "cars" => CarsInv)'
  <2> SUFFICES ASSUME focus' = "cars", focus = "cars" => CarsInv,
                      [MCNext]_<<focus, recordVars, importVars, nVars>>
               PROVE  CarsInv'
    OBVIOUS
  <2>1. CarsInv /\ (C!Next \/ (docs' = docs /\ users' = users /\ req' = req /\ crossed' = crossed))
    BY DEF MCNext, recordVars
  <2>2. CASE C!Next
    BY <2>1, <2>2, CreateCarStep, UpdateCarStep, DeleteCarStep, BeginDeleteUserStep, ChooseDefaultStep, SaveStep,
       DeleteStep, SetDefaultStep, CheckAndDeleteCarStep, DeleteUserStep, CrashStep DEF C!Next
  <2>3. CASE docs' = docs /\ users' = users /\ req' = req /\ crossed' = crossed
    <3>1. CarsTypeOK'
      BY <2>1, <2>3 DEF CarsInv, CarsTypeOK
    <3>2. OneDefault /\ HaveOwners => OneDefault' /\ HaveOwners'
      BY <2>3 DEF OneDefault, IsDefault, HaveOwners
    <3>3. \A p \in Requests : Agrees(req[p]) => Agrees(req[p])'
      BY <2>3 DEF Agrees, Only, IsDefault, C!CarsOf, C!About
    <3>4. RequestsAgree => RequestsAgree'
      BY <2>3, <3>3 DEF RequestsAgree
    <3> QED BY <2>1, <2>3, <3>1, <3>2, <3>4 DEF CarsInv
  <2> QED BY <2>1, <2>2, <2>3
<1> QED BY <1>1, <1>2, PTL DEF MCSpec

\* Unless a request saved what it had read before another one wrote about the
\* same car or user, a user has at most one default car and every car belongs
\* to a stored user, wherever the requests stand and whenever the server
\* stops (CarService, CarStorage, UserService.checkAndDeleteCar): for any
\* number of users, cars and requests.
THEOREM CarsStayWithTheirUsers == MCSpec => []CarsAgree
<1>1. (focus = "cars" => CarsInv) => CarsAgree
  <2> SUFFICES ASSUME CarsInv PROVE C!CarsAgree
    BY DEF CarsAgree
  <2> QED BY DEF CarsInv, OneDefault, IsDefault, HaveOwners, C!CarsAgree, C!CarsOf
<1> QED BY <1>1, CarsInvariant, PTL

-----------------------------------------------------------------------------
(* Tags: what the requests hold, and what the partner is told. *)

TagDoc == [user : UserIDs \cup {T!NoUser}, active : BOOLEAN, default : BOOLEAN, stored : BOOLEAN]
TagRequest == [st : {"idle", "default", "save", "delete", "clear", "first", "put", "tags", "user"},
               op : {"none", "create", "assign", "update", "visual", "delete", "unassign", "import", "deleteUser"},
               tag : IDs \cup {0}, user : UserIDs \cup {T!NoUser}, default : BOOLEAN, doc : TagDoc,
               owned : BOOLEAN, former : UserIDs \cup {T!NoUser}, clean : BOOLEAN]

TagsTypeOK ==
  /\ docs \in [IDs -> TagDoc]
  /\ users \subseteq UserIDs
  /\ req \in [Requests -> TagRequest]
  /\ \A r \in Requests : req[r].st \in {"default", "save", "delete", "put"} => req[r].tag \in IDs

\* The tag is the only default tag of the user, if it is one of a user.
OnlyTag(u, tag) == u # T!NoUser => \A t \in IDs : IsDefault(t, u) => t = tag

\* What a request that nobody crossed still finds true of what it read.
TagAgrees(q) ==
  /\ T!About(q) \subseteq users
  /\ q.st \in {"default", "save"} => q.doc.user = q.user
  /\ q.st = "default" /\ q.op = "visual" /\ q.doc.default => OnlyTag(q.user, q.tag)
  /\ q.st = "save" /\ q.default => OnlyTag(q.user, q.tag)
  /\ q.st \in {"first", "put"} /\ q.former # T!NoUser => \A t \in IDs : ~IsDefault(t, q.former)
  /\ q.st = "put" => q.doc.user = q.former /\ q.doc.active
  /\ q.st \in {"tags", "user"} => q.user # T!NoUser
  /\ q.st = "user" => T!TagsOf(q.user) = {}

TagRequestsAgree == \A r \in Requests : req[r].st # "idle" /\ req[r].clean => TagAgrees(req[r])

TagsInv == TagsTypeOK /\ (~crossed => OneDefault /\ HaveOwners /\ TagRequestsAgree)

\* The tags the partner will accept when it has got every message.
Accepted ==
  {t \in IDs : \/ [tag |-> t, valid |-> TRUE] \in pushed
               \/ t \in partner /\ [tag |-> t, valid |-> FALSE] \notin pushed}

\* The tags that a request will delete or make inactive without a message.
Silent(q) ==
  q.clean /\ (q.st = "delete" \/ (q.op \in {"unassign", "import"} /\ q.st \in {"default", "save"}))

Silenced == {t \in IDs : \E r \in Requests : req[r].tag = t /\ Silent(req[r])}

OneMessage ==
  /\ pushed \subseteq [tag : IDs, valid : BOOLEAN]
  /\ partner \subseteq IDs
  /\ \A t \in IDs \ excused : [tag |-> t, valid |-> TRUE] \notin pushed \/ [tag |-> t, valid |-> FALSE] \notin pushed

TokensInv ==
  /\ OneMessage
  /\ ~crossed => \A t \in Accepted \ excused : docs[t].stored /\ docs[t].active /\ t \notin Silenced

-----------------------------------------------------------------------------
(* Tags: what a step leaves of the other requests and of the messages. *)

TagSpares(r) ==
  /\ \A t \in IDs, u \in UserIDs :
       u \notin T!About(req[r]) /\ docs'[t].stored /\ docs'[t].user = u =>
         docs[t].stored /\ docs[t].user = u /\ (docs'[t].default => docs[t].default)
  /\ \A u \in users : u \notin T!About(req[r]) => u \in users'

LEMMA TagRequestShape ==
  ASSUME NEW q \in TagRequest
  PROVE  /\ q.st \in {"idle", "default", "save", "delete", "clear", "first", "put", "tags", "user"}
         /\ q.tag \in IDs \cup {0} /\ q.default \in BOOLEAN /\ q.clean \in BOOLEAN /\ q.doc \in TagDoc
         /\ q.user \in UserIDs \cup {T!NoUser} /\ q.former \in UserIDs \cup {T!NoUser}
         /\ q.doc.user \in UserIDs \cup {T!NoUser} /\ q.doc.default \in BOOLEAN /\ q.doc.active \in BOOLEAN
         /\ T!About(q) \subseteq UserIDs /\ T!NoUser \notin T!About(q)
  BY DEF TagRequest, TagDoc, T!About

LEMMA IdleRequest ==
  /\ T!Idle \in TagRequest /\ T!Idle.st = "idle" /\ ~Silent(T!Idle)
  /\ T!Gone \in TagDoc /\ ~T!Gone.stored
  BY DEF T!Idle, T!Gone, TagRequest, TagDoc, Silent

LEMMA OtherTagsStayTrue ==
  ASSUME TagsTypeOK, NEW r \in Requests, NEW p \in Requests, TagSpares(r), TagAgrees(req[p]),
         T!About(req[p]) \cap T!About(req[r]) = {}, req'[p] = req[p]
  PROVE  TagAgrees(req[p])'
<1>1. PICK q \in TagRequest : q = req[p]
  BY DEF TagsTypeOK
<1>2. PICK a : a = T!About(req[r])
  OBVIOUS
<1>3. /\ \A t \in IDs, u \in UserIDs :
           u \notin a /\ docs'[t].stored /\ docs'[t].user = u =>
             docs[t].stored /\ docs[t].user = u /\ (docs'[t].default => docs[t].default)
      /\ \A u \in users : u \notin a => u \in users'
  BY <1>2 DEF TagSpares
<1>4. TagAgrees(q) /\ T!About(q) \cap a = {} /\ T!About(q) \subseteq UserIDs
  BY <1>1, <1>2, TagRequestShape
<1>5. \A u \in T!About(q), t \in IDs : (IsDefault(t, u)' => IsDefault(t, u)) /\ (t \in T!TagsOf(u)' => t \in T!TagsOf(u))
  <2> SUFFICES ASSUME NEW u \in T!About(q), NEW t \in IDs
               PROVE  (IsDefault(t, u)' => IsDefault(t, u)) /\ (t \in T!TagsOf(u)' => t \in T!TagsOf(u))
    OBVIOUS
  <2>1. u \in UserIDs /\ u \notin a
    BY <1>4
  <2> QED BY <1>3, <2>1 DEF IsDefault, T!TagsOf
<1>6. /\ q.former # T!NoUser => q.former \in T!About(q)
      /\ q.user # T!NoUser => q.user \in T!About(q)
  BY DEF T!About
<1>7. OnlyTag(q.user, q.tag) => OnlyTag(q.user, q.tag)'
  BY <1>5, <1>6 DEF OnlyTag
<1>8. T!About(q) \subseteq users'
  BY <1>3, <1>4 DEF TagAgrees
<1>9. TagAgrees(q)'
  <2>1. q.st \in {"default", "save"} => q.doc.user = q.user
    BY <1>4 DEF TagAgrees
  <2>2. q.st = "default" /\ q.op = "visual" /\ q.doc.default => OnlyTag(q.user, q.tag)'
    BY <1>4, <1>7 DEF TagAgrees
  <2>3. q.st = "save" /\ q.default => OnlyTag(q.user, q.tag)'
    BY <1>4, <1>7 DEF TagAgrees
  <2>4. q.st \in {"first", "put"} /\ q.former # T!NoUser => \A t \in IDs : ~IsDefault(t, q.former)'
    BY <1>4, <1>5, <1>6 DEF TagAgrees
  <2>5. q.st = "put" => q.doc.user = q.former /\ q.doc.active
    BY <1>4 DEF TagAgrees
  <2>6. q.st \in {"tags", "user"} => q.user # T!NoUser
    BY <1>4 DEF TagAgrees
  <2>7. q.st = "user" => T!TagsOf(q.user)' = {}
    <3> SUFFICES ASSUME q.st = "user" PROVE T!TagsOf(q.user)' = {}
      OBVIOUS
    <3>1. q.user \in T!About(q) /\ T!TagsOf(q.user) = {}
      BY <1>4, <1>6 DEF TagAgrees
    <3>2. \A t \in IDs : t \notin T!TagsOf(q.user)'
      BY <1>5, <3>1
    <3> QED BY <3>2 DEF T!TagsOf
  <2> QED BY <1>8, <2>1, <2>2, <2>3, <2>4, <2>5, <2>6, <2>7 DEF TagAgrees
<1> QED BY <1>1, <1>9

LEMMA TagAfterStep ==
  ASSUME TagsTypeOK, NEW r \in Requests, NEW q \in TagRequest, req' = T!After(r, q)
  PROVE  /\ req' \in [Requests -> TagRequest] /\ req'[r] = q
         /\ \A p \in Requests \ {r} :
              /\ req'[p].st = req[p].st /\ req'[p].tag = req[p].tag /\ req'[p].op = req[p].op
              /\ req'[p].st # "idle" /\ req'[p].clean =>
                   /\ req'[p] = req[p] /\ T!About(req[p]) \cap T!About(req[r]) = {}
                   /\ req[p].tag # req[r].tag
<1>1. req' = [p \in Requests |->
        IF p = r THEN q
        ELSE IF req[p].st # "idle" /\ (req[p].tag = req[r].tag \/ T!About(req[p]) \cap T!About(req[r]) # {})
             THEN [req[p] EXCEPT !.clean = FALSE] ELSE req[p]]
  BY DEF T!After
<1>2. \A p \in Requests : /\ req[p] \in TagRequest /\ [req[p] EXCEPT !.clean = FALSE] \in TagRequest
  BY DEF TagsTypeOK, TagRequest
<1>3. \A p \in Requests : /\ ~[req[p] EXCEPT !.clean = FALSE].clean
                          /\ [req[p] EXCEPT !.clean = FALSE].st = req[p].st
                          /\ [req[p] EXCEPT !.clean = FALSE].tag = req[p].tag
                          /\ [req[p] EXCEPT !.clean = FALSE].op = req[p].op
  BY DEF TagsTypeOK, TagRequest
<1>4. req' \in [Requests -> TagRequest] /\ req'[r] = q
  BY <1>1, <1>2
<1>5. ASSUME NEW p \in Requests \ {r}
      PROVE  /\ req'[p].st = req[p].st /\ req'[p].tag = req[p].tag /\ req'[p].op = req[p].op
             /\ req'[p].st # "idle" /\ req'[p].clean =>
                  /\ req'[p] = req[p] /\ T!About(req[p]) \cap T!About(req[r]) = {}
                  /\ req[p].tag # req[r].tag
  <2>1. CASE req[p].st # "idle" /\ (req[p].tag = req[r].tag \/ T!About(req[p]) \cap T!About(req[r]) # {})
    <3>1. req'[p] = [req[p] EXCEPT !.clean = FALSE]
      BY <1>1, <2>1
    <3> QED BY <1>3, <3>1
  <2>2. CASE ~(req[p].st # "idle" /\ (req[p].tag = req[r].tag \/ T!About(req[p]) \cap T!About(req[r]) # {}))
    <3>1. req'[p] = req[p]
      BY <1>1, <2>2
    <3> QED BY <2>2, <3>1
  <2> QED BY <2>1, <2>2
<1> QED BY <1>4, <1>5

LEMMA TagWritePreserves ==
  ASSUME TagsTypeOK, TagRequestsAgree, NEW r \in Requests, NEW q \in TagRequest, req' = T!After(r, q), TagSpares(r),
         q.st # "idle" => TagAgrees(q)'
  PROVE  TagRequestsAgree'
<1>1. ASSUME NEW p \in Requests, req'[p].st # "idle", req'[p].clean PROVE TagAgrees(req[p])'
  <2>1. CASE p = r
    <3>1. req'[p] = q
      BY <2>1, TagAfterStep
    <3> QED BY <1>1, <3>1
  <2>2. CASE p # r
    <3>1. req'[p] = req[p] /\ T!About(req[p]) \cap T!About(req[r]) = {}
      BY <1>1, <2>2, TagAfterStep
    <3>2. TagAgrees(req[p])
      BY <1>1, <3>1 DEF TagRequestsAgree
    <3> QED BY <3>1, <3>2, OtherTagsStayTrue
  <2> QED BY <2>1, <2>2
<1> QED BY <1>1 DEF TagRequestsAgree

\* A write leaves no silent request about its tag but the writer.
LEMMA SilencedAfter ==
  ASSUME TagsTypeOK, NEW r \in Requests, NEW q \in TagRequest, req' = T!After(r, q)
  PROVE  \A t \in Silenced' : (t \in Silenced /\ t # req[r].tag) \/ (t = q.tag /\ Silent(q))
<1> SUFFICES ASSUME NEW t \in Silenced' PROVE (t \in Silenced /\ t # req[r].tag) \/ (t = q.tag /\ Silent(q))
  OBVIOUS
<1>1. t \in IDs /\ \E p \in Requests : req'[p].tag = t /\ Silent(req'[p])
  BY DEF Silenced, Silent
<1>2. PICK p \in Requests : req'[p].tag = t /\ Silent(req'[p])
  BY <1>1
<1>3. CASE p = r
  BY <1>2, <1>3, TagAfterStep
<1>4. CASE p # r
  <2>1. req'[p].clean /\ req'[p].st # "idle"
    BY <1>2 DEF Silent
  <2>2. req'[p] = req[p] /\ req[p].tag # req[r].tag
    BY <1>4, <2>1, TagAfterStep
  <2> QED BY <1>1, <1>2, <2>2 DEF Silenced
<1> QED BY <1>3, <1>4

LEMMA MessagesQuiet ==
  ASSUME OneMessage, T!Quiet, partner' = partner
  PROVE  OneMessage' /\ Accepted' = Accepted /\ excused' = excused
  BY DEF OneMessage, T!Quiet, Accepted

LEMMA MessagesPush ==
  ASSUME OneMessage, NEW t \in IDs, NEW valid \in BOOLEAN, T!Push(t, valid), partner' = partner
  PROVE  /\ OneMessage'
         /\ \A x \in Accepted' \ excused' : x # t => x \in Accepted \ excused
         /\ t \in Accepted' \ excused' => valid
<1>1. pushed' = pushed \cup {[tag |-> t, valid |-> valid]}
  BY DEF T!Push
<1>2. excused \subseteq excused' /\ (t \notin excused' => ~\E m \in pushed : m.tag = t)
  BY DEF T!Push
<1>3. t \notin excused' => \A v \in BOOLEAN : [tag |-> t, valid |-> v] \in pushed' => v = valid
  BY <1>1, <1>2
<1>4. \A x \in IDs \ {t}, v \in BOOLEAN : [tag |-> x, valid |-> v] \in pushed' => [tag |-> x, valid |-> v] \in pushed
  BY <1>1
<1>5. pushed \subseteq pushed' /\ [tag |-> t, valid |-> valid] \in pushed'
  BY <1>1
<1>6. OneMessage'
  <2>1. pushed' \subseteq [tag : IDs, valid : BOOLEAN]
    BY <1>1 DEF OneMessage
  <2>2. ASSUME NEW x \in IDs \ excused'
        PROVE  [tag |-> x, valid |-> TRUE] \notin pushed' \/ [tag |-> x, valid |-> FALSE] \notin pushed'
    <3>1. CASE x = t
      BY <1>3, <2>2, <3>1
    <3>2. CASE x # t
      BY <1>2, <1>4, <2>2, <3>2 DEF OneMessage
    <3> QED BY <3>1, <3>2
  <2> QED BY <2>1, <2>2 DEF OneMessage
<1>7. ASSUME NEW x \in Accepted' \ excused', x # t PROVE x \in Accepted \ excused
  <2>1. /\ x \in IDs /\ x \notin excused
        /\ \/ [tag |-> x, valid |-> TRUE] \in pushed'
           \/ x \in partner /\ [tag |-> x, valid |-> FALSE] \notin pushed'
    BY <1>2, <1>7 DEF Accepted
  <2>2. [tag |-> x, valid |-> TRUE] \in pushed' => [tag |-> x, valid |-> TRUE] \in pushed
    BY <1>4, <1>7, <2>1
  <2>3. [tag |-> x, valid |-> FALSE] \notin pushed' => [tag |-> x, valid |-> FALSE] \notin pushed
    BY <1>5
  <2> QED BY <2>1, <2>2, <2>3 DEF Accepted
<1>8. ASSUME t \in Accepted' \ excused', ~valid PROVE FALSE
  <2>1. /\ t \notin excused'
        /\ \/ [tag |-> t, valid |-> TRUE] \in pushed'
           \/ [tag |-> t, valid |-> FALSE] \notin pushed'
    BY <1>8 DEF Accepted
  <2>2. valid = FALSE
    BY <1>8
  <2> QED BY <1>3, <1>5, <2>1, <2>2
<1> QED BY <1>6, <1>7, <1>8

-----------------------------------------------------------------------------
(* Tags: the requests start. *)

TagsAgreeInv == TagsInv /\ TokensInv

\* A request that has just read: it says nothing false, and is no silent one
\* for a tag that the partner accepts.
LEMMA TagBeginStep ==
  ASSUME TagsAgreeInv, NEW r \in Requests, NEW q \in TagRequest, T!Begin(r, q),
         q.st \in {"default", "save", "delete", "put"} => q.tag \in IDs,
         q.clean /\ OneDefault /\ HaveOwners => TagAgrees(q),
         OneMessage', \A t \in Accepted' \ excused' : t \in Accepted \ excused /\ ~(t = q.tag /\ Silent(q))
  PROVE  TagsAgreeInv'
<1>1. /\ req' = [req EXCEPT ![r] = q] /\ docs' = docs /\ users' = users /\ ~crossed /\ crossed' = crossed
      /\ TagsTypeOK
  BY DEF T!Begin, TagsAgreeInv, TagsInv
<1>2. req' \in [Requests -> TagRequest] /\ req'[r] = q /\ \A p \in Requests : p # r => req'[p] = req[p]
  BY <1>1 DEF TagsTypeOK
<1>3. TagsTypeOK'
  BY <1>1, <1>2 DEF TagsTypeOK
<1>4. OneDefault /\ HaveOwners /\ TagRequestsAgree
  BY <1>1 DEF TagsAgreeInv, TagsInv
<1>5. OneDefault' /\ HaveOwners'
  BY <1>1, <1>4 DEF OneDefault, IsDefault, HaveOwners
<1>6. \A p \in Requests : TagAgrees(req'[p]) => TagAgrees(req[p])'
  BY <1>1 DEF TagAgrees, OnlyTag, IsDefault, T!TagsOf, T!About
<1>7. \A p \in Requests : req'[p].st # "idle" /\ req'[p].clean => TagAgrees(req'[p])
  BY <1>2, <1>4 DEF TagRequestsAgree
<1>8. TagRequestsAgree'
  BY <1>6, <1>7 DEF TagRequestsAgree
<1>9. ASSUME NEW t \in Accepted' \ excused' PROVE docs'[t].stored /\ docs'[t].active /\ t \notin Silenced'
  <2>1. t \in Accepted \ excused /\ ~(t = q.tag /\ Silent(q))
    OBVIOUS
  <2>2. docs[t].stored /\ docs[t].active /\ t \notin Silenced /\ t \in IDs
    BY <1>1, <2>1 DEF TagsAgreeInv, TokensInv, Accepted
  <2>3. \A p \in Requests : ~(req'[p].tag = t /\ Silent(req'[p]))
    BY <1>2, <2>1, <2>2 DEF Silenced
  <2> QED BY <1>1, <2>2, <2>3 DEF Silenced, Silent
<1> QED BY <1>3, <1>5, <1>8, <1>9 DEF TagsAgreeInv, TagsInv, TokensInv

LEMMA RequestFields ==
  ASSUME NEW op \in {"create", "assign", "update", "visual", "delete", "unassign", "import"}, NEW t \in IDs,
         NEW u \in UserIDs \cup {T!NoUser}, NEW default \in BOOLEAN, NEW doc \in TagDoc
  PROVE  /\ T!Request(op, t, u, default, doc) \in TagRequest
         /\ T!Request(op, t, u, default, doc).st = IF u = T!NoUser THEN "save" ELSE "default"
         /\ T!Request(op, t, u, default, doc).op = op
         /\ T!Request(op, t, u, default, doc).tag = t
         /\ T!Request(op, t, u, default, doc).user = u
         /\ T!Request(op, t, u, default, doc).default = default
         /\ T!Request(op, t, u, default, doc).doc = doc
         /\ T!Request(op, t, u, default, doc).former = T!NoUser
         /\ T!Request(op, t, u, default, doc).clean
<1>1. PICK owned \in BOOLEAN : owned <=> docs[t].user \in users
  OBVIOUS
<1>2. PICK st \in {"save", "default"} : st = IF u = T!NoUser THEN "save" ELSE "default"
  OBVIOUS
<1>3. T!Request(op, t, u, default, doc) =
        [T!Idle EXCEPT !.op = op, !.st = st, !.tag = t, !.user = u, !.default = default, !.doc = doc, !.owned = owned]
  BY <1>1, <1>2 DEF T!Request
<1>4. T!Request(op, t, u, default, doc) =
        [st |-> st, op |-> op, tag |-> t, user |-> u, default |-> default,
         doc |-> doc, owned |-> owned, former |-> T!NoUser, clean |-> TRUE]
  BY <1>3 DEF T!Idle
<1> QED BY <1>2, <1>4 DEF TagRequest

\* A request that asks for no default tag of a user has nothing to find true
\* but its users.
LEMMA StartsAgree ==
  ASSUME NEW q \in TagRequest, q.st \in {"default", "save"}, q.doc.user = q.user,
         q.user \in users \cup {T!NoUser}, q.former \in users \cup {T!NoUser},
         q.st = "default" => q.op # "visual", q.st = "save" => q.user = T!NoUser
  PROVE  TagAgrees(q)
BY DEF TagAgrees, T!About, OnlyTag

LEMMA QuietBeginStep ==
  ASSUME TagsAgreeInv, NEW r \in Requests, NEW q \in TagRequest, T!Begin(r, q), T!Quiet,
         q.st \in {"default", "save", "delete", "put"} => q.tag \in IDs,
         q.clean /\ OneDefault /\ HaveOwners => TagAgrees(q),
         Silent(q) => q.tag \notin Accepted \ excused
  PROVE  TagsAgreeInv'
<1>1. partner' = partner /\ OneMessage
  BY DEF T!Begin, TagsAgreeInv, TokensInv
<1>2. OneMessage' /\ Accepted' = Accepted /\ excused' = excused
  BY <1>1, MessagesQuiet
<1> QED BY <1>2, TagBeginStep

\* What a request saves is a tag.
LEMMA ChangedDoc ==
  ASSUME NEW d \in TagDoc, NEW u \in UserIDs \cup {T!NoUser}, NEW active \in BOOLEAN
  PROVE  /\ [d EXCEPT !.user = u, !.active = active] \in TagDoc
         /\ [d EXCEPT !.user = u, !.active = active].user = u
<1> DEFINE d1 == [d EXCEPT !.user = u]
           d2 == [d1 EXCEPT !.active = active]
<1>1. d1 \in TagDoc /\ d1.user = u
  BY DEF TagDoc
<1>2. [d EXCEPT !.user = u, !.active = active] = d2
  OBVIOUS
<1> HIDE DEF d1
<1>3. d2 \in TagDoc /\ d2.user = u
  BY <1>1 DEF TagDoc
<1> HIDE DEF d2
<1> QED BY <1>2, <1>3, Zenon

LEMMA CreateTagStep ==
  ASSUME TagsAgreeInv, NEW r \in Requests, T!HandleCreateTag(r)
  PROVE  TagsAgreeInv'
<1>1. PICK t \in IDs, u \in users \cup {T!NoUser}, default \in BOOLEAN, active \in BOOLEAN :
        T!Begin(r, T!Request("create", t, u, default, [T!Gone EXCEPT !.user = u, !.active = active])) /\ T!Quiet
  BY DEF T!HandleCreateTag
<1>2. u \in UserIDs \cup {T!NoUser}
  BY DEF TagsAgreeInv, TagsInv, TagsTypeOK
<1>3. PICK doc \in TagDoc : doc = [T!Gone EXCEPT !.user = u, !.active = active] /\ doc.user = u
  <2>1. PICK d \in TagDoc : d = T!Gone
    BY IdleRequest
  <2>2. PICK owner \in UserIDs \cup {T!NoUser} : owner = u
    BY <1>2
  <2>3. /\ [d EXCEPT !.user = owner, !.active = active] \in TagDoc
        /\ [d EXCEPT !.user = owner, !.active = active].user = owner
    BY ChangedDoc, Zenon
  <2> QED BY <2>1, <2>2, <2>3
<1>4. PICK q : q = T!Request("create", t, u, default, doc)
  OBVIOUS
<1>5. /\ q \in TagRequest /\ q.st \in {"default", "save"} /\ (q.st = "save" => u = T!NoUser)
      /\ q.op = "create" /\ q.tag = t /\ q.user = u /\ q.doc = doc /\ q.former = T!NoUser
  BY <1>2, <1>4, RequestFields
<1>6. T!Begin(r, q)
  BY <1>1, <1>3, <1>4
<1>7. TagAgrees(q)
  BY <1>3, <1>5, StartsAgree
<1> QED BY <1>1, <1>5, <1>6, <1>7, QuietBeginStep DEF Silent

LEMMA AssignTagStep ==
  ASSUME TagsAgreeInv, NEW r \in Requests, T!HandleAssignTag(r)
  PROVE  TagsAgreeInv'
<1>1. PICK t \in IDs, u \in users, default \in BOOLEAN :
        T!Begin(r, T!Request("assign", t, u, default, [docs[t] EXCEPT !.user = u])) /\ T!Quiet
  BY DEF T!HandleAssignTag
<1>2. u \in UserIDs /\ docs[t] \in TagDoc /\ u # T!NoUser
  BY NoUserAssumption DEF TagsAgreeInv, TagsInv, TagsTypeOK
<1>3. PICK doc \in TagDoc : doc = [docs[t] EXCEPT !.user = u] /\ doc.user = u
  <2>1. PICK d \in TagDoc, owner \in UserIDs \cup {T!NoUser} : d = docs[t] /\ owner = u
    BY <1>2
  <2>2. [d EXCEPT !.user = owner] \in TagDoc /\ [d EXCEPT !.user = owner].user = owner
    BY DEF TagDoc
  <2> QED BY <2>1, <2>2
<1>4. PICK q : q = T!Request("assign", t, u, default, doc)
  OBVIOUS
<1>5. /\ q \in TagRequest /\ q.st = "default"
      /\ q.op = "assign" /\ q.tag = t /\ q.user = u /\ q.doc = doc /\ q.former = T!NoUser
  BY <1>2, <1>4, RequestFields
<1>6. T!Begin(r, q)
  BY <1>1, <1>3, <1>4
<1>7. TagAgrees(q)
  BY <1>3, <1>5, StartsAgree
<1> QED BY <1>1, <1>5, <1>6, <1>7, QuietBeginStep DEF Silent

LEMMA UpdateTagStep ==
  ASSUME TagsAgreeInv, NEW r \in Requests, T!HandleUpdateTag(r)
  PROVE  TagsAgreeInv'
<1>1. PICK t \in IDs, u \in users \cup {T!NoUser}, default \in BOOLEAN, active \in BOOLEAN :
        /\ docs[t].stored
        /\ T!Begin(r, [T!Request("update", t, u, default, [docs[t] EXCEPT !.user = u, !.active = active]) EXCEPT
                         !.former = IF docs[t].user # u /\ docs[t].default THEN docs[t].user ELSE T!NoUser])
        /\ T!Quiet
  BY DEF T!HandleUpdateTag
<1>2. u \in UserIDs \cup {T!NoUser} /\ docs[t] \in TagDoc
  BY DEF TagsAgreeInv, TagsInv, TagsTypeOK
<1>3. PICK doc \in TagDoc : doc = [docs[t] EXCEPT !.user = u, !.active = active] /\ doc.user = u
  <2>1. PICK d \in TagDoc : d = docs[t]
    BY <1>2
  <2>2. PICK owner \in UserIDs \cup {T!NoUser} : owner = u
    BY <1>2
  <2>3. /\ [d EXCEPT !.user = owner, !.active = active] \in TagDoc
        /\ [d EXCEPT !.user = owner, !.active = active].user = owner
    BY ChangedDoc, Zenon
  <2> QED BY <2>1, <2>2, <2>3
<1>4. PICK former \in UserIDs \cup {T!NoUser} :
        /\ former = IF docs[t].user # u /\ docs[t].default THEN docs[t].user ELSE T!NoUser
        /\ former \in {docs[t].user, T!NoUser}
  BY <1>2 DEF TagDoc
<1>5. PICK base : base = T!Request("update", t, u, default, doc)
  OBVIOUS
<1>6. /\ base \in TagRequest /\ base.st \in {"default", "save"} /\ (base.st = "save" => u = T!NoUser)
      /\ base.op = "update" /\ base.tag = t /\ base.user = u /\ base.doc = doc
  BY <1>2, <1>5, RequestFields
<1>7. PICK q : q = [base EXCEPT !.former = former]
  OBVIOUS
<1>8. /\ q \in TagRequest /\ q.st = base.st /\ q.op = "update" /\ q.tag = t /\ q.user = u /\ q.doc = doc
      /\ q.former = former
  BY <1>6, <1>7 DEF TagRequest
<1>9. T!Begin(r, q)
  BY <1>1, <1>3, <1>4, <1>5, <1>7
<1>10. ASSUME HaveOwners PROVE TagAgrees(q)
  <2>1. former \in users \cup {T!NoUser}
    BY <1>1, <1>4, <1>10 DEF HaveOwners, T!NoUser, C!NoUser
  <2> QED BY <1>3, <1>6, <1>8, <2>1, StartsAgree
<1>11. ~Silent(q)
  BY <1>6, <1>8 DEF Silent
<1> QED BY <1>1, <1>8, <1>9, <1>10, <1>11, QuietBeginStep

LEMMA VisualTagStep ==
  ASSUME TagsAgreeInv, NEW r \in Requests, T!HandleUpdateTagByVisualID(r)
  PROVE  TagsAgreeInv'
<1>1. PICK t \in IDs, u \in users \cup {T!NoUser}, default \in BOOLEAN :
        /\ docs[t].stored
        /\ T!Begin(r, [T!Request("visual", t, u, default, docs[t]) EXCEPT
                         !.st = "default", !.clean = (u = docs[t].user)])
        /\ T!Quiet
  BY DEF T!HandleUpdateTagByVisualID
<1>2. u \in UserIDs \cup {T!NoUser}
  BY DEF TagsAgreeInv, TagsInv, TagsTypeOK
<1>3. PICK doc \in TagDoc : doc = docs[t]
  BY DEF TagsAgreeInv, TagsInv, TagsTypeOK
<1>4. PICK base : base = T!Request("visual", t, u, default, doc)
  OBVIOUS
<1>5. /\ base \in TagRequest
      /\ base.op = "visual" /\ base.tag = t /\ base.user = u /\ base.doc = doc /\ base.former = T!NoUser
  BY <1>2, <1>4, RequestFields
<1>6. PICK clean \in BOOLEAN : clean = (u = doc.user)
  OBVIOUS
<1>7. PICK q : q = [base EXCEPT !.st = "default", !.clean = clean]
  OBVIOUS
<1>8. /\ q \in TagRequest /\ q.st = "default" /\ q.op = "visual" /\ q.tag = t /\ q.user = u /\ q.doc = doc
      /\ q.former = T!NoUser /\ (q.clean => u = doc.user)
  BY <1>5, <1>6, <1>7 DEF TagRequest
<1>9. T!Begin(r, q)
  BY <1>1, <1>3, <1>4, <1>6, <1>7
<1>10. ASSUME q.clean, OneDefault, HaveOwners PROVE TagAgrees(q)
  <2>1. doc.user = u
    BY <1>8, <1>10
  <2>2. doc.default => OnlyTag(u, t)
    BY <1>1, <1>2, <1>3, <1>10, <2>1 DEF OnlyTag, OneDefault, IsDefault
  <2>3. T!About(q) \subseteq users
    BY <1>8, <2>1 DEF T!About
  <2> QED BY <1>8, <2>1, <2>2, <2>3 DEF TagAgrees
<1> QED BY <1>1, <1>8, <1>9, <1>10, QuietBeginStep DEF Silent

LEMMA ImportTagStep ==
  ASSUME TagsAgreeInv, NEW r \in Requests, T!ProcessImportedTag(r)
  PROVE  TagsAgreeInv'
<1>1. PICK t \in IDs, u \in users \cup {T!NoUser}, active \in BOOLEAN :
        /\ docs[t].stored => docs[t].user = T!NoUser /\ ~docs[t].active
        /\ T!Begin(r, T!Request("import", t, u, u # T!NoUser \/ docs[t].default,
                                [docs[t] EXCEPT !.user = u, !.active = active]))
        /\ T!Quiet
  BY DEF T!ProcessImportedTag
<1>2. u \in UserIDs \cup {T!NoUser} /\ docs[t] \in TagDoc
  BY DEF TagsAgreeInv, TagsInv, TagsTypeOK
<1>3. PICK doc \in TagDoc : doc = [docs[t] EXCEPT !.user = u, !.active = active] /\ doc.user = u
  <2>1. PICK d \in TagDoc : d = docs[t]
    BY <1>2
  <2>2. PICK owner \in UserIDs \cup {T!NoUser} : owner = u
    BY <1>2
  <2>3. /\ [d EXCEPT !.user = owner, !.active = active] \in TagDoc
        /\ [d EXCEPT !.user = owner, !.active = active].user = owner
    BY ChangedDoc, Zenon
  <2> QED BY <2>1, <2>2, <2>3
<1>4. PICK default \in BOOLEAN : default = (u # T!NoUser \/ docs[t].default)
  OBVIOUS
<1>5. PICK q : q = T!Request("import", t, u, default, doc)
  OBVIOUS
<1>6. /\ q \in TagRequest /\ q.st \in {"default", "save"} /\ (q.st = "save" => u = T!NoUser)
      /\ q.op = "import" /\ q.tag = t /\ q.user = u /\ q.doc = doc /\ q.former = T!NoUser
  BY <1>2, <1>5, RequestFields
<1>7. T!Begin(r, q)
  BY <1>1, <1>3, <1>4, <1>5
<1>8. TagAgrees(q)
  BY <1>3, <1>6, StartsAgree
<1>9. t \notin Accepted \ excused
  <2>1. ~crossed
    BY <1>7 DEF T!Begin
  <2> QED BY <1>1, <2>1 DEF TagsAgreeInv, TokensInv
<1> QED BY <1>1, <1>6, <1>7, <1>8, <1>9, QuietBeginStep

LEMMA BeginDeleteOwnerStep ==
  ASSUME TagsAgreeInv, NEW r \in Requests, T!HandleDeleteUser(r)
  PROVE  TagsAgreeInv'
<1>1. PICK u \in users : T!Begin(r, [T!Idle EXCEPT !.op = "deleteUser", !.st = "tags", !.user = u]) /\ T!Quiet
  BY DEF T!HandleDeleteUser
<1>2. u \in UserIDs /\ u # T!NoUser
  BY NoUserAssumption DEF TagsAgreeInv, TagsInv, TagsTypeOK
<1>3. PICK q : q = [T!Idle EXCEPT !.op = "deleteUser", !.st = "tags", !.user = u]
  OBVIOUS
<1>4. /\ q \in TagRequest /\ q.st = "tags" /\ q.op = "deleteUser" /\ q.user = u
      /\ q.doc.user = T!NoUser /\ q.former = T!NoUser
  BY <1>2, <1>3, IdleRequest DEF T!Idle, T!Gone, TagRequest, TagDoc
<1>5. TagAgrees(q)
  BY <1>2, <1>4 DEF TagAgrees, T!About
<1> QED BY <1>1, <1>3, <1>4, <1>5, QuietBeginStep DEF Silent

LEMMA DeleteTagsStep ==
  ASSUME TagsAgreeInv, NEW r \in Requests, T!HandleDeleteTags(r)
  PROVE  TagsAgreeInv'
<1>1. PICK t \in IDs :
        /\ docs[t].stored
        /\ T!Begin(r, [T!Request("delete", t, T!NoUser, FALSE, docs[t]) EXCEPT !.st = "delete"])
        /\ T!Push(t, FALSE)
  BY DEF T!HandleDeleteTags
<1>2. PICK doc \in TagDoc : doc = docs[t]
  BY DEF TagsAgreeInv, TagsInv, TagsTypeOK
<1>3. PICK base : base = T!Request("delete", t, T!NoUser, FALSE, doc)
  OBVIOUS
<1>4. /\ base \in TagRequest
      /\ base.op = "delete" /\ base.tag = t /\ base.user = T!NoUser /\ base.doc = doc /\ base.former = T!NoUser
  <2>1. PICK u \in UserIDs \cup {T!NoUser}, default \in BOOLEAN : u = T!NoUser /\ default = FALSE
    OBVIOUS
  <2>2. base = T!Request("delete", t, u, default, doc)
    BY <1>3, <2>1
  <2> QED BY <2>1, <2>2, RequestFields
<1>5. PICK q : q = [base EXCEPT !.st = "delete"]
  OBVIOUS
<1>6. /\ q \in TagRequest /\ q.st = "delete" /\ q.op = "delete" /\ q.tag = t /\ q.user = T!NoUser /\ q.doc = doc
      /\ q.former = T!NoUser
  BY <1>4, <1>5 DEF TagRequest
<1>7. T!Begin(r, q)
  BY <1>1, <1>2, <1>3, <1>5
<1>8. ASSUME HaveOwners PROVE TagAgrees(q)
  <2>1. doc.user \in users \cup {T!NoUser}
    BY <1>1, <1>2, <1>8 DEF HaveOwners, T!NoUser, C!NoUser
  <2> QED BY <1>6, <2>1 DEF TagAgrees, T!About
<1>9. OneMessage' /\ \A x \in Accepted' \ excused' : x \in Accepted \ excused /\ x # t
  <2>1. partner' = partner /\ OneMessage
    BY <1>7 DEF T!Begin, TagsAgreeInv, TokensInv
  <2> QED BY <1>1, <2>1, MessagesPush
<1> QED BY <1>6, <1>7, <1>8, <1>9, TagBeginStep

LEMMA UnassignTagsStep ==
  ASSUME TagsAgreeInv, NEW r \in Requests, T!HandleUnassignTags(r)
  PROVE  TagsAgreeInv'
<1>1. PICK t \in IDs :
        /\ docs[t].stored
        /\ T!Begin(r, [T!Request("unassign", t, T!NoUser, docs[t].default,
                                 [docs[t] EXCEPT !.user = T!NoUser, !.active = FALSE]) EXCEPT
                         !.former = IF docs[t].default THEN docs[t].user ELSE T!NoUser])
        /\ T!Push(t, FALSE)
  BY DEF T!HandleUnassignTags
<1>2. docs[t] \in TagDoc
  BY DEF TagsAgreeInv, TagsInv, TagsTypeOK
<1>3. PICK doc \in TagDoc : doc = [docs[t] EXCEPT !.user = T!NoUser, !.active = FALSE] /\ doc.user = T!NoUser
  BY <1>2, ChangedDoc
<1>4. PICK default \in BOOLEAN : default = docs[t].default
  BY <1>2 DEF TagDoc
<1>5. PICK former \in UserIDs \cup {T!NoUser} :
        /\ former = IF docs[t].default THEN docs[t].user ELSE T!NoUser
        /\ former \in {docs[t].user, T!NoUser}
  BY <1>2 DEF TagDoc
<1>6. PICK base : base = T!Request("unassign", t, T!NoUser, default, doc)
  OBVIOUS
<1>7. /\ base \in TagRequest /\ base.st = "save"
      /\ base.op = "unassign" /\ base.tag = t /\ base.user = T!NoUser /\ base.doc = doc
  BY <1>6, RequestFields
<1>8. PICK q : q = [base EXCEPT !.former = former]
  OBVIOUS
<1>9. /\ q \in TagRequest /\ q.st = "save" /\ q.op = "unassign" /\ q.tag = t /\ q.user = T!NoUser /\ q.doc = doc
      /\ q.former = former
  BY <1>7, <1>8 DEF TagRequest
<1>10. T!Begin(r, q)
  BY <1>1, <1>3, <1>4, <1>5, <1>6, <1>8
<1>11. ASSUME HaveOwners PROVE TagAgrees(q)
  <2>1. former \in users \cup {T!NoUser}
    BY <1>1, <1>5, <1>11 DEF HaveOwners, T!NoUser, C!NoUser
  <2> QED BY <1>3, <1>9, <2>1, StartsAgree
<1>12. OneMessage' /\ \A x \in Accepted' \ excused' : x \in Accepted \ excused /\ x # t
  <2>1. partner' = partner /\ OneMessage
    BY <1>10 DEF T!Begin, TagsAgreeInv, TokensInv
  <2> QED BY <1>1, <2>1, MessagesPush
<1> QED BY <1>9, <1>10, <1>11, <1>12, TagBeginStep

-----------------------------------------------------------------------------
(* Tags: the requests write. *)

\* A request that writes without having been crossed knows what it writes.
LEMMA TagUncrossed ==
  ASSUME TagsInv, NEW r \in Requests, req[r].st # "idle", T!Writes(r), ~crossed'
  PROVE  /\ OneDefault /\ HaveOwners /\ TagRequestsAgree /\ TagAgrees(req[r])
         /\ ~crossed /\ req[r].clean
<1>1. ~crossed /\ req[r].clean
  BY DEF T!Writes
<1>2. TagRequestsAgree
  BY <1>1 DEF TagsInv
<1> QED BY <1>1, <1>2 DEF TagsInv, TagRequestsAgree

LEMMA TagWriteStep ==
  ASSUME TagsInv, NEW r \in Requests, NEW n \in TagRequest, req' = T!After(r, n), T!Writes(r), req[r].st # "idle",
         docs' \in [IDs -> TagDoc], users' \subseteq users,
         n.st \in {"default", "save", "delete", "put"} => n.tag \in IDs,
         OneDefault /\ HaveOwners /\ TagAgrees(req[r]) =>
           OneDefault' /\ HaveOwners' /\ TagSpares(r) /\ (n.st # "idle" => TagAgrees(n)')
  PROVE  TagsInv'
<1>1. TagsTypeOK
  BY DEF TagsInv
<1>2. TagsTypeOK'
  <2>1. \A p \in Requests : req'[p].st \in {"default", "save", "delete", "put"} => req'[p].tag \in IDs
    BY <1>1, TagAfterStep DEF TagsTypeOK
  <2> QED BY <1>1, <2>1, TagAfterStep DEF TagsTypeOK
<1>3. ASSUME ~crossed' PROVE OneDefault' /\ HaveOwners' /\ TagRequestsAgree'
  <2>1. OneDefault /\ HaveOwners /\ TagRequestsAgree /\ TagAgrees(req[r])
    BY <1>3, TagUncrossed
  <2>2. OneDefault' /\ HaveOwners' /\ TagSpares(r) /\ (n.st # "idle" => TagAgrees(n)')
    BY <2>1
  <2> QED BY <1>1, <2>1, <2>2, TagWritePreserves
<1> QED BY <1>2, <1>3 DEF TagsInv

\* A write that the partner is not told about keeps what it accepts, unless
\* the request was a silent one about the tag.
LEMMA QuietWrite ==
  ASSUME TagsAgreeInv, NEW r \in Requests, NEW n \in TagRequest, req' = T!After(r, n), T!Writes(r),
         T!Quiet, partner' = partner,
         Silent(n) => Silent(req[r]) /\ n.tag = req[r].tag,
         \A t \in IDs : ~crossed' /\ docs[t].stored /\ docs[t].active =>
           (docs'[t].stored /\ docs'[t].active) \/ (t = req[r].tag /\ Silent(req[r]))
  PROVE  TokensInv'
<1>1. OneMessage' /\ Accepted' = Accepted /\ excused' = excused
  BY MessagesQuiet DEF TagsAgreeInv, TokensInv
<1>2. ASSUME ~crossed', NEW t \in Accepted' \ excused'
      PROVE  docs'[t].stored /\ docs'[t].active /\ t \notin Silenced'
  <2>1. docs[t].stored /\ docs[t].active /\ t \notin Silenced /\ t \in IDs
    BY <1>1, <1>2 DEF TagsAgreeInv, TokensInv, T!Writes, Accepted
  <2>2. ~(t = req[r].tag /\ Silent(req[r]))
    BY <2>1 DEF Silenced
  <2>3. t \notin Silenced'
    BY <2>1, <2>2, SilencedAfter DEF TagsAgreeInv, TagsInv
  <2> QED BY <1>2, <2>1, <2>2, <2>3
<1> QED BY <1>1, <1>2 DEF TokensInv

\* A request that only reads.
LEMMA TagReadStep ==
  ASSUME TagsAgreeInv, NEW r \in Requests, NEW n \in TagRequest, req' = [req EXCEPT ![r] = n],
         docs' = docs, users' = users, crossed' = crossed, T!Quiet, partner' = partner,
         n.st \in {"default", "save", "delete", "put"} => n.tag \in IDs,
         ~crossed /\ n.st # "idle" /\ n.clean => TagAgrees(n),
         Silent(n) => Silent(req[r]) /\ n.tag = req[r].tag
  PROVE  TagsAgreeInv'
<1>1. req' \in [Requests -> TagRequest] /\ req'[r] = n /\ \A p \in Requests : p # r => req'[p] = req[p]
  BY DEF TagsAgreeInv, TagsInv, TagsTypeOK
<1>2. TagsTypeOK'
  BY <1>1 DEF TagsAgreeInv, TagsInv, TagsTypeOK
<1>3. ASSUME ~crossed PROVE OneDefault' /\ HaveOwners' /\ TagRequestsAgree'
  <2>1. OneDefault /\ HaveOwners /\ TagRequestsAgree
    BY <1>3 DEF TagsAgreeInv, TagsInv
  <2>2. OneDefault' /\ HaveOwners'
    BY <2>1 DEF OneDefault, IsDefault, HaveOwners
  <2>3. \A p \in Requests : TagAgrees(req'[p]) => TagAgrees(req[p])'
    BY DEF TagAgrees, OnlyTag, IsDefault, T!TagsOf, T!About
  <2>4. \A p \in Requests : req'[p].st # "idle" /\ req'[p].clean => TagAgrees(req'[p])
    BY <1>1, <1>3, <2>1 DEF TagRequestsAgree
  <2> QED BY <2>2, <2>3, <2>4 DEF TagRequestsAgree
<1>4. OneMessage' /\ Accepted' = Accepted /\ excused' = excused
  BY MessagesQuiet DEF TagsAgreeInv, TokensInv
<1>5. ASSUME ~crossed, NEW t \in Accepted \ excused
      PROVE  docs'[t].stored /\ docs'[t].active /\ t \notin Silenced'
  <2>1. docs[t].stored /\ docs[t].active /\ t \notin Silenced
    BY <1>5 DEF TagsAgreeInv, TokensInv
  <2>2. t \in IDs
    BY DEF Accepted
  <2>3. \A p \in Requests : ~(req[p].tag = t /\ Silent(req[p]))
    BY <2>1, <2>2 DEF Silenced
  <2>4. \A p \in Requests : ~(req'[p].tag = t /\ Silent(req'[p]))
    BY <1>1, <2>3
  <2> QED BY <2>1, <2>4 DEF Silenced, Silent
<1> QED BY <1>2, <1>3, <1>4, <1>5 DEF TagsAgreeInv, TagsInv, TokensInv

LEMMA TagsCleared ==
  ASSUME TagsTypeOK, NEW u, docs' = T!ClearDefaultUserTag(u)
  PROVE  /\ docs' \in [IDs -> TagDoc]
         /\ \A t \in IDs : /\ docs'[t].stored = docs[t].stored /\ docs'[t].user = docs[t].user
                           /\ docs'[t].active = docs[t].active
                           /\ docs'[t].default => docs[t].default
                           /\ docs[t].stored /\ docs[t].user = u => ~docs'[t].default
<1>1. docs' = [t \in IDs |-> IF t \in T!TagsOf(u) THEN [docs[t] EXCEPT !.default = FALSE] ELSE docs[t]]
  BY DEF T!ClearDefaultUserTag
<1>2. ASSUME NEW t \in IDs
      PROVE  /\ docs'[t] \in TagDoc
             /\ docs'[t].stored = docs[t].stored /\ docs'[t].user = docs[t].user
             /\ docs'[t].active = docs[t].active
             /\ docs'[t].default => docs[t].default
             /\ docs[t].stored /\ docs[t].user = u => ~docs'[t].default
  <2>1. PICK d \in TagDoc : d = docs[t]
    BY DEF TagsTypeOK
  <2>2. PICK e \in TagDoc : e = [d EXCEPT !.default = FALSE]
    BY DEF TagDoc
  <2>3. ~e.default /\ e.stored = d.stored /\ e.user = d.user /\ e.active = d.active
    BY <2>2 DEF TagDoc
  <2>4. CASE t \in T!TagsOf(u)
    <3>1. docs'[t] = e
      BY <1>1, <2>1, <2>2, <2>4
    <3> QED BY <2>1, <2>3, <3>1
  <2>5. CASE t \notin T!TagsOf(u)
    <3>1. docs'[t] = docs[t]
      BY <1>1, <2>5
    <3> QED BY <2>1, <2>5, <3>1 DEF T!TagsOf
  <2> QED BY <2>4, <2>5
<1> QED BY <1>1, <1>2

\* Clearing takes default tags and nothing else.
LEMMA ClearedAgree ==
  ASSUME TagsTypeOK, NEW r \in Requests, NEW u, docs' = T!ClearDefaultUserTag(u), users' = users
  PROVE  /\ OneDefault /\ HaveOwners => OneDefault' /\ HaveOwners' /\ TagSpares(r)
         /\ \A t \in IDs : ~IsDefault(t, u)'
<1>1. \A t \in IDs : \A v : IsDefault(t, v)' => IsDefault(t, v) /\ v # u
  BY TagsCleared DEF IsDefault
<1>2. TagSpares(r)
  BY TagsCleared DEF TagSpares
<1>3. OneDefault => OneDefault'
  BY <1>1 DEF OneDefault
<1>4. HaveOwners => HaveOwners'
  BY TagsCleared DEF HaveOwners
<1> QED BY <1>1, <1>2, <1>3, <1>4

\* A tag that is saved as the only default one of a stored user, or deleted.
LEMMA OneTagWrite ==
  ASSUME TagsTypeOK, NEW r \in Requests, NEW t \in IDs, NEW doc \in TagDoc, docs' = [docs EXCEPT ![t] = doc],
         users' = users, OneDefault, HaveOwners,
         doc.stored => doc.user \in (T!About(req[r]) \cap users) \cup {T!NoUser},
         doc.stored /\ doc.default => OnlyTag(doc.user, t)
  PROVE  /\ OneDefault' /\ HaveOwners' /\ TagSpares(r)
         /\ \A c \in IDs, u \in UserIDs : IsDefault(c, u)' =>
              IsDefault(c, u) \/ (c = t /\ u = doc.user /\ doc.stored /\ doc.default)
<1>1. docs'[t] = doc /\ \A c \in IDs : c # t => docs'[c] = docs[c]
  BY DEF TagsTypeOK
<1>2. \A c \in IDs : \A u : IsDefault(c, u)' =>
        \/ c # t /\ IsDefault(c, u)
        \/ c = t /\ u = doc.user /\ doc.stored /\ doc.default
  BY <1>1 DEF IsDefault
<1>3. TagSpares(r)
  BY <1>1, NoUserAssumption DEF TagSpares
<1>4. OneDefault'
  <2> SUFFICES ASSUME NEW u \in UserIDs, NEW c \in IDs, NEW d \in IDs, IsDefault(c, u)', IsDefault(d, u)'
               PROVE  c = d
    BY DEF OneDefault
  <2>1. doc.stored /\ doc.default /\ doc.user = u => \A x \in IDs : IsDefault(x, u) => x = t
    BY NoUserAssumption DEF OnlyTag
  <2>2. IsDefault(c, u) /\ IsDefault(d, u) => c = d
    BY DEF OneDefault
  <2> QED BY <1>2, <2>1, <2>2
<1>5. HaveOwners'
  BY <1>1 DEF HaveOwners, T!NoUser, C!NoUser
<1> QED BY <1>2, <1>3, <1>4, <1>5

LEMMA ChooseDefaultTagStep ==
  ASSUME TagsAgreeInv, NEW r \in Requests, T!ChooseDefault(r)
  PROVE  TagsAgreeInv'
<1>1. PICK q \in TagRequest : q = req[r]
  BY DEF TagsAgreeInv, TagsInv, TagsTypeOK
<1>2. q.st = "default" /\ q.tag \in IDs
  BY <1>1 DEF T!ChooseDefault, TagsAgreeInv, TagsInv, TagsTypeOK
<1>3. users' = users /\ partner' = partner /\ T!Quiet /\ TagsInv /\ TagsTypeOK
  BY DEF T!ChooseDefault, TagsAgreeInv, TagsInv
<1>4. CASE q.default /\ (q.op = "visual" => ~q.doc.default)
  <2>1. docs' = T!ClearDefaultUserTag(q.user) /\ req' = T!After(r, [q EXCEPT !.st = "save"]) /\ T!Writes(r)
    BY <1>1, <1>4 DEF T!ChooseDefault, T!Goto
  <2>2. PICK n \in TagRequest : n = [q EXCEPT !.st = "save"]
    BY DEF TagRequest
  <2>3. /\ n.st = "save" /\ n.tag = q.tag /\ n.user = q.user /\ n.doc = q.doc /\ n.former = q.former
        /\ n.clean = q.clean /\ n.op = q.op
    BY <2>2 DEF TagRequest
  <2>4. req' = T!After(r, n) /\ docs' \in [IDs -> TagDoc]
    BY <1>3, <2>1, <2>2, TagsCleared
  <2>5. ASSUME OneDefault, HaveOwners, TagAgrees(q)
        PROVE  OneDefault' /\ HaveOwners' /\ TagSpares(r) /\ TagAgrees(n)'
    <3>1. OneDefault' /\ HaveOwners' /\ TagSpares(r) /\ \A t \in IDs : ~IsDefault(t, q.user)'
      BY <1>3, <2>1, <2>5, ClearedAgree
    <3>2. TagAgrees(n)'
      BY <1>2, <1>3, <2>3, <2>5, <3>1 DEF TagAgrees, T!About, OnlyTag
    <3> QED BY <3>1, <3>2
  <2>6. TagsInv'
    BY <1>1, <1>2, <1>3, <2>1, <2>3, <2>4, <2>5, TagWriteStep
  <2>7. TokensInv'
    <3>1. Silent(n) => Silent(req[r]) /\ n.tag = req[r].tag
      BY <1>1, <1>2, <2>3 DEF Silent
    <3>2. \A t \in IDs : docs[t].stored /\ docs[t].active => docs'[t].stored /\ docs'[t].active
      BY <1>3, <2>1, TagsCleared
    <3> QED BY <1>3, <2>1, <2>4, <3>1, <3>2, QuietWrite
  <2> QED BY <2>6, <2>7 DEF TagsAgreeInv
<1>5. CASE ~(q.default /\ (q.op = "visual" => ~q.doc.default))
  <2>1. PICK default \in BOOLEAN : default = (q.default \/ ~T!HasDefaultUserTag(q.user))
    OBVIOUS
  <2>2. PICK n \in TagRequest : n = [q EXCEPT !.st = "save", !.default = default]
    BY DEF TagRequest
  <2>3. /\ n.st = "save" /\ n.tag = q.tag /\ n.user = q.user /\ n.doc = q.doc /\ n.former = q.former
        /\ n.clean = q.clean /\ n.op = q.op /\ n.default = default
    BY <2>2 DEF TagRequest
  <2>4. req' = [req EXCEPT ![r] = n] /\ docs' = docs /\ crossed' = crossed
    BY <1>1, <1>5, <2>1, <2>2 DEF T!ChooseDefault
  <2>5. ASSUME ~crossed, n.clean PROVE TagAgrees(n)
    <3>1. TagAgrees(q) /\ OneDefault
      BY <1>1, <1>2, <1>3, <2>3, <2>5 DEF TagsInv, TagRequestsAgree
    <3>2. ASSUME default PROVE OnlyTag(q.user, q.tag)
      <4>1. CASE q.default
        BY <1>2, <1>5, <3>1, <4>1 DEF TagAgrees
      <4>2. CASE ~T!HasDefaultUserTag(q.user)
        <5> SUFFICES ASSUME q.user # T!NoUser, NEW t \in IDs, IsDefault(t, q.user) PROVE FALSE
          BY DEF OnlyTag
        <5>1. q.user \in UserIDs
          BY TagRequestShape
        <5>2. \A d \in IDs : IsDefault(d, q.user) => d = t
          BY <3>1, <5>1 DEF OneDefault
        <5>3. t \in T!TagsOf(q.user) /\ {d \in T!TagsOf(q.user) : docs[d].default} = {t}
          BY <5>2 DEF IsDefault, T!TagsOf
        <5> QED BY <4>2, <5>3 DEF T!HasDefaultUserTag
      <4> QED BY <2>1, <3>2, <4>1, <4>2
    <3> QED BY <1>2, <2>3, <3>1, <3>2 DEF TagAgrees, T!About
  <2>6. Silent(n) => Silent(req[r]) /\ n.tag = req[r].tag
    BY <1>1, <1>2, <2>3 DEF Silent
  <2> QED BY <1>2, <1>3, <2>3, <2>4, <2>5, <2>6, TagReadStep
<1> QED BY <1>4, <1>5

LEMMA SaveTagStep ==
  ASSUME TagsAgreeInv, NEW r \in Requests, T!Save(r)
  PROVE  TagsAgreeInv'
<1>1. PICK q \in TagRequest : q = req[r]
  BY DEF TagsAgreeInv, TagsInv, TagsTypeOK
<1>2. q.st = "save" /\ q.tag \in IDs
  BY <1>1 DEF T!Save, TagsAgreeInv, TagsInv, TagsTypeOK
<1>3. users' = users /\ partner' = partner /\ T!Writes(r) /\ TagsInv /\ TagsTypeOK /\ TokensInv
  BY DEF T!Save, TagsAgreeInv, TagsInv
<1>4. PICK doc \in TagDoc : /\ docs' = [docs EXCEPT ![q.tag] = doc]
                            /\ doc.default => q.default
                            /\ doc.user = q.doc.user /\ doc.active = q.doc.active /\ doc.stored
  <2>1. PICK default \in BOOLEAN :
          /\ default = IF q.op = "update" /\ q.user = T!NoUser THEN FALSE ELSE q.default
          /\ default => q.default
    BY TagRequestShape
  <2>2. q.doc \in TagDoc
    BY TagRequestShape
  <2> DEFINE d1 == [q.doc EXCEPT !.default = default]
             d2 == [d1 EXCEPT !.stored = TRUE]
  <2>3. docs' = [docs EXCEPT ![q.tag] = d2]
    BY <1>1, <2>1 DEF T!Save, T!SaveTag, T!Saved
  <2>4. d1 \in TagDoc /\ d1.default = default /\ d1.user = q.doc.user /\ d1.active = q.doc.active
    BY <2>2 DEF TagDoc
  <2> HIDE DEF d1
  <2>5. d2 \in TagDoc /\ d2.default = default /\ d2.user = q.doc.user /\ d2.active = q.doc.active /\ d2.stored
    BY <2>4 DEF TagDoc
  <2> HIDE DEF d2
  <2> QED BY <2>1, <2>3, <2>5
<1>5. PICK n \in TagRequest : /\ req' = T!After(r, n)
                              /\ n = T!Idle \/ n = [q EXCEPT !.st = "clear"]
  <2>1. [q EXCEPT !.st = "clear"] \in TagRequest
    BY DEF TagRequest
  <2>2. req' = T!After(r, IF q.former # T!NoUser THEN [q EXCEPT !.st = "clear"] ELSE T!Idle)
    BY <1>1 DEF T!Save, T!Goto
  <2> QED BY <2>1, <2>2, IdleRequest
<1>6. n.st = "idle" \/ (n.st = "clear" /\ n.user = q.user /\ n.doc = q.doc /\ n.former = q.former)
  BY <1>5, IdleRequest DEF TagRequest
<1>7. ~Silent(n)
  BY <1>6 DEF Silent
<1>8. docs' \in [IDs -> TagDoc] /\ docs'[q.tag] = doc /\ \A t \in IDs : t # q.tag => docs'[t] = docs[t]
  BY <1>2, <1>3, <1>4 DEF TagsTypeOK
<1>9. TagsInv'
  <2>1. ASSUME OneDefault, HaveOwners, TagAgrees(q)
        PROVE  OneDefault' /\ HaveOwners' /\ TagSpares(r) /\ (n.st # "idle" => TagAgrees(n)')
    <3>1. doc.user = q.user /\ (doc.default => OnlyTag(q.user, q.tag)) /\ T!About(q) \subseteq users
      BY <1>2, <1>4, <2>1 DEF TagAgrees
    <3>2. doc.user \in (T!About(req[r]) \cap users) \cup {T!NoUser}
      BY <1>1, <3>1 DEF T!About
    <3>3. OneDefault' /\ HaveOwners' /\ TagSpares(r)
      BY <1>2, <1>3, <1>4, <2>1, <3>1, <3>2, OneTagWrite
    <3>4. n.st # "idle" => TagAgrees(n)'
      BY <1>3, <1>6, <3>1 DEF TagAgrees, T!About
    <3> QED BY <3>3, <3>4
  <2> QED BY <1>1, <1>2, <1>3, <1>5, <1>6, <1>8, <2>1, TagWriteStep
<1>10. CASE q.op \in {"unassign", "import"}
  <2>1. T!Quiet
    BY <1>1, <1>10 DEF T!Save
  <2>2. ~crossed' => Silent(q)
    BY <1>1, <1>2, <1>10 DEF T!Save, T!Writes, Silent
  <2>3. \A t \in IDs : ~crossed' /\ docs[t].stored /\ docs[t].active =>
          (docs'[t].stored /\ docs'[t].active) \/ (t = req[r].tag /\ Silent(req[r]))
    BY <1>1, <1>8, <2>2
  <2> QED BY <1>3, <1>5, <1>7, <1>9, <2>1, <2>3, QuietWrite DEF TagsAgreeInv
<1>11. CASE q.op \notin {"unassign", "import"}
  <2>1. PICK valid \in BOOLEAN : T!Push(q.tag, valid) /\ (valid => q.doc.active)
    <3>1. PICK valid \in BOOLEAN : valid = T!ValidToken(q)
      BY DEF T!ValidToken
    <3>2. T!Push(q.tag, valid) /\ (valid => q.doc.active)
      BY <1>1, <1>11, <3>1 DEF T!Save, T!ValidToken
    <3> QED BY <3>2
  <2>2. /\ OneMessage'
        /\ \A x \in Accepted' \ excused' : x # q.tag => x \in Accepted \ excused
        /\ q.tag \in Accepted' \ excused' => valid
    BY <1>2, <1>3, <2>1, MessagesPush DEF TokensInv
  <2>3. ASSUME ~crossed', NEW t \in Accepted' \ excused'
        PROVE  docs'[t].stored /\ docs'[t].active /\ t \notin Silenced'
    <3>1. t \notin Silenced' \/ (t \in Silenced /\ t # q.tag)
      BY <1>1, <1>3, <1>5, <1>7, SilencedAfter
    <3>2. CASE t = q.tag
      BY <1>4, <1>8, <2>1, <2>2, <2>3, <3>1, <3>2
    <3>3. CASE t # q.tag
      <4>1. docs[t].stored /\ docs[t].active /\ t \notin Silenced /\ t \in IDs
        BY <1>3, <2>2, <2>3, <3>3 DEF TokensInv, T!Writes, Accepted
      <4> QED BY <1>8, <3>1, <3>3, <4>1
    <3> QED BY <3>2, <3>3
  <2> QED BY <1>9, <2>2, <2>3 DEF TagsAgreeInv, TokensInv
<1> QED BY <1>10, <1>11

LEMMA DeleteTagStep ==
  ASSUME TagsAgreeInv, NEW r \in Requests, T!Delete(r)
  PROVE  TagsAgreeInv'
<1>1. PICK q \in TagRequest : q = req[r]
  BY DEF TagsAgreeInv, TagsInv, TagsTypeOK
<1>2. q.st = "delete" /\ q.tag \in IDs
  BY <1>1 DEF T!Delete, TagsAgreeInv, TagsInv, TagsTypeOK
<1>3. /\ users' = users /\ partner' = partner /\ T!Writes(r) /\ T!Quiet
      /\ docs' = [docs EXCEPT ![q.tag] = T!Gone]
      /\ TagsInv /\ TagsTypeOK
  BY <1>1 DEF T!Delete, T!DeleteTag, TagsAgreeInv, TagsInv
<1>4. PICK n \in TagRequest : /\ req' = T!After(r, n)
                              /\ n = T!Idle \/ n = [q EXCEPT !.st = "clear", !.former = q.doc.user]
  <2>1. [q EXCEPT !.st = "clear", !.former = q.doc.user] \in TagRequest
    BY TagRequestShape DEF TagRequest
  <2>2. req' = T!After(r, IF q.doc.default THEN [q EXCEPT !.st = "clear", !.former = q.doc.user] ELSE T!Idle)
    BY <1>1 DEF T!Delete
  <2> QED BY <2>1, <2>2, IdleRequest
<1>5. n.st = "idle" \/ (n.st = "clear" /\ n.user = q.user /\ n.doc = q.doc /\ n.former = q.doc.user)
  <2>1. PICK former : former = q.doc.user
    OBVIOUS
  <2>2. n = T!Idle \/ n = [q EXCEPT !.st = "clear", !.former = former]
    BY <1>4, <2>1
  <2> QED BY <2>1, <2>2, IdleRequest DEF TagRequest
<1>6. ~Silent(n)
  BY <1>5 DEF Silent
<1>7. docs' \in [IDs -> TagDoc] /\ \A t \in IDs : t # q.tag => docs'[t] = docs[t]
  BY <1>2, <1>3, IdleRequest DEF TagsTypeOK
<1>8. TagsInv'
  <2>1. ASSUME OneDefault, HaveOwners, TagAgrees(q)
        PROVE  OneDefault' /\ HaveOwners' /\ TagSpares(r) /\ (n.st # "idle" => TagAgrees(n)')
    <3>1. OneDefault' /\ HaveOwners' /\ TagSpares(r)
      BY <1>2, <1>3, <2>1, IdleRequest, OneTagWrite
    <3>2. n.st # "idle" => TagAgrees(n)'
      BY <1>3, <1>5, <2>1 DEF TagAgrees, T!About
    <3> QED BY <3>1, <3>2
  <2> QED BY <1>1, <1>2, <1>3, <1>4, <1>5, <1>7, <2>1, TagWriteStep
<1>9. TokensInv'
  <2>1. ~crossed' => Silent(q)
    BY <1>1, <1>2, <1>3 DEF T!Writes, Silent
  <2>2. \A t \in IDs : ~crossed' /\ docs[t].stored /\ docs[t].active =>
          (docs'[t].stored /\ docs'[t].active) \/ (t = req[r].tag /\ Silent(req[r]))
    BY <1>1, <1>7, <2>1
  <2> QED BY <1>3, <1>4, <1>6, <2>2, QuietWrite
<1> QED BY <1>8, <1>9 DEF TagsAgreeInv

\* getFirstActiveUserTag returns 0 or an active tag of the user.
LEMMA FirstActiveIsActive ==
  ASSUME NEW u
  PROVE  T!FirstActive(u) = 0 \/ (T!FirstActive(u) \in T!TagsOf(u) /\ docs[T!FirstActive(u)].active)
<1> DEFINE active == {t \in T!TagsOf(u) : docs[t].active}
<1>1. active \subseteq Nat
  BY IDsAssumption DEF T!TagsOf
<1>2. T!FirstActive(u) = IF active = {} THEN 0 ELSE CHOOSE t \in active : \A o \in active : t <= o
  BY DEF T!FirstActive
<1>3. active # {} => \E t \in active : \A o \in active : t <= o
  <2> HIDE DEF active
  <2> QED BY <1>1, LeastNumber
<1>4. active # {} => T!FirstActive(u) \in active
  <2> HIDE DEF active
  <2> QED BY <1>2, <1>3
<1> QED BY <1>2, <1>4

LEMMA SetDefaultTagStep ==
  ASSUME TagsAgreeInv, NEW r \in Requests, T!SetDefaultTagForUser(r)
  PROVE  TagsAgreeInv'
<1>1. PICK q \in TagRequest : q = req[r]
  BY DEF TagsAgreeInv, TagsInv, TagsTypeOK
<1>2. users' = users /\ partner' = partner /\ T!Quiet /\ TagsInv /\ TagsTypeOK
  BY DEF T!SetDefaultTagForUser, TagsAgreeInv, TagsInv
<1>3. CASE /\ q.st = "clear" /\ docs' = T!ClearDefaultUserTag(q.former)
           /\ req' = T!After(r, [q EXCEPT !.st = "first", !.user = q.former]) /\ T!Writes(r)
  <2>1. PICK former \in UserIDs \cup {T!NoUser} : former = q.former
    BY TagRequestShape
  <2>2. PICK n \in TagRequest : n = [q EXCEPT !.st = "first", !.user = former]
    BY DEF TagRequest
  <2>3. n.st = "first" /\ n.user = q.former /\ n.doc = q.doc /\ n.former = q.former
    BY <2>1, <2>2 DEF TagRequest
  <2>4. req' = T!After(r, n) /\ docs' \in [IDs -> TagDoc]
    BY <1>2, <1>3, <2>1, <2>2, TagsCleared
  <2>5. ASSUME OneDefault, HaveOwners, TagAgrees(q)
        PROVE  OneDefault' /\ HaveOwners' /\ TagSpares(r) /\ TagAgrees(n)'
    <3>1. OneDefault' /\ HaveOwners' /\ TagSpares(r) /\ \A t \in IDs : ~IsDefault(t, q.former)'
      BY <1>2, <1>3, <2>5, ClearedAgree
    <3>2. TagAgrees(n)'
      BY <1>2, <2>3, <2>5, <3>1 DEF TagAgrees, T!About
    <3> QED BY <3>1, <3>2
  <2>6. TagsInv'
    BY <1>1, <1>2, <1>3, <2>3, <2>4, <2>5, TagWriteStep
  <2>7. TokensInv'
    <3>1. ~Silent(n)
      BY <2>3 DEF Silent
    <3>2. \A t \in IDs : docs[t].stored /\ docs[t].active => docs'[t].stored /\ docs'[t].active
      BY <1>2, <1>3, TagsCleared
    <3> QED BY <1>2, <1>3, <2>4, <3>1, <3>2, QuietWrite
  <2> QED BY <2>6, <2>7 DEF TagsAgreeInv
<1>4. CASE /\ q.st = "first"
           /\ req' = [req EXCEPT ![r] = IF T!FirstActive(q.former) = 0 THEN T!Idle
                       ELSE [q EXCEPT !.st = "put", !.tag = T!FirstActive(q.former),
                                      !.doc = [docs[T!FirstActive(q.former)] EXCEPT !.default = TRUE]]]
           /\ UNCHANGED <<docs, crossed>>
  <2>1. PICK t : t = T!FirstActive(q.former)
    OBVIOUS
  <2>2. PICK n \in TagRequest :
          /\ req' = [req EXCEPT ![r] = n]
          /\ \/ n.st = "idle"
             \/ /\ n.st = "put" /\ n.tag \in IDs /\ n.user = q.user /\ n.former = q.former /\ n.clean = q.clean
                /\ n.doc.user = q.former /\ n.doc.active
    <3>1. CASE t = 0
      BY <1>4, <2>1, <3>1, IdleRequest
    <3>2. CASE t # 0
      <4>1. t \in IDs /\ docs[t].user = q.former /\ docs[t].active /\ docs[t] \in TagDoc
        BY <1>2, <2>1, <3>2, FirstActiveIsActive DEF T!TagsOf, TagsTypeOK
      <4>2. PICK doc \in TagDoc : doc = [docs[t] EXCEPT !.default = TRUE] /\ doc.user = q.former /\ doc.active
        <5>1. PICK d \in TagDoc : d = docs[t] /\ d.user = q.former /\ d.active
          BY <4>1
        <5>2. /\ [d EXCEPT !.default = TRUE] \in TagDoc /\ [d EXCEPT !.default = TRUE].user = q.former
              /\ [d EXCEPT !.default = TRUE].active
          BY <5>1 DEF TagDoc
        <5> QED BY <5>1, <5>2
      <4>3. req' = [req EXCEPT ![r] = [q EXCEPT !.st = "put", !.tag = t, !.doc = doc]]
        BY <1>4, <2>1, <3>2, <4>2
      <4>4. PICK n \in TagRequest : n = [q EXCEPT !.st = "put", !.tag = t, !.doc = doc]
        BY <4>1 DEF TagRequest
      <4>5. n.st = "put" /\ n.tag = t /\ n.user = q.user /\ n.former = q.former /\ n.clean = q.clean /\ n.doc = doc
        BY <4>4 DEF TagRequest
      <4> QED BY <4>1, <4>2, <4>3, <4>4, <4>5
    <3> QED BY <3>1, <3>2
  <2>3. docs' = docs /\ crossed' = crossed
    BY <1>4
  <2>4. ASSUME ~crossed, n.st # "idle", n.clean PROVE TagAgrees(n)
    <3>1. /\ n.st = "put" /\ n.user = q.user /\ n.former = q.former /\ n.doc.user = q.former /\ n.doc.active
          /\ q.clean
      BY <2>2, <2>4
    <3>2. TagAgrees(q)
      BY <1>1, <1>2, <1>4, <2>4, <3>1 DEF TagsInv, TagRequestsAgree
    <3> QED BY <1>4, <3>1, <3>2 DEF TagAgrees, T!About
  <2>5. ~Silent(n)
    BY <2>2 DEF Silent
  <2>6. n.st \in {"default", "save", "delete", "put"} => n.tag \in IDs
    BY <2>2
  <2> QED BY <1>2, <2>2, <2>3, <2>4, <2>5, <2>6, TagReadStep
<1>5. CASE q.st = "put" /\ docs' = T!SaveTag(q.tag, q.doc) /\ req' = T!After(r, T!Idle) /\ T!Writes(r)
  <2>1. q.tag \in IDs
    BY <1>1, <1>2, <1>5 DEF TagsTypeOK
  <2>2. PICK doc \in TagDoc : /\ docs' = [docs EXCEPT ![q.tag] = doc] /\ doc.user = q.doc.user
                              /\ doc.active = q.doc.active /\ doc.stored
    <3>1. docs' = [docs EXCEPT ![q.tag] = [q.doc EXCEPT !.stored = TRUE]]
      BY <1>5 DEF T!SaveTag
    <3>2. PICK d \in TagDoc : d = q.doc
      BY TagRequestShape
    <3>3. /\ [d EXCEPT !.stored = TRUE] \in TagDoc /\ [d EXCEPT !.stored = TRUE].user = d.user
          /\ [d EXCEPT !.stored = TRUE].active = d.active /\ [d EXCEPT !.stored = TRUE].stored
      BY DEF TagDoc
    <3> QED BY <3>1, <3>2, <3>3
  <2>3. docs' \in [IDs -> TagDoc] /\ docs'[q.tag] = doc /\ \A t \in IDs : t # q.tag => docs'[t] = docs[t]
    BY <1>2, <2>1, <2>2 DEF TagsTypeOK
  <2>4. ASSUME OneDefault, HaveOwners, TagAgrees(q) PROVE OneDefault' /\ HaveOwners' /\ TagSpares(r)
    <3>1. doc.user = q.former /\ T!About(q) \subseteq users
      BY <1>5, <2>2, <2>4 DEF TagAgrees
    <3>2. doc.user \in (T!About(req[r]) \cap users) \cup {T!NoUser}
      BY <1>1, <3>1 DEF T!About
    <3>3. OnlyTag(doc.user, q.tag)
      BY <1>5, <2>4, <3>1 DEF TagAgrees, OnlyTag
    <3> QED BY <1>2, <2>1, <2>2, <2>4, <3>2, <3>3, OneTagWrite
  <2>5. TagsInv'
    BY <1>1, <1>2, <1>5, <2>3, <2>4, IdleRequest, TagWriteStep
  <2>6. TokensInv'
    <3>1. ASSUME ~crossed' PROVE doc.active /\ doc.stored
      BY <1>1, <1>2, <1>5, <2>2, <3>1, TagUncrossed DEF TagAgrees
    <3>2. \A t \in IDs : ~crossed' /\ docs[t].stored /\ docs[t].active => docs'[t].stored /\ docs'[t].active
      BY <2>3, <3>1
    <3> QED BY <1>2, <1>5, <3>2, IdleRequest, QuietWrite
  <2> QED BY <2>5, <2>6 DEF TagsAgreeInv
<1> QED BY <1>1, <1>3, <1>4, <1>5 DEF T!SetDefaultTagForUser

LEMMA DeleteUserTagsStep ==
  ASSUME TagsAgreeInv, NEW r \in Requests, T!DeleteUserTags(r)
  PROVE  TagsAgreeInv'
<1>1. PICK q \in TagRequest : q = req[r]
  BY DEF TagsAgreeInv, TagsInv, TagsTypeOK
<1>2. /\ q.st = "tags" /\ users' = users /\ partner' = partner /\ pushed' = pushed /\ T!Writes(r)
      /\ docs' = [t \in IDs |-> IF t \in T!TagsOf(q.user) THEN T!Gone ELSE docs[t]]
      /\ excused' = excused \cup T!TagsOf(q.user)
      /\ req' = T!After(r, [q EXCEPT !.st = "user"])
      /\ TagsInv /\ TagsTypeOK /\ TokensInv
  BY <1>1 DEF T!DeleteUserTags, T!Goto, TagsAgreeInv, TagsInv
<1>3. PICK n \in TagRequest : n = [q EXCEPT !.st = "user"]
  BY DEF TagRequest
<1>4. n.st = "user" /\ n.user = q.user /\ n.doc = q.doc /\ n.former = q.former /\ req' = T!After(r, n)
  BY <1>2, <1>3 DEF TagRequest
<1>5. /\ docs' \in [IDs -> TagDoc]
      /\ \A t \in IDs : IF t \in T!TagsOf(q.user) THEN ~docs'[t].stored ELSE docs'[t] = docs[t]
  BY <1>2, IdleRequest DEF TagsTypeOK
<1>6. TagsInv'
  <2>1. ASSUME OneDefault, HaveOwners, TagAgrees(q)
        PROVE  OneDefault' /\ HaveOwners' /\ TagSpares(r) /\ TagAgrees(n)'
    <3>1. \A t \in IDs : docs'[t].stored => docs'[t] = docs[t] /\ docs[t].user # q.user
      BY <1>5 DEF T!TagsOf
    <3>2. OneDefault'
      BY <2>1, <3>1 DEF OneDefault, IsDefault
    <3>3. HaveOwners'
      BY <1>2, <2>1, <3>1 DEF HaveOwners
    <3>4. TagSpares(r)
      BY <1>2, <3>1 DEF TagSpares
    <3>5. T!TagsOf(n.user)' = {}
      BY <1>4, <3>1 DEF T!TagsOf
    <3>6. TagAgrees(n)'
      BY <1>2, <1>4, <2>1, <3>5 DEF TagAgrees, T!About
    <3> QED BY <3>2, <3>3, <3>4, <3>6
  <2> QED BY <1>1, <1>2, <1>4, <1>5, <2>1, TagWriteStep
<1>7. TokensInv'
  <2>1. OneMessage' /\ \A t \in Accepted' \ excused' : t \in Accepted \ excused /\ t \notin T!TagsOf(q.user)
    BY <1>2 DEF TokensInv, OneMessage, Accepted
  <2>2. ~Silent(n)
    BY <1>4 DEF Silent
  <2>3. ASSUME ~crossed', NEW t \in Accepted' \ excused'
        PROVE  docs'[t].stored /\ docs'[t].active /\ t \notin Silenced'
    <3>1. docs[t].stored /\ docs[t].active /\ t \notin Silenced /\ t \in IDs
      BY <1>2, <2>1, <2>3 DEF TokensInv, T!Writes, Accepted
    <3>2. t \notin Silenced'
      BY <1>2, <1>4, <2>2, <3>1, SilencedAfter
    <3> QED BY <1>5, <2>1, <3>1, <3>2
  <2> QED BY <2>1, <2>3 DEF TokensInv
<1> QED BY <1>6, <1>7 DEF TagsAgreeInv

LEMMA DeleteOwnerStep ==
  ASSUME TagsAgreeInv, NEW r \in Requests, T!DeleteUser(r)
  PROVE  TagsAgreeInv'
<1>1. PICK q \in TagRequest : q = req[r]
  BY DEF TagsAgreeInv, TagsInv, TagsTypeOK
<1>2. /\ q.st = "user" /\ users' = users \ {q.user} /\ docs' = docs /\ partner' = partner /\ T!Quiet
      /\ T!Writes(r) /\ req' = T!After(r, T!Idle) /\ TagsInv /\ TagsTypeOK
  BY <1>1 DEF T!DeleteUser, TagsAgreeInv, TagsInv
<1>3. TagsInv'
  <2>1. ASSUME OneDefault, HaveOwners, TagAgrees(q) PROVE OneDefault' /\ HaveOwners' /\ TagSpares(r)
    <3>1. q.user # T!NoUser /\ T!TagsOf(q.user) = {}
      BY <1>2, <2>1 DEF TagAgrees
    <3>2. OneDefault'
      BY <1>2, <2>1 DEF OneDefault, IsDefault
    <3>3. HaveOwners'
      BY <1>2, <2>1, <3>1 DEF HaveOwners, T!TagsOf
    <3>4. TagSpares(r)
      BY <1>1, <1>2, <3>1 DEF TagSpares, T!About
    <3> QED BY <3>2, <3>3, <3>4
  <2>2. docs' \in [IDs -> TagDoc] /\ users' \subseteq users
    BY <1>2 DEF TagsTypeOK
  <2> QED BY <1>1, <1>2, <2>1, <2>2, IdleRequest, TagWriteStep
<1>4. TokensInv'
  BY <1>2, IdleRequest, QuietWrite
<1> QED BY <1>3, <1>4 DEF TagsAgreeInv

-----------------------------------------------------------------------------
(* Tags: the messages, the crash and the theorem. *)

LEMMA TagsInvStays ==
  ASSUME TagsInv, UNCHANGED <<docs, users, req, crossed>>
  PROVE  TagsInv'
<1>1. TagsTypeOK'
  BY DEF TagsInv, TagsTypeOK
<1>2. OneDefault /\ HaveOwners => OneDefault' /\ HaveOwners'
  BY DEF OneDefault, IsDefault, HaveOwners
<1>3. \A p \in Requests : TagAgrees(req[p]) => TagAgrees(req[p])'
  BY DEF TagAgrees, OnlyTag, IsDefault, T!TagsOf, T!About
<1>4. TagRequestsAgree => TagRequestsAgree'
  BY <1>3 DEF TagRequestsAgree
<1> QED BY <1>1, <1>2, <1>4 DEF TagsInv

LEMMA CheckRoamingStep ==
  ASSUME TagsAgreeInv, NEW r \in Requests, T!CheckAndDeleteUserRoaming(r)
  PROVE  TagsAgreeInv'
<1>1. PICK t \in IDs : T!Push(t, FALSE)
  BY DEF T!CheckAndDeleteUserRoaming, T!TagsOf
<1>2. UNCHANGED <<docs, users, req, crossed>> /\ partner' = partner /\ OneMessage
  BY DEF T!CheckAndDeleteUserRoaming, TagsAgreeInv, TokensInv
<1>3. OneMessage' /\ \A x \in Accepted' \ excused' : x \in Accepted \ excused
  BY <1>1, <1>2, MessagesPush
<1>4. Silenced' = Silenced
  BY <1>2 DEF Silenced, Silent
<1>5. TokensInv'
  BY <1>2, <1>3, <1>4 DEF TagsAgreeInv, TokensInv
<1> QED BY <1>2, <1>5, TagsInvStays DEF TagsAgreeInv

LEMMA PushTokenStep ==
  ASSUME TagsAgreeInv, T!PushToken
  PROVE  TagsAgreeInv'
<1>1. PICK m \in pushed :
        /\ pushed' = pushed \ {m}
        /\ \/ partner' = (IF m.valid THEN partner \cup {m.tag} ELSE partner \ {m.tag}) /\ excused' = excused
           \/ excused' = excused \cup {m.tag} /\ partner' = partner
  BY DEF T!PushToken
<1>2. UNCHANGED <<docs, users, req, crossed>> /\ OneMessage
  BY DEF T!PushToken, TagsAgreeInv, TokensInv
<1>3. PICK t \in IDs, valid \in BOOLEAN : m = [tag |-> t, valid |-> valid]
  BY <1>2 DEF OneMessage
<1>4. m.tag = t /\ m.valid = valid
  BY <1>3
<1>5. OneMessage' /\ excused \subseteq excused'
  BY <1>1, <1>2, <1>4 DEF OneMessage
<1>6. ASSUME NEW x \in Accepted' \ excused' PROVE x \in Accepted \ excused
  <2>1. /\ x \in IDs /\ x \notin excused
        /\ [tag |-> x, valid |-> TRUE] \in pushed' \/ (x \in partner' /\ [tag |-> x, valid |-> FALSE] \notin pushed')
    BY <1>5, <1>6 DEF Accepted
  <2>2. CASE x # t
    <3>1. \A v \in BOOLEAN : [tag |-> x, valid |-> v] \in pushed' <=> [tag |-> x, valid |-> v] \in pushed
      BY <1>1, <1>3, <2>2
    <3>2. x \in partner' => x \in partner
      BY <1>1, <1>4, <2>2
    <3> QED BY <2>1, <3>1, <3>2 DEF Accepted
  <2>3. CASE x = t /\ valid
    <3>1. [tag |-> x, valid |-> TRUE] \in pushed
      BY <1>3, <2>3
    <3> QED BY <2>1, <3>1 DEF Accepted
  <2>4. CASE x = t /\ ~valid
    <3>1. x \notin partner'
      BY <1>1, <1>4, <1>6, <2>4
    <3>2. [tag |-> x, valid |-> TRUE] \in pushed
      BY <1>1, <2>1, <3>1
    <3> QED BY <2>1, <3>2 DEF Accepted
  <2> QED BY <2>2, <2>3, <2>4
<1>7. Silenced' = Silenced
  BY <1>2 DEF Silenced, Silent
<1>8. TokensInv'
  BY <1>2, <1>5, <1>6, <1>7 DEF TagsAgreeInv, TokensInv
<1> QED BY <1>2, <1>8, TagsInvStays DEF TagsAgreeInv

LEMMA TagsCrashStep ==
  ASSUME TagsAgreeInv, T!Crash
  PROVE  TagsAgreeInv'
<1>1. /\ req' = [r \in Requests |-> T!Idle] /\ docs' = docs /\ users' = users /\ crossed' = crossed
      /\ partner' = partner /\ pushed' = {} /\ excused' = excused \cup {m.tag : m \in pushed}
  BY DEF T!Crash
<1>2. TagsInv'
  <2>1. TagsTypeOK'
    BY <1>1, IdleRequest DEF TagsAgreeInv, TagsInv, TagsTypeOK
  <2>2. ~crossed' => OneDefault' /\ HaveOwners' /\ TagRequestsAgree'
    BY <1>1, IdleRequest DEF TagsAgreeInv, TagsInv, OneDefault, IsDefault, HaveOwners, TagRequestsAgree
  <2> QED BY <2>1, <2>2 DEF TagsInv
<1>3. \A t \in Accepted' \ excused' : t \in Accepted \ excused
  <2> SUFFICES ASSUME NEW t \in Accepted' \ excused' PROVE t \in Accepted \ excused
    OBVIOUS
  <2>1. t \in IDs /\ t \in partner /\ t \notin excused /\ t \notin {m.tag : m \in pushed}
    BY <1>1 DEF Accepted
  <2>2. [tag |-> t, valid |-> FALSE] \notin pushed
    BY <2>1
  <2> QED BY <2>1, <2>2 DEF Accepted
<1>4. OneMessage'
  BY <1>1 DEF TagsAgreeInv, TokensInv, OneMessage
<1>5. Silenced' = {}
  BY <1>1, IdleRequest DEF Silenced, Silent
<1>6. TokensInv'
  BY <1>1, <1>3, <1>4, <1>5 DEF TagsAgreeInv, TokensInv
<1> QED BY <1>2, <1>6 DEF TagsAgreeInv

LEMMA TagsInvariant == MCSpec => [](focus = "tags" => TagsAgreeInv)
<1>1. MCInit => (focus = "tags" => TagsAgreeInv)
  <2> SUFFICES ASSUME T!Init PROVE TagsAgreeInv
    BY DEF MCInit
  <2>1. TagsInv
    BY IdleRequest DEF T!Init, TagsInv, TagsTypeOK, OneDefault, IsDefault, HaveOwners, TagRequestsAgree
  <2>2. TokensInv
    BY DEF T!Init, TokensInv, OneMessage, Accepted
  <2> QED BY <2>1, <2>2 DEF TagsAgreeInv
<1>2. (focus = "tags" => TagsAgreeInv) /\ [MCNext]_<<focus, recordVars, importVars, nVars>>
      => (focus = "tags" => TagsAgreeInv)'
  <2> SUFFICES ASSUME focus' = "tags", focus = "tags" => TagsAgreeInv,
                      [MCNext]_<<focus, recordVars, importVars, nVars>>
               PROVE  TagsAgreeInv'
    OBVIOUS
  <2>1. TagsAgreeInv /\ (T!Next \/ UNCHANGED recordVars)
    BY DEF MCNext
  <2>2. CASE T!Next
    BY <2>1, <2>2, CreateTagStep, AssignTagStep, UpdateTagStep, VisualTagStep, DeleteTagsStep, UnassignTagsStep,
       ImportTagStep, BeginDeleteOwnerStep, ChooseDefaultTagStep, SaveTagStep, DeleteTagStep, SetDefaultTagStep,
       DeleteUserTagsStep, DeleteOwnerStep, CheckRoamingStep, PushTokenStep, TagsCrashStep DEF T!Next
  <2>3. CASE UNCHANGED recordVars
    <3>1. UNCHANGED <<docs, users, req, crossed>> /\ UNCHANGED <<partner, pushed, excused>>
      BY <2>3 DEF recordVars
    <3>2. TokensInv'
      BY <2>1, <3>1 DEF TagsAgreeInv, TokensInv, OneMessage, Accepted, Silenced, Silent
    <3> QED BY <2>1, <3>1, <3>2, TagsInvStays DEF TagsAgreeInv
  <2> QED BY <2>1, <2>2, <2>3
<1> QED BY <1>1, <1>2, PTL DEF MCSpec

\* Unless a request saved what it had read before another one wrote about the
\* same tag or user, a user has at most one default tag and every tag belongs
\* to a stored user or to none; and when nothing is running or on its way the
\* partner accepts no tag that is inactive or gone, except those whose message
\* was lost, crossed or never sent (TagService, TagStorage, UserStorage.deleteUser):
\* for any number of users, tags and requests.
THEOREM TagsStayWithTheirUsers == MCSpec => []TagsAgree
<1>1. (focus = "tags" => TagsAgreeInv) => TagsAgree
  <2> SUFFICES ASSUME TagsInv, TokensInv PROVE T!OneDefaultTag /\ T!TagsHaveOwners /\ T!TokensAgree
    BY DEF TagsAgree, TagsAgreeInv
  <2>1. T!OneDefaultTag
    BY DEF TagsInv, OneDefault, IsDefault, T!OneDefaultTag, T!TagsOf
  <2>2. T!TagsHaveOwners
    BY DEF TagsInv, HaveOwners, T!TagsHaveOwners, T!NoUser, C!NoUser
  <2>3. T!TokensAgree
    BY DEF TokensInv, OneMessage, Accepted, T!TokensAgree
  <2> QED BY <2>1, <2>2, <2>3
<1> QED BY <1>1, TagsInvariant, PTL

-----------------------------------------------------------------------------
(* Notifications: the values. *)

Identifiers ==
  {<<"unsaved">>} \cup {<<"object", k.task, a>> : k \in Kinds, a \in Abouts}
  \cup {<<"fresh", n>> : n \in Notifiers} \cup {<<"time", t, ms>> : t \in Nat, ms \in {0, 1}}
Call == [st : {"timer", "lookup", "save", "send", "saveRaw", "notify", "done"}, kind : Kinds, about : Abouts,
         channel : {1, 2}, at : Nat, ids : SUBSET Identifiers]

CallOK(call) ==
  /\ call.st \in {"lookup", "save", "send"} => call.kind \in HandlerKinds
  /\ call.st \in {"timer", "saveRaw", "notify"} => call.kind \in HelperKinds
  /\ call.st = "saveRaw" => call.kind.by = "raw"
  /\ call.st \in {"timer", "saveRaw"} => call.ids = {}
  /\ call.st # "idle" => call.at <= clock

CallsTypeOK ==
  /\ clock \in Nat
  /\ calls \in [Notifiers -> Call \cup {Idle}]
  /\ \A n \in Notifiers : CallOK(calls[n])

Began(n) == n \in Notifiers /\ calls[n].st # "idle"

\* Two calls that are active have met.
AllMeet ==
  /\ \A n, m \in Notifiers : n # m /\ Active(n) /\ Active(m) => {n, m} \in overlaps
  /\ \A o \in overlaps : \A n \in o : Began(n)

\* A call has passed a channel, or is about to leave it.
Left(call, c) == call.channel > c \/ (call.channel = c /\ call.st \in {"send", "done"})

\* What is saved is of its call, which has sent it or does so next.
SavedOK(s, call) ==
  /\ call.kind \in HandlerKinds
  /\ s.name = call.kind.name
  /\ call.kind.one => s.about = call.about
  /\ s.at \in Nat /\ s.at <= clock
  /\ s.id[1] = call.kind.id /\ (call.kind.id = "object" => s.id = ObjectID(call))
  /\ \E c \in {1, 2} :
       /\ s.channel = Channels[c] /\ Left(call, c)
       /\ \/ Tried(s.by, c)
          \/ call.channel = c /\ call.st = "send"
          \/ Recipients(call) = {}
          \/ ~Delivers(Channels[c], call.kind.task)

SavedAgree ==
  /\ \A s \in saved : Began(s.by) /\ SavedOK(s, calls[s.by])
  /\ \A s, t \in saved : s.id = t.id /\ s.channel = t.channel => s = t

\* What was sent was saved before, or is of the helper.
SentOK(d, call) ==
  /\ d.kind = call.kind /\ d.about = call.about
  /\ d.kind \in HandlerKinds => \E s \in saved : s.by = d.by /\ s.channel = d.channel /\ s.at = d.at
  /\ d.kind \in HelperKinds => call.st = "done" /\ d.at = call.at

SentAgree ==
  /\ \A d \in sent : Began(d.by) /\ SentOK(d, calls[d.by])
  /\ \A n \in Notifiers : calls[n].st = "send" =>
       \E s \in saved : s.by = n /\ s.channel = Channels[calls[n].channel] /\ s.at = calls[n].at

\* Calls for the same notification.
Alike(call, other) ==
  call.kind = other.kind /\ (call.kind.one => call.about = other.about)

\* A call that is about to save found nothing of the period, but from a call
\* that it met.
Open(n) ==
  calls[n].kind.by = "interval" =>
    \A s \in saved : s.by # n /\ Alike(calls[n], calls[s.by]) /\ s.channel = Channels[calls[n].channel]
                     => s.at + Interval < clock \/ {n, s.by} \in overlaps

PeriodsAgree ==
  /\ \A n \in Notifiers : calls[n].st = "save" => Open(n)
  /\ \A s, t \in saved :
       s.by # t.by /\ Alike(calls[s.by], calls[t.by]) /\ calls[s.by].kind.by = "interval" /\ s.channel = t.channel
       => Distance(s, t) > Interval \/ {s.by, t.by} \in overlaps

\* Calls of the helper about the same thing that met.
Met(kind, about) == \E o \in overlaps : \A n \in o : calls[n].kind = kind /\ calls[n].about = about

Unsaved(call) == <<"unsaved">> \in call.ids

\* A call of the helper has decided to send.
Decided(n) == calls[n].st \in {"saveRaw", "notify"} \/ \E d \in sent : d.by = n

RawOf(call) == {x \in raw : x.name = call.kind.name /\ x.about = call.about}

RawOK(x, call) ==
  /\ call.kind \in HelperKinds /\ call.kind.by = "raw" /\ call.st \in {"notify", "done"}
  /\ x.name = call.kind.name /\ x.about = call.about
  /\ x.at \in Nat /\ x.at >= call.at

\* A call of the helper that keeps records, and that met none of its kind.
Alone(n) == Began(n) /\ calls[n].kind.by = "raw" /\ ~Met(calls[n].kind, calls[n].about)

RecordOK(n) ==
  /\ \A x, y \in RawOf(calls[n]) : x = y
  /\ calls[n].st = "saveRaw" => RawOf(calls[n]) = {}
  /\ Decided(n) /\ calls[n].st # "saveRaw" /\ ~Unsaved(calls[n]) =>
       (\E x \in RawOf(calls[n]) : x.by = n) \/ calls[n].at + Day < clock

FarFrom(n, m) ==
  Began(m) /\ calls[m].kind = calls[n].kind /\ calls[m].about = calls[n].about
    /\ Decided(n) /\ Decided(m) /\ ~Unsaved(calls[n]) /\ ~Unsaved(calls[m])
  => Distance(calls[n], calls[m]) > Day

RawAgree ==
  /\ \A x \in raw : Began(x.by) /\ RawOK(x, calls[x.by])
  /\ \A n \in Notifiers : Alone(n) => RecordOK(n) /\ \A m \in Notifiers : m # n => FarFrom(n, m)

\* A call that left a channel without sending found what another one saved.
Passed(n, c) ==
  ( /\ calls[n].kind \in HandlerKinds
    /\ Delivers(Channels[c], calls[n].kind.task)
    /\ ~Refused(calls[n]) /\ Recipients(calls[n]) # {} )
  => \/ Tried(n, c)
     \/ \E s \in saved : /\ s.by # n /\ s.channel = Channels[c]
                         /\ s.name = calls[n].kind.name \/ s.id \in calls[n].ids

ChannelsAgree ==
  \A n \in Notifiers : calls[n].st # "idle" =>
    \A c \in {1, 2} : calls[n].st = "done" \/ calls[n].channel > c => Passed(n, c)

NotificationsInv ==
  CallsTypeOK /\ AllMeet /\ SavedAgree /\ SentAgree /\ PeriodsAgree /\ RawAgree /\ ChannelsAgree

-----------------------------------------------------------------------------
(* Notifications: the kinds, the channels and the calls. *)

\* What all kinds of NotificationHandler have in common.
HandlerKindOK(k) ==
  /\ k.id \in {"object", "fresh", "time"} /\ k.by \in {"id", "name", "interval", "none"} /\ k.one \in BOOLEAN
  /\ k.by = "id" => k.id = "object" /\ k.one
  /\ k.id = "object" =>
       \/ k.task = "sendEndOfCharge" /\ k.name = "EndOfCharge"
       \/ k.task = "sendOptimalChargeReached" /\ k.name = "OptimalChargeReached"
       \/ k.task \in {"sendEndOfSession", "sendEndOfSignedSession"} /\ k.name = "EndOfSession"
       \/ k.task = "sendSessionStarted" /\ k.name = "SessionStarted"
       \/ k.task = "sendSessionNotStarted" /\ k.name = "SessionNotStarted"
       \/ k.task = "sendBillingNewInvoice" /\ k.name = "BillingNewInvoice"

LEMMA HandlerKindFacts == \A k \in HandlerKinds : HandlerKindOK(k)
<1>1. ASSUME NEW name, NEW task
      PROVE  /\ HandlerKindOK(PlainToUser(name, task)) /\ HandlerKindOK(PlainToAdmins(name, task)) /\ HandlerKindOK(NamedToAdmins(name, task))
             /\ \A one \in BOOLEAN, id \in {"fresh", "time"} : \A to, pref :
                  /\ HandlerKindOK(RarelyToAdmins(name, task, one, pref, id))
                  /\ HandlerKindOK(Kind(name, task, to, "interval", one, pref, id))
                  /\ HandlerKindOK(Kind(name, task, to, "none", one, pref, id))
  BY DEF PlainToUser, PlainToAdmins, NamedToAdmins, RarelyToAdmins, Kind, HandlerKindOK
<1>2. /\ HandlerKindOK(SendEndOfCharge) /\ HandlerKindOK(SendOptimalChargeReached) /\ HandlerKindOK(SendEndOfTransaction)
      /\ HandlerKindOK(SendEndOfSignedTransaction) /\ HandlerKindOK(SendTransactionStarted) /\ HandlerKindOK(SendTransactionNotStarted)
      /\ HandlerKindOK(SendBillingNewInvoiceNotification)
  BY DEF OnceToUser, Kind, SendEndOfCharge, SendOptimalChargeReached, SendEndOfTransaction,
         SendEndOfSignedTransaction, SendTransactionStarted, SendTransactionNotStarted,
         SendBillingNewInvoiceNotification, HandlerKindOK
<1>3. /\ HandlerKindOK(SendRequestPassword) /\ HandlerKindOK(SendUserAccountStatusChanged) /\ HandlerKindOK(SendNewRegisteredUser)
      /\ HandlerKindOK(SendAccountVerification) /\ HandlerKindOK(SendAdminAccountVerification) /\ HandlerKindOK(SendVerificationEmail)
      /\ HandlerKindOK(SendVerificationEmailUserImport) /\ HandlerKindOK(SendChargingStationStatusError)
      /\ HandlerKindOK(SendChargingStationRegistered) /\ HandlerKindOK(SendUnknownUserBadged)
  BY <1>1 DEF SendRequestPassword, SendUserAccountStatusChanged, SendNewRegisteredUser, SendAccountVerification,
              SendAdminAccountVerification, SendVerificationEmail, SendVerificationEmailUserImport,
              SendChargingStationStatusError, SendChargingStationRegistered, SendUnknownUserBadged
<1>4. /\ HandlerKindOK(SendOCPIPatchStatusesError) /\ HandlerKindOK(SendOICPPatchStatusesError) /\ HandlerKindOK(SendOICPPatchError)
      /\ HandlerKindOK(SendUserAccountInactivity) /\ HandlerKindOK(SendPreparingTransactionNotStarted)
      /\ HandlerKindOK(SendOfflineChargingStations) /\ HandlerKindOK(SendBillingSynchronizationFailed)
  BY <1>1 DEF SendOCPIPatchStatusesError, SendOICPPatchStatusesError, SendOICPPatchError,
              SendUserAccountInactivity, SendPreparingTransactionNotStarted, SendOfflineChargingStations,
              SendBillingSynchronizationFailed
<1>5. /\ HandlerKindOK(SendBillingInvoicesSynchronizationFailed) /\ HandlerKindOK(SendBillingPeriodicOperationFailed)
      /\ HandlerKindOK(SendCarsSynchronizationFailed) /\ HandlerKindOK(SendComputeAndApplyChargingProfilesFailed)
      /\ HandlerKindOK(SendEndUserErrorNotification) /\ HandlerKindOK(SendBillingAccountCreationLink)
      /\ HandlerKindOK(SendBillingAccountActivationNotification)
  BY <1>1 DEF SendBillingInvoicesSynchronizationFailed, SendBillingPeriodicOperationFailed,
              SendCarsSynchronizationFailed, SendComputeAndApplyChargingProfilesFailed,
              SendEndUserErrorNotification, SendBillingAccountCreationLink,
              SendBillingAccountActivationNotification
<1> QED BY <1>2, <1>3, <1>4, <1>5 DEF HandlerKinds

LEMMA HelperKindFacts ==
  /\ \A k \in HelperKinds : k.id = "none" /\ k.by \in {"none", "raw"} /\ k.one /\ k.pref = "before"
  /\ \A j, k \in HelperKinds : j.by = "raw" /\ k.by = "raw" /\ j.name = k.name => j = k
<1>1. \A k \in HelperKinds : k.id = "none" /\ k.by \in {"none", "raw"} /\ k.one /\ k.pref = "before"
  BY DEF HelperKinds, NotifyStartTransaction, NotifyEndOfCharge, NotifyOptimalChargeReached,
         NotifyStopTransaction, NotifySignedSession, NotifyChargingStationRegistered, Helper, Kind
<1>2. \A k \in HelperKinds : k.by = "raw" =>
        \/ k = NotifyEndOfCharge /\ k.name = "EndOfCharge"
        \/ k = NotifyOptimalChargeReached /\ k.name = "OptimalChargeReached"
        \/ k = NotifyStopTransaction /\ k.name = "EndOfSession"
  BY DEF HelperKinds, NotifyStartTransaction, NotifyEndOfCharge, NotifyOptimalChargeReached,
         NotifyStopTransaction, NotifySignedSession, NotifyChargingStationRegistered, Helper, Kind
<1>3. \A j, k \in HelperKinds : j.by = "raw" /\ k.by = "raw" /\ j.name = k.name => j = k
  BY <1>2
<1> QED BY <1>1, <1>3

\* A kind is of one of the two, and the tasks of the identified ones name them.
LEMMA KindFacts ==
  /\ \A k \in Kinds : k \in HandlerKinds <=> k \notin HelperKinds
  /\ \A k \in Kinds : k.by \in {"id", "interval"} => k \in HandlerKinds
  /\ \A j, k \in HandlerKinds : j.id = "object" /\ k.id = "object" /\ j.task = k.task => j.name = k.name
<1>1. \A k \in Kinds : k \in HandlerKinds <=> k \notin HelperKinds
  BY HandlerKindFacts, HelperKindFacts DEF Kinds, HandlerKindOK
<1>2. \A k \in Kinds : k.by \in {"id", "interval"} => k \in HandlerKinds
  BY HelperKindFacts DEF Kinds
<1>3. \A j, k \in HandlerKinds : j.id = "object" /\ k.id = "object" /\ j.task = k.task => j.name = k.name
  BY HandlerKindFacts DEF HandlerKindOK
<1> QED BY <1>1, <1>2, <1>3

LEMMA ChannelFacts ==
  Channels[1] = "email" /\ Channels[2] = "push" /\ DOMAIN Channels = {1, 2} /\ Len(Channels) = 2
<1>1. Channels \in Seq({"email", "push"}) /\ Len(Channels) = 2 /\ Channels[1] = "email" /\ Channels[2] = "push"
  BY DEF Channels
<1>2. DOMAIN Channels = 1..2
  BY <1>1
<1> QED BY <1>1, <1>2

LEMMA NextChannelFacts ==
  ASSUME NEW call \in Call
  PROVE  LET new == NextChannel(call)
         IN  /\ new \in Call /\ new.kind = call.kind /\ new.about = call.about
             /\ new.at = call.at /\ new.ids = call.ids
             /\ \/ call.channel = 1 /\ new.channel = 2 /\ new.st = "lookup"
                \/ call.channel = 2 /\ new.channel = 2 /\ new.st = "done"
<1>1. call.channel \in {1, 2}
  BY DEF Call
<1>2. PICK new : new = NextChannel(call)
  OBVIOUS
<1>3. CASE call.channel = 1
  <2>1. new = [call EXCEPT !.st = "lookup", !.channel = 1 + 1]
    BY <1>2, <1>3, ChannelFacts DEF NextChannel
  <2>2. 1 + 1 = 2
    OBVIOUS
  <2>3. /\ new \in Call /\ new.kind = call.kind /\ new.about = call.about
        /\ new.at = call.at /\ new.ids = call.ids /\ new.channel = 2 /\ new.st = "lookup"
    BY <2>1, <2>2 DEF Call
  <2> QED BY <1>2, <1>3, <2>3
<1>4. CASE call.channel = 2
  <2>1. new = [call EXCEPT !.st = "done"]
    BY <1>2, <1>4, ChannelFacts DEF NextChannel
  <2>2. /\ new \in Call /\ new.kind = call.kind /\ new.about = call.about
        /\ new.at = call.at /\ new.ids = call.ids /\ new.channel = 2 /\ new.st = "done"
    BY <1>4, <2>1 DEF Call
  <2> QED BY <1>2, <1>4, <2>2
<1> QED BY <1>1, <1>3, <1>4

LEMMA CallShape ==
  ASSUME CallsTypeOK, NEW n \in Notifiers
  PROVE  /\ calls[n].st = "idle" => calls[n] = Idle
         /\ calls[n].st # "idle" =>
              /\ calls[n] \in Call /\ calls[n].kind \in Kinds /\ calls[n].about \in Abouts
              /\ calls[n].channel \in {1, 2} /\ calls[n].at \in Nat /\ calls[n].ids \subseteq Identifiers
<1>1. calls[n] \in Call \cup {Idle}
  BY DEF CallsTypeOK
<1>2. Idle.st = "idle"
  BY DEF Idle
<1>3. \A call \in Call :
        /\ call.st # "idle" /\ call.kind \in Kinds /\ call.about \in Abouts
        /\ call.channel \in {1, 2} /\ call.at \in Nat /\ call.ids \subseteq Identifiers
  BY DEF Call
<1> QED BY <1>1, <1>2, <1>3

-----------------------------------------------------------------------------
(* Notifications: what a step of another call leaves true. *)

\* What is saved, sent and met stays so, and the time does not run back.
Grows ==
  /\ saved \subseteq saved' /\ sent \subseteq sent' /\ overlaps \subseteq overlaps'
  /\ clock' \in Nat /\ clock' >= clock
  /\ up' = up /\ wants' = wants

\* A call that has begun goes on with what it is about, channel by channel.
GoesOn(call, next) ==
  /\ next.st # "idle" /\ next.kind = call.kind /\ next.about = call.about
  /\ call.ids \subseteq next.ids
  /\ \A c \in {1, 2} : Left(call, c) => Left(next, c)
  /\ call.st = "done" => next = call

Follows == \A m \in Notifiers : calls[m].st # "idle" => GoesOn(calls[m], calls'[m])

LEMMA GoesOnSelf ==
  ASSUME NEW call, call.st # "idle"
  PROVE  GoesOn(call, call)
BY DEF GoesOn

\* A call on its own.
LEMMA OneCall ==
  ASSUME CallsTypeOK, NEW n \in Notifiers, NEW new \in Call, calls' = [calls EXCEPT ![n] = new],
         calls[n].st # "idle" => GoesOn(calls[n], new)
  PROVE  /\ calls' \in [Notifiers -> Call \cup {Idle}]
         /\ calls'[n] = new /\ \A m \in Notifiers : m # n => calls'[m] = calls[m]
         /\ Follows
<1>1. calls \in [Notifiers -> Call \cup {Idle}]
  BY DEF CallsTypeOK
<1>2. /\ calls' \in [Notifiers -> Call \cup {Idle}]
      /\ calls'[n] = new /\ \A m \in Notifiers : m # n => calls'[m] = calls[m]
  BY <1>1
<1>3. Follows
  <2> SUFFICES ASSUME NEW m \in Notifiers, calls[m].st # "idle" PROVE GoesOn(calls[m], calls'[m])
    BY DEF Follows
  <2> QED BY <1>2, GoesOnSelf
<1> QED BY <1>2, <1>3

LEMMA AllMeetStays ==
  ASSUME AllMeet, Follows, overlaps' = overlaps,
         \A m \in Notifiers : calls'[m].st \notin {"idle", "done"} => calls[m].st \notin {"idle", "done"}
  PROVE  AllMeet'
<1>1. \A n \in Notifiers : Active(n)' => Active(n)
  BY DEF Active
<1>2. \A n : Began(n) => Began(n)'
  BY DEF Began, Follows, GoesOn
<1> QED BY <1>1, <1>2 DEF AllMeet

\* What is saved stays of its call.
LEMMA SavedStays ==
  ASSUME CallsTypeOK, NEW s, Began(s.by), SavedOK(s, calls[s.by]), Grows, Follows,
         \A c \in {1, 2} : calls[s.by].channel = c /\ calls[s.by].st = "send" =>
           \/ Tried(s.by, c)'
           \/ calls'[s.by] = calls[s.by]
           \/ Recipients(calls[s.by]) = {}
           \/ ~Delivers(Channels[c], calls[s.by].kind.task)
  PROVE  Began(s.by)' /\ SavedOK(s, calls[s.by])'
<1>1. PICK call : call = calls[s.by]
  OBVIOUS
<1>2. PICK next : next = calls'[s.by]
  OBVIOUS
<1>3. s.by \in Notifiers /\ call.st # "idle" /\ GoesOn(call, next)
  BY <1>1, <1>2 DEF Began, Follows
<1>4. Began(s.by)'
  BY <1>2, <1>3 DEF Began, GoesOn
<1>5. SavedOK(s, call)
  BY <1>1
<1>6. next.kind = call.kind /\ next.about = call.about /\ \A c \in {1, 2} : Left(call, c) => Left(next, c)
  BY <1>3 DEF GoesOn
<1>7. s.at <= clock'
  <2>1. s.at \in Nat /\ s.at <= clock /\ clock \in Nat /\ clock' \in Nat /\ clock' >= clock
    BY <1>5 DEF SavedOK, CallsTypeOK, Grows
  <2> QED BY <2>1
<1>8. PICK c \in {1, 2} :
        /\ s.channel = Channels[c] /\ Left(call, c)
        /\ \/ Tried(s.by, c)
           \/ call.channel = c /\ call.st = "send"
           \/ Recipients(call) = {}
           \/ ~Delivers(Channels[c], call.kind.task)
  BY <1>5 DEF SavedOK
<1>9. Tried(s.by, c) => Tried(s.by, c)'
  BY DEF Tried, Grows
<1>10. Recipients(call) = {} => Recipients(calls[s.by])' = {}
  BY <1>2, <1>6 DEF Recipients, GetAdminUsers, Grows
<1>11. ~Delivers(Channels[c], call.kind.task) => ~Delivers(Channels[c], calls[s.by].kind.task)'
  BY <1>2, <1>6 DEF Delivers, SendEmail, SendRemotePushNotificationToUser, Grows
<1>12. \/ Tried(s.by, c)'
       \/ calls'[s.by].channel = c /\ calls'[s.by].st = "send"
       \/ Recipients(calls[s.by])' = {}
       \/ ~Delivers(Channels[c], calls[s.by].kind.task)'
  BY <1>1, <1>2, <1>8, <1>9, <1>10, <1>11
<1>13. ObjectID(calls[s.by])' = ObjectID(call)
  BY <1>2, <1>6 DEF ObjectID
<1>14. Left(calls[s.by], c)'
  BY <1>2, <1>6, <1>8 DEF Left
<1>15. s.id[1] = call.kind.id /\ (call.kind.id = "object" => s.id = ObjectID(call))
       /\ s.name = call.kind.name /\ (call.kind.one => s.about = call.about)
       /\ s.at \in Nat /\ call.kind \in HandlerKinds
  BY <1>5 DEF SavedOK
<1>16. calls'[s.by].kind = call.kind /\ calls'[s.by].about = call.about
  BY <1>2, <1>6
<1>17. SavedOK(s, calls[s.by])'
  BY <1>7, <1>8, <1>12, <1>13, <1>14, <1>15, <1>16 DEF SavedOK
<1> QED BY <1>4, <1>17

LEMMA SavedAgreeStays ==
  ASSUME CallsTypeOK, SavedAgree, Grows, Follows, saved' = saved,
         \A m \in Notifiers, c \in {1, 2} : calls[m].st = "send" /\ calls[m].channel = c =>
           \/ Tried(m, c)'
           \/ calls'[m] = calls[m]
           \/ Recipients(calls[m]) = {}
           \/ ~Delivers(Channels[c], calls[m].kind.task)
  PROVE  SavedAgree'
<1>1. ASSUME NEW s \in saved PROVE Began(s.by)' /\ SavedOK(s, calls[s.by])'
  <2>1. Began(s.by) /\ SavedOK(s, calls[s.by]) /\ s.by \in Notifiers
    BY DEF SavedAgree, Began
  <2>2. ASSUME NEW c \in {1, 2}, calls[s.by].channel = c, calls[s.by].st = "send"
        PROVE  \/ Tried(s.by, c)'
               \/ calls'[s.by] = calls[s.by]
               \/ Recipients(calls[s.by]) = {}
               \/ ~Delivers(Channels[c], calls[s.by].kind.task)
    BY <2>1, <2>2
  <2> QED BY <2>1, <2>2, SavedStays
<1> QED BY <1>1 DEF SavedAgree

LEMMA SentStays ==
  ASSUME NEW d, Began(d.by), SentOK(d, calls[d.by]), Grows, Follows
  PROVE  Began(d.by)' /\ SentOK(d, calls[d.by])'
<1>1. d.by \in Notifiers /\ GoesOn(calls[d.by], calls'[d.by])
  BY DEF Began, Follows
<1> QED BY <1>1 DEF Began, SentOK, GoesOn, Grows

LEMMA SentAgreeStays ==
  ASSUME SentAgree, Grows, Follows, sent' = sent,
         \A n \in Notifiers : calls'[n].st = "send" => calls'[n] = calls[n]
  PROVE  SentAgree'
<1>1. \A d \in sent' : Began(d.by)' /\ SentOK(d, calls[d.by])'
  BY SentStays DEF SentAgree
<1>2. ASSUME NEW n \in Notifiers, calls'[n].st = "send"
      PROVE  \E s \in saved' : s.by = n /\ s.channel = Channels[calls'[n].channel] /\ s.at = calls'[n].at
  <2>1. calls'[n] = calls[n]
    BY <1>2
  <2>2. PICK s \in saved : s.by = n /\ s.channel = Channels[calls[n].channel] /\ s.at = calls[n].at
    BY <1>2, <2>1 DEF SentAgree
  <2> QED BY <2>1, <2>2 DEF Grows
<1> QED BY <1>1, <1>2 DEF SentAgree

LEMMA PeriodsStay ==
  ASSUME CallsTypeOK, SavedAgree, PeriodsAgree, Grows, Follows, saved' = saved,
         \A n \in Notifiers : calls'[n].st = "save" => calls'[n] = calls[n] \/ Open(n)'
  PROVE  PeriodsAgree'
<1>1. \A s \in saved : /\ calls'[s.by].kind = calls[s.by].kind /\ calls'[s.by].about = calls[s.by].about
                       /\ s.at \in Nat /\ s.by \in Notifiers
  BY DEF SavedAgree, Began, SavedOK, Follows, GoesOn
<1>2. ASSUME NEW n \in Notifiers, calls'[n].st = "save" PROVE Open(n)'
  <2> SUFFICES ASSUME calls'[n] = calls[n] PROVE Open(n)'
    BY <1>2
  <2>1. Open(n)
    BY <1>2 DEF PeriodsAgree
  <2>2. \A s \in saved : s.at + Interval < clock => s.at + Interval < clock'
    BY <1>1, PeriodsAssumption DEF Grows, CallsTypeOK
  <2> QED BY <1>1, <2>1, <2>2 DEF Open, Alike, Grows
<1>3. ASSUME NEW s \in saved, NEW t \in saved,
             s.by # t.by, Alike(calls[s.by], calls[t.by])', calls'[s.by].kind.by = "interval", s.channel = t.channel
      PROVE  Distance(s, t) > Interval \/ {s.by, t.by} \in overlaps'
  <2>1. Alike(calls[s.by], calls[t.by]) /\ calls[s.by].kind.by = "interval"
    BY <1>1, <1>3 DEF Alike
  <2> QED BY <1>3, <2>1 DEF PeriodsAgree, Grows
<1> QED BY <1>2, <1>3 DEF PeriodsAgree

\* What the calls of NotificationHandler leave to those of the helper.
LEMMA MetStays ==
  ASSUME AllMeet, Grows, Follows, NEW kind, NEW about, Met(kind, about)
  PROVE  Met(kind, about)'
<1>1. PICK o \in overlaps : \A n \in o : calls[n].kind = kind /\ calls[n].about = about
  BY DEF Met
<1>2. \A n \in o : calls'[n].kind = kind /\ calls'[n].about = about
  BY <1>1 DEF AllMeet, Began, Follows, GoesOn
<1> QED BY <1>1, <1>2 DEF Met, Grows

LEMMA HandlersLeaveRaw ==
  ASSUME CallsTypeOK, AllMeet, RawAgree, Grows, Follows, raw' = raw, clock' = clock,
         \A m \in Notifiers : calls'[m] = calls[m] \/ calls'[m].kind \in HandlerKinds,
         \A d \in sent' : d \in sent \/ calls'[d.by].kind \in HandlerKinds
  PROVE  RawAgree'
<1>1. \A k \in HandlerKinds : k.by # "raw" /\ k \notin HelperKinds
  BY HandlerKindFacts, KindFacts DEF HandlerKindOK, Kinds
<1>2. ASSUME NEW x \in raw PROVE Began(x.by)' /\ RawOK(x, calls[x.by])'
  <2>1. Began(x.by) /\ RawOK(x, calls[x.by]) /\ x.by \in Notifiers /\ calls[x.by].st # "idle"
    BY DEF RawAgree, Began
  <2>2. calls'[x.by].kind = calls[x.by].kind
    BY <2>1 DEF Follows, GoesOn
  <2>3. calls'[x.by] = calls[x.by]
    BY <1>1, <2>1, <2>2 DEF RawOK
  <2> QED BY <2>1, <2>3 DEF Began, RawOK
<1>3. ASSUME NEW n \in Notifiers, Alone(n)'
      PROVE  RecordOK(n)' /\ \A m \in Notifiers : m # n => FarFrom(n, m)'
  <2>1. calls'[n] = calls[n] /\ calls[n].kind.by = "raw" /\ calls[n].kind \notin HandlerKinds
    BY <1>1, <1>3 DEF Alone
  <2>2. Alone(n)
    <3>1. ~Met(calls[n].kind, calls[n].about)
      <4> SUFFICES ASSUME Met(calls[n].kind, calls[n].about) PROVE FALSE
        OBVIOUS
      <4>1. PICK k, a : k = calls[n].kind /\ a = calls[n].about
        OBVIOUS
      <4>2. Met(k, a)'
        BY <4>1, MetStays
      <4> QED BY <1>3, <2>1, <4>1, <4>2 DEF Alone, Met
    <3> QED BY <1>3, <2>1, <3>1 DEF Alone, Began
  <2>3. RecordOK(n) /\ \A m \in Notifiers : m # n => FarFrom(n, m)
    BY <2>2 DEF RawAgree
  <2>4. \A m \in Notifiers : calls'[m].kind = calls[n].kind => calls'[m] = calls[m]
    BY <2>1
  <2>5. \A m \in Notifiers : calls'[m].kind = calls[n].kind /\ Decided(m)' => Decided(m)
    BY <2>1, <2>4 DEF Decided
  <2>6. RecordOK(n)'
    BY <2>1, <2>3, <2>5 DEF RecordOK, RawOf, Unsaved
  <2>7. ASSUME NEW m \in Notifiers, m # n PROVE FarFrom(n, m)'
    BY <2>1, <2>3, <2>4, <2>5, <2>7 DEF FarFrom, Began, Unsaved, Distance
  <2> QED BY <2>6, <2>7
<1> QED BY <1>2, <1>3 DEF RawAgree

\* The channels that were left.
LEMMA PassedStays ==
  ASSUME Grows, NEW n \in Notifiers, NEW c \in {1, 2}, GoesOn(calls[n], calls'[n]), Passed(n, c)
  PROVE  Passed(n, c)'
<1>1. calls'[n].kind = calls[n].kind /\ calls'[n].about = calls[n].about /\ calls[n].ids \subseteq calls'[n].ids
  BY DEF GoesOn
<1>2. Recipients(calls[n])' = Recipients(calls[n])
  BY <1>1 DEF Recipients, GetAdminUsers, Grows
<1>3. Refused(calls[n])' <=> Refused(calls[n])
  BY <1>1 DEF Refused, Grows
<1>4. Delivers(Channels[c], calls[n].kind.task)' <=> Delivers(Channels[c], calls[n].kind.task)
  BY <1>1 DEF Delivers, SendEmail, SendRemotePushNotificationToUser, Grows
<1>5. Tried(n, c) => Tried(n, c)'
  BY DEF Tried, Grows
<1> QED BY <1>1, <1>2, <1>3, <1>4, <1>5 DEF Passed, Grows

LEMMA ChannelsStay ==
  ASSUME ChannelsAgree, Grows, Follows,
         \A n \in Notifiers : \A c \in {1, 2} :
           calls'[n].st # "idle" /\ (calls'[n].st = "done" \/ calls'[n].channel > c) =>
             \/ calls[n].st # "idle" /\ (calls[n].st = "done" \/ calls[n].channel > c)
             \/ Passed(n, c)'
  PROVE  ChannelsAgree'
<1>1. ASSUME NEW n \in Notifiers, NEW c \in {1, 2},
             calls'[n].st # "idle", calls'[n].st = "done" \/ calls'[n].channel > c
      PROVE  Passed(n, c)'
  <2> SUFFICES ASSUME calls[n].st # "idle", calls[n].st = "done" \/ calls[n].channel > c
               PROVE  Passed(n, c)'
    BY <1>1
  <2>1. Passed(n, c)
    BY DEF ChannelsAgree
  <2> QED BY <2>1, PassedStays DEF Follows
<1> QED BY <1>1 DEF ChannelsAgree

LEMMA TypeStays ==
  ASSUME CallsTypeOK, NEW n \in Notifiers, NEW new \in Call, calls' = [calls EXCEPT ![n] = new],
         CallOK(new), clock' = clock
  PROVE  CallsTypeOK'
<1>1. /\ calls' \in [Notifiers -> Call \cup {Idle}]
      /\ calls'[n] = new /\ \A m \in Notifiers : m # n => calls'[m] = calls[m]
  BY DEF CallsTypeOK
<1>2. \A m \in Notifiers : CallOK(calls[m])'
  BY <1>1 DEF CallsTypeOK, CallOK
<1>3. clock' \in Nat
  BY DEF CallsTypeOK
<1> QED BY <1>1, <1>2, <1>3 DEF CallsTypeOK

-----------------------------------------------------------------------------
(* Notifications: the steps. *)

LEMMA TickNotifications ==
  ASSUME NotificationsInv, Tick
  PROVE  NotificationsInv'
<1>1. /\ CallsTypeOK /\ AllMeet /\ SavedAgree /\ SentAgree /\ PeriodsAgree /\ RawAgree /\ ChannelsAgree
      /\ clock \in Nat /\ clock' = clock + 1 /\ raw' = {x \in raw : x.at + Day >= clock'}
      /\ UNCHANGED <<up, topic, wants, saved, calls, sent, overlaps>>
  BY DEF NotificationsInv, Tick, CallsTypeOK
<1>2. clock' \in Nat /\ clock' > clock
  BY <1>1
<1>3. Grows /\ Follows
  BY <1>1, <1>2, GoesOnSelf DEF Grows, Follows
<1>4. CallsTypeOK'
  <2>1. \A n \in Notifiers : calls[n].st # "idle" => calls[n].at \in Nat
    BY <1>1, CallShape
  <2>2. \A n \in Notifiers : CallOK(calls[n])'
    BY <1>1, <1>2, <2>1 DEF CallsTypeOK, CallOK
  <2> QED BY <1>1, <1>2, <2>2 DEF CallsTypeOK
<1>5. AllMeet'
  BY <1>1, <1>3, AllMeetStays
<1>6. SavedAgree' /\ SentAgree'
  BY <1>1, <1>3, SavedAgreeStays, SentAgreeStays
<1>7. PeriodsAgree'
  BY <1>1, <1>3, PeriodsStay
<1>8. ChannelsAgree'
  BY <1>1, <1>3, ChannelsStay
<1>9. RawAgree'
  <2>1. ASSUME NEW x \in raw' PROVE Began(x.by)' /\ RawOK(x, calls[x.by])'
    <3>1. x \in raw
      BY <1>1
    <3> QED BY <1>1, <3>1 DEF RawAgree, Began, RawOK
  <2>2. ASSUME NEW n \in Notifiers, Alone(n)'
        PROVE  RecordOK(n)' /\ \A m \in Notifiers : m # n => FarFrom(n, m)'
    <3>1. Alone(n)
      BY <1>1, <2>2 DEF Alone, Began, Met
    <3>2. RecordOK(n) /\ \A m \in Notifiers : m # n => FarFrom(n, m)
      BY <1>1, <3>1 DEF RawAgree
    <3>3. RawOf(calls[n])' \subseteq RawOf(calls[n])
      BY <1>1 DEF RawOf
    <3>4. \A m \in Notifiers : Decided(m)' <=> Decided(m)
      BY <1>1 DEF Decided
    <3>5. \A m \in Notifiers : m # n => FarFrom(n, m)'
      BY <1>1, <3>2, <3>4 DEF FarFrom, Began, Unsaved, Distance
    <3>6. ASSUME Decided(n), calls[n].st # "saveRaw", ~Unsaved(calls[n])
          PROVE  (\E x \in RawOf(calls[n])' : x.by = n) \/ calls[n].at + Day < clock'
      <4>1. calls[n].at \in Nat
        BY <1>1, <3>1, CallShape DEF Alone, Began
      <4>2. CASE calls[n].at + Day < clock
        BY <1>1, <1>2, <4>1, <4>2, PeriodsAssumption
      <4>3. CASE \E x \in RawOf(calls[n]) : x.by = n
        <5>1. PICK x \in RawOf(calls[n]) : x.by = n
          BY <4>3
        <5>2. x \in raw /\ x.at \in Nat /\ x.at >= calls[n].at
          BY <1>1, <5>1 DEF RawOf, RawAgree, RawOK
        <5>3. CASE x.at + Day >= clock'
          BY <1>1, <5>1, <5>2, <5>3 DEF RawOf
        <5>4. CASE ~ (x.at + Day >= clock')
          BY <1>1, <1>2, <4>1, <5>2, <5>4, PeriodsAssumption
        <5> QED BY <5>3, <5>4
      <4> QED BY <3>2, <3>6, <4>2, <4>3 DEF RecordOK
    <3>7. RecordOK(n)'
      BY <1>1, <3>2, <3>3, <3>4, <3>6 DEF RecordOK, Unsaved
    <3> QED BY <3>5, <3>7
  <2> QED BY <2>1, <2>2 DEF RawAgree
<1> QED BY <1>4, <1>5, <1>6, <1>7, <1>8, <1>9 DEF NotificationsInv

\* A record of the helper is of a call for the same notification.
LEMMA RecordsOfTwins ==
  ASSUME CallsTypeOK, RawAgree, NEW call \in Call, call.kind.by = "raw", NEW x \in RawOf(call)
  PROVE  /\ x \in raw /\ Began(x.by) /\ x.by \in Notifiers
         /\ calls[x.by].kind = call.kind /\ calls[x.by].about = call.about
         /\ calls[x.by].st \in {"notify", "done"} /\ RawOf(call) = RawOf(calls[x.by])
<1>1. x \in raw /\ x.name = call.kind.name /\ x.about = call.about
  BY DEF RawOf
<1>2. /\ Began(x.by) /\ x.by \in Notifiers /\ calls[x.by].kind \in HelperKinds /\ calls[x.by].kind.by = "raw"
      /\ calls[x.by].kind.name = call.kind.name /\ calls[x.by].about = call.about
      /\ calls[x.by].st \in {"notify", "done"}
  BY <1>1 DEF RawAgree, RawOK, Began
<1>3. call.kind \in HelperKinds
  BY HandlerKindFacts DEF HandlerKindOK, Kinds, Call
<1>4. calls[x.by].kind = call.kind
  BY <1>2, <1>3, HelperKindFacts
<1> QED BY <1>1, <1>2, <1>4 DEF RawOf

LEMMA StartFacts ==
  ASSUME CallsTypeOK, NEW n, Start(n)
  PROVE  /\ calls[n].st = "idle"
         /\ UNCHANGED <<up, clock, topic, wants, saved, raw, sent>>
         /\ \E new \in Call :
              /\ calls' = [calls EXCEPT ![n] = new] /\ CallOK(new)
              /\ new.st \in {"timer", "lookup", "done"} /\ new.channel = 1
              /\ new.st = "done" =>
                   /\ overlaps' = overlaps
                   /\ new.kind \in HelperKinds \/ Recipients(new) = {}
              /\ new.st # "done" => overlaps' = overlaps \cup {{n, m} : m \in {m \in Notifiers : Active(m)}}
<1>1. PICK kind \in Kinds, about \in Abouts :
        LET call == [st |-> IF kind \in HelperKinds THEN "timer" ELSE "lookup", kind |-> kind,
                     about |-> about, channel |-> 1, at |-> 0, ids |-> {}]
            silent == \/ kind.to = "admins" /\ kind \in HandlerKinds /\ GetAdminUsers(kind) = {}
                      \/ kind \in HelperKinds /\ Refused(call)
        IN  /\ calls' = [calls EXCEPT ![n] = IF silent THEN [call EXCEPT !.st = "done"] ELSE call]
            /\ overlaps' = IF silent THEN overlaps
                           ELSE overlaps \cup {{n, m} : m \in {m \in Notifiers : Active(m)}}
  <2>1. SendEndUserErrorNotification \in Kinds
    BY DEF Kinds, HandlerKinds
  <2> QED BY <2>1 DEF Start
<1>2. PICK call : call = [st |-> IF kind \in HelperKinds THEN "timer" ELSE "lookup", kind |-> kind,
                          about |-> about, channel |-> 1, at |-> 0, ids |-> {}]
  OBVIOUS
<1>3. /\ call \in Call /\ call.kind = kind /\ call.about = about /\ call.at = 0 /\ call.ids = {}
      /\ call.channel = 1
      /\ IF kind \in HelperKinds THEN call.st = "timer" ELSE call.st = "lookup"
  <2>1. PICK st : st = IF kind \in HelperKinds THEN "timer" ELSE "lookup"
    OBVIOUS
  <2>2. st \in {"timer", "lookup"} /\ call = [st |-> st, kind |-> kind, about |-> about, channel |-> 1, at |-> 0, ids |-> {}]
    BY <1>2, <2>1
  <2>3. call \in Call /\ call.kind = kind /\ call.about = about /\ call.at = 0 /\ call.ids = {}
        /\ call.channel = 1 /\ call.st = st
    BY <2>2 DEF Call
  <2> QED BY <2>1, <2>3
<1>4. PICK done : done = [call EXCEPT !.st = "done"]
  OBVIOUS
<1>5. /\ done \in Call /\ done.st = "done" /\ done.kind = kind /\ done.about = about /\ done.at = 0
      /\ done.channel = 1
  BY <1>3, <1>4 DEF Call
<1>6. kind \in HandlerKinds <=> kind \notin HelperKinds
  BY KindFacts
<1>7. clock \in Nat
  BY DEF CallsTypeOK
<1>8. CallOK(call) /\ CallOK(done)
  BY <1>3, <1>5, <1>6, <1>7 DEF CallOK
<1>9. calls[n].st = "idle" /\ UNCHANGED <<up, clock, topic, wants, saved, raw, sent>>
  BY DEF Start
<1>10. CASE calls' = [calls EXCEPT ![n] = call]
            /\ overlaps' = overlaps \cup {{n, m} : m \in {m \in Notifiers : Active(m)}}
  BY <1>3, <1>8, <1>9, <1>10
<1>11. CASE /\ calls' = [calls EXCEPT ![n] = done] /\ overlaps' = overlaps
            /\ \/ kind.to = "admins" /\ kind \in HandlerKinds /\ GetAdminUsers(kind) = {}
               \/ kind \in HelperKinds /\ Refused(call)
  <2>1. kind \in HelperKinds \/ Recipients(done) = {}
    BY <1>5, <1>11 DEF Recipients
  <2> QED BY <1>5, <1>8, <1>9, <1>11, <2>1
<1> QED BY <1>1, <1>2, <1>4, <1>10, <1>11

LEMMA StartStep ==
  ASSUME NotificationsInv, NEW n \in Notifiers, Start(n)
  PROVE  NotificationsInv'
<1>1. /\ CallsTypeOK /\ AllMeet /\ SavedAgree /\ SentAgree /\ PeriodsAgree /\ RawAgree /\ ChannelsAgree
      /\ calls[n].st = "idle" /\ clock \in Nat
      /\ UNCHANGED <<up, clock, topic, wants, saved, raw, sent>>
  BY StartFacts DEF NotificationsInv, CallsTypeOK
<1>2. PICK new \in Call :
              /\ calls' = [calls EXCEPT ![n] = new] /\ CallOK(new)
              /\ new.st \in {"timer", "lookup", "done"} /\ new.channel = 1
              /\ new.st = "done" =>
                   /\ overlaps' = overlaps
                   /\ new.kind \in HelperKinds \/ Recipients(new) = {}
              /\ new.st # "done" => overlaps' = overlaps \cup {{n, m} : m \in {m \in Notifiers : Active(m)}}
  BY <1>1, StartFacts
<1>3. /\ calls' \in [Notifiers -> Call \cup {Idle}]
      /\ calls'[n] = new /\ \A m \in Notifiers : m # n => calls'[m] = calls[m]
      /\ Follows
  BY <1>1, <1>2, OneCall
<1>4. overlaps \subseteq overlaps'
  BY <1>2
<1>5. Grows
  BY <1>1, <1>4 DEF Grows
<1>6. CallsTypeOK'
  BY <1>1, <1>2, TypeStays
<1>7. AllMeet'
  <2>1. \A m : Began(m) => Began(m)'
    BY <1>3 DEF Began, Follows, GoesOn
  <2>2. Began(n)'
    BY <1>2, <1>3 DEF Began
  <2>3. ASSUME NEW o \in overlaps', NEW m \in o PROVE Began(m)'
    <3>1. CASE o \in overlaps
      BY <1>1, <2>1, <2>3, <3>1 DEF AllMeet
    <3>2. CASE o \notin overlaps
      <4>1. PICK k \in Notifiers : Active(k) /\ o = {n, k}
        BY <1>2, <2>3, <3>2
      <4>2. Began(k)
        BY <4>1 DEF Began, Active
      <4> QED BY <2>1, <2>2, <2>3, <4>1, <4>2
    <3> QED BY <3>1, <3>2
  <2>4. ASSUME NEW k \in Notifiers, NEW m \in Notifiers, k # m, Active(k)', Active(m)'
        PROVE  {k, m} \in overlaps'
    <3>1. CASE k # n /\ m # n
      BY <1>1, <1>3, <1>4, <2>4, <3>1 DEF AllMeet, Active
    <3>2. ASSUME NEW j \in Notifiers, j # n, Active(j)', Active(n)' PROVE {n, j} \in overlaps'
      BY <1>2, <1>3, <3>2 DEF Active
    <3>3. {k, m} = {m, k}
      OBVIOUS
    <3> QED BY <2>4, <3>1, <3>2, <3>3
  <2> QED BY <2>3, <2>4 DEF AllMeet
<1>8. SavedAgree'
  <2>1. \A m \in Notifiers : calls[m].st = "send" => calls'[m] = calls[m]
    BY <1>1, <1>3
  <2> QED BY <1>1, <1>3, <1>5, <2>1, SavedAgreeStays
<1>9. SentAgree'
  <2>1. \A m \in Notifiers : calls'[m].st = "send" => calls'[m] = calls[m]
    BY <1>2, <1>3
  <2> QED BY <1>1, <1>3, <1>5, <2>1, SentAgreeStays
<1>10. PeriodsAgree'
  <2>1. \A m \in Notifiers : calls'[m].st = "save" => calls'[m] = calls[m]
    BY <1>2, <1>3
  <2> QED BY <1>1, <1>3, <1>5, <2>1, PeriodsStay
<1>11. ChannelsAgree'
  <2>1. ASSUME new.st = "done", NEW c \in {1, 2} PROVE Passed(n, c)'
    <3>1. CASE new.kind \in HelperKinds
      <4>1. new.kind \notin HandlerKinds
        BY <3>1, KindFacts DEF Call
      <4> QED BY <1>3, <4>1 DEF Passed
    <3>2. CASE Recipients(new) = {}
      <4>1. Recipients(calls[n])' = {}
        BY <1>1, <1>3, <3>2 DEF Recipients, GetAdminUsers
      <4> QED BY <4>1 DEF Passed
    <3> QED BY <1>2, <2>1, <3>1, <3>2
  <2>2. \A m \in Notifiers : \A c \in {1, 2} :
          calls'[m].st # "idle" /\ (calls'[m].st = "done" \/ calls'[m].channel > c) =>
            \/ calls[m].st # "idle" /\ (calls[m].st = "done" \/ calls[m].channel > c)
            \/ Passed(m, c)'
    BY <1>2, <1>3, <2>1
  <2> QED BY <1>1, <1>3, <1>5, <2>2, ChannelsStay
<1>12. RawAgree'
  <2>1. ASSUME NEW x \in raw' PROVE Began(x.by)' /\ RawOK(x, calls[x.by])'
    <3>1. x \in raw /\ Began(x.by) /\ RawOK(x, calls[x.by]) /\ x.by \in Notifiers /\ x.by # n
      BY <1>1 DEF RawAgree, Began
    <3> QED BY <1>3, <3>1 DEF Began, RawOK
  <2>2. \A m \in Notifiers : (Decided(m)' <=> Decided(m)) /\ ~Decided(n)
    <3>1. ~ \E d \in sent : d.by = n
      BY <1>1 DEF SentAgree, Began
    <3>2. ~Decided(n) /\ ~Decided(n)'
      BY <1>1, <1>2, <1>3, <3>1 DEF Decided
    <3>3. \A m \in Notifiers : m # n => (Decided(m)' <=> Decided(m))
      BY <1>1, <1>3 DEF Decided
    <3> QED BY <3>2, <3>3
  <2>3. ASSUME NEW m \in Notifiers, m # n, Alone(m)'
        PROVE  Alone(m) /\ RecordOK(m) /\ \A k \in Notifiers : k # m => FarFrom(m, k)
    <3>1. PICK k, a : k = calls[m].kind /\ a = calls[m].about
      OBVIOUS
    <3>2. ~Met(k, a)
      <4> SUFFICES ASSUME Met(k, a) PROVE FALSE
        OBVIOUS
      <4>1. Met(k, a)'
        BY <1>1, <1>3, <1>5, MetStays
      <4> QED BY <1>3, <2>3, <3>1, <4>1 DEF Alone, Met
    <3>3. Alone(m)
      BY <1>3, <2>3, <3>1, <3>2 DEF Alone, Began
    <3> QED BY <1>1, <3>3 DEF RawAgree
  <2>4. ASSUME NEW m \in Notifiers, m # n, Alone(m)'
        PROVE  RecordOK(m)' /\ \A k \in Notifiers : k # m => FarFrom(m, k)'
    <3>1. RecordOK(m)'
      BY <1>1, <1>3, <2>2, <2>3, <2>4 DEF RecordOK, RawOf, Unsaved
    <3>2. ASSUME NEW k \in Notifiers, k # m PROVE FarFrom(m, k)'
      <4>1. CASE k = n
        BY <2>2, <4>1 DEF FarFrom
      <4>2. CASE k # n
        BY <1>1, <1>3, <2>2, <2>3, <2>4, <3>2, <4>2 DEF FarFrom, Began, Unsaved, Distance
      <4> QED BY <4>1, <4>2
    <3> QED BY <3>1, <3>2
  <2>5. ASSUME Alone(n)' PROVE RecordOK(n)' /\ \A k \in Notifiers : k # n => FarFrom(n, k)'
    <3>1. new.kind.by = "raw"
      BY <1>3, <2>5 DEF Alone
    <3>2. ASSUME NEW x \in RawOf(new), NEW y \in RawOf(new) PROVE x = y
      <4>1. /\ x.by \in Notifiers /\ Began(x.by) /\ calls[x.by].kind = new.kind /\ calls[x.by].about = new.about
            /\ RawOf(new) = RawOf(calls[x.by])
        BY <1>1, <3>1, RecordsOfTwins
      <4>2. PICK m : m = x.by
        OBVIOUS
      <4>3. m # n /\ calls'[m] = calls[m]
        BY <1>1, <1>3, <4>1, <4>2 DEF Began
      <4>4. Alone(m)'
        BY <1>3, <2>5, <4>1, <4>2, <4>3 DEF Alone, Began, Met
      <4>5. RecordOK(m)
        BY <2>3, <4>1, <4>2, <4>3, <4>4
      <4> QED BY <3>2, <4>1, <4>2, <4>5 DEF RecordOK
    <3>3. RawOf(calls[n])' = RawOf(new)
      BY <1>1, <1>3 DEF RawOf
    <3>4. RecordOK(n)'
      BY <1>2, <1>3, <2>2, <3>2, <3>3 DEF RecordOK
    <3>5. \A k \in Notifiers : FarFrom(n, k)'
      BY <2>2 DEF FarFrom
    <3> QED BY <3>4, <3>5
  <2> QED BY <2>1, <2>4, <2>5 DEF RawAgree
<1> QED BY <1>6, <1>7, <1>8, <1>9, <1>10, <1>11, <1>12 DEF NotificationsInv

\* A call that has not left a channel has saved nothing there.
LEMMA NothingSaved ==
  ASSUME SavedAgree, NEW n, calls[n].st \in {"lookup", "save"}, calls[n].channel \in {1, 2},
         NEW s \in saved, s.channel = Channels[calls[n].channel]
  PROVE  s.by # n
<1> SUFFICES ASSUME s.by = n PROVE FALSE
  OBVIOUS
<1>1. PICK c \in {1, 2} : s.channel = Channels[c] /\ Left(calls[n], c)
  BY DEF SavedAgree, SavedOK
<1>2. c = calls[n].channel
  BY <1>1, ChannelFacts
<1> QED BY <1>1, <1>2 DEF Left

LEMMA LookupStep ==
  ASSUME NotificationsInv, NEW n \in Notifiers, Lookup(n)
  PROVE  NotificationsInv'
<1>1. /\ CallsTypeOK /\ AllMeet /\ SavedAgree /\ SentAgree /\ PeriodsAgree /\ RawAgree /\ ChannelsAgree
      /\ calls[n].st = "lookup" /\ clock \in Nat
      /\ UNCHANGED <<up, clock, topic, wants, saved, raw, sent, overlaps>>
  BY DEF NotificationsInv, CallsTypeOK, Lookup
<1>2. PICK call \in Call : call = calls[n]
  BY <1>1, CallShape
<1>3. /\ call.st = "lookup" /\ call.channel \in {1, 2} /\ call.kind \in HandlerKinds /\ CallOK(call)
      /\ HandlerKindOK(call.kind)
  BY <1>1, <1>2, HandlerKindFacts DEF CallsTypeOK, CallOK, Call
<1>4. PICK new : new = IF HasBeenNotified(call) \/ Refused(call) THEN NextChannel(call) ELSE [call EXCEPT !.st = "save"]
  OBVIOUS
<1>5. /\ new \in Call /\ new.kind = call.kind /\ new.about = call.about /\ new.at = call.at /\ new.ids = call.ids
      /\ \/ /\ HasBeenNotified(call) \/ Refused(call)
            /\ call.channel = 1 /\ new.channel = 2 /\ new.st = "lookup"
         \/ /\ HasBeenNotified(call) \/ Refused(call)
            /\ call.channel = 2 /\ new.channel = 2 /\ new.st = "done"
         \/ ~HasBeenNotified(call) /\ new.channel = call.channel /\ new.st = "save"
  <2>1. CASE HasBeenNotified(call) \/ Refused(call)
    BY <1>4, <2>1, NextChannelFacts
  <2>2. CASE ~ (HasBeenNotified(call) \/ Refused(call))
    <3>1. new = [call EXCEPT !.st = "save"]
      BY <1>4, <2>2
    <3>2. /\ new \in Call /\ new.kind = call.kind /\ new.about = call.about /\ new.at = call.at
          /\ new.ids = call.ids /\ new.channel = call.channel /\ new.st = "save"
      BY <3>1 DEF Call
    <3> QED BY <2>2, <3>2
  <2> QED BY <2>1, <2>2
<1>6. calls' = [calls EXCEPT ![n] = new]
  BY <1>2, <1>4 DEF Lookup
<1>7. GoesOn(calls[n], new) /\ CallOK(new)
  BY <1>2, <1>3, <1>5 DEF GoesOn, CallOK, Left
<1>8. /\ calls' \in [Notifiers -> Call \cup {Idle}]
      /\ calls'[n] = new /\ \A m \in Notifiers : m # n => calls'[m] = calls[m]
      /\ Follows
  BY <1>1, <1>5, <1>6, <1>7, OneCall
<1>9. Grows
  BY <1>1 DEF Grows
<1>10. CallsTypeOK'
  BY <1>1, <1>5, <1>6, <1>7, TypeStays
<1>11. AllMeet'
  <2>1. \A m \in Notifiers : calls'[m].st \notin {"idle", "done"} => calls[m].st \notin {"idle", "done"}
    BY <1>1, <1>8
  <2> QED BY <1>1, <1>8, <2>1, AllMeetStays
<1>12. SavedAgree'
  <2>1. \A m \in Notifiers : calls[m].st = "send" => calls'[m] = calls[m]
    BY <1>1, <1>8
  <2> QED BY <1>1, <1>8, <1>9, <2>1, SavedAgreeStays
<1>13. SentAgree'
  <2>1. \A m \in Notifiers : calls'[m].st = "send" => calls'[m] = calls[m]
    BY <1>5, <1>8
  <2> QED BY <1>1, <1>8, <1>9, <2>1, SentAgreeStays
<1>14. PeriodsAgree'
  <2>1. ASSUME new.st = "save" PROVE Open(n)'
    <3> SUFFICES ASSUME call.kind.by = "interval", NEW s \in saved,
                        Alike(calls[n], calls[s.by])', s.channel = Channels[call.channel]
                 PROVE  s.at + Interval < clock
      BY <1>1, <1>5, <1>8, <2>1 DEF Open
    <3>1. Began(s.by) /\ SavedOK(s, calls[s.by])
      BY <1>1 DEF SavedAgree
    <3>2. calls'[s.by].kind = calls[s.by].kind /\ calls'[s.by].about = calls[s.by].about
      BY <1>8, <3>1 DEF Began, Follows, GoesOn
    <3>3. calls[s.by].kind = call.kind /\ (call.kind.one => calls[s.by].about = call.about)
      BY <1>5, <1>8, <3>2 DEF Alike
    <3>4. s.name = call.kind.name /\ (call.kind.one => s.about = call.about) /\ s.at \in Nat
      BY <3>1, <3>3 DEF SavedOK
    <3>5. ~HasNotifiedSource(call)
      BY <1>5, <2>1 DEF HasBeenNotified
    <3>6. ~ (s.at + Interval >= clock)
      BY <3>4, <3>5 DEF HasNotifiedSource
    <3> QED BY <1>1, <3>4, <3>6, PeriodsAssumption
  <2>2. \A m \in Notifiers : calls'[m].st = "save" => calls'[m] = calls[m] \/ Open(m)'
    BY <1>8, <2>1
  <2> QED BY <1>1, <1>8, <1>9, <2>2, PeriodsStay
<1>15. RawAgree'
  <2>1. \A m \in Notifiers : calls'[m] = calls[m] \/ calls'[m].kind \in HandlerKinds
    BY <1>3, <1>5, <1>8
  <2> QED BY <1>1, <1>8, <1>9, <2>1, HandlersLeaveRaw
<1>16. ChannelsAgree'
  <2>1. ASSUME HasBeenNotified(call) \/ Refused(call), NEW c \in {1, 2}, c = call.channel
        PROVE  Passed(n, c)'
    <3>1. CASE Refused(call)
      <4>1. Refused(calls[n])'
        BY <1>1, <1>5, <1>8, <3>1 DEF Refused
      <4> QED BY <4>1 DEF Passed
    <3>2. CASE HasBeenNotified(call)
      <4>1. PICK s \in saved : s.channel = Channels[c] /\ s.name = call.kind.name
        <5>1. CASE call.kind.by = "interval"
          BY <2>1, <3>2, <5>1 DEF HasBeenNotified, HasNotifiedSource
        <5>2. CASE call.kind.by # "interval"
          <6>1. PICK s \in saved : /\ s.channel = Channels[c]
                                   /\ \/ call.kind.by = "id" /\ s.id = ObjectID(call)
                                      \/ s.id = <<"name", call.kind.name>>
            BY <2>1, <3>2, <5>2 DEF HasBeenNotified, HasNotifiedSourceByID
          <6>2. SavedOK(s, calls[s.by])
            BY <1>1 DEF SavedAgree
          <6>3. PICK k \in HandlerKinds : k = calls[s.by].kind
            BY <6>2 DEF SavedOK
          <6>4. s.name = k.name /\ s.id[1] = k.id /\ k.id \in {"object", "fresh", "time"}
            BY <6>2, <6>3, HandlerKindFacts DEF SavedOK, HandlerKindOK
          <6>5. s.id # <<"name", call.kind.name>>
            BY <6>4
          <6>6. s.id = ObjectID(call) /\ call.kind.id = "object"
            BY <1>3, <6>1, <6>5 DEF HandlerKindOK
          <6>7. k.id = "object"
            BY <6>4, <6>6 DEF ObjectID
          <6>8. s.id = ObjectID(calls[s.by])
            BY <6>2, <6>3, <6>7 DEF SavedOK
          <6>9. k.task = call.kind.task
            BY <6>3, <6>6, <6>8 DEF ObjectID
          <6>10. k.name = call.kind.name
            BY <1>3, <6>3, <6>6, <6>7, <6>9, KindFacts
          <6> QED BY <6>1, <6>4, <6>10
        <5> QED BY <5>1, <5>2
      <4>2. s.by # n
        BY <1>1, <1>2, <1>3, <2>1, <4>1, NothingSaved
      <4> QED BY <1>1, <1>5, <1>8, <4>1, <4>2 DEF Passed
    <3> QED BY <2>1, <3>1, <3>2
  <2>2. \A m \in Notifiers : \A c \in {1, 2} :
          calls'[m].st # "idle" /\ (calls'[m].st = "done" \/ calls'[m].channel > c) =>
            \/ calls[m].st # "idle" /\ (calls[m].st = "done" \/ calls[m].channel > c)
            \/ Passed(m, c)'
    <3>1. ASSUME NEW c \in {1, 2}, new.st = "done" \/ new.channel > c
          PROVE  call.channel > c \/ Passed(n, c)'
      BY <1>3, <1>5, <2>1, <3>1
    <3> QED BY <1>1, <1>2, <1>8, <3>1
  <2> QED BY <1>1, <1>8, <1>9, <2>2, ChannelsStay
<1> QED BY <1>10, <1>11, <1>12, <1>13, <1>14, <1>15, <1>16 DEF NotificationsInv

\* What a call sends.
LEMMA SendingFacts ==
  ASSUME NEW n, NEW channels, Sending(n, channels)
  PROVE  /\ sent \subseteq sent'
         /\ \A d \in sent' : d \notin sent =>
              /\ d.by = n /\ d.kind = calls[n].kind /\ d.about = calls[n].about /\ d.at = calls[n].at
              /\ d.channel \in channels
         /\ \A c \in channels : Recipients(calls[n]) # {} /\ Delivers(c, calls[n].kind.task) =>
              \E d \in sent' : d.by = n /\ d.channel = c
<1>1. sent' = sent \cup {[by |-> n, kind |-> calls[n].kind, about |-> calls[n].about, channel |-> c, to |-> a,
                           at |-> calls[n].at]
                          : c \in {c \in channels : Delivers(c, calls[n].kind.task)}, a \in Recipients(calls[n])}
  BY DEF Sending
<1>2. ASSUME NEW c \in channels, Recipients(calls[n]) # {}, Delivers(c, calls[n].kind.task)
      PROVE  \E d \in sent' : d.by = n /\ d.channel = c
  <2>1. PICK a \in Recipients(calls[n]) : TRUE
    BY <1>2
  <2>2. PICK d : d = [by |-> n, kind |-> calls[n].kind, about |-> calls[n].about, channel |-> c, to |-> a,
                      at |-> calls[n].at]
    OBVIOUS
  <2>3. d \in sent'
    BY <1>1, <1>2, <2>1, <2>2
  <2> QED BY <2>2, <2>3
<1>3. ASSUME NEW d \in sent', d \notin sent
      PROVE  /\ d.by = n /\ d.kind = calls[n].kind /\ d.about = calls[n].about /\ d.at = calls[n].at
             /\ d.channel \in channels
  BY <1>1, <1>3
<1> QED BY <1>1, <1>2, <1>3

LEMMA SendThroughStep ==
  ASSUME NotificationsInv, NEW n \in Notifiers, SendThrough(n)
  PROVE  NotificationsInv'
<1>1. /\ CallsTypeOK /\ AllMeet /\ SavedAgree /\ SentAgree /\ PeriodsAgree /\ RawAgree /\ ChannelsAgree
      /\ calls[n].st = "send" /\ clock \in Nat
      /\ UNCHANGED <<up, clock, topic, wants, saved, raw, overlaps>>
  BY DEF NotificationsInv, CallsTypeOK, SendThrough
<1>2. PICK call \in Call : call = calls[n]
  BY <1>1, CallShape
<1>3. call.st = "send" /\ call.channel \in {1, 2} /\ call.kind \in HandlerKinds /\ CallOK(call)
  BY <1>1, <1>2 DEF CallsTypeOK, CallOK, Call
<1>4. PICK new : new = NextChannel(call)
  OBVIOUS
<1>5. /\ new \in Call /\ new.kind = call.kind /\ new.about = call.about /\ new.at = call.at /\ new.ids = call.ids
      /\ \/ call.channel = 1 /\ new.channel = 2 /\ new.st = "lookup"
         \/ call.channel = 2 /\ new.channel = 2 /\ new.st = "done"
  BY <1>4, NextChannelFacts
<1>6. calls' = [calls EXCEPT ![n] = new]
  BY <1>2, <1>4 DEF SendThrough
<1>7. GoesOn(calls[n], new) /\ CallOK(new)
  BY <1>2, <1>3, <1>5 DEF GoesOn, CallOK, Left
<1>8. /\ calls' \in [Notifiers -> Call \cup {Idle}]
      /\ calls'[n] = new /\ \A m \in Notifiers : m # n => calls'[m] = calls[m]
      /\ Follows
  BY <1>1, <1>5, <1>6, <1>7, OneCall
<1>9. Sending(n, {Channels[call.channel]})
  BY <1>2 DEF SendThrough
<1>10. sent \subseteq sent'
  BY <1>9, SendingFacts
<1>11. \A d \in sent' : d \notin sent =>
         /\ d.by = n /\ d.kind = call.kind /\ d.about = call.about /\ d.at = call.at
         /\ d.channel = Channels[call.channel]
  BY <1>2, <1>9, SendingFacts
<1>12. Recipients(call) # {} /\ Delivers(Channels[call.channel], call.kind.task) =>
         \E d \in sent' : d.by = n /\ d.channel = Channels[call.channel]
  BY <1>2, <1>9, SendingFacts
<1>13. Grows
  BY <1>1, <1>10 DEF Grows
<1>14. CallsTypeOK'
  BY <1>1, <1>5, <1>6, <1>7, TypeStays
<1>15. AllMeet'
  <2>1. \A m \in Notifiers : calls'[m].st \notin {"idle", "done"} => calls[m].st \notin {"idle", "done"}
    BY <1>1, <1>8
  <2> QED BY <1>1, <1>8, <2>1, AllMeetStays
<1>16. \A c \in {1, 2} : c = call.channel =>
         \/ Tried(n, c)'
         \/ Recipients(call) = {}
         \/ ~Delivers(Channels[c], call.kind.task)
  BY <1>12 DEF Tried
<1>17. SavedAgree'
  <2>1. \A m \in Notifiers, c \in {1, 2} : calls[m].st = "send" /\ calls[m].channel = c =>
           \/ Tried(m, c)'
           \/ calls'[m] = calls[m]
           \/ Recipients(calls[m]) = {}
           \/ ~Delivers(Channels[c], calls[m].kind.task)
    BY <1>2, <1>8, <1>16
  <2> QED BY <1>1, <1>8, <1>13, <2>1, SavedAgreeStays
<1>18. SentAgree'
  <2>1. ASSUME NEW d \in sent PROVE Began(d.by)' /\ SentOK(d, calls[d.by])'
    BY <1>1, <1>8, <1>13, SentStays DEF SentAgree
  <2>2. ASSUME NEW d \in sent', d \notin sent PROVE Began(d.by)' /\ SentOK(d, calls[d.by])'
    <3>1. PICK s \in saved : s.by = n /\ s.channel = Channels[call.channel] /\ s.at = call.at
      BY <1>1, <1>2 DEF SentAgree
    <3>2. call.kind \notin HelperKinds
      BY <1>3, KindFacts DEF Kinds
    <3> QED BY <1>1, <1>5, <1>8, <1>11, <2>2, <3>1, <3>2 DEF Began, SentOK
  <2>3. ASSUME NEW m \in Notifiers, calls'[m].st = "send"
        PROVE  \E s \in saved' : s.by = m /\ s.channel = Channels[calls'[m].channel] /\ s.at = calls'[m].at
    <3>1. calls'[m] = calls[m]
      BY <1>5, <1>8, <2>3
    <3> QED BY <1>1, <2>3, <3>1 DEF SentAgree
  <2> QED BY <2>1, <2>2, <2>3 DEF SentAgree
<1>19. PeriodsAgree'
  <2>1. \A m \in Notifiers : calls'[m].st = "save" => calls'[m] = calls[m]
    BY <1>5, <1>8
  <2> QED BY <1>1, <1>8, <1>13, <2>1, PeriodsStay
<1>20. RawAgree'
  <2>1. \A m \in Notifiers : calls'[m] = calls[m] \/ calls'[m].kind \in HandlerKinds
    BY <1>3, <1>5, <1>8
  <2>2. \A d \in sent' : d \in sent \/ calls'[d.by].kind \in HandlerKinds
    BY <1>3, <1>5, <1>8, <1>11
  <2> QED BY <1>1, <1>8, <1>13, <2>1, <2>2, HandlersLeaveRaw
<1>21. ChannelsAgree'
  <2>1. ASSUME NEW c \in {1, 2}, c = call.channel PROVE Passed(n, c)'
    <3>1. Recipients(call) = {} => Recipients(calls[n])' = {}
      BY <1>1, <1>5, <1>8 DEF Recipients, GetAdminUsers
    <3>2. ~Delivers(Channels[c], call.kind.task) => ~Delivers(Channels[c], calls[n].kind.task)'
      BY <1>1, <1>5, <1>8 DEF Delivers, SendEmail, SendRemotePushNotificationToUser
    <3> QED BY <1>16, <2>1, <3>1, <3>2 DEF Passed
  <2>2. \A m \in Notifiers : \A c \in {1, 2} :
          calls'[m].st # "idle" /\ (calls'[m].st = "done" \/ calls'[m].channel > c) =>
            \/ calls[m].st # "idle" /\ (calls[m].st = "done" \/ calls[m].channel > c)
            \/ Passed(m, c)'
    <3>1. ASSUME NEW c \in {1, 2}, new.st = "done" \/ new.channel > c
          PROVE  call.channel > c \/ Passed(n, c)'
      BY <1>3, <1>5, <2>1, <3>1
    <3> QED BY <1>1, <1>2, <1>8, <3>1
  <2> QED BY <1>1, <1>8, <1>13, <2>2, ChannelsStay
<1> QED BY <1>14, <1>15, <1>17, <1>18, <1>19, <1>20, <1>21 DEF NotificationsInv

\* What a call does that saves a notification, or fails to.
LEMMA SaveFacts ==
  ASSUME CallsTypeOK, NEW n \in Notifiers, SaveNotification(n)
  PROVE  /\ calls[n].st = "save" /\ calls[n] \in Call /\ calls[n].kind \in HandlerKinds
         /\ UNCHANGED <<up, clock, topic, wants, raw, sent, overlaps>>
         /\ \E id \in Identifiers, new \in Call :
              /\ id[1] = calls[n].kind.id /\ (calls[n].kind.id = "object" => id = ObjectID(calls[n]))
              /\ calls' = [calls EXCEPT ![n] = new] /\ CallOK(new)
              /\ new.kind = calls[n].kind /\ new.about = calls[n].about /\ new.ids = calls[n].ids \cup {id}
              /\ \/ /\ \A s \in saved : ~ (s.id = id /\ s.channel = Channels[calls[n].channel])
                    /\ new.st = "send" /\ new.channel = calls[n].channel /\ new.at = clock
                    /\ \E record :
                         /\ saved' = saved \cup {record}
                         /\ record.id = id /\ record.channel = Channels[calls[n].channel]
                         /\ record.name = calls[n].kind.name /\ (calls[n].kind.one => record.about = calls[n].about)
                         /\ record.at = clock /\ record.by = n
                 \/ /\ saved' = saved
                    /\ \E s \in saved : s.id = id /\ s.channel = Channels[calls[n].channel]
                    /\ new.st \notin {"save", "send"}
                    /\ \/ calls[n].channel = 1 /\ new.channel = 2 /\ new.st = "lookup"
                       \/ calls[n].channel = 2 /\ new.channel = 2 /\ new.st = "done"
<1>1. calls[n].st = "save" /\ UNCHANGED <<up, clock, topic, wants, raw, sent, overlaps>> /\ clock \in Nat
  BY DEF SaveNotification, CallsTypeOK
<1>2. PICK call \in Call : call = calls[n]
  BY <1>1, CallShape
<1>3. /\ call.st = "save" /\ call.channel \in {1, 2} /\ call.kind \in HandlerKinds /\ CallOK(call)
      /\ HandlerKindOK(call.kind) /\ call.about \in Abouts /\ call.ids \subseteq Identifiers /\ call.kind \in Kinds
      /\ call.at \in Nat
  BY <1>1, <1>2, HandlerKindFacts DEF CallsTypeOK, CallOK, Call
<1>4. PICK ms \in {0, 1} :
        LET id == CASE calls[n].kind.id = "object" -> ObjectID(calls[n])
                    [] calls[n].kind.id = "fresh" -> <<"fresh", n>>
                    [] calls[n].kind.id = "time" -> <<"time", clock, ms>>
            record == [id |-> id, channel |-> Channels[calls[n].channel], name |-> calls[n].kind.name,
                       about |-> IF calls[n].kind.one THEN calls[n].about ELSE "none", at |-> clock, by |-> n]
        IN  \/ /\ InsertOne(record)
               /\ calls' = [calls EXCEPT ![n] = [calls[n] EXCEPT !.st = "send", !.at = clock, !.ids = @ \cup {id}]]
            \/ /\ \E s \in saved : s.id = id /\ s.channel = record.channel
               /\ calls' = [calls EXCEPT ![n] = [NextChannel(calls[n]) EXCEPT !.ids = @ \cup {id}]]
               /\ UNCHANGED saved
  BY DEF SaveNotification
<1> DEFINE anId == CASE calls[n].kind.id = "object" -> ObjectID(calls[n])
                     [] calls[n].kind.id = "fresh" -> <<"fresh", n>>
                     [] calls[n].kind.id = "time" -> <<"time", clock, ms>>
           aRecord == [id |-> anId, channel |-> Channels[calls[n].channel], name |-> calls[n].kind.name,
                       about |-> IF calls[n].kind.one THEN calls[n].about ELSE "none", at |-> clock, by |-> n]
           sending == [calls[n] EXCEPT !.st = "send", !.at = clock, !.ids = @ \cup {anId}]
           leaving == [NextChannel(calls[n]) EXCEPT !.ids = @ \cup {anId}]
<1>5. \/ InsertOne(aRecord) /\ calls' = [calls EXCEPT ![n] = sending]
      \/ /\ \E s \in saved : s.id = anId /\ s.channel = aRecord.channel
         /\ calls' = [calls EXCEPT ![n] = leaving]
         /\ UNCHANGED saved
  BY <1>4
<1>6. PICK id : id = anId
  OBVIOUS
<1>7. PICK record : record = aRecord
  OBVIOUS
<1>8. /\ record.id = id /\ record.channel = Channels[call.channel] /\ record.name = call.kind.name
      /\ (call.kind.one => record.about = call.about) /\ record.at = clock /\ record.by = n
  BY <1>2, <1>6, <1>7
<1> HIDE DEF anId, aRecord
<1>9. /\ sending = [call EXCEPT !.st = "send", !.at = clock, !.ids = @ \cup {id}]
      /\ leaving = [NextChannel(call) EXCEPT !.ids = @ \cup {id}]
  BY <1>2, <1>6
<1> HIDE DEF sending, leaving
<1>10. /\ id \in Identifiers /\ id[1] = call.kind.id /\ (call.kind.id = "object" => id = ObjectID(call))
  <2>1. CASE call.kind.id = "object"
    <3>1. id = <<"object", call.kind.task, call.about>>
      BY <1>2, <1>6, <2>1 DEF ObjectID, anId
    <3> QED BY <1>3, <2>1, <3>1 DEF Identifiers, ObjectID
  <2>2. CASE call.kind.id = "fresh"
    <3>1. id = <<"fresh", n>>
      BY <1>2, <1>6, <2>2 DEF anId
    <3> QED BY <2>2, <3>1 DEF Identifiers
  <2>3. CASE call.kind.id = "time"
    <3>1. id = <<"time", clock, ms>>
      BY <1>2, <1>6, <2>3 DEF anId
    <3> QED BY <1>1, <2>3, <3>1 DEF Identifiers
  <2> QED BY <1>3, <2>1, <2>2, <2>3 DEF HandlerKindOK
<1>11. CASE InsertOne(aRecord) /\ calls' = [calls EXCEPT ![n] = sending]
  <2>3. saved' = saved \cup {record} /\ \A s \in saved : ~ (s.id = id /\ s.channel = Channels[call.channel])
    BY <1>11, <1>7, <1>8 DEF InsertOne
  <2>4. PICK new : new = [call EXCEPT !.st = "send", !.at = clock, !.ids = @ \cup {id}]
    OBVIOUS
  <2>5. /\ new \in Call /\ new.st = "send" /\ new.kind = call.kind /\ new.about = call.about
        /\ new.channel = call.channel /\ new.at = clock /\ new.ids = call.ids \cup {id}
    BY <1>1, <1>10, <2>4 DEF Call
  <2>6. CallOK(new)
    BY <1>1, <1>3, <2>5 DEF CallOK
  <2>7. calls' = [calls EXCEPT ![n] = new]
    BY <1>11, <1>9, <2>4
  <2> QED BY <1>1, <1>2, <1>3, <1>10, <1>8, <2>3, <2>5, <2>6, <2>7
<1>12. CASE /\ \E s \in saved : s.id = anId /\ s.channel = aRecord.channel
           /\ calls' = [calls EXCEPT ![n] = leaving]
           /\ UNCHANGED saved
  <2>1. PICK after : after = NextChannel(call)
    OBVIOUS
  <2>2. /\ after \in Call /\ after.kind = call.kind /\ after.about = call.about
        /\ after.at = call.at /\ after.ids = call.ids
        /\ \/ call.channel = 1 /\ after.channel = 2 /\ after.st = "lookup"
           \/ call.channel = 2 /\ after.channel = 2 /\ after.st = "done"
    BY <2>1, NextChannelFacts
  <2>3. PICK new : new = leaving /\ new = [after EXCEPT !.ids = @ \cup {id}]
    BY <1>9, <2>1
  <2>4. /\ new \in Call /\ new.kind = call.kind /\ new.about = call.about
        /\ new.st = after.st /\ new.channel = after.channel /\ new.at = call.at /\ new.ids = call.ids \cup {id}
    BY <1>10, <2>2, <2>3 DEF Call
  <2>5. CallOK(new)
    BY <1>1, <1>3, <2>2, <2>4 DEF CallOK
  <2>6. calls' = [calls EXCEPT ![n] = new]
    BY <1>12, <2>3
  <2>7. new.st \notin {"save", "send"}
        /\ \/ call.channel = 1 /\ new.channel = 2 /\ new.st = "lookup"
           \/ call.channel = 2 /\ new.channel = 2 /\ new.st = "done"
    BY <2>2, <2>4
  <2>8. saved' = saved /\ \E s \in saved : s.id = id /\ s.channel = Channels[call.channel]
    BY <1>12, <1>6, <1>7, <1>8
  <2> QED BY <1>1, <1>2, <1>3, <1>10, <2>4, <2>5, <2>6, <2>7, <2>8
<1> QED BY <1>2, <1>11, <1>12, <1>5

LEMMA SaveNotificationStep ==
  ASSUME NotificationsInv, NEW n \in Notifiers, SaveNotification(n)
  PROVE  NotificationsInv'
<1>1. /\ CallsTypeOK /\ AllMeet /\ SavedAgree /\ SentAgree /\ PeriodsAgree /\ RawAgree /\ ChannelsAgree
      /\ calls[n].st = "save" /\ calls[n] \in Call /\ calls[n].kind \in HandlerKinds /\ clock \in Nat
      /\ UNCHANGED <<up, clock, topic, wants, raw, sent, overlaps>>
  BY SaveFacts DEF NotificationsInv, CallsTypeOK
<1>2. PICK id \in Identifiers, new \in Call :
              /\ id[1] = calls[n].kind.id /\ (calls[n].kind.id = "object" => id = ObjectID(calls[n]))
              /\ calls' = [calls EXCEPT ![n] = new] /\ CallOK(new)
              /\ new.kind = calls[n].kind /\ new.about = calls[n].about /\ new.ids = calls[n].ids \cup {id}
              /\ \/ /\ \A s \in saved : ~ (s.id = id /\ s.channel = Channels[calls[n].channel])
                    /\ new.st = "send" /\ new.channel = calls[n].channel /\ new.at = clock
                    /\ \E record :
                         /\ saved' = saved \cup {record}
                         /\ record.id = id /\ record.channel = Channels[calls[n].channel]
                         /\ record.name = calls[n].kind.name /\ (calls[n].kind.one => record.about = calls[n].about)
                         /\ record.at = clock /\ record.by = n
                 \/ /\ saved' = saved
                    /\ \E s \in saved : s.id = id /\ s.channel = Channels[calls[n].channel]
                    /\ new.st \notin {"save", "send"}
                    /\ \/ calls[n].channel = 1 /\ new.channel = 2 /\ new.st = "lookup"
                       \/ calls[n].channel = 2 /\ new.channel = 2 /\ new.st = "done"
  BY <1>1, SaveFacts
<1>3. PICK call \in Call : call = calls[n]
  BY <1>1
<1>4. call.st = "save" /\ call.channel \in {1, 2} /\ call.kind \in HandlerKinds
  BY <1>1, <1>3 DEF Call
<1>5. new.channel \in {1, 2} /\ new.channel >= call.channel /\ new.st # "idle" /\ new.st # "save"
  BY <1>2, <1>3, <1>4
<1>6. GoesOn(calls[n], new)
  BY <1>2, <1>3, <1>4, <1>5 DEF GoesOn, Left
<1>7. /\ calls' \in [Notifiers -> Call \cup {Idle}]
      /\ calls'[n] = new /\ \A m \in Notifiers : m # n => calls'[m] = calls[m]
      /\ Follows
  BY <1>1, <1>2, <1>6, OneCall
<1>8. saved \subseteq saved'
  BY <1>2
<1>9. Grows
  BY <1>1, <1>8 DEF Grows
<1>10. CallsTypeOK'
  BY <1>1, <1>2, TypeStays
<1>11. AllMeet'
  <2>1. \A m \in Notifiers : calls'[m].st \notin {"idle", "done"} => calls[m].st \notin {"idle", "done"}
    BY <1>1, <1>7
  <2> QED BY <1>1, <1>7, <2>1, AllMeetStays
<1>12. RawAgree'
  <2>1. \A m \in Notifiers : calls'[m] = calls[m] \/ calls'[m].kind \in HandlerKinds
    BY <1>1, <1>2, <1>7
  <2> QED BY <1>1, <1>7, <1>9, <2>1, HandlersLeaveRaw
<1>13. \A m \in Notifiers : calls[m].st = "send" => calls'[m] = calls[m]
  BY <1>1, <1>7
<1>14. ASSUME NEW record,
              \A s \in saved : ~ (s.id = id /\ s.channel = Channels[call.channel]),
              new.st = "send", new.channel = call.channel, new.at = clock,
              saved' = saved \cup {record},
              record.id = id, record.channel = Channels[call.channel],
              record.name = call.kind.name, call.kind.one => record.about = call.about,
              record.at = clock, record.by = n
       PROVE  NotificationsInv'
  <2>1. SavedAgree'
    <3>1. ASSUME NEW s \in saved PROVE Began(s.by)' /\ SavedOK(s, calls[s.by])'
      <4>1. Began(s.by) /\ SavedOK(s, calls[s.by]) /\ s.by \in Notifiers
        BY <1>1 DEF SavedAgree, Began
      <4>2. calls[s.by].st = "send" => calls'[s.by] = calls[s.by]
        BY <1>13, <4>1
      <4> QED BY <1>1, <1>7, <1>9, <4>1, <4>2, SavedStays
    <3>2. Began(record.by)' /\ SavedOK(record, calls[record.by])'
      <4>1. new.kind \in HandlerKinds /\ record.name = new.kind.name /\ (new.kind.one => record.about = new.about)
        BY <1>1, <1>2, <1>3, <1>14
      <4>2. record.at \in Nat /\ record.at <= clock'
        BY <1>1, <1>14
      <4>3. record.id[1] = new.kind.id /\ (new.kind.id = "object" => record.id = ObjectID(new))
        BY <1>2, <1>14 DEF ObjectID
      <4>4. ObjectID(calls[n])' = ObjectID(new)
        BY <1>7 DEF ObjectID
      <4>5. call.channel \in {1, 2} /\ Left(new, call.channel)
        BY <1>4, <1>14 DEF Left
      <4> QED BY <1>5, <1>7, <1>14, <4>1, <4>2, <4>3, <4>4, <4>5 DEF Began, SavedOK, Left
    <3>3. \A s, t \in saved' : s.id = t.id /\ s.channel = t.channel => s = t
      BY <1>1, <1>14 DEF SavedAgree
    <3> QED BY <1>14, <3>1, <3>2, <3>3 DEF SavedAgree
  <2>2. SentAgree'
    <3>1. \A d \in sent' : Began(d.by)' /\ SentOK(d, calls[d.by])'
      BY <1>1, <1>7, <1>9, SentStays DEF SentAgree
    <3>2. ASSUME NEW m \in Notifiers, calls'[m].st = "send"
          PROVE  \E s \in saved' : s.by = m /\ s.channel = Channels[calls'[m].channel] /\ s.at = calls'[m].at
      <4>1. CASE m = n
        BY <1>7, <1>14, <4>1
      <4>2. CASE m # n
        <5>1. calls'[m] = calls[m]
          BY <1>7, <4>2
        <5>2. \E s \in saved : s.by = m /\ s.channel = Channels[calls[m].channel] /\ s.at = calls[m].at
          BY <1>1, <3>2, <5>1 DEF SentAgree
        <5> QED BY <1>8, <5>1, <5>2
      <4> QED BY <4>1, <4>2
    <3> QED BY <3>1, <3>2 DEF SentAgree
  <2>3. \A s \in saved : /\ calls'[s.by].kind = calls[s.by].kind /\ calls'[s.by].about = calls[s.by].about
                         /\ s.at \in Nat /\ s.at <= clock /\ s.by \in Notifiers
    BY <1>1, <1>7 DEF SavedAgree, Began, SavedOK, Follows, GoesOn
  <2>4. ASSUME NEW m \in Notifiers, calls'[m].st = "save" PROVE Open(m)'
    <3>1. m # n /\ calls'[m] = calls[m] /\ calls[m].st = "save"
      BY <1>7, <1>14, <2>4
    <3>2. Open(m)
      BY <1>1, <3>1 DEF PeriodsAgree
    <3>3. {m, n} \in overlaps
      BY <1>1, <3>1 DEF AllMeet, Active
    <3>4. ASSUME calls[m].kind.by = "interval", NEW s \in saved', s.by # m, Alike(calls[m], calls[s.by])',
                 s.channel = Channels[calls[m].channel]
          PROVE  s.at + Interval < clock \/ {m, s.by} \in overlaps
      <4>1. CASE s = record
        BY <1>14, <3>3, <4>1
      <4>2. CASE s \in saved
        <5>1. Alike(calls[m], calls[s.by])
          BY <2>3, <3>1, <3>4, <4>2 DEF Alike
        <5> QED BY <3>2, <3>4, <4>2, <5>1 DEF Open
      <4> QED BY <1>14, <4>1, <4>2
    <3> QED BY <1>1, <3>1, <3>4 DEF Open
  <2>5. ASSUME NEW t \in saved, t.by # n, Alike(calls[n], calls[t.by]), call.kind.by = "interval",
               t.channel = record.channel
        PROVE  /\ Distance(record, t) > Interval \/ {n, t.by} \in overlaps
               /\ Distance(t, record) > Interval \/ {n, t.by} \in overlaps
    <3>1. t.at + Interval < clock \/ {n, t.by} \in overlaps
      BY <1>1, <1>3, <1>14, <2>5 DEF PeriodsAgree, Open
    <3>2. t.at \in Nat /\ record.at = clock
      BY <1>14, <2>3
    <3> QED BY <1>1, <3>1, <3>2, PeriodsAssumption DEF Distance
  <2>6. ASSUME NEW s \in saved', NEW t \in saved',
               s.by # t.by, Alike(calls[s.by], calls[t.by])', calls'[s.by].kind.by = "interval", s.channel = t.channel
        PROVE  Distance(s, t) > Interval \/ {s.by, t.by} \in overlaps
    <3>1. calls'[n].kind = call.kind /\ calls'[n].about = call.about
      BY <1>2, <1>3, <1>7
    <3>2. CASE s \in saved /\ t \in saved
      <4>1. Alike(calls[s.by], calls[t.by]) /\ calls[s.by].kind.by = "interval"
        BY <2>3, <2>6, <3>2 DEF Alike
      <4> QED BY <1>1, <2>6, <3>2, <4>1 DEF PeriodsAgree
    <3>3. CASE s = record /\ t \in saved
      <4>1. Alike(calls[n], calls[t.by]) /\ call.kind.by = "interval"
        BY <1>3, <1>14, <2>3, <2>6, <3>1, <3>3 DEF Alike
      <4> QED BY <1>14, <2>5, <2>6, <3>3, <4>1
    <3>4. CASE s \in saved /\ t = record
      <4>1. Alike(calls[n], calls[s.by]) /\ call.kind.by = "interval"
        BY <1>3, <1>14, <2>3, <2>6, <3>1, <3>4 DEF Alike
      <4>2. {s.by, n} = {n, s.by}
        OBVIOUS
      <4> QED BY <1>14, <2>5, <2>6, <3>4, <4>1, <4>2
    <3> QED BY <1>14, <2>6, <3>2, <3>3, <3>4
  <2>7. PeriodsAgree'
    BY <1>1, <2>4, <2>6 DEF PeriodsAgree, Distance
  <2>8. ChannelsAgree'
    <3>1. \A m \in Notifiers : \A c \in {1, 2} :
            calls'[m].st # "idle" /\ (calls'[m].st = "done" \/ calls'[m].channel > c) =>
              \/ calls[m].st # "idle" /\ (calls[m].st = "done" \/ calls[m].channel > c)
              \/ Passed(m, c)'
      BY <1>3, <1>4, <1>7, <1>14
    <3> QED BY <1>1, <1>7, <1>9, <3>1, ChannelsStay
  <2> QED BY <1>10, <1>11, <1>12, <2>1, <2>2, <2>7, <2>8 DEF NotificationsInv
<1>15. ASSUME saved' = saved,
              \E s \in saved : s.id = id /\ s.channel = Channels[call.channel],
              new.st \notin {"save", "send"}
       PROVE  NotificationsInv'
  <2>1. SavedAgree'
    BY <1>1, <1>7, <1>9, <1>13, <1>15, SavedAgreeStays
  <2>2. SentAgree'
    <3>1. \A m \in Notifiers : calls'[m].st = "send" => calls'[m] = calls[m]
      BY <1>7, <1>15
    <3> QED BY <1>1, <1>7, <1>9, <3>1, SentAgreeStays
  <2>3. PeriodsAgree'
    <3>1. \A m \in Notifiers : calls'[m].st = "save" => calls'[m] = calls[m]
      BY <1>7, <1>15
    <3> QED BY <1>1, <1>7, <1>9, <1>15, <3>1, PeriodsStay
  <2>4. ChannelsAgree'
    <3>1. ASSUME NEW c \in {1, 2}, c = call.channel PROVE Passed(n, c)'
      <4>1. PICK s \in saved : s.id = id /\ s.channel = Channels[c]
        BY <1>15, <3>1
      <4>2. s.by # n
        BY <1>1, <1>3, <1>4, <3>1, <4>1, NothingSaved
      <4>3. s.id \in calls'[n].ids
        BY <1>2, <1>7, <4>1
      <4> QED BY <1>15, <4>1, <4>2, <4>3 DEF Passed
    <3>2. \A m \in Notifiers : \A c \in {1, 2} :
            calls'[m].st # "idle" /\ (calls'[m].st = "done" \/ calls'[m].channel > c) =>
              \/ calls[m].st # "idle" /\ (calls[m].st = "done" \/ calls[m].channel > c)
              \/ Passed(m, c)'
      <4>1. ASSUME NEW c \in {1, 2}, new.st = "done" \/ new.channel > c
            PROVE  call.channel > c \/ Passed(n, c)'
        BY <1>2, <1>3, <1>4, <1>5, <3>1, <4>1
      <4> QED BY <1>1, <1>3, <1>7, <4>1
    <3> QED BY <1>1, <1>7, <1>9, <3>2, ChannelsStay
  <2> QED BY <1>10, <1>11, <1>12, <2>1, <2>2, <2>3, <2>4 DEF NotificationsInv
<1> QED BY <1>2, <1>3, <1>14, <1>15

-----------------------------------------------------------------------------
(* Notifications: the steps of the helper. *)

LEMMA AloneBefore ==
  ASSUME AllMeet, Grows, Follows, NEW m \in Notifiers, calls[m].st # "idle", Alone(m)'
  PROVE  Alone(m)
<1>1. calls'[m].kind = calls[m].kind /\ calls'[m].about = calls[m].about
  BY DEF Follows, GoesOn
<1>2. PICK k, a : k = calls[m].kind /\ a = calls[m].about
  OBVIOUS
<1>3. ~Met(k, a)
  <2> SUFFICES ASSUME Met(k, a) PROVE FALSE
    OBVIOUS
  <2>1. Met(k, a)'
    BY MetStays
  <2> QED BY <1>1, <1>2, <2>1 DEF Alone, Met
<1> QED BY <1>1, <1>2, <1>3 DEF Alone, Began

\* A call of the helper leaves to those of the handler what is theirs.
LEMMA HelperStays ==
  ASSUME NotificationsInv, NEW n \in Notifiers, NEW new \in Call, calls' = [calls EXCEPT ![n] = new],
         calls[n].st \in {"timer", "saveRaw", "notify"}, new.st \in {"saveRaw", "notify", "done"},
         GoesOn(calls[n], new), CallOK(new), sent \subseteq sent',
         UNCHANGED <<up, clock, wants, saved, overlaps>>
  PROVE  /\ calls' \in [Notifiers -> Call \cup {Idle}]
         /\ calls'[n] = new /\ \A m \in Notifiers : m # n => calls'[m] = calls[m]
         /\ Follows /\ Grows /\ calls[n].kind \in HelperKinds
         /\ CallsTypeOK' /\ AllMeet' /\ SavedAgree' /\ PeriodsAgree' /\ ChannelsAgree'
<1>1. /\ CallsTypeOK /\ AllMeet /\ SavedAgree /\ PeriodsAgree /\ ChannelsAgree /\ clock \in Nat
      /\ calls[n].kind \in HelperKinds
  BY DEF NotificationsInv, CallsTypeOK, CallOK
<1>2. /\ calls' \in [Notifiers -> Call \cup {Idle}]
      /\ calls'[n] = new /\ \A m \in Notifiers : m # n => calls'[m] = calls[m]
      /\ Follows
  BY <1>1, OneCall
<1>3. Grows
  BY <1>1 DEF Grows
<1>4. CallsTypeOK'
  BY <1>1, TypeStays
<1>5. AllMeet'
  <2>1. \A m \in Notifiers : calls'[m].st \notin {"idle", "done"} => calls[m].st \notin {"idle", "done"}
    BY <1>2
  <2> QED BY <1>1, <1>2, <2>1, AllMeetStays
<1>6. SavedAgree'
  <2>1. \A m \in Notifiers : calls[m].st = "send" => calls'[m] = calls[m]
    BY <1>2
  <2> QED BY <1>1, <1>2, <1>3, <2>1, SavedAgreeStays
<1>7. PeriodsAgree'
  <2>1. \A m \in Notifiers : calls'[m].st = "save" => calls'[m] = calls[m]
    BY <1>2
  <2> QED BY <1>1, <1>2, <1>3, <2>1, PeriodsStay
<1>8. ChannelsAgree'
  <2>1. new.kind = calls[n].kind /\ new.kind \notin HandlerKinds
    BY <1>1, KindFacts DEF GoesOn, Kinds
  <2>2. \A c \in {1, 2} : Passed(n, c)'
    BY <1>2, <2>1 DEF Passed
  <2>3. \A m \in Notifiers : \A c \in {1, 2} :
          calls'[m].st # "idle" /\ (calls'[m].st = "done" \/ calls'[m].channel > c) =>
            \/ calls[m].st # "idle" /\ (calls[m].st = "done" \/ calls[m].channel > c)
            \/ Passed(m, c)'
    BY <1>2, <2>2
  <2> QED BY <1>1, <1>2, <1>3, <2>3, ChannelsStay
<1> QED BY <1>1, <1>2, <1>3, <1>4, <1>5, <1>6, <1>7, <1>8

\* What two calls of the helper that met would have shown.
LEMMA TwinsRest ==
  ASSUME AllMeet, NEW n \in Notifiers, Active(n), NEW m \in Notifiers, m # n, Began(m),
         calls[m].kind = calls[n].kind, calls[m].about = calls[n].about, ~Met(calls[n].kind, calls[n].about)
  PROVE  calls[m].st = "done"
<1> SUFFICES ASSUME calls[m].st # "done" PROVE FALSE
  OBVIOUS
<1>1. {n, m} \in overlaps
  BY DEF AllMeet, Active, Began
<1> QED BY <1>1 DEF Met

LEMMA CheckFacts ==
  ASSUME CallsTypeOK, NEW n \in Notifiers, CheckNotificationAlreadySent(n)
  PROVE  /\ calls[n].st = "timer" /\ calls[n] \in Call /\ calls[n].kind \in HelperKinds /\ calls[n].ids = {}
         /\ UNCHANGED <<up, clock, topic, wants, saved, raw, sent, overlaps>>
         /\ \E new \in Call :
              /\ calls' = [calls EXCEPT ![n] = new] /\ CallOK(new) /\ GoesOn(calls[n], new)
              /\ new.at = clock /\ new.ids = {} /\ new.st \in {"saveRaw", "notify", "done"}
              /\ new.st = "notify" => new.kind.by = "none"
              /\ new.st = "saveRaw" => Cardinality(RawOf(calls[n])) # 1
<1>1. /\ calls[n].st = "timer" /\ UNCHANGED <<up, clock, topic, wants, saved, raw, sent, overlaps>>
      /\ clock \in Nat
  BY DEF CheckNotificationAlreadySent, CallsTypeOK
<1>2. PICK call \in Call : call = calls[n]
  BY <1>1, CallShape
<1>3. call.kind \in HelperKinds /\ call.ids = {} /\ call.kind.by \in {"none", "raw"}
  BY <1>1, <1>2, HelperKindFacts DEF CallsTypeOK, CallOK
<1>4. PICK st : st = CASE call.kind.by = "none" -> "notify"
                       [] call.kind.by = "raw" /\ Cardinality(RawOf(call)) = 1 -> "done"
                       [] OTHER -> "saveRaw"
  OBVIOUS
<1>5. /\ st \in {"saveRaw", "notify", "done"} /\ (st = "notify" => call.kind.by = "none")
      /\ (st = "saveRaw" => Cardinality(RawOf(call)) # 1 /\ call.kind.by = "raw")
  BY <1>3, <1>4
<1>6. PICK new : new = [call EXCEPT !.at = clock, !.st = st]
  OBVIOUS
<1>7. calls' = [calls EXCEPT ![n] = new]
  BY <1>2, <1>4, <1>6 DEF CheckNotificationAlreadySent, RawOf
<1>8. /\ new \in Call /\ new.st = st /\ new.at = clock /\ new.kind = call.kind /\ new.about = call.about
      /\ new.ids = {} /\ new.channel = call.channel
  BY <1>1, <1>3, <1>5, <1>6 DEF Call
<1>9. CallOK(new)
  BY <1>1, <1>3, <1>5, <1>8 DEF CallOK
<1>10. GoesOn(calls[n], new)
  BY <1>1, <1>2, <1>3, <1>5, <1>8 DEF GoesOn, Left
<1> QED BY <1>1, <1>2, <1>3, <1>5, <1>7, <1>8, <1>9, <1>10

LEMMA CheckStep ==
  ASSUME NotificationsInv, NEW n \in Notifiers, CheckNotificationAlreadySent(n)
  PROVE  NotificationsInv'
<1>1. /\ CallsTypeOK /\ AllMeet /\ SentAgree /\ RawAgree /\ clock \in Nat
      /\ calls[n].st = "timer" /\ calls[n] \in Call /\ calls[n].kind \in HelperKinds /\ calls[n].ids = {}
      /\ UNCHANGED <<up, clock, topic, wants, saved, raw, sent, overlaps>>
  BY CheckFacts DEF NotificationsInv, CallsTypeOK
<1>2. PICK new \in Call :
              /\ calls' = [calls EXCEPT ![n] = new] /\ CallOK(new) /\ GoesOn(calls[n], new)
              /\ new.at = clock /\ new.ids = {} /\ new.st \in {"saveRaw", "notify", "done"}
              /\ new.st = "notify" => new.kind.by = "none"
              /\ new.st = "saveRaw" => Cardinality(RawOf(calls[n])) # 1
  BY <1>1, CheckFacts
<1>3. /\ calls' \in [Notifiers -> Call \cup {Idle}]
      /\ calls'[n] = new /\ \A m \in Notifiers : m # n => calls'[m] = calls[m]
      /\ Follows /\ Grows
      /\ CallsTypeOK' /\ AllMeet' /\ SavedAgree' /\ PeriodsAgree' /\ ChannelsAgree'
  BY <1>1, <1>2, HelperStays
<1>4. SentAgree'
  <2>1. \A m \in Notifiers : calls'[m].st = "send" => calls'[m] = calls[m]
    BY <1>2, <1>3
  <2> QED BY <1>1, <1>3, <2>1, SentAgreeStays
<1>5. new.kind = calls[n].kind /\ new.about = calls[n].about
  BY <1>2 DEF GoesOn
<1>6. \A d \in sent : d.by # n
  BY <1>1, KindFacts DEF SentAgree, SentOK, Call, Kinds
<1>7. /\ Decided(n)' <=> new.st \in {"saveRaw", "notify"}
      /\ \A m \in Notifiers : m # n => (Decided(m)' <=> Decided(m))
  BY <1>1, <1>3, <1>6 DEF Decided
<1>8. ASSUME NEW m \in Notifiers, Alone(m)'
      PROVE  Alone(m) /\ RecordOK(m) /\ \A k \in Notifiers : k # m => FarFrom(m, k)
  <2>1. calls[m].st # "idle"
    BY <1>1, <1>3, <1>8 DEF Alone, Began
  <2>2. Alone(m)
    BY <1>1, <1>3, <1>8, <2>1, AloneBefore
  <2> QED BY <1>1, <2>2 DEF RawAgree
  \* A call that has notified of the same thing has done so more than a day ago.
<1>9. ASSUME NEW m \in Notifiers, m # n, Began(m), calls[m].kind = new.kind, calls[m].about = new.about,
             ~Met(new.kind, new.about), new.kind.by = "raw", Decided(m), ~Unsaved(calls[m]), new.st = "saveRaw"
      PROVE  /\ Distance(calls[m], new) > Day /\ Distance(new, calls[m]) > Day
  <2>1. calls[m].st = "done"
    BY <1>1, <1>5, <1>9, TwinsRest DEF Active
  <2>2. RecordOK(m)
    BY <1>1, <1>9 DEF RawAgree, Alone
  <2>3. RawOf(calls[m]) = RawOf(calls[n])
    BY <1>5, <1>9 DEF RawOf
  <2>4. ~ \E x \in RawOf(calls[m]) : x.by = m
    <3> SUFFICES ASSUME NEW x \in RawOf(calls[m]) PROVE FALSE
      OBVIOUS
    <3>1. RawOf(calls[m]) = {x}
      BY <2>2 DEF RecordOK
    <3> QED BY <1>2, <1>9, <2>3, <3>1, FS_Singleton
  <2>5. calls[m].at + Day < clock
    BY <1>9, <2>1, <2>2, <2>4 DEF RecordOK
  <2>6. calls[m].at \in Nat
    BY <1>1, <1>9, CallShape DEF Began
  <2> QED BY <1>1, <1>2, <2>5, <2>6, PeriodsAssumption DEF Distance
<1>10. RawAgree'
  <2>1. ASSUME NEW x \in raw' PROVE Began(x.by)' /\ RawOK(x, calls[x.by])'
    <3>1. x \in raw /\ Began(x.by) /\ RawOK(x, calls[x.by]) /\ x.by \in Notifiers
      BY <1>1 DEF RawAgree, Began
    <3>2. x.by # n
      BY <1>1, <3>1 DEF RawOK
    <3> QED BY <1>3, <3>1, <3>2 DEF Began, RawOK
  <2>2. ASSUME NEW m \in Notifiers, Alone(m)' PROVE RecordOK(m)'
    <3>1. RecordOK(m) /\ Alone(m)
      BY <1>8, <2>2
    <3>2. CASE m # n
      BY <1>1, <1>3, <1>7, <3>1, <3>2 DEF RecordOK, RawOf, Unsaved
    <3>3. CASE m = n
      <4>1. RawOf(calls[n])' = RawOf(calls[n])
        BY <1>1, <1>3, <1>5 DEF RawOf
      <4>2. \A x, y \in RawOf(calls[n]) : x = y
        BY <3>1, <3>3 DEF RecordOK
      <4>3. ASSUME new.st = "saveRaw" PROVE RawOf(calls[n]) = {}
        <5> SUFFICES ASSUME NEW x \in RawOf(calls[n]) PROVE FALSE
          OBVIOUS
        <5>1. RawOf(calls[n]) = {x}
          BY <4>2
        <5> QED BY <1>2, <4>3, <5>1, FS_Singleton
      <4>4. new.st # "notify"
        BY <1>2, <1>5, <3>1, <3>3 DEF Alone
      <4> QED BY <1>3, <1>7, <3>3, <4>1, <4>2, <4>3, <4>4 DEF RecordOK
    <3> QED BY <3>2, <3>3
  <2>3. ASSUME NEW m \in Notifiers, Alone(m)', NEW k \in Notifiers, k # m PROVE FarFrom(m, k)'
    <3>1. Alone(m) /\ FarFrom(m, k)
      BY <1>8, <2>3
    <3>2. calls'[m].kind = calls[m].kind /\ calls'[m].about = calls[m].about /\ calls[m].kind.by = "raw"
          /\ ~Met(calls[m].kind, calls[m].about) /\ Began(m)
      BY <1>3, <3>1 DEF Alone, Began, Follows, GoesOn
    <3>3. CASE m # n /\ k # n
      BY <1>3, <1>7, <3>1, <3>3 DEF FarFrom, Began, Unsaved, Distance
    <3>4. CASE m = n
      <4> SUFFICES ASSUME Began(k)', calls'[k].kind = calls'[n].kind, calls'[k].about = calls'[n].about,
                          Decided(n)', Decided(k)', ~Unsaved(calls[k])'
                   PROVE  Distance(new, calls[k]) > Day
        BY <1>3, <2>3, <3>4 DEF FarFrom, Distance
      <4>1. calls'[k] = calls[k]
        BY <1>3, <2>3, <3>4
      <4>2. Began(k) /\ ~Unsaved(calls[k]) /\ Decided(k)
        BY <1>7, <2>3, <3>4, <4>1 DEF Began, Unsaved
      <4>3. new.st = "saveRaw"
        BY <1>2, <1>5, <1>7, <3>2, <3>4
      <4> QED BY <1>3, <1>5, <1>9, <2>3, <3>2, <3>4, <4>1, <4>2, <4>3
    <3>5. CASE k = n
      <4> SUFFICES ASSUME calls'[n].kind = calls'[m].kind, calls'[n].about = calls'[m].about,
                          Decided(n)', Decided(m)', ~Unsaved(calls[m])'
                   PROVE  Distance(calls[m], new) > Day
        BY <1>3, <2>3, <3>5 DEF FarFrom, Distance
      <4>1. calls'[m] = calls[m]
        BY <1>3, <2>3, <3>5
      <4>2. ~Unsaved(calls[m]) /\ Decided(m)
        BY <1>7, <2>3, <3>5, <4>1 DEF Unsaved
      <4>3. new.st = "saveRaw"
        BY <1>2, <1>3, <1>5, <1>7, <3>2, <3>5
      <4> QED BY <1>3, <1>5, <1>9, <2>3, <3>2, <3>5, <4>1, <4>2, <4>3
    <3> QED BY <3>3, <3>4, <3>5
  <2> QED BY <2>1, <2>2, <2>3 DEF RawAgree
<1> QED BY <1>3, <1>4, <1>10 DEF NotificationsInv

\* A step that leaves the times, the failures and the decisions of the calls.
LEMMA FarStays ==
  ASSUME AllMeet, RawAgree, Grows, Follows,
         \A m \in Notifiers : calls[m].st = "idle" => calls'[m] = calls[m],
         \A m \in Notifiers : calls'[m].at = calls[m].at /\ (Decided(m)' => Decided(m)),
         NEW n \in Notifiers, Alone(n)'
  PROVE  /\ Alone(n) /\ RecordOK(n)
         /\ \A m \in Notifiers : m # n => FarFrom(n, m)'
<1>1. calls[n].st # "idle"
  BY DEF Alone, Began
<1>2. Alone(n)
  BY <1>1, AloneBefore
<1>3. RecordOK(n) /\ \A m \in Notifiers : m # n => FarFrom(n, m)
  BY <1>2 DEF RawAgree
<1>4. ASSUME NEW m \in Notifiers, m # n, Began(m)' PROVE FarFrom(n, m)'
  <2>1. Began(m)
    BY <1>4 DEF Began
  <2>2. /\ calls'[n].kind = calls[n].kind /\ calls'[n].about = calls[n].about
        /\ calls'[m].kind = calls[m].kind /\ calls'[m].about = calls[m].about
        /\ calls[n].ids \subseteq calls'[n].ids /\ calls[m].ids \subseteq calls'[m].ids
    BY <1>1, <2>1 DEF Began, Follows, GoesOn
  <2>3. (~Unsaved(calls[n])' => ~Unsaved(calls[n])) /\ (~Unsaved(calls[m])' => ~Unsaved(calls[m]))
    BY <2>2 DEF Unsaved
  <2>4. FarFrom(n, m)
    BY <1>3, <1>4
  <2>5. Distance(calls[n], calls[m])' = Distance(calls[n], calls[m])
    BY DEF Distance
  <2> QED BY <2>1, <2>2, <2>3, <2>4, <2>5 DEF FarFrom
<1>5. ASSUME NEW m \in Notifiers, m # n PROVE FarFrom(n, m)'
  BY <1>4, <1>5 DEF FarFrom
<1> QED BY <1>2, <1>3, <1>5

LEMMA SaveRawFacts ==
  ASSUME CallsTypeOK, NEW n \in Notifiers, SaveRawNotification(n)
  PROVE  /\ calls[n].st = "saveRaw" /\ calls[n] \in Call /\ calls[n].kind \in HelperKinds
         /\ calls[n].kind.by = "raw" /\ calls[n].at <= clock
         /\ UNCHANGED <<up, clock, topic, wants, saved, sent, overlaps>>
         /\ \E new \in Call :
              /\ calls' = [calls EXCEPT ![n] = new] /\ CallOK(new) /\ GoesOn(calls[n], new)
              /\ new.at = calls[n].at /\ new.st = "notify"
              /\ \/ raw' = raw \cup {[name |-> calls[n].kind.name, about |-> calls[n].about, at |-> clock, by |-> n]}
                 \/ raw' = raw /\ Unsaved(new)
<1>1. /\ calls[n].st = "saveRaw" /\ UNCHANGED <<up, clock, topic, wants, saved, sent, overlaps>>
      /\ clock \in Nat
  BY DEF SaveRawNotification, CallsTypeOK
<1>2. PICK call \in Call : call = calls[n]
  BY <1>1, CallShape
<1>3. call.kind \in HelperKinds /\ call.ids = {} /\ call.kind.by = "raw" /\ call.at <= clock
  BY <1>1, <1>2 DEF CallsTypeOK, CallOK
<1>4. ASSUME NEW new \in Call, new.st = "notify", new.at = call.at, new.kind = call.kind, new.about = call.about,
             new.channel = call.channel
      PROVE  CallOK(new) /\ GoesOn(calls[n], new)
  <2>1. CallOK(new)
    BY <1>3, <1>4 DEF CallOK
  <2>2. GoesOn(calls[n], new)
    BY <1>1, <1>2, <1>3, <1>4 DEF GoesOn, Left
  <2> QED BY <2>1, <2>2
<1>5. CASE /\ raw' = raw \cup {[name |-> calls[n].kind.name, about |-> calls[n].about, at |-> clock, by |-> n]}
           /\ calls' = [calls EXCEPT ![n] = [@ EXCEPT !.st = "notify"]]
  <2>1. PICK new : new = [call EXCEPT !.st = "notify"]
    OBVIOUS
  <2>2. /\ new \in Call /\ new.st = "notify" /\ new.at = call.at /\ new.kind = call.kind /\ new.about = call.about
        /\ new.channel = call.channel
    BY <2>1 DEF Call
  <2>3. calls' = [calls EXCEPT ![n] = new]
    BY <1>2, <1>5, <2>1
  <2> QED BY <1>1, <1>2, <1>3, <1>4, <1>5, <2>2, <2>3
<1>6. CASE /\ calls' = [calls EXCEPT ![n] = [@ EXCEPT !.st = "notify", !.ids = {<<"unsaved">>}]]
           /\ UNCHANGED raw
  <2>1. PICK new : new = [call EXCEPT !.st = "notify", !.ids = {<<"unsaved">>}]
    OBVIOUS
  <2>2. {<<"unsaved">>} \subseteq Identifiers
    BY DEF Identifiers
  <2>3. /\ new \in Call /\ new.st = "notify" /\ new.at = call.at /\ new.kind = call.kind /\ new.about = call.about
        /\ new.channel = call.channel /\ new.ids = {<<"unsaved">>}
    BY <2>1, <2>2 DEF Call
  <2>4. calls' = [calls EXCEPT ![n] = new]
    BY <1>2, <1>6, <2>1
  <2>5. Unsaved(new)
    BY <2>3 DEF Unsaved
  <2> QED BY <1>1, <1>2, <1>3, <1>4, <1>6, <2>3, <2>4, <2>5
<1> QED BY <1>5, <1>6 DEF SaveRawNotification

LEMMA SaveRawStep ==
  ASSUME NotificationsInv, NEW n \in Notifiers, SaveRawNotification(n)
  PROVE  NotificationsInv'
<1>1. /\ CallsTypeOK /\ AllMeet /\ SentAgree /\ RawAgree /\ clock \in Nat
      /\ calls[n].st = "saveRaw" /\ calls[n] \in Call /\ calls[n].kind \in HelperKinds
      /\ calls[n].kind.by = "raw" /\ calls[n].at <= clock
      /\ UNCHANGED <<up, clock, topic, wants, saved, sent, overlaps>>
  BY SaveRawFacts DEF NotificationsInv, CallsTypeOK
<1>2. PICK new \in Call :
              /\ calls' = [calls EXCEPT ![n] = new] /\ CallOK(new) /\ GoesOn(calls[n], new)
              /\ new.at = calls[n].at /\ new.st = "notify"
              /\ \/ raw' = raw \cup {[name |-> calls[n].kind.name, about |-> calls[n].about, at |-> clock, by |-> n]}
                 \/ raw' = raw /\ Unsaved(new)
  BY <1>1, SaveRawFacts
<1>3. /\ calls' \in [Notifiers -> Call \cup {Idle}]
      /\ calls'[n] = new /\ \A m \in Notifiers : m # n => calls'[m] = calls[m]
      /\ Follows /\ Grows
      /\ CallsTypeOK' /\ AllMeet' /\ SavedAgree' /\ PeriodsAgree' /\ ChannelsAgree'
  BY <1>1, <1>2, HelperStays
<1>4. SentAgree'
  <2>1. \A m \in Notifiers : calls'[m].st = "send" => calls'[m] = calls[m]
    BY <1>2, <1>3
  <2> QED BY <1>1, <1>3, <2>1, SentAgreeStays
<1>5. new.kind = calls[n].kind /\ new.about = calls[n].about
  BY <1>2 DEF GoesOn
<1>6. \A m \in Notifiers : Decided(m)' <=> Decided(m)
  BY <1>1, <1>2, <1>3 DEF Decided
<1>7. ASSUME NEW m \in Notifiers, Alone(m)'
      PROVE  Alone(m) /\ RecordOK(m) /\ \A k \in Notifiers : k # m => FarFrom(m, k)'
  <2>1. \A k \in Notifiers : calls[k].st = "idle" => calls'[k] = calls[k]
    BY <1>1, <1>3
  <2>2. \A k \in Notifiers : calls'[k].at = calls[k].at /\ (Decided(k)' => Decided(k))
    BY <1>2, <1>3, <1>6
  <2> QED BY <1>1, <1>3, <1>7, <2>1, <2>2, FarStays
<1>8. \A x \in raw : Began(x.by)' /\ RawOK(x, calls[x.by])'
  <2> SUFFICES ASSUME NEW x \in raw PROVE Began(x.by)' /\ RawOK(x, calls[x.by])'
    OBVIOUS
  <2>1. Began(x.by) /\ RawOK(x, calls[x.by]) /\ x.by \in Notifiers
    BY <1>1 DEF RawAgree, Began
  <2>2. x.by # n
    BY <1>1, <2>1 DEF RawOK
  <2> QED BY <1>3, <2>1, <2>2 DEF Began, RawOK
<1>9. ASSUME NEW x, raw' = raw \cup {x}, x.name = new.kind.name, x.about = new.about, x.at = clock, x.by = n
      PROVE  RawAgree'
  <2>1. Began(x.by)' /\ RawOK(x, calls[x.by])'
    BY <1>1, <1>2, <1>3, <1>5, <1>9 DEF Began, RawOK
  <2>2. ASSUME NEW m \in Notifiers, Alone(m)' PROVE RecordOK(m)'
    <3>1. Alone(m) /\ RecordOK(m) /\ calls[m].kind.by = "raw" /\ Began(m) /\ ~Met(calls[m].kind, calls[m].about)
      BY <1>7, <2>2 DEF Alone
    <3>2. calls'[m].kind = calls[m].kind /\ calls'[m].about = calls[m].about
      BY <1>3, <3>1 DEF Follows, GoesOn, Began
    <3>3. CASE calls[m].kind = new.kind /\ calls[m].about = new.about
      <4>1. Alone(n) /\ RecordOK(n)
        BY <1>1, <1>5, <3>1, <3>3 DEF Alone, Began, RawAgree
      <4>2. RawOf(calls[n]) = {} /\ RawOf(calls[m]) = {}
        BY <1>1, <1>5, <3>3, <4>1 DEF RecordOK, RawOf
      <4>3. RawOf(calls[m])' = {x}
        BY <1>9, <3>2, <3>3, <4>2 DEF RawOf
      <4>4. CASE m = n
        BY <1>2, <1>3, <1>9, <4>3, <4>4 DEF RecordOK
      <4>5. CASE m # n
        <5>1. calls'[m] = calls[m] /\ calls[m].st = "done"
          BY <1>1, <1>3, <1>5, <3>1, <3>3, <4>5, TwinsRest DEF Active
        <5> QED BY <1>1, <1>6, <3>1, <4>2, <4>3, <5>1 DEF RecordOK, Unsaved
      <4> QED BY <4>4, <4>5
    <3>4. CASE ~ (calls[m].kind = new.kind /\ calls[m].about = new.about)
      <4>1. m # n /\ calls'[m] = calls[m]
        BY <1>3, <1>5, <3>4
      <4>2. calls[m].kind \in HelperKinds
        BY <1>1, <3>1, CallShape, HandlerKindFacts DEF Began, HandlerKindOK, Kinds
      <4>3. x \notin RawOf(calls[m])'
        BY <1>1, <1>5, <1>9, <3>1, <3>4, <4>1, <4>2, HelperKindFacts DEF RawOf
      <4>4. RawOf(calls[m])' = RawOf(calls[m])
        BY <1>9, <4>1, <4>3 DEF RawOf
      <4> QED BY <1>1, <1>6, <3>1, <4>1, <4>4 DEF RecordOK, Unsaved
    <3> QED BY <3>3, <3>4
  <2> QED BY <1>7, <1>8, <1>9, <2>1, <2>2 DEF RawAgree
<1>10. ASSUME raw' = raw, Unsaved(new) PROVE RawAgree'
  <2>1. ASSUME NEW m \in Notifiers, Alone(m)' PROVE RecordOK(m)'
    <3>1. RecordOK(m)
      BY <1>7, <2>1
    <3>2. RawOf(calls[m])' = RawOf(calls[m])
      BY <1>3, <1>5, <1>10 DEF RawOf
    <3> QED BY <1>1, <1>2, <1>3, <1>6, <1>10, <3>1, <3>2 DEF RecordOK, Unsaved
  <2> QED BY <1>7, <1>8, <1>10, <2>1 DEF RawAgree
<1>11. RawAgree'
  <2>1. PICK x : x = [name |-> calls[n].kind.name, about |-> calls[n].about, at |-> clock, by |-> n]
    OBVIOUS
  <2>2. x.name = new.kind.name /\ x.about = new.about /\ x.at = clock /\ x.by = n
    BY <1>5, <2>1
  <2>3. raw' = raw \cup {x} \/ (raw' = raw /\ Unsaved(new))
    BY <1>2, <2>1
  <2> QED BY <1>9, <1>10, <2>2, <2>3
<1> QED BY <1>3, <1>4, <1>11 DEF NotificationsInv

LEMMA NotifyStep ==
  ASSUME NotificationsInv, NEW n \in Notifiers, NotifySingleUser(n)
  PROVE  NotificationsInv'
<1>1. /\ CallsTypeOK /\ AllMeet /\ SentAgree /\ RawAgree /\ clock \in Nat
      /\ calls[n].st = "notify" /\ Sending(n, {"email", "push"})
      /\ UNCHANGED <<up, clock, topic, wants, saved, raw, overlaps>>
  BY DEF NotificationsInv, CallsTypeOK, NotifySingleUser
<1>2. PICK call \in Call : call = calls[n]
  BY <1>1, CallShape
<1>3. call.st = "notify" /\ call.kind \in HelperKinds /\ CallOK(call)
  BY <1>1, <1>2 DEF CallsTypeOK, CallOK
<1>4. PICK new : new = [call EXCEPT !.st = "done"]
  OBVIOUS
<1>5. /\ new \in Call /\ new.st = "done" /\ new.kind = call.kind /\ new.about = call.about /\ new.at = call.at
      /\ new.ids = call.ids /\ new.channel = call.channel
  BY <1>4 DEF Call
<1>6. calls' = [calls EXCEPT ![n] = new]
  BY <1>2, <1>4 DEF NotifySingleUser
<1>7. CallOK(new) /\ GoesOn(calls[n], new)
  BY <1>2, <1>3, <1>5 DEF CallOK, GoesOn, Left
<1>8. sent \subseteq sent'
  BY <1>1, SendingFacts
<1>9. \A d \in sent' : d \notin sent =>
        d.by = n /\ d.kind = call.kind /\ d.about = call.about /\ d.at = call.at
  BY <1>1, <1>2, SendingFacts
<1>10. /\ calls' \in [Notifiers -> Call \cup {Idle}]
       /\ calls'[n] = new /\ \A m \in Notifiers : m # n => calls'[m] = calls[m]
       /\ Follows /\ Grows
       /\ CallsTypeOK' /\ AllMeet' /\ SavedAgree' /\ PeriodsAgree' /\ ChannelsAgree'
  BY <1>1, <1>5, <1>6, <1>7, <1>8, HelperStays
<1>11. SentAgree'
  <2>1. ASSUME NEW d \in sent PROVE Began(d.by)' /\ SentOK(d, calls[d.by])'
    BY <1>1, <1>10, SentStays DEF SentAgree
  <2>2. ASSUME NEW d \in sent', d \notin sent PROVE Began(d.by)' /\ SentOK(d, calls[d.by])'
    <3>1. call.kind \notin HandlerKinds
      BY <1>3, KindFacts DEF Kinds
    <3> QED BY <1>3, <1>5, <1>9, <1>10, <2>2, <3>1 DEF Began, SentOK
  <2>3. ASSUME NEW m \in Notifiers, calls'[m].st = "send"
        PROVE  \E s \in saved' : s.by = m /\ s.channel = Channels[calls'[m].channel] /\ s.at = calls'[m].at
    <3>1. calls'[m] = calls[m]
      BY <1>5, <1>10, <2>3
    <3> QED BY <1>1, <2>3, <3>1 DEF SentAgree
  <2> QED BY <2>1, <2>2, <2>3 DEF SentAgree
<1>12. \A m \in Notifiers : Decided(m)' => Decided(m)
  BY <1>1, <1>9, <1>10 DEF Decided
<1>13. RawAgree'
  <2>1. ASSUME NEW x \in raw' PROVE Began(x.by)' /\ RawOK(x, calls[x.by])'
    <3>1. x \in raw /\ Began(x.by) /\ RawOK(x, calls[x.by]) /\ x.by \in Notifiers
      BY <1>1 DEF RawAgree, Began
    <3> QED BY <1>1, <1>2, <1>5, <1>10, <3>1 DEF Began, RawOK
  <2>2. ASSUME NEW m \in Notifiers, Alone(m)'
        PROVE  RecordOK(m)' /\ \A k \in Notifiers : k # m => FarFrom(m, k)'
    <3>1. RecordOK(m) /\ \A k \in Notifiers : k # m => FarFrom(m, k)'
      <4>1. \A k \in Notifiers : calls[k].st = "idle" => calls'[k] = calls[k]
        BY <1>1, <1>10
      <4>2. \A k \in Notifiers : calls'[k].at = calls[k].at /\ (Decided(k)' => Decided(k))
        BY <1>2, <1>5, <1>10, <1>12
      <4> QED BY <1>1, <1>10, <2>2, <4>1, <4>2, FarStays
    <3>2. /\ calls'[m].kind = calls[m].kind /\ calls'[m].about = calls[m].about /\ calls'[m].ids = calls[m].ids
          /\ calls'[m].at = calls[m].at /\ (calls'[m].st = "saveRaw" => calls[m].st = "saveRaw")
          /\ (calls'[m].st # "saveRaw" => calls[m].st # "saveRaw")
      BY <1>1, <1>2, <1>5, <1>10
    <3>3. RawOf(calls[m])' = RawOf(calls[m])
      BY <1>1, <3>2 DEF RawOf
    <3> QED BY <1>1, <1>12, <3>1, <3>2, <3>3 DEF RecordOK, Unsaved
  <2> QED BY <2>1, <2>2 DEF RawAgree
<1> QED BY <1>10, <1>11, <1>13 DEF NotificationsInv

-----------------------------------------------------------------------------
(* Notifications: all steps. *)

LEMMA NotificationsBegin ==
  ASSUME Init
  PROVE  NotificationsInv
<1>1. /\ clock = 0 /\ saved = {} /\ raw = {} /\ sent = {} /\ overlaps = {}
      /\ calls = [n \in Notifiers |-> Idle]
  BY DEF Init
<1>2. Idle.st = "idle"
  BY DEF Idle
<1>3. \A n \in Notifiers : calls[n] = Idle /\ calls[n].st = "idle"
  BY <1>1, <1>2
<1>4. CallsTypeOK
  BY <1>1, <1>3 DEF CallsTypeOK, CallOK
<1>5. AllMeet
  BY <1>1, <1>3 DEF AllMeet, Active
<1>6. SavedAgree /\ SentAgree
  BY <1>1, <1>3 DEF SavedAgree, SentAgree
<1>7. PeriodsAgree
  BY <1>1, <1>3 DEF PeriodsAgree
<1>8. RawAgree
  BY <1>1, <1>3 DEF RawAgree, Alone, Began
<1>9. ChannelsAgree
  BY <1>3 DEF ChannelsAgree
<1> QED BY <1>4, <1>5, <1>6, <1>7, <1>8, <1>9 DEF NotificationsInv

LEMMA NotificationsStay ==
  ASSUME NotificationsInv, UNCHANGED nVars
  PROVE  NotificationsInv'
<1>1. UNCHANGED <<clock, topic, wants, saved, raw, calls, up, sent, overlaps>>
  BY DEF nVars
<1>2. CallsTypeOK' /\ AllMeet'
  BY <1>1 DEF NotificationsInv, CallsTypeOK, CallOK, AllMeet, Began, Active
<1>3. Grows /\ Follows
  BY <1>1, GoesOnSelf DEF Grows, Follows, NotificationsInv, CallsTypeOK
<1>4. SavedAgree' /\ SentAgree' /\ PeriodsAgree' /\ ChannelsAgree'
  BY <1>1, <1>3, SavedAgreeStays, SentAgreeStays, PeriodsStay, ChannelsStay DEF NotificationsInv
<1>5. RawAgree'
  BY <1>1, <1>3, HandlersLeaveRaw DEF NotificationsInv
<1> QED BY <1>2, <1>4, <1>5 DEF NotificationsInv

LEMMA NotificationsNext ==
  ASSUME NotificationsInv, Next
  PROVE  NotificationsInv'
<1>1. CASE Tick
  BY <1>1, TickNotifications
<1>2. ASSUME NEW n \in Notifiers, Start(n) PROVE NotificationsInv'
  BY <1>2, StartStep
<1>3. ASSUME NEW n \in Notifiers, Lookup(n) PROVE NotificationsInv'
  BY <1>3, LookupStep
<1>4. ASSUME NEW n \in Notifiers, SaveNotification(n) PROVE NotificationsInv'
  BY <1>4, SaveNotificationStep
<1>5. ASSUME NEW n \in Notifiers, SendThrough(n) PROVE NotificationsInv'
  BY <1>5, SendThroughStep
<1>6. ASSUME NEW n \in Notifiers, CheckNotificationAlreadySent(n) PROVE NotificationsInv'
  BY <1>6, CheckStep
<1>7. ASSUME NEW n \in Notifiers, SaveRawNotification(n) PROVE NotificationsInv'
  BY <1>7, SaveRawStep
<1>8. ASSUME NEW n \in Notifiers, NotifySingleUser(n) PROVE NotificationsInv'
  BY <1>8, NotifyStep
<1> QED BY <1>1, <1>2, <1>3, <1>4, <1>5, <1>6, <1>7, <1>8 DEF Next

\* Nobody hears twice.
LEMMA NotifiedOnceHolds ==
  ASSUME NotificationsInv
  PROVE  NotifiedOnce
<1> SUFFICES ASSUME NEW d \in sent, NEW e \in sent, SameNotification(d, e)
             PROVE  /\ d.kind.by # "id"
                    /\ d.kind.by = "interval" => Distance(d, e) > Interval \/ {d.by, e.by} \in overlaps
                    /\ d.kind.by = "raw" =>
                         \/ Distance(d, e) > Day
                         \/ \E o \in overlaps : \A n \in o : calls[n].kind = d.kind /\ calls[n].about = d.about
                         \/ <<"unsaved">> \in calls[d.by].ids \cup calls[e.by].ids
  BY DEF NotifiedOnce
<1>1. CallsTypeOK /\ SavedAgree /\ SentAgree /\ PeriodsAgree /\ RawAgree
  BY DEF NotificationsInv
<1>2. /\ Began(d.by) /\ SentOK(d, calls[d.by]) /\ Began(e.by) /\ SentOK(e, calls[e.by])
      /\ d.by \in Notifiers /\ e.by \in Notifiers
  BY <1>1 DEF SentAgree, Began
<1>3. /\ d.by # e.by /\ d.kind = e.kind /\ d.channel = e.channel /\ (d.kind.one => d.about = e.about)
      /\ calls[d.by].kind = d.kind /\ calls[e.by].kind = d.kind
      /\ calls[d.by].about = d.about /\ calls[e.by].about = e.about
  BY <1>2 DEF SameNotification, SentOK
<1>4. d.kind \in Kinds
  BY <1>1, <1>2, <1>3, CallShape DEF Began
<1>5. ASSUME d.kind \in HandlerKinds
      PROVE  \E s \in saved, t \in saved :
               /\ s.by = d.by /\ s.channel = d.channel /\ s.at = d.at
               /\ t.by = e.by /\ t.channel = d.channel /\ t.at = e.at
               /\ SavedOK(s, calls[d.by]) /\ SavedOK(t, calls[e.by])
  <2>1. PICK s \in saved : s.by = d.by /\ s.channel = d.channel /\ s.at = d.at
    BY <1>2, <1>5 DEF SentOK
  <2>2. PICK t \in saved : t.by = e.by /\ t.channel = d.channel /\ t.at = e.at
    BY <1>2, <1>3, <1>5 DEF SentOK
  <2>3. SavedOK(s, calls[d.by]) /\ SavedOK(t, calls[e.by])
    BY <1>1, <2>1, <2>2 DEF SavedAgree
  <2> QED BY <2>1, <2>2, <2>3
<1>6. d.kind.by # "id"
  <2> SUFFICES ASSUME d.kind.by = "id" PROVE FALSE
    OBVIOUS
  <2>1. d.kind \in HandlerKinds /\ d.kind.id = "object" /\ d.kind.one
    BY <1>4, KindFacts, HandlerKindFacts DEF HandlerKindOK
  <2>2. PICK s \in saved, t \in saved :
               /\ s.by = d.by /\ s.channel = d.channel /\ s.at = d.at
               /\ t.by = e.by /\ t.channel = d.channel /\ t.at = e.at
               /\ SavedOK(s, calls[d.by]) /\ SavedOK(t, calls[e.by])
    BY <1>5, <2>1
  <2>3. s.id = ObjectID(calls[d.by]) /\ t.id = ObjectID(calls[e.by])
    BY <1>3, <2>1, <2>2 DEF SavedOK
  <2>4. s.id = t.id
    BY <1>3, <2>1, <2>3 DEF ObjectID
  <2> QED BY <1>1, <1>3, <2>2, <2>4 DEF SavedAgree
<1>7. ASSUME d.kind.by = "interval" PROVE Distance(d, e) > Interval \/ {d.by, e.by} \in overlaps
  <2>1. d.kind \in HandlerKinds
    BY <1>4, <1>7, KindFacts
  <2>2. PICK s \in saved, t \in saved :
               /\ s.by = d.by /\ s.channel = d.channel /\ s.at = d.at
               /\ t.by = e.by /\ t.channel = d.channel /\ t.at = e.at
               /\ SavedOK(s, calls[d.by]) /\ SavedOK(t, calls[e.by])
    BY <1>5, <2>1
  <2>3. Alike(calls[s.by], calls[t.by])
    BY <1>3, <2>2 DEF Alike
  <2>4. Distance(s, t) > Interval \/ {s.by, t.by} \in overlaps
    BY <1>1, <1>3, <1>7, <2>2, <2>3 DEF PeriodsAgree
  <2> QED BY <2>2, <2>4 DEF Distance
<1>8. ASSUME d.kind.by = "raw"
      PROVE  \/ Distance(d, e) > Day
             \/ \E o \in overlaps : \A n \in o : calls[n].kind = d.kind /\ calls[n].about = d.about
             \/ <<"unsaved">> \in calls[d.by].ids \cup calls[e.by].ids
  <2>1. d.kind \in HelperKinds /\ d.kind.one
    BY <1>4, <1>8, HandlerKindFacts, HelperKindFacts DEF HandlerKindOK, Kinds
  <2>2. d.about = e.about /\ d.at = calls[d.by].at /\ e.at = calls[e.by].at
    BY <1>2, <1>3, <2>1 DEF SentOK
  <2> SUFFICES ASSUME ~Met(d.kind, d.about), ~Unsaved(calls[d.by]), ~Unsaved(calls[e.by])
               PROVE  Distance(d, e) > Day
    BY DEF Met, Unsaved
  <2>3. Alone(d.by)
    BY <1>2, <1>3, <1>8 DEF Alone
  <2>4. FarFrom(d.by, e.by)
    BY <1>1, <1>2, <1>3, <2>3 DEF RawAgree
  <2>5. Distance(calls[d.by], calls[e.by]) > Day
    BY <1>2, <1>3, <2>2, <2>4 DEF FarFrom, Decided
  <2> QED BY <2>2, <2>5 DEF Distance
<1> QED BY <1>6, <1>7, <1>8

\* No notification is held back for one that nobody sends.
LEMMA NotSilencedHolds ==
  ASSUME NotificationsInv
  PROVE  NotSilenced
<1> SUFFICES ASSUME NEW n \in Notifiers, NEW c \in DOMAIN Channels,
                    calls[n].st # "idle", calls[n].kind \in HandlerKinds,
                    Delivers(Channels[c], calls[n].kind.task),
                    calls[n].st = "done" \/ calls[n].channel > c,
                    ~Refused(calls[n]), Recipients(calls[n]) # {}
             PROVE  \/ Tried(n, c)
                    \/ \E s \in saved : /\ s.by # n /\ s.channel = Channels[c]
                                        /\ s.name = calls[n].kind.name \/ s.id \in calls[n].ids
                                        /\ \/ Tried(s.by, c)
                                           \/ calls[s.by].channel = c /\ calls[s.by].st = "send"
                                           \/ Recipients(calls[s.by]) = {}
                                           \/ ~Delivers(Channels[c], calls[s.by].kind.task)
  BY DEF NotSilenced
<1>1. c \in {1, 2}
  BY ChannelFacts
<1>2. Passed(n, c)
  BY <1>1 DEF NotificationsInv, ChannelsAgree
<1>3. CASE Tried(n, c)
  BY <1>3
<1>4. ASSUME NEW s \in saved, s.by # n, s.channel = Channels[c], s.name = calls[n].kind.name \/ s.id \in calls[n].ids
      PROVE  \/ Tried(s.by, c)
             \/ calls[s.by].channel = c /\ calls[s.by].st = "send"
             \/ Recipients(calls[s.by]) = {}
             \/ ~Delivers(Channels[c], calls[s.by].kind.task)
  <2>1. PICK b \in {1, 2} :
          /\ s.channel = Channels[b] /\ Left(calls[s.by], b)
          /\ \/ Tried(s.by, b)
             \/ calls[s.by].channel = b /\ calls[s.by].st = "send"
             \/ Recipients(calls[s.by]) = {}
             \/ ~Delivers(Channels[b], calls[s.by].kind.task)
    BY DEF NotificationsInv, SavedAgree, SavedOK
  <2>2. b = c
    BY <1>1, <1>4, <2>1, ChannelFacts
  <2> QED BY <2>1, <2>2
<1> QED BY <1>2, <1>3, <1>4 DEF Passed

\* Nobody is notified twice of the same thing (NotificationHandler and
\* NotificationHelper), and no notification is held back for one that nobody
\* sends, however many calls run at the same time.
THEOREM NotificationsAlwaysAgree == MCSpec => []NotificationsAgree
<1>1. MCInit => NotificationsInv
  BY NotificationsBegin DEF MCInit
<1>2. NotificationsInv /\ [MCNext]_<<focus, recordVars, importVars, nVars>> => NotificationsInv'
  <2> SUFFICES ASSUME NotificationsInv, [MCNext]_<<focus, recordVars, importVars, nVars>>
               PROVE  NotificationsInv'
    OBVIOUS
  <2>1. Next \/ UNCHANGED nVars
    BY DEF MCNext
  <2> QED BY <2>1, NotificationsNext, NotificationsStay
<1>3. NotificationsInv => NotificationsAgree
  BY NotifiedOnceHolds, NotSilencedHolds DEF NotificationsAgree
<1> QED BY <1>1, <1>2, <1>3, PTL DEF MCSpec
=============================================================================
