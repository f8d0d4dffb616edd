------------------------ MODULE LockingAndTasks_proofs ------------------------
(***************************************************************************)
(* Proofs about what server processes compete for: an exclusive lock, and  *)
(* the asynchronous tasks each of which is run under such a lock.  They    *)
(* hold for any number of callers, tasks, runs and server processes, any   *)
(* validity and waiting time, and any number of failures.                  *)
(*                                                                         *)
(* ExclusiveUntilTakeover is not inductive: it says nothing of who may     *)
(* delete the document.  Together with HolderOwnsLock it is: before the    *)
(* first takeover a release can only delete the releaser's own document.   *)
(***************************************************************************)
EXTENDS LockingManager, AsyncTaskManager, FiniteSetTheorems, TLAPS

-----------------------------------------------------------------------------
(* The exclusive lock. *)

\* The inductive invariant.
LockInv == LockTypeOK /\ HolderOwnsLock /\ (~ takenOver => lost = {})

LEMMA SoonerType ==
  ASSUME NEW b \in Nat, NEW t \in -1 .. b
  PROVE  Sooner(t) \in -1 .. b
BY DEF Sooner

LEMMA LockInitInv == LockInit => LockInv
<1> SUFFICES ASSUME LockInit PROVE LockInv
  OBVIOUS
<1>1. LockTypeOK
  <2>1. retry \in [Procs -> BOOLEAN] /\ takenOver \in BOOLEAN
    BY Zenon DEF LockInit
  <2>2. /\ ttl \in [Procs -> -1 .. Validity] /\ wait \in [Procs -> -1 .. Timeout]
        /\ lockFailures \in 0 .. MaxLockFailures
    BY LockingAssumption DEF LockInit
  <2> QED BY <2>1, <2>2 DEF LockInit, LockTypeOK
<1>2. HolderOwnsLock /\ (~ takenOver => lost = {})
  BY DEF LockInit, HolderOwnsLock, Holders
<1> QED BY <1>1, <1>2 DEF LockInv

LEMMA LockTypePreserved == LockTypeOK /\ [LockNext]_lockVars => LockTypeOK'
<1> SUFFICES ASSUME LockTypeOK, [LockNext]_lockVars PROVE LockTypeOK'
  OBVIOUS
<1> USE LockingAssumption
<1>1. ASSUME NEW p \in Procs, Create(p) PROVE LockTypeOK'
  BY <1>1 DEF Create, Move, LockTypeOK
<1>2. ASSUME NEW p \in Procs, InsertLock(p) PROVE LockTypeOK'
  BY <1>2 DEF InsertLock, Move, LockTypeOK
<1>3. ASSUME NEW p \in Procs, InsertFails(p) PROVE LockTypeOK'
  BY <1>3 DEF InsertFails, AfterFailure, Move, LockTypeOK
<1>4. ASSUME NEW p \in Procs, Wake(p) PROVE LockTypeOK'
  BY <1>4 DEF Wake, AfterFailure, Move, LockTypeOK
<1>5. ASSUME NEW p \in Procs, CheckExpired(p) PROVE LockTypeOK'
  BY <1>5 DEF CheckExpired, Move, LockTypeOK
<1>6. ASSUME NEW p \in Procs, ReleaseExpired(p) PROVE LockTypeOK'
  BY <1>6 DEF ReleaseExpired, DeleteLock, Move, LockTypeOK
<1>7. ASSUME NEW p \in Procs, Release(p) PROVE LockTypeOK'
  BY <1>7 DEF Release, DeleteLock, Move, LockTypeOK
<1>8. ASSUME NEW p \in Procs, ReleaseExpiredFails(p) PROVE LockTypeOK'
  BY <1>8 DEF ReleaseExpiredFails, Fail, Move, LockTypeOK
<1>9. ASSUME NEW p \in Procs, CallerCrash(p) PROVE LockTypeOK'
  BY <1>9 DEF CallerCrash, Fail, Move, LockTypeOK
<1>10. CASE Tick
  <2>1. ttl' \in [Procs -> -1 .. Validity] /\ wait' \in [Procs -> -1 .. Timeout]
    BY <1>10, SoonerType DEF Tick, LockTypeOK
  <2>2. doc' \in {NoLock} \cup [owner : Procs, ttl : -1 .. Validity]
    BY <1>10, SoonerType DEF Tick, LockTypeOK
  <2> QED BY <1>10, <2>1, <2>2 DEF Tick, LockTypeOK
<1>11. CASE UNCHANGED lockVars
  BY <1>11 DEF lockVars, LockTypeOK
<1> QED
  BY <1>1, <1>2, <1>3, <1>4, <1>5, <1>6, <1>7, <1>8, <1>9, <1>10, <1>11 DEF LockNext, Step

(***************************************************************************)
(* Only an insert makes a holder, only a deletion takes the document from  *)
(* one, and a deletion records whom it robbed.                             *)
(***************************************************************************)
LEMMA OwnerPreserved == LockTypeOK /\ HolderOwnsLock /\ [LockNext]_lockVars => HolderOwnsLock'
<1> SUFFICES ASSUME LockTypeOK, HolderOwnsLock, [LockNext]_lockVars PROVE HolderOwnsLock'
  OBVIOUS
<1> USE DEF HolderOwnsLock, Holders
<1>1. ASSUME NEW p \in Procs,
             Create(p) \/ InsertFails(p) \/ Wake(p) \/ CheckExpired(p) \/ ReleaseExpiredFails(p)
      PROVE  HolderOwnsLock'
  BY <1>1 DEF Create, InsertFails, Wake, CheckExpired, ReleaseExpiredFails, AfterFailure, Move, LockTypeOK
<1>2. ASSUME NEW p \in Procs, InsertLock(p) PROVE HolderOwnsLock'
  BY <1>2, LockingAssumption DEF InsertLock, Move, LockTypeOK
<1>3. ASSUME NEW p \in Procs, ReleaseExpired(p) PROVE HolderOwnsLock'
  BY <1>3 DEF ReleaseExpired, DeleteLock, Move, LockTypeOK
<1>4. ASSUME NEW p \in Procs, Release(p) PROVE HolderOwnsLock'
  BY <1>4 DEF Release, DeleteLock, Move, LockTypeOK
<1>5. ASSUME NEW p \in Procs, CallerCrash(p) PROVE HolderOwnsLock'
  BY <1>5 DEF CallerCrash, Move, LockTypeOK
<1>6. CASE Tick
  <2>1. ASSUME NEW q \in Holders' \ lost' PROVE doc' # NoLock /\ doc'.owner = q
    <3>1. doc # NoLock /\ doc.owner = q
      BY <1>6, <2>1 DEF Tick
    <3>2. doc' = [owner |-> doc.owner, ttl |-> Sooner(doc.ttl)]
      BY <1>6, <3>1 DEF Tick, LockTypeOK
    <3>3. Sooner(doc.ttl) \in Int
      BY <3>1, LockingAssumption, SoonerType DEF LockTypeOK
    <3> QED BY <3>1, <3>2, <3>3, LockingAssumption DEF LockTypeOK
  <2> QED BY <2>1
<1>7. CASE UNCHANGED lockVars
  BY <1>7 DEF lockVars
<1> QED BY <1>1, <1>2, <1>3, <1>4, <1>5, <1>6, <1>7 DEF LockNext, Step

LEMMA LostPreserved ==
  ASSUME LockTypeOK, HolderOwnsLock, ~ takenOver => lost = {}, [LockNext]_lockVars
  PROVE  (~ takenOver => lost = {})'
<1>1. ASSUME NEW p \in Procs, Release(p), ~ takenOver PROVE lost' = {}
  <2>1. p \in Holders \ lost
    BY <1>1 DEF Release, Holders
  <2>2. doc.owner = p
    BY <2>1 DEF HolderOwnsLock
  <2> QED BY <1>1, <2>2 DEF Release, DeleteLock
<1>2. ASSUME NEW p \in Procs, ReleaseExpired(p) PROVE takenOver'
  BY <1>2 DEF ReleaseExpired
<1> QED
  BY <1>1, <1>2 DEF LockNext, Step, Create, InsertLock, InsertFails, Wake, CheckExpired, Release,
                    ReleaseExpiredFails, CallerCrash, Tick, lockVars

(***************************************************************************)
(* In every reachable state of the lock, every variable keeps its type and *)
(* a holder that was not robbed is the owner of the lock document.         *)
(***************************************************************************)
THEOREM HolderIsOwner == LockSpec => [](LockTypeOK /\ HolderOwnsLock)
<1>1. LockInv /\ [LockNext]_lockVars => LockInv'
  BY LockTypePreserved, OwnerPreserved, LostPreserved DEF LockInv
<1>2. LockInv => LockTypeOK /\ HolderOwnsLock
  BY DEF LockInv
<1> QED BY LockInitInv, <1>1, <1>2, PTL DEF LockSpec

(***************************************************************************)
(* Until a lock outlives its validity and a contender takes it over, no    *)
(* two callers hold it and no holder loses it, whatever crashes.           *)
(***************************************************************************)
THEOREM Exclusive == LockSpec => []ExclusiveUntilTakeover
<1>1. LockInv /\ [LockNext]_lockVars => LockInv'
  BY LockTypePreserved, OwnerPreserved, LostPreserved DEF LockInv
<1>2. LockInv => ExclusiveUntilTakeover
  BY DEF LockInv, HolderOwnsLock, ExclusiveUntilTakeover
<1> QED BY LockInitInv, <1>1, <1>2, PTL DEF LockSpec

(***************************************************************************)
(* Without crashes and database errors every lock document has a holder:   *)
(* no return path of acquire or release leaves a lock behind.              *)
(***************************************************************************)
THEOREM OrphansNeedFailures == LockSpec => []NoOrphanWithoutFailure
<1> DEFINE Inv == LockTypeOK /\ NoOrphanWithoutFailure
<1>1. LockInit => Inv
  <2> SUFFICES ASSUME LockInit PROVE NoOrphanWithoutFailure
    BY LockInitInv DEF LockInv
  <2> QED BY DEF LockInit, NoOrphanWithoutFailure
<1>2. Inv /\ [LockNext]_lockVars => Inv'
  <2> SUFFICES ASSUME Inv, [LockNext]_lockVars PROVE NoOrphanWithoutFailure'
    BY LockTypePreserved
  <2> USE DEF NoOrphanWithoutFailure
  <2>1. ASSUME NEW p \in Procs,
               Create(p) \/ InsertFails(p) \/ Wake(p) \/ CheckExpired(p)
        PROVE  NoOrphanWithoutFailure'
    BY <2>1 DEF Create, InsertFails, Wake, CheckExpired, AfterFailure, Move, LockTypeOK
  <2>2. ASSUME NEW p \in Procs, InsertLock(p) PROVE NoOrphanWithoutFailure'
    BY <2>2 DEF InsertLock, Move, LockTypeOK
  <2>3. ASSUME NEW p \in Procs, ReleaseExpired(p) \/ Release(p) PROVE NoOrphanWithoutFailure'
    BY <2>3 DEF ReleaseExpired, Release, DeleteLock
  <2>4. ASSUME NEW p \in Procs, ReleaseExpiredFails(p) \/ CallerCrash(p) PROVE NoOrphanWithoutFailure'
    BY <2>4, LockingAssumption DEF ReleaseExpiredFails, CallerCrash, Fail, LockTypeOK
  <2>5. CASE Tick
    BY <2>5 DEF Tick, LockTypeOK
  <2>6. CASE UNCHANGED lockVars
    BY <2>6 DEF lockVars
  <2> QED BY <2>1, <2>2, <2>3, <2>4, <2>5, <2>6 DEF LockNext, Step
<1> QED BY <1>1, <1>2, PTL DEF LockSpec

-----------------------------------------------------------------------------
(* The asynchronous tasks. *)

\* Until a lock expires during its task, who works on a task has its lock.
LockedWhileWorking ==
  ~ overrun => \A r \in Runs, t \in Tasks :
                 pc[r][t] \in Working => lock[t] = r /\ t \notin expired

\* The run that saved RUNNING last is still executing the task.
RunningIsExecuted ==
  failures = 0 /\ down = {} =>
    \A t \in Tasks : status[t] = "RUNNING" => \E r \in Runs : pc[r][t] = "running"

\* A run that is not active has no task in hand, so a new list loses none.
InactiveIsOut ==
  \A r \in Runs, t \in Tasks : r \notin active => pc[r][t] = "out"

Inv == TypeOK /\ InactiveIsOut /\ LockedWhileWorking /\ RunningIsExecuted

LEMMA InitInv == Init => Inv
<1> SUFFICES ASSUME Init PROVE Inv
  OBVIOUS
<1>1. overrun \in BOOLEAN
  BY Zenon DEF Init
<1>2. TypeOK
  BY <1>1, TaskAssumption DEF Init, TypeOK, Working, Finished
<1>3. InactiveIsOut /\ LockedWhileWorking /\ RunningIsExecuted
  BY DEF Init, InactiveIsOut, LockedWhileWorking, RunningIsExecuted, Working
<1> QED
  BY <1>2, <1>3 DEF Inv

-----------------------------------------------------------------------------
\* Every step keeps the variables in their types.
LEMMA TypePreserved == TypeOK /\ [Next]_vars => TypeOK'
<1> SUFFICES ASSUME TypeOK, [Next]_vars PROVE TypeOK'
  OBVIOUS
<1> USE TaskAssumption DEF TypeOK, Working, Finished, faults
<1>1. ASSUME NEW t \in Tasks, CreateTask(t) PROVE TypeOK'
  BY <1>1 DEF CreateTask, Save
<1>2. ASSUME NEW t \in Tasks, Expire(t) PROVE TypeOK'
  BY <1>2 DEF Expire
<1>3. ASSUME NEW r \in Runs, HandleAsyncTasks(r) PROVE TypeOK'
  BY <1>3 DEF HandleAsyncTasks, ReadList
<1>4. ASSUME NEW r \in Runs, EndOfList(r) PROVE TypeOK'
  BY <1>4 DEF EndOfList, ReadList
<1>5. ASSUME NEW r \in Runs, NEW t \in Tasks, Process(r, t) PROVE TypeOK'
  <2>1. CASE SkipTask(r, t)
    BY <2>1 DEF SkipTask, Goto
  <2>2. CASE AcquireAsyncTaskLock(r, t)
    BY <2>2 DEF AcquireAsyncTaskLock, Goto
  <2>3. CASE FailToAcquireLock(r, t)
    BY <2>3 DEF FailToAcquireLock, Goto
  <2>4. CASE RunTask(r, t)
    BY <2>4 DEF RunTask, Goto, Save
  <2>5. CASE SaveSuccess(r, t)
    BY <2>5 DEF SaveSuccess, Goto, Save
  <2>6. CASE SaveError(r, t)
    BY <2>6 DEF SaveError, Goto, Save
  <2>7. CASE ReleaseLock(r, t)
    BY <2>7 DEF ReleaseLock, Goto
  <2> QED
    BY <1>5, <2>1, <2>2, <2>3, <2>4, <2>5, <2>6, <2>7 DEF Process
<1>6. ASSUME NEW r \in Runs, NEW t \in Tasks, SaveErrorFails(r, t) PROVE TypeOK'
  BY <1>6 DEF SaveErrorFails
<1>7. ASSUME NEW host \in Hosts, Crash(host) PROVE TypeOK'
  BY <1>7 DEF Crash
<1>8. ASSUME NEW host \in Hosts, Restart(host) PROVE TypeOK'
  BY <1>8 DEF Restart
<1>9. CASE UNCHANGED vars
  BY <1>9 DEF vars
<1> QED
  BY <1>1, <1>2, <1>3, <1>4, <1>5, <1>6, <1>7, <1>8, <1>9 DEF Next

-----------------------------------------------------------------------------
\* Only active runs take tasks in hand, and a run ends when it has none.
LEMMA InactivePreserved == TypeOK /\ InactiveIsOut /\ [Next]_vars => InactiveIsOut'
<1> SUFFICES ASSUME TypeOK, InactiveIsOut, [Next]_vars PROVE InactiveIsOut'
  OBVIOUS
<1> USE DEF TypeOK, InactiveIsOut, faults
<1>1. ASSUME NEW t \in Tasks, CreateTask(t) \/ Expire(t) PROVE InactiveIsOut'
  BY <1>1 DEF CreateTask, Expire
<1>2. ASSUME NEW r \in Runs, HandleAsyncTasks(r) \/ EndOfList(r) PROVE InactiveIsOut'
  BY <1>2 DEF HandleAsyncTasks, EndOfList, ReadList
<1>3. ASSUME NEW r \in Runs, NEW t \in Tasks, Process(r, t) PROVE InactiveIsOut'
  BY <1>3 DEF Process, SkipTask, AcquireAsyncTaskLock, FailToAcquireLock, Starts,
              RunTask, SaveSuccess, SaveError, ReleaseLock, Goto
<1>4. ASSUME NEW r \in Runs, NEW t \in Tasks, SaveErrorFails(r, t) PROVE InactiveIsOut'
  BY <1>4 DEF SaveErrorFails
<1>5. ASSUME NEW host \in Hosts, Crash(host) \/ Restart(host) PROVE InactiveIsOut'
  BY <1>5 DEF Crash, Restart
<1>6. CASE UNCHANGED vars
  BY <1>6 DEF vars
<1> QED
  BY <1>1, <1>2, <1>3, <1>4, <1>5, <1>6 DEF Next

-----------------------------------------------------------------------------
\* Every step leaves the lock of a task with the run that works on it.
LEMMA LockPreserved == TypeOK /\ LockedWhileWorking /\ [Next]_vars => LockedWhileWorking'
<1> SUFFICES ASSUME TypeOK, LockedWhileWorking, [Next]_vars PROVE LockedWhileWorking'
  OBVIOUS
<1> USE TaskAssumption DEF TypeOK, LockedWhileWorking, Working, faults
<1>1. ASSUME NEW t \in Tasks, CreateTask(t) PROVE LockedWhileWorking'
  BY <1>1 DEF CreateTask
<1>2. ASSUME NEW t \in Tasks, Expire(t) PROVE LockedWhileWorking'
  BY <1>2 DEF Expire
<1>3. ASSUME NEW r \in Runs, HandleAsyncTasks(r) PROVE LockedWhileWorking'
  BY <1>3 DEF HandleAsyncTasks, ReadList
<1>4. ASSUME NEW r \in Runs, EndOfList(r) PROVE LockedWhileWorking'
  BY <1>4 DEF EndOfList, ReadList
<1>5. ASSUME NEW r \in Runs, NEW t \in Tasks, Process(r, t) PROVE LockedWhileWorking'
  <2>1. CASE SkipTask(r, t)
    BY <2>1 DEF SkipTask, Goto
  <2>2. CASE AcquireAsyncTaskLock(r, t)
    BY <2>2 DEF AcquireAsyncTaskLock, Goto, Starts
  <2>3. CASE FailToAcquireLock(r, t)
    BY <2>3 DEF FailToAcquireLock, Goto
  <2>4. CASE RunTask(r, t)
    BY <2>4 DEF RunTask, Goto
  <2>5. CASE SaveSuccess(r, t)
    BY <2>5 DEF SaveSuccess, Goto
  <2>6. CASE SaveError(r, t)
    BY <2>6 DEF SaveError, Goto
  <2>7. CASE ReleaseLock(r, t)
    BY <2>7 DEF ReleaseLock, Goto
  <2> QED
    BY <1>5, <2>1, <2>2, <2>3, <2>4, <2>5, <2>6, <2>7 DEF Process
<1>6. ASSUME NEW r \in Runs, NEW t \in Tasks, SaveErrorFails(r, t) PROVE LockedWhileWorking'
  BY <1>6 DEF SaveErrorFails
<1>7. ASSUME NEW host \in Hosts, Crash(host) PROVE LockedWhileWorking'
  BY <1>7 DEF Crash
<1>8. ASSUME NEW host \in Hosts, Restart(host) PROVE LockedWhileWorking'
  BY <1>8 DEF Restart
<1>9. CASE UNCHANGED vars
  BY <1>9 DEF vars
<1> QED
  BY <1>1, <1>2, <1>3, <1>4, <1>5, <1>6, <1>7, <1>8, <1>9 DEF Next

-----------------------------------------------------------------------------
\* No step makes the last execution of a RUNNING task go away.
LEMMA RunningPreserved ==
  TypeOK /\ InactiveIsOut /\ RunningIsExecuted /\ [Next]_vars => RunningIsExecuted'
<1> SUFFICES ASSUME TypeOK, InactiveIsOut, RunningIsExecuted, [Next]_vars,
                    (failures = 0 /\ down = {})',
                    NEW u \in Tasks, status'[u] = "RUNNING"
             PROVE  \E q \in Runs : pc'[q][u] = "running"
  BY DEF RunningIsExecuted
<1> DEFINE Goal == \E q \in Runs : pc'[q][u] = "running"
<1> USE TaskAssumption DEF TypeOK, RunningIsExecuted, Working, Finished, faults
<1>1. ASSUME NEW t \in Tasks, CreateTask(t) PROVE Goal
  BY <1>1 DEF CreateTask, Save
<1>2. ASSUME NEW t \in Tasks, Expire(t) PROVE Goal
  BY <1>2 DEF Expire
<1>3. ASSUME NEW r \in Runs, HandleAsyncTasks(r) PROVE Goal
  BY <1>3 DEF HandleAsyncTasks, ReadList, InactiveIsOut
<1>4. ASSUME NEW r \in Runs, EndOfList(r) PROVE Goal
  BY <1>4 DEF EndOfList, ReadList
<1>5. ASSUME NEW r \in Runs, NEW t \in Tasks, Process(r, t) PROVE Goal
  <2>1. CASE SkipTask(r, t)
    BY <2>1 DEF SkipTask, Goto, Starts
  <2>2. CASE AcquireAsyncTaskLock(r, t)
    BY <2>2 DEF AcquireAsyncTaskLock, Goto, Starts
  <2>3. CASE FailToAcquireLock(r, t)
    BY <2>3 DEF FailToAcquireLock, Goto, Starts
  <2>4. CASE RunTask(r, t)
    BY <2>4 DEF RunTask, Goto, Save
  <2>5. CASE SaveSuccess(r, t)
    BY <2>5 DEF SaveSuccess, Goto, Save
  <2>6. CASE SaveError(r, t)
    BY <2>6 DEF SaveError, Goto, Save
  <2>7. CASE ReleaseLock(r, t)
    BY <2>7 DEF ReleaseLock, Goto
  <2> QED
    BY <1>5, <2>1, <2>2, <2>3, <2>4, <2>5, <2>6, <2>7 DEF Process
<1>6. ASSUME NEW r \in Runs, NEW t \in Tasks, SaveErrorFails(r, t) PROVE Goal
  BY <1>6 DEF SaveErrorFails
<1>7. ASSUME NEW host \in Hosts, Crash(host) PROVE Goal
  BY <1>7 DEF Crash
<1>8. ASSUME NEW host \in Hosts, Restart(host) PROVE Goal
  BY <1>8 DEF Restart
<1>9. CASE UNCHANGED vars
  BY <1>9 DEF vars
<1> QED
  BY <1>1, <1>2, <1>3, <1>4, <1>5, <1>6, <1>7, <1>8, <1>9 DEF Next

-----------------------------------------------------------------------------
(***************************************************************************)
(* How often a task is executed.  A run that has listed a task, or holds   *)
(* its lock before it runs it, may still execute it once, whatever the     *)
(* status has become; while the task is PENDING every run may list it.     *)
(***************************************************************************)
MayRun(t) == {r \in Runs : pc[r][t] \in {"listed", "locked"}}

StillToRun(t) ==
  IF status[t] \in {"none", "PENDING"} THEN Cardinality(Runs) ELSE Cardinality(MayRun(t))

\* Only a restart turns RUNNING to PENDING again, and there is one per crash.
Restarts == crashes - Cardinality(down)

Budget == Cardinality(Runs) * (1 + Restarts)

ExecutionsBudgeted ==
  /\ IsFiniteSet(down) /\ Restarts \in Nat
  /\ \A t \in Tasks : executions[t] + StillToRun(t) <= Budget

\* Runs that may still execute a task: some of them all.
LEMMA MayRunFinite ==
  ASSUME NEW t \in Tasks
  PROVE  /\ Cardinality(Runs) \in Nat
         /\ IsFiniteSet(MayRun(t)) /\ Cardinality(MayRun(t)) \in 0 .. Cardinality(Runs)
         /\ IsFiniteSet(MayRun(t)') /\ Cardinality(MayRun(t)') \in 0 .. Cardinality(Runs)
<1>1. MayRun(t) \in SUBSET Runs /\ MayRun(t)' \in SUBSET Runs
  BY DEF MayRun
<1> QED
  BY <1>1, RunsAssumption, FS_Subset, FS_CardinalityType

\* A set of runs that loses no member of another one is not smaller.
LEMMA FewerMayRun ==
  ASSUME NEW t \in Tasks, MayRun(t)' \subseteq MayRun(t)
  PROVE  Cardinality(MayRun(t)') <= Cardinality(MayRun(t))
<1>1. MayRun(t)' \in SUBSET MayRun(t)
  OBVIOUS
<1> QED
  BY <1>1, MayRunFinite, FS_Subset

\* The execution of a task by a run is the last one of that run.
LEMMA OneLessMayRun ==
  ASSUME NEW t \in Tasks, NEW r \in MayRun(t), MayRun(t)' = MayRun(t) \ {r}
  PROVE  Cardinality(MayRun(t)') = Cardinality(MayRun(t)) - 1
BY MayRunFinite, FS_RemoveElement

\* A step without crash or restart that neither executes a task nor makes it
\* PENDING keeps its budget, when no run gets to list it but a PENDING one.
LEMMA KeepsBudget ==
  ASSUME TypeOK, ExecutionsBudgeted, UNCHANGED <<executions, down, crashes>>,
         NEW t \in Tasks,
         \/ status'[t] = status[t]
         \/ status'[t] \notin {"none", "PENDING"}
         \/ status[t] = "none",
         status[t] \in {"none", "PENDING"} \/ MayRun(t)' \subseteq MayRun(t)
  PROVE  (executions[t] + StillToRun(t) <= Budget)'
<1>1. StillToRun(t)' <= StillToRun(t)
  BY MayRunFinite, FewerMayRun DEF StillToRun
<1>2. Budget' = Budget /\ Budget \in Nat /\ executions[t]' = executions[t] /\ executions[t] \in Nat
  BY MayRunFinite DEF Budget, Restarts, TypeOK, ExecutionsBudgeted
<1>3. StillToRun(t) \in Nat /\ StillToRun(t)' \in Nat
  BY MayRunFinite DEF StillToRun
<1> QED
  BY <1>1, <1>2, <1>3 DEF ExecutionsBudgeted

\* Every step stays within the budget of executions.
LEMMA BudgetPreserved ==
  TypeOK /\ ExecutionsBudgeted /\ [Next]_vars => ExecutionsBudgeted'
<1> SUFFICES ASSUME TypeOK, ExecutionsBudgeted, [Next]_vars PROVE ExecutionsBudgeted'
  OBVIOUS
<1> USE TaskAssumption DEF faults
<1>f. ASSUME UNCHANGED <<down, crashes>> PROVE (IsFiniteSet(down) /\ Restarts \in Nat)'
  BY <1>f DEF Restarts, ExecutionsBudgeted
<1>1. ASSUME NEW t \in Tasks, CreateTask(t) \/ Expire(t) PROVE ExecutionsBudgeted'
  <2>1. UNCHANGED <<executions, down, crashes, pc>>
    BY <1>1 DEF CreateTask, Expire
  <2>2. ASSUME NEW u \in Tasks PROVE MayRun(u)' \subseteq MayRun(u)
    BY <2>1 DEF MayRun
  <2>3. ASSUME NEW u \in Tasks PROVE status'[u] = status[u] \/ status[u] = "none"
    BY <1>1 DEF CreateTask, Expire, Save, TypeOK
  <2> QED
    BY <2>1, <2>2, <2>3, <1>f, KeepsBudget DEF ExecutionsBudgeted
<1>2. ASSUME NEW r \in Runs, HandleAsyncTasks(r) \/ EndOfList(r) PROVE ExecutionsBudgeted'
  <2>1. UNCHANGED <<executions, down, crashes, status>>
    BY <1>2 DEF HandleAsyncTasks, EndOfList
  <2>2. UNCHANGED pc \/ pc' = [pc EXCEPT ![r] =
                               [t \in Tasks |-> IF status[t] = "PENDING" THEN "listed" ELSE "out"]]
    BY <1>2 DEF HandleAsyncTasks, EndOfList, ReadList
  <2>3. ASSUME NEW u \in Tasks PROVE status[u] = "PENDING" \/ MayRun(u)' \subseteq MayRun(u)
    BY <2>2 DEF MayRun, TypeOK
  <2> QED
    BY <2>1, <2>3, <1>f, KeepsBudget DEF ExecutionsBudgeted
<1>3. ASSUME NEW r \in Runs, NEW t \in Tasks, Process(r, t), ~ RunTask(r, t)
      PROVE  ExecutionsBudgeted'
  <2> USE DEF SkipTask, AcquireAsyncTaskLock, FailToAcquireLock, SaveSuccess, SaveError,
              ReleaseLock, Starts
  <2>1. UNCHANGED <<executions, down, crashes>>
    BY <1>3 DEF Process
  <2>2. PICK to \in {"out", "locked", "ended"} : Goto(r, t, to) /\ (to = "locked" => pc[r][t] = "listed")
    BY <1>3 DEF Process
  <2>3. ASSUME NEW q \in Runs, NEW u \in Tasks
        PROVE  pc'[q][u] = IF q = r /\ u = t THEN to ELSE pc[q][u]
    BY <2>2 DEF Goto, TypeOK
  <2>4. ASSUME NEW u \in Tasks PROVE MayRun(u)' \subseteq MayRun(u)
    BY <2>2, <2>3 DEF MayRun
  <2>5. UNCHANGED status \/ \E s \in {"SUCCESS", "ERROR"} : Save(t, s)
    BY <1>3 DEF Process
  <2>6. ASSUME NEW u \in Tasks
        PROVE  status'[u] = status[u] \/ status'[u] \notin {"none", "PENDING"}
    BY <2>5 DEF Save, TypeOK
  <2> QED
    BY <2>1, <2>4, <2>6, <1>f, KeepsBudget DEF ExecutionsBudgeted
<1>4. ASSUME NEW r \in Runs, NEW t \in Tasks, RunTask(r, t) PROVE ExecutionsBudgeted'
  <2>1. UNCHANGED <<down, crashes>>
    BY <1>4 DEF RunTask
  <2>2. r \in MayRun(t) /\ MayRun(t)' = MayRun(t) \ {r}
    BY <1>4 DEF RunTask, Goto, MayRun, TypeOK
  <2>3. executions'[t] = executions[t] + 1 /\ executions[t] \in Nat
    BY <1>4 DEF RunTask, TypeOK
  <2>4. StillToRun(t)' + 1 <= StillToRun(t) /\ StillToRun(t)' \in Nat /\ StillToRun(t) \in Nat
    <3>1. StillToRun(t)' = Cardinality(MayRun(t)')
      BY <1>4 DEF RunTask, Save, TypeOK, StillToRun
    <3>2. Cardinality(MayRun(t)') = Cardinality(MayRun(t)) - 1
      BY <2>2, OneLessMayRun
    <3>3. Cardinality(Runs) \in Nat /\ Cardinality(MayRun(t)') \in Nat
          /\ Cardinality(MayRun(t)) \in 0 .. Cardinality(Runs)
      BY MayRunFinite
    <3> QED
      BY <3>1, <3>2, <3>3 DEF StillToRun
  <2>5. Budget' = Budget /\ Budget \in Nat
    BY <2>1, MayRunFinite DEF Budget, Restarts, ExecutionsBudgeted
  <2>6. (executions[t] + StillToRun(t) <= Budget)'
    BY <2>3, <2>4, <2>5 DEF ExecutionsBudgeted
  <2>7. ASSUME NEW u \in Tasks, u # t PROVE (executions[u] + StillToRun(u) <= Budget)'
    <3>1. MayRun(u)' = MayRun(u) /\ executions'[u] = executions[u] /\ status'[u] = status[u]
      BY <1>4, <2>7 DEF RunTask, Goto, Save, MayRun, TypeOK
    <3> QED
      BY <3>1, <2>5 DEF StillToRun, ExecutionsBudgeted
  <2> QED
    BY <2>1, <2>6, <2>7, <1>f DEF ExecutionsBudgeted
<1>5. ASSUME NEW r \in Runs, NEW t \in Tasks, SaveErrorFails(r, t) PROVE ExecutionsBudgeted'
  <2>1. UNCHANGED <<executions, down, crashes, status>>
    BY <1>5 DEF SaveErrorFails
  <2>2. ASSUME NEW u \in Tasks PROVE MayRun(u)' \subseteq MayRun(u)
    BY <1>5 DEF SaveErrorFails, MayRun, TypeOK
  <2> QED
    BY <2>1, <2>2, <1>f, KeepsBudget DEF ExecutionsBudgeted
<1>6. ASSUME NEW host \in Hosts, Crash(host) PROVE ExecutionsBudgeted'
  <2>1. IsFiniteSet(down') /\ Cardinality(down') = Cardinality(down) + 1
    BY <1>6, FS_AddElement DEF Crash, ExecutionsBudgeted
  <2>2. Restarts' = Restarts
    BY <1>6, <2>1, FS_CardinalityType DEF Crash, Restarts, ExecutionsBudgeted, TypeOK
  <2>3. ASSUME NEW u \in Tasks PROVE (executions[u] + StillToRun(u) <= Budget)'
    <3>1. MayRun(u)' \subseteq MayRun(u)
      BY <1>6 DEF Crash, MayRun, TypeOK
    <3>2. StillToRun(u)' <= StillToRun(u) /\ StillToRun(u)' \in Nat /\ StillToRun(u) \in Nat
      BY <1>6, <3>1, FewerMayRun, MayRunFinite DEF Crash, StillToRun
    <3>3. executions'[u] = executions[u] /\ executions[u] \in Nat
      BY <1>6 DEF Crash, TypeOK
    <3>4. Budget' = Budget /\ Budget \in Nat
      BY <2>2, MayRunFinite DEF Budget, ExecutionsBudgeted
    <3> QED
      BY <3>2, <3>3, <3>4 DEF ExecutionsBudgeted
  <2> QED
    BY <2>1, <2>2, <2>3 DEF ExecutionsBudgeted
<1>7. ASSUME NEW host \in Hosts, Restart(host) PROVE ExecutionsBudgeted'
  <2>1. IsFiniteSet(down') /\ Cardinality(down') = Cardinality(down) - 1
    BY <1>7, FS_RemoveElement DEF Restart, ExecutionsBudgeted
  <2>2. Restarts' = Restarts + 1
    BY <1>7, <2>1, FS_CardinalityType DEF Restart, Restarts, ExecutionsBudgeted, TypeOK
  <2>3. Budget' = Budget + Cardinality(Runs) /\ Budget \in Nat
    <3> DEFINE n == Cardinality(Runs)
    <3>1. n \in Nat /\ Restarts \in Nat
      BY RunsAssumption, FS_CardinalityType DEF ExecutionsBudgeted
    <3>2. Budget = n * (1 + Restarts) /\ Budget' = n * (1 + (Restarts + 1))
      BY <2>2 DEF Budget
    <3> HIDE DEF n
    <3>3. n * (1 + (Restarts + 1)) = n * (1 + Restarts) + n /\ n * (1 + Restarts) \in Nat
      BY <3>1
    <3> QED
      BY <3>2, <3>3 DEF n
  <2>4. ASSUME NEW u \in Tasks PROVE (executions[u] + StillToRun(u) <= Budget)'
    <3>1. MayRun(u)' = MayRun(u) /\ executions'[u] = executions[u] /\ executions[u] \in Nat
      BY <1>7 DEF Restart, MayRun, TypeOK
    <3>2. StillToRun(u)' <= StillToRun(u) + Cardinality(Runs)
      BY <3>1, MayRunFinite DEF StillToRun
    <3>3. StillToRun(u) \in Nat /\ StillToRun(u)' \in Nat /\ Cardinality(Runs) \in Nat
      BY MayRunFinite DEF StillToRun
    <3> QED
      BY <3>1, <3>2, <3>3, <2>3 DEF ExecutionsBudgeted
  <2> QED
    BY <2>1, <2>2, <2>4 DEF ExecutionsBudgeted
<1>8. CASE UNCHANGED vars
  BY <1>8 DEF vars, ExecutionsBudgeted, StillToRun, MayRun, Budget, Restarts
<1> QED
  BY <1>1, <1>2, <1>3, <1>4, <1>5, <1>6, <1>7, <1>8 DEF Next

-----------------------------------------------------------------------------
\* The inductive invariant holds in every reachable state.
LEMMA AlwaysInv == Spec => []Inv
<1>1. Inv /\ [Next]_vars => Inv'
  BY TypePreserved, InactivePreserved, LockPreserved, RunningPreserved DEF Inv
<1> QED
  BY InitInv, <1>1, PTL DEF Spec

(***************************************************************************)
(* handleAsyncTasks never executes a task twice at a time, whatever stale  *)
(* lists its runs hold and however processes crash and restart, as long as *)
(* no task outlives its lock.                                              *)
(***************************************************************************)
THEOREM TaskExclusion == Spec => []TaskExclusive
<1>1. Inv => TaskExclusive
  BY DEF Inv, LockedWhileWorking, TaskExclusive, Workers
<1> QED
  BY AlwaysInv, <1>1, PTL

(***************************************************************************)
(* A task document that says RUNNING has a run at work, unless a process   *)
(* is down or saveAsyncTask failed in the catch: no other path of          *)
(* handleAsyncTasks, and no restart, abandons a task in that state.        *)
(***************************************************************************)
THEOREM NoAbandonedTask == Spec => []RunningIsRun
<1>1. Inv => RunningIsRun
  BY DEF Inv, RunningIsExecuted, RunningIsRun, Workers, Working
<1> QED
  BY AlwaysInv, <1>1, PTL

(***************************************************************************)
(* However stale its lists are, a run executes a task at most once, and    *)
(* once more after each crash, whose restart makes RUNNING tasks PENDING   *)
(* again: for any number of tasks, runs, processes, crashes and failures.  *)
(***************************************************************************)
THEOREM ExecutionsAreBounded == Spec => []OncePerRunAndCrash
<1>1. Init => ExecutionsBudgeted
  <2> SUFFICES ASSUME Init PROVE ExecutionsBudgeted
    OBVIOUS
  <2>1. Restarts = 0 /\ IsFiniteSet(down)
    BY FS_EmptySet DEF Init, Restarts
  <2>2. ASSUME NEW t \in Tasks PROVE executions[t] = 0 /\ StillToRun(t) = Cardinality(Runs)
    BY DEF Init, StillToRun
  <2>3. Cardinality(Runs) \in Nat
    BY RunsAssumption, FS_CardinalityType
  <2> QED
    BY <2>1, <2>2, <2>3 DEF ExecutionsBudgeted, Budget
<1>2. TypeOK /\ ExecutionsBudgeted => OncePerRunAndCrash
  <2> SUFFICES ASSUME TypeOK, ExecutionsBudgeted, NEW t \in Tasks
               PROVE  executions[t] <= Cardinality(Runs) * (1 + crashes)
    BY DEF OncePerRunAndCrash
  <2> DEFINE n == Cardinality(Runs)
             d == Cardinality(down)
  <2>1. n \in Nat /\ d \in Nat /\ Restarts \in Nat /\ crashes = Restarts + d
    BY RunsAssumption, FS_CardinalityType, TaskAssumption DEF ExecutionsBudgeted, TypeOK, Restarts
  <2>2. executions[t] \in Nat /\ StillToRun(t) \in Nat
    BY MayRunFinite DEF TypeOK, StillToRun
  <2>3. executions[t] <= Budget /\ Budget \in Nat
    BY <2>1, <2>2 DEF ExecutionsBudgeted, Budget
  <2>4. n * (1 + crashes) = Budget + n * d /\ n * d \in Nat
    BY <2>1 DEF Budget
  <2> QED
    BY <2>2, <2>3, <2>4
<1>3. Inv => TypeOK
  BY DEF Inv
<1> QED
  BY <1>1, <1>2, <1>3, AlwaysInv, BudgetPreserved, PTL DEF Spec
===============================================================================
