-------------------------- MODULE AsyncTaskManager --------------------------
(***************************************************************************)
(* The asynchronous tasks (async-task/AsyncTaskManager.ts): documents that *)
(* every server process lists, locks one by one and runs.                  *)
(*                                                                         *)
(* handleAsyncTasks is started by a change of the collection, by the       *)
(* AsyncTaskCheckTask job and by its own end; such a run is a member of    *)
(* Runs.  A run reads its list once and never reads a task again before it *)
(* runs it: what it knows of the tasks may be old.                         *)
(*                                                                         *)
(* The lock of a task is the one of LockingManager, acquired without       *)
(* waiting; here an expired lock is taken over in one step.                *)
(***************************************************************************)
EXTENDS Naturals, FiniteSets

CONSTANTS
  Tasks,        \* the task documents
  Unknown,      \* tasks whose name createTask does not know
  Runs,         \* calls of handleAsyncTasks that may be active at a time
  Hosts,        \* server processes
  HostOf,       \* the process of each run
  Parallel,     \* nbrTasksInParallel
  MaxCrashes,   \* bound: crashes of a process
  MaxFailures,  \* bound: database errors while an error is saved
  None          \* no lock

ASSUME TaskAssumption ==
  /\ Unknown \subseteq Tasks
  /\ HostOf \in [Runs -> Hosts]
  /\ Parallel \in Nat \ {0}
  /\ MaxCrashes \in Nat /\ MaxFailures \in Nat
  /\ None \notin Runs

ASSUME RunsAssumption == IsFiniteSet(Runs)

VARIABLES
  status,      \* the status of each task document
  lock,        \* the run that inserted the lock document of each task
  expired,     \* tasks whose lock document has expired
  pc,          \* where each run is with each task of its list
  active,      \* runs that are processing a list
  lockFailed,  \* runs with failedToAcquireLock
  down,        \* processes that crashed and did not restart
  crashes,     \* how many crashes there were
  failures,    \* how many database errors there were
  executions,  \* how often each task was executed
  overrun      \* history: a lock expired during the execution of its task

vars == <<status, lock, expired, pc, active, lockFailed, down, crashes, failures,
          executions, overrun>>

Finished == {"SUCCESS", "ERROR"}

\* What a run does with a task while it has its lock.
Working == {"locked", "running", "ended"}

TypeOK ==
  /\ status \in [Tasks -> {"none", "PENDING", "RUNNING"} \cup Finished]
  /\ lock \in [Tasks -> Runs \cup {None}]
  /\ expired \in SUBSET Tasks
  /\ pc \in [Runs -> [Tasks -> {"out", "listed"} \cup Working]]
  /\ active \in SUBSET Runs
  /\ lockFailed \in SUBSET Runs
  /\ down \in SUBSET Hosts
  /\ crashes \in 0 .. MaxCrashes
  /\ failures \in 0 .. MaxFailures
  /\ executions \in [Tasks -> Nat]
  /\ overrun \in BOOLEAN

Init ==
  /\ status = [t \in Tasks |-> "none"]
  /\ lock = [t \in Tasks |-> None]
  /\ expired = {}
  /\ pc = [r \in Runs |-> [t \in Tasks |-> "out"]]
  /\ active = {}
  /\ lockFailed = {}
  /\ down = {}
  /\ crashes = 0
  /\ failures = 0
  /\ executions = [t \in Tasks |-> 0]
  /\ overrun = FALSE

Goto(r, t, to) == pc' = [pc EXCEPT ![r][t] = to]
Save(t, s) == status' = [status EXCEPT ![t] = s]

faults == <<down, crashes, failures, overrun>>

-----------------------------------------------------------------------------
\* AsyncTaskBuilder.createAndSaveAsyncTasks
CreateTask(t) ==
  /\ status[t] = "none"
  /\ Save(t, "PENDING")
  /\ UNCHANGED <<lock, expired, pc, active, lockFailed, executions, faults>>

\* getAsyncTasks({}): whatever the status.
ReadWholeList(r) ==
  /\ pc' = [pc EXCEPT ![r] = [t \in Tasks |-> IF status[t] # "none" THEN "listed" ELSE "out"]]
  /\ active' = IF \E t \in Tasks : status[t] # "none" THEN active \cup {r} ELSE active \ {r}
  /\ lockFailed' = lockFailed \ {r}

\* getAsyncTasks({status: PENDING}); an empty list ends the run.
ReadList(r) ==
  /\ pc' = [pc EXCEPT ![r] = [t \in Tasks |-> IF status[t] = "PENDING" THEN "listed" ELSE "out"]]
  /\ active' = IF \E t \in Tasks : status[t] = "PENDING" THEN active \cup {r} ELSE active \ {r}
  /\ lockFailed' = lockFailed \ {r}

\* handleAsyncTasks is called.
HandleAsyncTasks(r) ==
  /\ HostOf[r] \notin down
  /\ r \notin active
  /\ \E t \in Tasks : status[t] = "PENDING"
  /\ ReadList(r)
  /\ UNCHANGED <<status, lock, expired, executions, faults>>

\* Promise.map starts another task of the list.
Starts(r, t) ==
  /\ pc[r][t] = "listed"
  /\ Cardinality({u \in Tasks : pc[r][u] \in Working}) < Parallel

\* createTask knows no such task: it is skipped, and stays PENDING.
SkipTask(r, t) ==
  /\ Starts(r, t)
  /\ t \in Unknown
  /\ Goto(r, t, "out")
  /\ UNCHANGED <<status, lock, expired, active, lockFailed, executions, faults>>

\* acquireAsyncTaskLock that trusts the status of the listed task.
RunUnlocked(r, t) ==
  /\ Starts(r, t)
  /\ t \notin Unknown
  /\ lock' = [lock EXCEPT ![t] = r]
  /\ expired' = expired \ {t}
  /\ Goto(r, t, "locked")
  /\ UNCHANGED <<status, active, lockFailed, executions, faults>>

\* acquireAsyncTaskLock: the lock is free, or it is expired and taken over.
AcquireAsyncTaskLock(r, t) ==
  /\ Starts(r, t)
  /\ t \notin Unknown
  /\ lock[t] = None \/ t \in expired
  /\ lock' = [lock EXCEPT ![t] = r]
  /\ expired' = expired \ {t}
  /\ Goto(r, t, "locked")
  /\ UNCHANGED <<status, active, lockFailed, executions, faults>>

\* Another run has the lock: the task is left to it.
FailToAcquireLock(r, t) ==
  /\ Starts(r, t)
  /\ t \notin Unknown
  /\ lock[t] # None /\ t \notin expired
  /\ Goto(r, t, "out")
  /\ lockFailed' = lockFailed \cup {r}
  /\ UNCHANGED <<status, lock, expired, active, executions, faults>>

\* RUNNING is saved, whatever the status is by now, and the task is executed.
RunTask(r, t) ==
  /\ pc[r][t] = "locked"
  /\ Save(t, "RUNNING")
  /\ executions' = [executions EXCEPT ![t] = @ + 1]
  /\ Goto(r, t, "running")
  /\ UNCHANGED <<lock, expired, active, lockFailed, faults>>

SaveSuccess(r, t) ==
  /\ pc[r][t] = "running"
  /\ Save(t, "SUCCESS")
  /\ Goto(r, t, "ended")
  /\ UNCHANGED <<lock, expired, active, lockFailed, executions, faults>>

\* A catch that only logs.
LogError(r, t) ==
  /\ pc[r][t] \in {"locked", "running"}
  /\ Goto(r, t, "ended")
  /\ UNCHANGED <<status, lock, expired, active, lockFailed, executions, faults>>

\* The catch: the task, or one of the two saves before it, has thrown.
SaveError(r, t) ==
  /\ pc[r][t] \in {"locked", "running"}
  /\ Save(t, "ERROR")
  /\ Goto(r, t, "ended")
  /\ UNCHANGED <<lock, expired, active, lockFailed, executions, faults>>

(***************************************************************************)
(* The save in the catch throws as well: the lock is released by the       *)
(* finally, Promise.map is rejected, the tasks that were not started are   *)
(* given up and the run is not repeated.                                   *)
(***************************************************************************)
SaveErrorFails(r, t) ==
  /\ pc[r][t] \in {"locked", "running"}
  /\ failures < MaxFailures
  /\ failures' = failures + 1
  /\ pc' = [pc EXCEPT ![r] = [u \in Tasks |->
       IF u = t THEN "ended" ELSE IF pc[r][u] = "listed" THEN "out" ELSE pc[r][u]]]
  /\ lockFailed' = lockFailed \cup {r}
  /\ UNCHANGED <<status, lock, expired, active, executions, down, crashes, overrun>>

\* The finally: LockingManager.release deletes the lock, whoever has it.
ReleaseLock(r, t) ==
  /\ pc[r][t] = "ended"
  /\ lock' = [lock EXCEPT ![t] = None]
  /\ expired' = expired \ {t}
  /\ Goto(r, t, "out")
  /\ UNCHANGED <<status, active, lockFailed, executions, faults>>

\* The list is processed: handleAsyncTasks again, unless a lock was missed.
EndOfList(r) ==
  /\ r \in active
  /\ \A t \in Tasks : pc[r][t] = "out"
  /\ IF r \in lockFailed
     THEN active' = active \ {r} /\ lockFailed' = lockFailed \ {r} /\ UNCHANGED pc
     ELSE ReadList(r)
  /\ UNCHANGED <<status, lock, expired, executions, faults>>

-----------------------------------------------------------------------------
(* Time and crashes *)

\* The 15 minutes of a lock are over.
Expire(t) ==
  /\ lock[t] # None /\ t \notin expired
  /\ expired' = expired \cup {t}
  /\ overrun' = (overrun \/ pc[lock[t]][t] \in Working)
  /\ UNCHANGED <<status, lock, pc, active, lockFailed, executions, down, crashes, failures>>

Crash(host) ==
  /\ host \notin down
  /\ crashes < MaxCrashes
  /\ crashes' = crashes + 1
  /\ down' = down \cup {host}
  /\ pc' = [r \in Runs |-> IF HostOf[r] = host THEN [t \in Tasks |-> "out"] ELSE pc[r]]
  /\ active' = {r \in active : HostOf[r] # host}
  /\ lockFailed' = {r \in lockFailed : HostOf[r] # host}
  /\ UNCHANGED <<status, lock, expired, failures, executions, overrun>>

\* An init that only starts to listen.
RestartOnly(host) ==
  /\ host \in down
  /\ down' = down \ {host}
  /\ UNCHANGED <<status, lock, expired, pc, active, lockFailed, executions, crashes,
                 failures, overrun>>

\* init: updateRunningAsyncTaskToPending, for the tasks of every process.
Restart(host) ==
  /\ host \in down
  /\ down' = down \ {host}
  /\ status' = [t \in Tasks |-> IF status[t] = "RUNNING" THEN "PENDING" ELSE status[t]]
  /\ UNCHANGED <<lock, expired, pc, active, lockFailed, executions, crashes, failures, overrun>>

-----------------------------------------------------------------------------
Process(r, t) ==
  \/ SkipTask(r, t) \/ AcquireAsyncTaskLock(r, t) \/ FailToAcquireLock(r, t)
  \/ RunTask(r, t) \/ SaveSuccess(r, t) \/ SaveError(r, t) \/ ReleaseLock(r, t)

Next ==
  \/ \E t \in Tasks : CreateTask(t) \/ Expire(t)
  \/ \E r \in Runs : HandleAsyncTasks(r) \/ EndOfList(r)
  \/ \E r \in Runs, t \in Tasks : Process(r, t) \/ SaveErrorFails(r, t)
  \/ \E host \in Hosts : Crash(host) \/ Restart(host)

(***************************************************************************)
(* The check job repeats handleAsyncTasks, every task ends, time passes    *)
(* and a process that crashed is started again.                            *)
(***************************************************************************)
Fairness ==
  /\ \A r \in Runs : WF_vars(HandleAsyncTasks(r)) /\ WF_vars(EndOfList(r))
  /\ \A r \in Runs, t \in Tasks : WF_vars(Process(r, t))
  /\ \A t \in Tasks : WF_vars(Expire(t))
  /\ \A host \in Hosts : WF_vars(Restart(host))

Spec == Init /\ [][Next]_vars /\ Fairness

-----------------------------------------------------------------------------
(* Properties. *)

Workers(t) == {r \in Runs : pc[r][t] \in Working}

(***************************************************************************)
(* A task is never executed by two runs at a time, over stale lists,       *)
(* crashes and restarts, unless it took longer than its lock is valid.     *)
(***************************************************************************)
TaskExclusive ==
  ~ overrun => \A t \in Tasks : \A q, r \in Workers(t) : q = r

(***************************************************************************)
(* A task that says RUNNING is being run, unless its process is down or    *)
(* the database refused its end: nothing else leaves a task behind.        *)
(***************************************************************************)
RunningIsRun ==
  failures = 0 /\ down = {} =>
    \A t \in Tasks : status[t] = "RUNNING" => Workers(t) # {}

(***************************************************************************)
(* handleAsyncTasks reads the status of a task only in its list, and the   *)
(* lock is free again after the task: a run may repeat what another one    *)
(* has done since.  It does so at most once, and again after a restart,    *)
(* which turns RUNNING tasks to PENDING; with a single run there are no    *)
(* repetitions but those of a crash, although it lists again and again.    *)
(***************************************************************************)
OncePerRunAndCrash ==
  \A t \in Tasks : executions[t] <= Cardinality(Runs) * (1 + crashes)

(***************************************************************************)
(* Every created task that the code knows is brought to an end, over the   *)
(* crash of any process that has locked or started it; only a failed save  *)
(* of its error may leave it RUNNING, until some process restarts.         *)
(***************************************************************************)
TaskFinishes ==
  \A t \in Tasks \ Unknown :
    status[t] \in {"PENDING", "RUNNING"} ~> (status[t] \in Finished \/ failures > 0)
=============================================================================
