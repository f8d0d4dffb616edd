--------------------------- MODULE LockingManager ---------------------------
(***************************************************************************)
(* One exclusive lock of locking/LockingManager.ts: a document of the      *)
(* `locks' collection whose _id is a hash of tenant, entity, key and type. *)
(* Its unique index makes the insert an atomic test-and-set; everything    *)
(* around the insert (the wait, the expiry check, the deletion of a stale  *)
(* lock, the retry) is a separate round trip to the database, taken by     *)
(* server processes that run concurrently and may crash.                   *)
(*                                                                         *)
(* Dates are kept as the time that remains until them; -1 is `past', so    *)
(* time needs no bound.                                                    *)
(***************************************************************************)
EXTENDS Integers, FiniteSets

CONSTANTS
  Procs,            \* callers that compete for the lock
  Validity,         \* lockValiditySecs, in ticks
  Timeout,          \* timeoutSecs, in ticks; 0: acquire does not wait
  MaxLockFailures,  \* bound: crashes and failed database calls
  NoLock            \* the lock document does not exist

ASSUME LockingAssumption ==
  /\ Validity \in Nat \ {0}
  /\ Timeout \in Nat
  /\ MaxLockFailures \in Nat
  /\ NoLock \notin [owner : Procs, ttl : Int]

VARIABLES
  at,            \* where each caller is
  ttl,           \* time to the expirationDate of each caller's lock object
  wait,          \* time to the timeoutDateMs of acquireExclusiveLock
  retry,         \* the `retry' argument of acquire
  doc,           \* the lock document, with the caller that inserted it
  lockFailures,  \* how many crashes and database errors there were
  takenOver,     \* history: an expired lock was deleted by a contender
  lost           \* history: holders whose document was deleted by another

lockVars == <<at, ttl, wait, retry, doc, lockFailures, takenOver, lost>>

LockTypeOK ==
  /\ at \in [Procs -> {"idle", "inserting", "sleeping", "checking", "deleting", "held"}]
  /\ ttl \in [Procs -> -1 .. Validity]
  /\ wait \in [Procs -> -1 .. Timeout]
  /\ retry \in [Procs -> BOOLEAN]
  /\ doc \in {NoLock} \cup [owner : Procs, ttl : -1 .. Validity]
  /\ lockFailures \in 0 .. MaxLockFailures
  /\ takenOver \in BOOLEAN
  /\ lost \in SUBSET Procs

LockInit ==
  /\ at = [p \in Procs |-> "idle"]
  /\ ttl = [p \in Procs |-> Validity]
  /\ wait = [p \in Procs |-> Timeout]
  /\ retry = [p \in Procs |-> TRUE]
  /\ doc = NoLock
  /\ lockFailures = 0
  /\ takenOver = FALSE
  /\ lost = {}

-----------------------------------------------------------------------------
(* What the callers do. *)

Move(p, to) == at' = [at EXCEPT ![p] = to]

\* An expirationDate or a deadline, one tick later.
Sooner(t) == IF t < 0 THEN t ELSE t - 1

\* checkAndReleaseExpiredLock's test: expirationDate < now.
Expired == doc # NoLock /\ doc.ttl < 0

\* createExclusiveLock, then acquire(lock, timeoutSecs, true): the expiration
\* date is fixed here, before the lock is obtained.
Create(p) ==
  /\ at[p] = "idle"
  /\ Move(p, "inserting")
  /\ ttl' = [ttl EXCEPT ![p] = Validity]
  /\ wait' = [wait EXCEPT ![p] = Timeout]
  /\ retry' = [retry EXCEPT ![p] = TRUE]
  /\ UNCHANGED <<doc, lockFailures, takenOver, lost>>

\* The insert, were it an upsert: what the unique _id prevents.
UpsertLock(p) ==
  /\ at[p] = "inserting"
  /\ doc' = [owner |-> p, ttl |-> ttl[p]]
  /\ Move(p, "held")
  /\ UNCHANGED <<ttl, wait, retry, lockFailures, takenOver, lost>>

\* LockingStorage.insertLock succeeds and acquire returns true.
InsertLock(p) ==
  /\ at[p] = "inserting"
  /\ doc = NoLock
  /\ doc' = [owner |-> p, ttl |-> ttl[p]]
  /\ Move(p, "held")
  /\ UNCHANGED <<ttl, wait, retry, lockFailures, takenOver, lost>>

\* The catch of acquire: a first attempt looks for an expired lock, a second
\* one returns false.
AfterFailure(p) == IF retry[p] THEN "checking" ELSE "idle"

\* insertLock throws on the duplicate _id.
InsertFails(p) ==
  /\ at[p] = "inserting"
  /\ doc # NoLock
  /\ Move(p, IF Timeout > 0 THEN "sleeping" ELSE AfterFailure(p))
  /\ UNCHANGED <<ttl, wait, retry, doc, lockFailures, takenOver, lost>>

\* The loop of acquireExclusiveLock that falls through as if it had the lock.
WakeAsOwner(p) ==
  /\ at[p] = "sleeping"
  /\ Move(p, IF wait[p] > 0 THEN "inserting" ELSE "held")
  /\ UNCHANGED <<ttl, wait, retry, doc, lockFailures, takenOver, lost>>

\* Utils.sleep ends: once more while now < timeoutDateMs, else the timeout
\* error is thrown to acquire.
Wake(p) ==
  /\ at[p] = "sleeping"
  /\ Move(p, IF wait[p] > 0 THEN "inserting" ELSE AfterFailure(p))
  /\ UNCHANGED <<ttl, wait, retry, doc, lockFailures, takenOver, lost>>

\* The expiry check made on the caller's own lock object.
CheckOwnExpiry(p) ==
  /\ at[p] = "checking"
  /\ Move(p, IF doc # NoLock /\ ttl[p] < 0 THEN "deleting" ELSE "idle")
  /\ UNCHANGED <<ttl, wait, retry, doc, lockFailures, takenOver, lost>>

\* checkAndReleaseExpiredLock: getLock and the test of its expiration date.
CheckExpired(p) ==
  /\ at[p] = "checking"
  /\ Move(p, IF Expired THEN "deleting" ELSE "idle")
  /\ UNCHANGED <<ttl, wait, retry, doc, lockFailures, takenOver, lost>>

(***************************************************************************)
(* deleteLock is by _id alone: it removes the document that is there now,  *)
(* whoever inserted it.  Its owner, if another caller that believes to     *)
(* hold the lock, has lost it.                                             *)
(***************************************************************************)
DeleteLock(p) ==
  /\ doc' = NoLock
  /\ lost' = (lost \cup {q \in Procs : doc # NoLock /\ doc.owner = q /\ at[q] = "held"}) \ {p}

\* The rest of checkAndReleaseExpiredLock, which returns true even if there
\* was nothing left to delete, and acquire(lock, timeoutSecs, false).
ReleaseExpired(p) ==
  /\ at[p] = "deleting"
  /\ DeleteLock(p)
  /\ takenOver' = TRUE
  /\ Move(p, "inserting")
  /\ retry' = [retry EXCEPT ![p] = FALSE]
  /\ wait' = [wait EXCEPT ![p] = Timeout]
  /\ UNCHANGED <<ttl, lockFailures>>

\* A release that trusts the lock's validity to remove it.
ReleaseUnlessLate(p) ==
  /\ at[p] = "held"
  /\ Move(p, "idle")
  /\ IF ttl[p] >= 0 THEN doc' = NoLock ELSE UNCHANGED doc
  /\ lost' = lost \ {p}
  /\ UNCHANGED <<ttl, wait, retry, lockFailures, takenOver>>

\* release, in the finally of every caller; a false result is only logged.
Release(p) ==
  /\ at[p] = "held"
  /\ Move(p, "idle")
  /\ DeleteLock(p)
  /\ UNCHANGED <<ttl, wait, retry, lockFailures, takenOver>>

-----------------------------------------------------------------------------
(* What happens to them. *)

Fail == lockFailures < MaxLockFailures /\ lockFailures' = lockFailures + 1

\* The deletion of the expired lock throws: logged, acquire returns false.
ReleaseExpiredFails(p) ==
  /\ at[p] = "deleting"
  /\ Fail
  /\ Move(p, "idle")
  /\ UNCHANGED <<ttl, wait, retry, doc, takenOver, lost>>

\* The process of a caller stops (or the delete of its release throws): the
\* document stays.  deleteLockByHostname, written for the restart of a host,
\* is never called.
CallerCrash(p) ==
  /\ at[p] # "idle"
  /\ Fail
  /\ Move(p, "idle")
  /\ lost' = lost \ {p}
  /\ UNCHANGED <<ttl, wait, retry, doc, takenOver>>

Tick ==
  /\ ttl' = [p \in Procs |-> Sooner(ttl[p])]
  /\ wait' = [p \in Procs |-> Sooner(wait[p])]
  /\ doc' = IF doc = NoLock THEN NoLock ELSE [owner |-> doc.owner, ttl |-> Sooner(doc.ttl)]
  /\ UNCHANGED <<at, retry, lockFailures, takenOver, lost>>

-----------------------------------------------------------------------------
Step(p) ==
  \/ Create(p) \/ InsertLock(p) \/ InsertFails(p) \/ Wake(p)
  \/ CheckExpired(p) \/ ReleaseExpired(p) \/ Release(p)

LockNext ==
  \/ \E p \in Procs : Step(p) \/ ReleaseExpiredFails(p) \/ CallerCrash(p)
  \/ Tick

(***************************************************************************)
(* Time passes, every awaited call ends, critical sections end, and the    *)
(* callers come back (the locks guard jobs that the scheduler repeats).    *)
(***************************************************************************)
LockFairness == WF_lockVars(Tick) /\ \A p \in Procs : WF_lockVars(Step(p))

LockSpec == LockInit /\ [][LockNext]_lockVars /\ LockFairness

-----------------------------------------------------------------------------
(* Properties. *)

Holders == {p \in Procs : at[p] = "held"}

(***************************************************************************)
(* A caller whose acquire returned true and whose document nobody deleted  *)
(* is the one the document names: there is at most one such caller, and    *)
(* no failed, timed-out or retried acquire is taken for a successful one.  *)
(***************************************************************************)
HolderOwnsLock ==
  \A p \in Holders \ lost : doc # NoLock /\ doc.owner = p

\* As long as no lock outlived its validity and was taken over, the lock is
\* exclusive, and no holder has lost it.
ExclusiveUntilTakeover ==
  ~ takenOver => lost = {} /\ \A p, q \in Holders : p = q

\* A lock document without a holder can only come from a crash or a database
\* error: every return path of acquire and release cleans up.
NoOrphanWithoutFailure ==
  lockFailures = 0 /\ doc # NoLock => at[doc.owner] = "held"

\* acquire returns, with or without the lock, however long the lock is held.
AcquireReturns ==
  \A p \in Procs :
    at[p] \in {"inserting", "sleeping", "checking", "deleting"} ~> at[p] \in {"held", "idle"}

Orphan == doc # NoLock /\ at[doc.owner] # "held"

\* A lock left behind by a crash does not block the others for ever: its
\* expiration date makes a contender delete it.
OrphanIsReplaced == Orphan ~> ~ Orphan

\* Nobody is blocked for ever by a lock, held or left behind.
NobodyBlocked == AcquireReturns /\ OrphanIsReplaced

(***************************************************************************)
(* What `exclusive lock' says, and the log `has expired and was released   *)
(* successfully' confirms: two callers never both hold it within its       *)
(* validity.  The code does not guarantee it: of two contenders that read  *)
(* the same expired document, the second deletes the fresh one of the      *)
(* first.                                                                  *)
(***************************************************************************)
ExclusiveWhileValid ==
  \A p, q \in Holders : ttl[p] >= 0 /\ ttl[q] >= 0 => p = q
=============================================================================
