-------------------------- MODULE MCLockingManager --------------------------
(* Two callers: each may be the holder, and both may contend for the lock   *)
(* that one of them has left behind.                                        *)
EXTENDS LockingManager
=============================================================================
