---------------------------- MODULE RequestReply ----------------------------
(***************************************************************************)
(* What a caller of a remote operation is promised, whatever carries it:   *)
(* a request that was issued gets one outcome, keeps it, and gets it       *)
(* eventually.  WSConnection implements it (WSConnection!RR).              *)
(***************************************************************************)
CONSTANT Requests       \* the requests that may be issued

VARIABLE outcome        \* what the caller of each request knows

Unsettled == {"unsent", "pending"}
Settled   == {"resolved", "rejected"}

RRInit == outcome = [r \in Requests |-> "unsent"]

Issue(r) ==
  /\ outcome[r] = "unsent"
  /\ outcome' = [outcome EXCEPT ![r] = "pending"]

Settle(r) ==
  /\ outcome[r] = "pending"
  /\ \E o \in Settled : outcome' = [outcome EXCEPT ![r] = o]

RRNext == \E r \in Requests : Issue(r) \/ Settle(r)

RRSafety == RRInit /\ [][RRNext]_outcome

RRSpec == RRSafety /\ \A r \in Requests : WF_outcome(Settle(r))
=============================================================================
