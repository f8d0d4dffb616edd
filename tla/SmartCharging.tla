---------------------------- MODULE SmartCharging ----------------------------
(***************************************************************************)
(* Smart charging of a site: a root area with station a and a sub-area     *)
(* with station b, each with a connector.  A run asks the optimizer for    *)
(* the limits of the cars that charge, sends each one to its station as a  *)
(* charging profile and then saves it; stations that fail are excluded and *)
(* the plan is computed once more.  The lock of a run is that of the area  *)
(* it was triggered for, but the plan is that of the whole tree.  Stopped  *)
(* sessions and users clear profiles meanwhile.  Amperes are those of one  *)
(* phase, a schedule is the limit of its first period.                     *)
(***************************************************************************)
EXTENDS Naturals

CONSTANTS Capacity,          \* amperes of each area, its sub-area included
          MaxAmps,           \* amperes of a connector
          UserLimit,         \* the limit of a profile that a user has set
          MaxSessions, MaxRuns, MaxEvents

VARIABLES session,           \* the transaction of each station, 0 for none
          charging,          \* the stations whose car charges
          atStation,         \* the profiles that each station has
          stored,            \* the profiles in the database
          run,               \* the run that holds the lock of each area
          ops,               \* profiles being set or cleared outside the runs
          asset,             \* what the asset of the sub-area consumes
          count,
          tainted,           \* stations where requests met or failed (history)
          settled            \* the last plan is complete and up to date (history)

scVars == <<session, charging, atStation, stored, run, ops, asset, count, tainted, settled>>

Areas == {"root", "sub"}
Stations == {"a", "b"}

NoProfile == [tx |-> 0, limit |-> 0]
Idle == [st |-> "idle"]
NoProfiles == [tx |-> NoProfile, user |-> NoProfile]

Init ==
    /\ session = [s \in Stations |-> 0] /\ charging = {}
    /\ atStation = [s \in Stations |-> NoProfiles]
    /\ stored = [s \in Stations |-> NoProfiles]
    /\ run = [area \in Areas |-> Idle]
    /\ ops = {} /\ asset = 0
    /\ count = [session |-> 0, run |-> 0, event |-> 0]
    /\ tainted = {} /\ settled = FALSE

Counted(kind, max) == count[kind] < max /\ count' = [count EXCEPT ![kind] = @ + 1]

\* History: no run under way and no plan before knows of this.
Outdated(runs) == [area \in Areas |-> IF runs[area].st = "idle" THEN Idle ELSE [runs[area] EXCEPT !.clean = FALSE]]

-----------------------------------------------------------------------------
(***************************************************************************)
(* Sessions, assets and stations                                           *)
(***************************************************************************)
\* A car begins to charge, or begins again: Charging is notified.
StartTransaction(s) ==
    /\ session[s] = 0 /\ Counted("session", MaxSessions)
    /\ session' = [session EXCEPT ![s] = count.session + 1]
    /\ charging' = charging \cup {s}
    /\ run' = Outdated(run) /\ settled' = FALSE
    /\ UNCHANGED <<atStation, stored, ops, asset, tainted>>

Suspend(s) ==
    /\ s \in charging /\ Counted("event", MaxEvents)
    /\ charging' = charging \ {s}
    /\ UNCHANGED <<session, atStation, stored, run, ops, asset, tainted, settled>>

Resume(s) ==
    /\ session[s] # 0 /\ s \notin charging
    /\ charging' = charging \cup {s}
    /\ run' = Outdated(run) /\ settled' = FALSE
    /\ UNCHANGED <<session, atStation, stored, ops, asset, count, tainted>>

AssetConsumes ==
    /\ Counted("event", MaxEvents)
    /\ asset' = 1 - asset
    /\ run' = Outdated(run) /\ settled' = FALSE
    /\ UNCHANGED <<session, charging, atStation, stored, ops, tainted>>

\* The station stops; the profiles of the transaction are then deleted.
TriggerSmartChargingStopTransaction(s) ==
    /\ session[s] # 0
    /\ session' = [session EXCEPT ![s] = 0]
    /\ charging' = charging \ {s}
    /\ atStation' = [atStation EXCEPT ![s] = [atStation[s] EXCEPT !.tx = NoProfile]]
    /\ ops' = IF stored[s].tx.tx = session[s] THEN ops \cup {[s |-> s, purpose |-> "tx", st |-> "clear"]} ELSE ops
    /\ UNCHANGED <<stored, run, asset, count, tainted, settled>>

-----------------------------------------------------------------------------
(***************************************************************************)
(* What is sent to a station and saved afterwards                          *)
(***************************************************************************)
\* History: requests that are between the station and the database.
BetweenRuns(s) == {area \in Areas : run[area].st = "save" /\ run[area].entry.s = s}
BetweenOps(s) == {op \in ops : op.s = s /\ op.st \in {"delete", "save"}}
Touch(s, others) == tainted' = IF others THEN tainted \cup {s} ELSE tainted \ {s}

\* A TX profile is accepted for the transaction that runs.
Accepts(s, tx) == session[s] = tx

\* clearChargingProfile clears by connector: every profile of it goes.
ClearChargingProfile ==
    \E op \in ops :
        /\ op.st = "clear"
        /\ atStation' = [atStation EXCEPT ![op.s] = NoProfiles]
        /\ ops' = (ops \ {op}) \cup {[op EXCEPT !.st = "delete"]}
        /\ Touch(op.s, BetweenRuns(op.s) # {} \/ BetweenOps(op.s) # {} \/ op.purpose # "tx")
        /\ run' = Outdated(run) /\ settled' = FALSE
        /\ UNCHANGED <<session, charging, stored, asset, count>>

\* The station does not answer: it may have cleared them, the database has not.
ClearFails ==
    \E op \in ops, done \in BOOLEAN :
        /\ op.st = "clear" /\ Counted("event", MaxEvents)
        /\ atStation' = IF done THEN [atStation EXCEPT ![op.s] = NoProfiles] ELSE atStation
        /\ ops' = ops \ {op} /\ tainted' = tainted \cup {op.s}
        /\ run' = Outdated(run) /\ settled' = FALSE
        /\ UNCHANGED <<session, charging, stored, asset>>

\* The answer to the clearing is not looked at.
DeleteChargingProfile ==
    \E op \in ops :
        /\ op.st = "delete"
        /\ stored' = [stored EXCEPT ![op.s] = [stored[op.s] EXCEPT ![op.purpose] = NoProfile]]
        /\ ops' = ops \ {op}
        /\ UNCHANGED <<session, charging, atStation, run, asset, count, tainted, settled>>

\* A user deletes a profile, or switches the smart charging of an area off.
HandleDeleteChargingProfile(s, purpose) ==
    /\ stored[s][purpose] # NoProfile /\ Counted("event", MaxEvents)
    /\ ops' = ops \cup {[s |-> s, purpose |-> purpose, st |-> "clear"]}
    /\ UNCHANGED <<session, charging, atStation, stored, run, asset, tainted, settled>>

\* A user creates or updates a profile: set at the station, then saved
\* unless the answer is lost.
SetAndSaveChargingProfile(s) ==
    /\ Counted("event", MaxEvents)
    /\ atStation' = [atStation EXCEPT ![s] = [atStation[s] EXCEPT !.user = [tx |-> 0, limit |-> UserLimit]]]
    /\ \E answered \in BOOLEAN :
         ops' = IF answered THEN ops \cup {[s |-> s, purpose |-> "user", st |-> "save"]} ELSE ops
    /\ UNCHANGED <<session, charging, stored, run, asset, tainted, settled>>

SaveUserProfile ==
    \E op \in ops :
        /\ op.st = "save"
        /\ stored' = [stored EXCEPT ![op.s] = [stored[op.s] EXCEPT !.user = [tx |-> 0, limit |-> UserLimit]]]
        /\ ops' = ops \ {op}
        /\ UNCHANGED <<session, charging, atStation, run, asset, count, tainted, settled>>

-----------------------------------------------------------------------------
(***************************************************************************)
(* A run                                                                   *)
(***************************************************************************)
\* The amperes of the stations of an area and of its sub-areas.
PlanSum(plan, area) ==
    LET limit(s) == IF s \in DOMAIN plan THEN plan[s] ELSE 0
    IN  IF area = "sub" THEN limit("b") ELSE limit("a") + limit("b")

\* A planner that leaves the excluded stations to themselves.
NothingDeducted(area, excluded) == asset

\* What is taken from the fuse of an area before the plan is made: the
\* assets and the excluded stations of the area and of its sub-areas.
ExcludedAmperage(area, excluded) == asset + PlanSum([s \in charging \cap excluded |-> MaxAmps], area)

RootFuse(area, excluded) ==
    LET amps == ExcludedAmperage(area, excluded)
    IN  IF amps > Capacity[area] THEN 0 ELSE Capacity[area] - amps

\* The optimizer, an external service: any plan within the fuses.
Plans(excluded) ==
    {plan \in [charging \ excluded -> 0..MaxAmps] :
        \A area \in Areas : PlanSum(plan, area) <= RootFuse(area, excluded)}

BuildChargingProfilesFromOptimizerResponse(plan) ==
    {[s |-> s, tx |-> session[s], limit |-> plan[s]] : s \in DOMAIN plan}

ProfileOf(e) == [tx |-> e.tx, limit |-> e.limit]

\* Profiles of the same quarter of an hour that are stored already.
CheckIfChargingProfileAlreadyApplied(profiles) ==
    {e \in profiles : stored[e.s].tx = ProfileOf(e)}

\* History: the excluded stations alone do not need more than there is.
Possible(excluded) == \A area \in Areas : ExcludedAmperage(area, excluded) <= Capacity[area]

Release(area, r) == run' = [run EXCEPT ![area] = Idle] /\ settled' = r

\* Nothing is done when no car charges, or all that do are excluded.
ComputeAndApplyChargingProfiles(area, r) ==
    LET overlaps == \E other \in Areas \ {area} : run[other].st # "idle"
    IN  IF charging \subseteq r.excluded
        THEN Release(area, settled)
        ELSE /\ settled' = FALSE
             /\ \E plan \in Plans(r.excluded), sameQuarter \in BOOLEAN :
                  LET profiles == BuildChargingProfilesFromOptimizerResponse(plan)
                      applied == IF sameQuarter THEN CheckIfChargingProfileAlreadyApplied(profiles) ELSE {}
                  IN  run' = [Outdated(run) EXCEPT ![area] =
                               [r EXCEPT !.st = "apply", !.queue = profiles \ applied,
                                         !.clean = ~overlaps /\ Possible(r.excluded)
                                                   /\ \A e \in applied : atStation[e.s].tx = stored[e.s].tx]]

\* A session, a user, an asset or the schedule asks for a plan; whoever does not
\* get the lock of the area gives up.
TriggerSmartCharging(area) ==
    /\ run[area].st = "idle" /\ Counted("run", MaxRuns)
    /\ ComputeAndApplyChargingProfiles(area, [st |-> "apply", retry |-> FALSE, excluded |-> {}, queue |-> {},
                                              entry |-> NoProfile, failed |-> FALSE, clean |-> TRUE])
    /\ UNCHANGED <<session, charging, atStation, stored, ops, asset, tainted>>

\* Lower limits are set first; one that failed is tried again before others.
NextProfiles(r) ==
    IF r.entry # NoProfile THEN {r.entry}
    ELSE {e \in r.queue : \A other \in r.queue : e.limit <= other.limit}

\* handleRefusedChargingProfile: after two more trials the station is excluded.
HandleRefusedChargingProfile(area, e) ==
    LET r == run[area]
    IN  run' = [run EXCEPT ![area] = [r EXCEPT !.st = "apply", !.entry = NoProfile, !.queue = r.queue \ {e},
                                               !.failed = TRUE, !.excluded = r.excluded \cup {e.s}]]

Sent(e) == atStation' = [atStation EXCEPT ![e.s] = [atStation[e.s] EXCEPT !.tx = ProfileOf(e)]]

SetChargingProfile(area) ==
    /\ run[area].st = "apply" /\ run[area].queue # {}
    /\ \E e \in NextProfiles(run[area]) :
         /\ Accepts(e.s, e.tx)
         /\ Sent(e)
         /\ run' = [run EXCEPT ![area] = [run[area] EXCEPT !.st = "save", !.entry = e]]
         /\ Touch(e.s, BetweenRuns(e.s) # {} \/ BetweenOps(e.s) # {})
    /\ UNCHANGED <<session, charging, stored, ops, asset, count, settled>>

\* Every trial is refused, since the transaction is over, or not answered, in
\* which case the station may have the profile all the same.
SetFails(area) ==
    /\ run[area].st = "apply" /\ run[area].queue # {}
    /\ \E e \in NextProfiles(run[area]) :
         /\ \/ ~Accepts(e.s, e.tx) /\ UNCHANGED <<atStation, tainted, count>>
            \/ Counted("event", MaxEvents) /\ UNCHANGED <<atStation, tainted>>
            \/ Accepts(e.s, e.tx) /\ Counted("event", MaxEvents) /\ Sent(e) /\ tainted' = tainted \cup {e.s}
         /\ HandleRefusedChargingProfile(area, e)
    /\ UNCHANGED <<session, charging, stored, ops, asset, settled>>

SaveChargingProfile(area) ==
    LET r == run[area]
        e == r.entry
    IN  /\ r.st = "save"
        /\ stored' = [stored EXCEPT ![e.s] = [stored[e.s] EXCEPT !.tx = ProfileOf(e)]]
        /\ run' = [run EXCEPT ![area] = [r EXCEPT !.st = "apply", !.entry = NoProfile, !.queue = r.queue \ {e}]]
        /\ UNCHANGED <<session, charging, atStation, ops, asset, count, tainted, settled>>

\* The profile is set again, or given up.
SaveFails(area) ==
    LET e == run[area].entry
    IN  /\ run[area].st = "save" /\ Counted("event", MaxEvents)
        /\ \/ run' = [run EXCEPT ![area] = [run[area] EXCEPT !.st = "apply"]]
           \/ HandleRefusedChargingProfile(area, e)
        /\ tainted' = tainted \cup {e.s}
        /\ UNCHANGED <<session, charging, atStation, stored, ops, asset, settled>>

\* The plan is computed once more, without the stations that have failed.
ComputeAgain(area) ==
    /\ run[area].st = "apply" /\ run[area].queue = {} /\ run[area].failed /\ ~run[area].retry
    /\ ComputeAndApplyChargingProfiles(area, [run[area] EXCEPT !.retry = TRUE, !.failed = FALSE])
    /\ UNCHANGED <<session, charging, atStation, stored, ops, asset, count, tainted>>

Applied(area) ==
    /\ run[area].st = "apply" /\ run[area].queue = {} /\ (~run[area].failed \/ run[area].retry)
    /\ Release(area, run[area].clean /\ ~run[area].failed)
    /\ UNCHANGED <<session, charging, atStation, stored, ops, asset, count, tainted>>

\* The server stops and the lock expires, or the optimizer does not answer.
RunDies(area) ==
    /\ run[area].st # "idle" /\ Counted("event", MaxEvents)
    /\ Release(area, settled)
    /\ tainted' = IF run[area].st = "save" THEN tainted \cup {run[area].entry.s} ELSE tainted
    /\ UNCHANGED <<session, charging, atStation, stored, ops, asset>>

-----------------------------------------------------------------------------
Next ==
    \/ \E s \in Stations :
         \/ StartTransaction(s) \/ Suspend(s) \/ Resume(s) \/ TriggerSmartChargingStopTransaction(s)
         \/ SetAndSaveChargingProfile(s)
         \/ \E purpose \in {"tx", "user"} : HandleDeleteChargingProfile(s, purpose)
    \/ AssetConsumes \/ ClearChargingProfile \/ ClearFails \/ DeleteChargingProfile \/ SaveUserProfile
    \/ \E area \in Areas :
         \/ TriggerSmartCharging(area)
         \/ SetChargingProfile(area) \/ SetFails(area) \/ SaveChargingProfile(area) \/ SaveFails(area)
         \/ ComputeAgain(area) \/ Applied(area) \/ RunDies(area)

Spec == Init /\ [][Next]_scVars

-----------------------------------------------------------------------------
\* What the car of a station may draw.
Limit(s) ==
    CASE s \notin charging -> 0
      [] s \in charging /\ atStation[s].tx # NoProfile -> atStation[s].tx.limit
      [] s \in charging /\ atStation[s].tx = NoProfile /\ atStation[s].user # NoProfile -> atStation[s].user.limit
      [] OTHER -> MaxAmps

StoredForSession(s) == IF stored[s].tx.tx = session[s] THEN stored[s].tx ELSE NoProfile

(***************************************************************************)
(* Once a plan was applied to the end and nothing has changed since, the   *)
(* cars that charge stay within the fuses of their areas, with the assets  *)
(* and the stations that were excluded, unless a profile was left out      *)
(* that the database has and the station has not.                          *)
(***************************************************************************)
FusesHold ==
    settled =>
        \A area \in Areas : PlanSum([s \in Stations |-> Limit(s)], area) + asset <= Capacity[area]

(***************************************************************************)
(* The database knows the profile of the session at a station, but where a *)
(* request failed half-way or met another one at the same connector.       *)
(***************************************************************************)
ProfilesAgree ==
    \A s \in Stations \ tainted :
        session[s] # 0 /\ BetweenRuns(s) = {} /\ BetweenOps(s) = {} => atStation[s].tx = StoredForSession(s)

PlansAgree == FusesHold /\ ProfilesAgree
=============================================================================
