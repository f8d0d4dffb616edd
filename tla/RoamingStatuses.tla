--------------------------- MODULE RoamingStatuses ---------------------------
(***************************************************************************)
(* The statuses of the charging stations at a roaming partner, an OCPI     *)
(* endpoint or the OICP hub.  Every status notification is passed on at    *)
(* once, without waiting and without a retry; a scheduled push repeats     *)
(* what failed and what was notified since the last push, and a user may   *)
(* ask for a push of everything.  Two jobs may run at the same time unless *)
(* they take the same lock.                                                *)
(***************************************************************************)
EXTENDS Naturals, Sequences, FiniteSets

CONSTANTS Jobs,              \* jobs that may run at the same time
          Pages,             \* the stations, page by page
          Changing,          \* the stations whose status changes
          MaxChanges,        \* bound on the status notifications
          MaxRuns,           \* bound on the runs of the jobs
          MaxClock           \* bound on the time

VARIABLES protocol,
          clock,
          status,            \* the status saved with each station, by its number
          noted,             \* timestamp of the last status notification of each
          unsaved,           \* status notifications whose station is not yet saved
          direct,            \* statuses on their way to the partner
          partner,           \* what the partner shows: one status, or none
          endpoint,          \* the saved result of the last push
          jobs,
          locks,
          runs,
          excused            \* stations whose status was lost in a race

sVars == <<protocol, clock, status, noted, unsaved, direct, partner, endpoint, jobs, locks, runs, excused>>

Stations == UNION {Pages[i] : i \in DOMAIN Pages}

Idle == [st |-> "idle"]

Running(j) == jobs[j].st \notin {"idle", "read"}

Init ==
    /\ protocol \in {"ocpi", "oicp"}
    /\ clock = 1
    /\ status = [s \in Stations |-> 0] /\ noted = [s \in Stations |-> 0]
    /\ partner = [s \in Stations |-> {0}]
    /\ unsaved = {} /\ direct = {} /\ locks = {} /\ excused = {}
    /\ endpoint = [on |-> 1, failed |-> {}]
    /\ jobs = [j \in Jobs |-> Idle]
    /\ runs = 0

-----------------------------------------------------------------------------
(***************************************************************************)
(* Status notifications                                                    *)
(***************************************************************************)
Changes == Cardinality(unsaved) + (LET sum[S \in SUBSET Stations] ==
               IF S = {} THEN 0 ELSE LET s == CHOOSE s \in S : TRUE IN status[s] + sum[S \ {s}]
           IN  sum[Stations])

\* The notification is saved and handed to the partner before the station is
\* saved.  Its timestamp is the one of the station, which may be late.
ProcessConnectorFromStatusNotification(s) ==
    /\ Changes < MaxChanges
    /\ ~\E u \in unsaved : u.station = s
    /\ \E timestamp \in {clock - 1, clock} :
       LET late == \/ timestamp < endpoint.on
                   \/ \E j \in Jobs : Running(j) /\ timestamp < jobs[j].from
                   \/ \E j \in Jobs : jobs[j].st = "read" /\ timestamp < jobs[j].last.on
       IN  /\ noted' = [noted EXCEPT ![s] = IF timestamp > @ THEN timestamp ELSE @]
           /\ excused' = IF late THEN excused \cup {s} ELSE excused \ {s}
    /\ unsaved' = unsaved \cup {[station |-> s, value |-> status[s] + 1]}
    /\ direct' = direct \cup {[station |-> s, value |-> status[s] + 1]}
    /\ UNCHANGED <<protocol, clock, status, partner, endpoint, jobs, locks, runs>>

SaveChargingStation ==
    /\ \E u \in unsaved : /\ status' = [status EXCEPT ![u.station] = u.value]
                          /\ unsaved' = unsaved \ {u}
    /\ UNCHANGED <<protocol, clock, noted, direct, partner, endpoint, jobs, locks, runs, excused>>

\* patchChargingStationConnectorStatus and updateEVSEStatus
PatchArrives ==
    /\ \E d \in direct :
         /\ partner' = [partner EXCEPT ![d.station] = {d.value}]
         /\ direct' = direct \ {d}
         /\ excused' = IF \A v \in partner[d.station] : v < d.value THEN excused
                       ELSE excused \cup {d.station}
    /\ UNCHANGED <<protocol, clock, status, noted, unsaved, endpoint, jobs, locks, runs>>

\* The error is logged.
PatchFails ==
    /\ \E d \in direct : direct' = direct \ {d}
    /\ UNCHANGED <<protocol, clock, status, noted, unsaved, partner, endpoint, jobs, locks, runs, excused>>

-----------------------------------------------------------------------------
(***************************************************************************)
(* Jobs                                                                    *)
(***************************************************************************)
\* The scheduled OCPI push takes the lock of the locations.
ProcessOCPIEndpoint == [protocol |-> "ocpi", name |-> "scheduled", lock |-> {"patch-locations"}]
ExecuteAsyncTask == [protocol |-> "ocpi", name |-> "requested", lock |-> {"patch-evse-statuses"}]
ProcessOICPEndpoint == [protocol |-> "oicp", name |-> "scheduled", lock |-> {"patch-evse-statuses"}]
HandleSendEVSEStatuses == [protocol |-> "oicp", name |-> "requested", lock |-> {}]
HandleSendEVSEs == [protocol |-> "oicp", name |-> "data", lock |-> {}]
\* Its lock is taken by no other job: its runs are among those without one.
PushEvseDataTask == HandleSendEVSEs

Kinds == {ProcessOCPIEndpoint, ExecuteAsyncTask, ProcessOICPEndpoint, HandleSendEVSEStatuses,
          PushEvseDataTask, HandleSendEVSEs}

\* The jobs have no names: any one that is idle stands for all of them.
FreeJob == CHOOSE j \in Jobs : jobs[j].st = "idle" \/ \A o \in Jobs : jobs[o].st # "idle"

\* Stations notified since the last push the job knows of.
GetChargeBoxIDsWithNewStatusNotifications(last) == {s \in Stations : noted[s] >= last.on}

ToProcess(job) ==
    IF job.partial THEN job.last.failed \cup GetChargeBoxIDsWithNewStatusNotifications(job.last) ELSE Stations

\* A job that finds its lock taken ends.
Acquire(j, job) ==
    IF job.kind.lock \cap locks # {}
    THEN /\ jobs' = [jobs EXCEPT ![j] = Idle]
         /\ UNCHANGED locks
    ELSE LET others == {o \in Jobs : Running(o)}
         IN  /\ locks' = locks \cup job.kind.lock
             /\ jobs' = [o \in Jobs |->
                  IF o = j
                  THEN [st |-> "page", kind |-> job.kind, partial |-> job.partial, last |-> job.last,
                        from |-> clock, todo |-> ToProcess(job), page |-> 1, values |-> <<>>,
                        failed |-> {}, alone |-> others = {}]
                  ELSE IF o \in others THEN [jobs[o] EXCEPT !.alone = FALSE] ELSE jobs[o]]

\* The endpoint is read before the lock is taken.  Only a partial push looks
\* at the result of the last one, so the others need not stop in between.
ReadEndpoint(j) ==
    /\ j = FreeJob /\ jobs[j].st = "idle" /\ runs < MaxRuns
    /\ \E kind \in {k \in Kinds : k.protocol = protocol} :
         \/ /\ kind.name = "scheduled"
            /\ jobs' = [jobs EXCEPT ![j] = [st |-> "read", kind |-> kind, partial |-> TRUE, last |-> endpoint]]
            /\ UNCHANGED locks
         \/ Acquire(j, [kind |-> kind, partial |-> FALSE, last |-> {}])
    /\ runs' = runs + 1
    /\ UNCHANGED <<protocol, clock, status, noted, unsaved, direct, partner, endpoint, excused>>

StartPartial(j) ==
    /\ jobs[j].st = "read"
    /\ Acquire(j, jobs[j])
    /\ UNCHANGED <<protocol, clock, status, noted, unsaved, direct, partner, endpoint, runs, excused>>

TurnPage(job) == [job EXCEPT !.st = "page", !.page = @ + 1, !.values = <<>>]

\* getCpoEvsesFromSite and getChargingStations.  A station that is read while
\* its notification is being handled still has its old status.
ReadPage(j) ==
    /\ jobs[j].st = "page" /\ jobs[j].page <= Len(Pages) /\ jobs[j].kind.name # "data"
    /\ LET read == IF protocol = "ocpi" THEN Pages[jobs[j].page] \cap jobs[j].todo ELSE Pages[jobs[j].page]
       IN  /\ jobs' = [jobs EXCEPT ![j] = IF read = {} THEN TurnPage(jobs[j])
                         ELSE [jobs[j] EXCEPT !.st = "push", !.values = [s \in read |-> status[s]]]]
           /\ excused' = excused \cup (read \cap {u.station : u \in unsaved})
    /\ UNCHANGED <<protocol, clock, status, noted, unsaved, direct, partner, endpoint, locks, runs>>

\* OCPI: one request per station, several at the same time.
PatchEVSEStatus(j) ==
    /\ protocol = "ocpi" /\ jobs[j].st = "push"
    /\ \E s \in DOMAIN jobs[j].values, ok \in BOOLEAN :
       LET old == jobs[j]
           left == DOMAIN old.values \ {s}
           job == [old EXCEPT !.values = [t \in left |-> old.values[t]],
                              !.failed = IF ok THEN old.failed ELSE old.failed \cup {s}]
       IN  /\ partner' = IF ok THEN [partner EXCEPT ![s] = {old.values[s]}] ELSE partner
           /\ jobs' = [jobs EXCEPT ![j] = IF left = {} THEN TurnPage(job) ELSE job]
    /\ UNCHANGED <<protocol, clock, status, noted, unsaved, direct, endpoint, locks, runs, excused>>

\* OICP: one request per page.  A full load replaces all the hub knows, so
\* the stations of the other pages are gone.
SendEVSEStatuses(j) ==
    /\ protocol = "oicp" /\ jobs[j].st = "push"
    /\ LET job == jobs[j]
           sent == DOMAIN job.values \cap ToProcess(job)
       IN  \/ /\ sent # {}
              /\ partner' = [s \in Stations |-> IF s \in sent THEN {job.values[s]}
                                                ELSE IF job.partial THEN partner[s] ELSE {}]
              /\ excused' = IF job.partial THEN excused ELSE excused \cup (Stations \ sent)
              /\ jobs' = [jobs EXCEPT ![j] = TurnPage(job)]
           \/ /\ sent # {}
              /\ jobs' = [jobs EXCEPT ![j] = [TurnPage(job) EXCEPT !.failed = job.failed \cup sent]]
              /\ UNCHANGED <<partner, excused>>
           \/ /\ sent = {}
              /\ jobs' = [jobs EXCEPT ![j] = TurnPage(job)]
              /\ UNCHANGED <<partner, excused>>
    /\ UNCHANGED <<protocol, clock, status, noted, unsaved, direct, endpoint, locks, runs>>

\* sendEVSEs pushes the descriptions of the stations and not their statuses.
SendEVSEs(j) ==
    /\ jobs[j].st = "page" /\ jobs[j].page <= Len(Pages) /\ jobs[j].kind.name = "data"
    /\ \E failed \in {{}, Stations} :
         jobs' = [jobs EXCEPT ![j] = [jobs[j] EXCEPT !.page = Len(Pages) + 1, !.failed = failed]]
    /\ UNCHANGED <<protocol, clock, status, noted, unsaved, direct, partner, endpoint, locks, runs, excused>>

\* A push that is dated when it ends.
DatedAtTheEnd(job) == [on |-> clock, failed |-> job.failed]

\* The push is dated when it starts: what is notified meanwhile is repeated.
LastCpoPushStatus(job) == [on |-> job.from, failed |-> job.failed]

Misses(s) == partner[s] # {status[s]}

\* The result is saved and the lock released.  The pushes of the data save
\* theirs in the same place, and a job that was not alone may overwrite a
\* newer result.
Finish(j) ==
    /\ jobs[j].st = "page" /\ jobs[j].page > Len(Pages)
    /\ endpoint' = LastCpoPushStatus(jobs[j])
    /\ locks' = locks \ jobs[j].kind.lock
    /\ jobs' = [jobs EXCEPT ![j] = Idle]
    /\ excused' = IF jobs[j].alone /\ jobs[j].kind.name # "data" THEN excused
                  ELSE excused \cup {s \in Stations : Misses(s) \/ \E d \in direct \cup unsaved : d.station = s}
    /\ UNCHANGED <<protocol, clock, status, noted, unsaved, direct, partner, runs>>

Tick ==
    /\ clock < MaxClock
    /\ clock' = clock + 1
    /\ UNCHANGED <<protocol, status, noted, unsaved, direct, partner, endpoint, jobs, locks, runs, excused>>

Next ==
    \/ Tick \/ SaveChargingStation \/ PatchArrives \/ PatchFails
    \/ \E s \in Changing : ProcessConnectorFromStatusNotification(s)
    \/ \E j \in Jobs : \/ ReadEndpoint(j) \/ StartPartial(j) \/ ReadPage(j) \/ PatchEVSEStatus(j)
                       \/ SendEVSEStatuses(j) \/ SendEVSEs(j) \/ Finish(j)

Spec == Init /\ [][Next]_sVars

-----------------------------------------------------------------------------
\* When no push is running, a station whose status the partner does not show
\* is one the next scheduled push sends: it failed in the last push, or was
\* notified since that push began.  The only losses are those of the races
\* that excused names: a status overtaken by an older one, a station read
\* before its new status was saved, a late timestamp, two pushes at the same
\* time, a full load in pages and the push of the data.
MissedIsRepeated ==
    (\A j \in Jobs : ~Running(j)) =>
        \A s \in Stations :
            Misses(s) => s \in endpoint.failed \/ noted[s] >= endpoint.on \/ s \in excused
=============================================================================
