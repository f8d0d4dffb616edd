--------------------------- MODULE RoamingSessions ---------------------------
(***************************************************************************)
(* A charging session that an OCPI operator (CPO) reports to a provider    *)
(* (EMSP) which runs this software as well: the operator sends the start,  *)
(* the updates, the stop and the charge detail record (CDR) of the         *)
(* session, and checks later that they arrived; the provider makes a       *)
(* transaction of them and also pulls them from the operator.  Requests    *)
(* are lost, repeated or handled after the operator gave up waiting.       *)
(***************************************************************************)
EXTENDS Naturals, FiniteSets

CONSTANTS MaxHandlers,       \* bound on the requests the provider handles at the same time
          MaxReadings,       \* bound on the updates of a session
          MaxFaults,         \* bound on lost, late and repeated requests
          MaxPulls,          \* bound on the pulls of the provider
          BackgroundPatchJob \* whether the tasks of the endpoint are scheduled

VARIABLES cpo,               \* the transaction of the operator
          waiting,           \* the request the operator waits for, if any
          net,               \* requests on their way
          answers,           \* answers on their way
          emsp,              \* the transactions of the provider
          handlers,          \* what the handlers of the provider are about to save
          unknown,           \* how the provider answers that a CDR is unknown
          faults, pulls,
          raced,             \* kinds of requests that were handled at the same time
          saved              \* requests whose handler saved the transaction

oVars == <<cpo, waiting, net, answers, emsp, handlers, unknown, faults, pulls, raced, saved>>

Session(status, at, kwh, ended) == [status |-> status, at |-> at, kwh |-> kwh, ended |-> ended]

Init ==
    /\ cpo = [phase |-> "new", at |-> 0, kwh |-> 0, session |-> {}, cdr |-> FALSE, tried |-> FALSE,
              sessionChecked |-> FALSE, cdrChecked |-> FALSE]
    /\ waiting = {} /\ net = {} /\ answers = {} /\ raced = {} /\ saved = {}
    /\ emsp = <<>>
    /\ handlers = {}
    /\ unknown \in {2001, 3001}
    /\ faults = 0 /\ pulls = 0

-----------------------------------------------------------------------------
(***************************************************************************)
(* The operator                                                            *)
(***************************************************************************)
Send(kind, session, phase, at, kwh) ==
    LET request == [kind |-> kind, session |-> session, n |-> faults]
    IN  /\ waiting = {}
        /\ waiting' = {request} /\ net' = net \cup {request}
        /\ cpo' = [cpo EXCEPT !.phase = phase, !.at = at, !.kwh = kwh]
        /\ UNCHANGED <<answers, emsp, handlers, unknown, faults, pulls, raced, saved>>

StartSession ==
    /\ cpo.phase = "new"
    /\ Send("put", Session("PENDING", 0, 0, FALSE), "starting", 0, 0)

UpdateSession ==
    /\ cpo.phase = "open" /\ ~cpo.tried /\ cpo.at < MaxReadings
    /\ Send("patch", Session("ACTIVE", cpo.at + 1, cpo.kwh + 1, FALSE), "updating", cpo.at + 1, cpo.kwh + 1)

\* The last reading may have the time of the stop.  A station repeats a stop
\* that was not confirmed.
StopSession ==
    /\ cpo.phase = "open"
    /\ IF cpo.tried
       THEN Send("put", Session("COMPLETED", cpo.at, cpo.kwh, TRUE), "stopping", cpo.at, cpo.kwh)
       ELSE \E at \in {cpo.at, cpo.at + 1} :
              Send("put", Session("COMPLETED", at, cpo.kwh + 1, TRUE), "stopping", at, cpo.kwh + 1)

\* The scheduled task takes every session that has no CDR yet.
WithoutCdr == cpo.phase = "stopped" /\ ~cpo.cdr

\* pushCdr, under the lock of the CDR, by the status notification that ends
\* the session, by the scheduled task or by a user, until it was accepted.
PushCdr ==
    /\ WithoutCdr
    /\ Send("cdr", Session("CDR", cpo.at, cpo.kwh, TRUE), "posting", cpo.at, cpo.kwh)

\* An operator that drops a CDR that was not accepted.
DropsFailed(ok) ==
    [cpo EXCEPT !.phase = CASE cpo.phase \in {"starting", "updating"} -> "open"
                            [] cpo.phase = "stopping" -> IF ok THEN "stopped" ELSE "open"
                            [] OTHER -> "dropped",
                !.cdr = ok /\ cpo.phase = "posting"]

\* A start that fails is refused to the station, a failed update is logged, a
\* failed stop or CDR is left to a later try.
Continue(ok) ==
    LET session == {r.session : r \in waiting}
    IN  CASE cpo.phase = "starting" -> [cpo EXCEPT !.phase = IF ok THEN "open" ELSE "refused",
                                                   !.session = IF ok THEN session ELSE {}]
          [] cpo.phase = "updating" -> [cpo EXCEPT !.phase = "open", !.session = session]
          [] cpo.phase = "stopping" -> [cpo EXCEPT !.phase = IF ok THEN "stopped" ELSE "open", !.tried = TRUE,
                                                   !.session = IF ok THEN session ELSE @]
          [] OTHER -> [cpo EXCEPT !.phase = "stopped", !.cdr = ok]

Answered ==
    /\ \E a \in answers : /\ a.request \in waiting
                          /\ cpo' = Continue(a.ok)
                          /\ answers' = answers \ {a}
    /\ waiting' = {}
    /\ UNCHANGED <<net, emsp, handlers, unknown, faults, pulls, raced, saved>>

\* The operator gives up; the request is lost, or is handled all the same.
TimesOut ==
    /\ waiting # {} /\ faults < MaxFaults
    /\ net' \in {net, net \ waiting}
    /\ cpo' = Continue(FALSE)
    /\ waiting' = {} /\ faults' = faults + 1
    /\ UNCHANGED <<answers, emsp, handlers, unknown, pulls, raced, saved>>

\* axios-retry repeats a request whose connection broke.
Retry ==
    /\ faults < MaxFaults
    /\ \E r \in waiting : /\ waiting' = {[r EXCEPT !.n = faults + 1]}
                          /\ net' = net \cup waiting'
    /\ faults' = faults + 1
    /\ UNCHANGED <<cpo, answers, emsp, handlers, unknown, pulls, raced, saved>>

CheckSessionsTask == [scheduled |-> TRUE]
CheckSessionsAsyncTask == [scheduled |-> FALSE]
CheckCdrsTask == [scheduled |-> TRUE]
CheckCdrsAsyncTask == [scheduled |-> FALSE]

Runs(task) == task.scheduled => BackgroundPatchJob

SessionToCheck == cpo.phase = "stopped" /\ ~cpo.sessionChecked

CdrToCheck == cpo.cdr /\ ~cpo.cdrChecked

\* The check is recorded before the provider is asked, and repairs nothing.
CheckSession ==
    /\ \E task \in {CheckSessionsTask, CheckSessionsAsyncTask} : Runs(task)
    /\ SessionToCheck
    /\ cpo' = [cpo EXCEPT !.sessionChecked = TRUE]
    /\ UNCHANGED <<waiting, net, answers, emsp, handlers, unknown, faults, pulls, raced, saved>>

HasCdr == Cardinality(DOMAIN emsp) = 1 /\ \A t \in DOMAIN emsp : emsp[t].cdr

\* The check is recorded first; a CDR that the provider calls unknown with
\* the code 3001 is posted again.
CheckCdr ==
    /\ \E task \in {CheckCdrsTask, CheckCdrsAsyncTask} : Runs(task)
    /\ CdrToCheck /\ waiting = {}
    /\ cpo' = [cpo EXCEPT !.cdrChecked = TRUE]
    /\ net' = IF ~HasCdr /\ unknown = 3001
              THEN net \cup {[kind |-> "cdr", session |-> Session("CDR", cpo.at, cpo.kwh, TRUE), n |-> faults]}
              ELSE net
    /\ UNCHANGED <<waiting, answers, emsp, handlers, unknown, faults, pulls, raced, saved>>

-----------------------------------------------------------------------------
(***************************************************************************)
(* The provider                                                            *)
(***************************************************************************)
\* getOCPITransactionBySessionID finds nothing when there is more than one.
Found == IF Cardinality(DOMAIN emsp) = 1 THEN DOMAIN emsp ELSE {}

NewTransaction == [session |-> Session("none", 0, 0, FALSE), last |-> 0, stopped |-> FALSE, kwh |-> 0, cdr |-> FALSE]

FreshID == Cardinality(DOMAIN emsp) + 1 + Cardinality(handlers)

\* handlePatchSession merges the request into the session of the transaction
\* before the transaction is looked at.
Merged(transaction, request) ==
    [transaction EXCEPT !.session = [request.session EXCEPT !.ended = transaction.session.ended]]

\* A provider that does not compare the times.
AnyTime(transaction, session) == transaction.cdr \/ transaction.session.status = "COMPLETED"

\* A session with a CDR, a completed one and an update that is older than
\* the last one are left alone.
Ignored(transaction, session) ==
    transaction.cdr \/ transaction.session.status = "COMPLETED" \/ session.at < transaction.last

\* processEmspTransactionFromSession
WithSession(transaction, session) ==
    [transaction EXCEPT !.session = session, !.last = session.at,
                        !.stopped = @ \/ session.ended \/ session.status = "COMPLETED",
                        !.kwh = session.kwh]

\* processEmspCdr
WithCdr(transaction, session) == [transaction EXCEPT !.stopped = TRUE, !.kwh = session.kwh, !.cdr = TRUE]

\* An answer nobody waits for is dropped.
Answer(request, ok) == answers \cup {[request |-> r, ok |-> ok] : r \in waiting \cap {request}}

\* A request is read and checked; what it leaves to do is to save.
Handle(request) ==
    LET known == Found
        t == IF known = {} THEN FreshID ELSE CHOOSE t \in known : TRUE
        stored == IF known = {} THEN NewTransaction ELSE emsp[t]
        read == IF request.kind = "patch" THEN Merged(stored, request) ELSE stored
        session == IF request.kind = "patch" THEN read.session ELSE request.session
        isCdr == session.status = "CDR"
    IN  /\ Cardinality(handlers) < MaxHandlers
        /\ IF known = {} /\ (isCdr \/ request.kind = "patch")
           THEN answers' = Answer(request, FALSE) /\ UNCHANGED <<handlers, raced>>
           ELSE IF ~isCdr /\ Ignored(read, session)
           THEN answers' = Answer(request, TRUE) /\ UNCHANGED <<handlers, raced>>
           ELSE /\ handlers' = handlers \cup
                     {[request |-> request, id |-> t,
                       transaction |-> IF isCdr THEN WithCdr(read, session) ELSE WithSession(read, session)]}
                /\ raced' = raced \cup {{request.session.status, o.request.session.status} : o \in handlers}
                /\ UNCHANGED answers

HandleRequest ==
    /\ \E r \in net : Handle(r) /\ net' = net \ {r}
    /\ UNCHANGED <<cpo, waiting, emsp, unknown, faults, pulls, saved>>

\* getAllSessions of the operator gives the session as it was last saved.
GetAllSessions == cpo.session

\* getAllCdrs of the operator gives only the CDRs that were checked.
GetAllCdrs == {Session("CDR", cpo.at, cpo.kwh, TRUE) : c \in {c \in {"cdr"} : cpo.cdr /\ cpo.cdrChecked}}

\* The tasks that pull: a scheduled one and one that a user asks for take the
\* same lock, so that one of them is skipped.
PullSessionsTask == [lock |-> "pull-sessions", scheduled |-> TRUE]
PullSessionsAsyncTask == [lock |-> "pull-sessions", scheduled |-> FALSE]
PullCdrsTask == [lock |-> "pull-cdrs", scheduled |-> TRUE]
PullCdrsAsyncTask == [lock |-> "pull-cdrs", scheduled |-> FALSE]

PullTasks == {PullSessionsTask, PullSessionsAsyncTask, PullCdrsTask, PullCdrsAsyncTask}

Locks == {h.request.kind : h \in handlers}

Pull(lock, given) ==
    /\ pulls < MaxPulls
    /\ \E task \in PullTasks : task.lock = lock /\ Runs(task)
    /\ lock \notin Locks
    /\ \E session \in given : Handle([kind |-> lock, session |-> session, n |-> 0])
    /\ pulls' = pulls + 1
    /\ UNCHANGED <<cpo, waiting, net, emsp, unknown, faults, saved>>

PullSessions == Pull("pull-sessions", GetAllSessions)

PullCdrs == Pull("pull-cdrs", GetAllCdrs)

\* saveTransaction writes the whole transaction.
SaveTransaction ==
    /\ \E done \in handlers :
         /\ emsp' = [t \in DOMAIN emsp \cup {done.id} |-> IF t = done.id THEN done.transaction ELSE emsp[t]]
         /\ answers' = Answer(done.request, TRUE)
         /\ saved' = saved \cup {done.request.session}
         /\ handlers' = handlers \ {done}
    /\ UNCHANGED <<cpo, waiting, net, unknown, faults, pulls, raced>>

Next ==
    \/ StartSession \/ UpdateSession \/ StopSession \/ PushCdr \/ Answered \/ TimesOut \/ Retry
    \/ CheckSession \/ CheckCdr
    \/ HandleRequest \/ SaveTransaction \/ PullSessions \/ PullCdrs

\* The station ends its session, the scheduled task pushes the CDR until it
\* is accepted, and the provider handles what arrives: one of them goes on.
Fairness == WF_oVars(StopSession \/ PushCdr \/ Answered \/ HandleRequest \/ SaveTransaction)

Spec == Init /\ [][Next]_oVars /\ Fairness

-----------------------------------------------------------------------------
Raced(S) == \E pair \in raced : pair \cap S # {}

Final == {s \in saved : s.status = "COMPLETED"}

\* The provider has one transaction of the session unless two requests that
\* did not know it were handled at the same time.  A CDR it saved stays and
\* decides the energy of the transaction unless another request was handled
\* at the same time, and so does a stop, unless a late update has its time.
SessionsAgree ==
    /\ Cardinality(DOMAIN emsp) > 1 => Raced({"PENDING", "ACTIVE", "COMPLETED"})
    /\ \A t \in DOMAIN emsp :
         /\ (\E s \in saved : s.status = "CDR") /\ ~Raced({"CDR"}) /\ Cardinality(DOMAIN emsp) = 1
              => emsp[t].cdr /\ emsp[t].kwh = cpo.kwh
         /\ Final # {} /\ raced = {} /\ ~(\E s \in saved, f \in Final : s.status = "ACTIVE" /\ s.at = f.at)
              => emsp[t].session.status = "COMPLETED" /\ emsp[t].stopped /\ emsp[t].kwh = cpo.kwh

\* A session that was stopped gets its CDR to the provider, unless the
\* provider has two transactions of it or none.
CdrArrives == cpo.phase = "stopped" ~> cpo.cdr \/ Cardinality(DOMAIN emsp) # 1
=============================================================================
