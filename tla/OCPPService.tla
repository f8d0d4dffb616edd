---------------------------- MODULE OCPPService ----------------------------
(***************************************************************************)
(* The life of charging sessions on one station                            *)
(* (server/ocpp/services/OCPPService.ts), from StartTransaction to the     *)
(* invoice.                                                                *)
(*                                                                         *)
(* Two kinds of documents are shared: the charging station (its connectors *)
(* and the backup it keeps of them over a reboot) and the transactions.    *)
(* A handler reads them, awaits other services, and writes them back       *)
(* WHOLE: saveChargingStation sets every field, saveTransaction replaces   *)
(* the document.  Handlers of four workers interleave between the awaits:  *)
(*   ocpp  the requests of the station, one at a time: OCPP-J has it wait  *)
(*         for the answer before its next request (the lock of the server  *)
(*         alone does not ensure it: JsonOCPPServer!OneRequestAtATime);    *)
(*   soft  a soft stop, by a REST user or CloseTransactionsInProgressTask; *)
(*   end   the END_TRANSACTION async task;                                 *)
(*   bill  the BILL_TRANSACTION async task, alone under acquireBillUserLock*)
(***************************************************************************)
EXTENDS Naturals

CONSTANTS
  Connectors,        \* connector IDs of the station
  MaxTransactions,   \* bound: StartTransactions
  MaxRequests,       \* bound: requests of the station
  MaxBoots,          \* bound: BootNotifications among them
  MaxSoftStops,      \* bound: soft stops
  MaxRoamingFailures,\* bound: calls that a roaming partner refuses
  NoConnector,       \* the station document has no such connector
  NoTransaction      \* there is no such transaction document

ASSUME OCPPAssumption ==
  {MaxTransactions, MaxRequests, MaxBoots, MaxSoftStops, MaxRoamingFailures} \subseteq Nat

Workers == {"ocpp", "soft", "end", "bill"}

\* Transaction IDs, in the order of their timestamps.
TransactionIDs == 1 .. MaxTransactions

(***************************************************************************)
(* ChargePointStatus.  "Charging" stands for every status from which the   *)
(* extra inactivity is counted (SuspendedEV, Finishing, Occupied, ...),    *)
(* "Unavailable" is the one of a connector that was just created and       *)
(* "Faulted" stands for the rest.                                          *)
(***************************************************************************)
Statuses == {"Available", "Preparing", "Charging", "Unavailable", "Faulted"}

CountsInactivity == {"Charging", "Unavailable"}
Free == {"Available", "Preparing"}

(***************************************************************************)
(* billingData: "off" without billing (free access, roaming user), and     *)
(* "active" before the stop.                                               *)
(***************************************************************************)
BillingStatus == {"off", "active", "PENDING", "UNBILLED", "BILLED", "FAILED"}

Connector == [status : Statuses, tx : {0} \cup TransactionIDs]

Station ==
  [connectors : [Connectors -> Connector \cup {NoConnector}],
   backup     : [Connectors -> Connector \cup {NoConnector}]]

Transaction ==
  [connector : Connectors, stop : BOOLEAN, extra : BOOLEAN, billing : BillingStatus]

\* A missing document is none of the documents.
ASSUME MissingAssumption == NoConnector \notin Connector /\ NoTransaction \notin Transaction

VARIABLES
  station,       \* the charging station document
  transactions,  \* the transaction documents
  endTasks,      \* END_TRANSACTION tasks, by transaction
  billTasks,     \* how many BILL_TRANSACTION tasks wait, by transaction
  h,             \* the running handler of each worker, with its snapshots
  ongoing,       \* the session the station itself sees on a connector
  count,         \* how much of each bound is used
  inactivity,    \* extra inactivity consumptions saved, by transaction
  attempts,      \* billTransaction calls, by transaction
  invoiced       \* `extra' of the snapshots that were invoiced
  
vars == <<station, transactions, endTasks, billTasks, h, ongoing, count, inactivity,
          attempts, invoiced>>

Idle == [pc |-> "idle"]

\* Where a handler is, with the snapshots it holds there.
Handler ==
  {Idle}
    \cup [pc : {"boot"}, tx : {0}, st : Station]
    \cup [pc : {"start"}, tx : {0}, st : Station, connector : Connectors]
    \cup [pc : {"meter", "saveStation", "clear"}, tx : TransactionIDs, st : Station]
    \cup [pc : {"saveTx"}, tx : TransactionIDs, st : Station, doc : Transaction]
    \cup [pc : {"stop", "stopStation", "stopTx"}, tx : TransactionIDs, st : Station,
          doc : Transaction \cup {NoTransaction}, given : Transaction \cup {NoTransaction}]
    \cup [pc : {"status", "saveStatus"}, tx : {0}, st : Station, connector : Connectors,
          status : Statuses]
    \cup [pc : {"finalize", "saveFinal", "saveStatus"}, tx : TransactionIDs, st : Station,
          connector : Connectors, status : Statuses, doc : Transaction]
    \cup [pc : {"trigger"}, tx : TransactionIDs]
    \cup [pc : {"bill", "saveBilling"}, tx : TransactionIDs, doc : Transaction]

TypeOK ==
  /\ station \in Station
  /\ transactions \in [TransactionIDs -> Transaction \cup {NoTransaction}]
  /\ endTasks \subseteq TransactionIDs
  /\ billTasks \in [TransactionIDs -> Nat]
  /\ h \in [Workers -> Handler]
  /\ h["ocpp"].pc \notin {"clear", "trigger", "bill", "saveBilling"}
  /\ h["soft"].pc \in {"idle", "stop", "stopStation", "stopTx", "clear"}
  /\ h["end"].pc \in {"idle", "trigger", "finalize", "saveFinal"}
  /\ h["bill"].pc \in {"idle", "bill", "saveBilling"}
  /\ ongoing \in [Connectors -> {0} \cup TransactionIDs]
  /\ count \in [requests : Nat, boots : Nat, soft : Nat, roaming : Nat]
  /\ inactivity \in [TransactionIDs -> Nat]
  /\ attempts \in [TransactionIDs -> Nat]
  /\ invoiced \in [TransactionIDs -> SUBSET BOOLEAN]

Init ==
  /\ station = [connectors |-> [c \in Connectors |-> NoConnector],
                backup     |-> [c \in Connectors |-> NoConnector]]
  /\ transactions = [t \in TransactionIDs |-> NoTransaction]
  /\ endTasks = {}
  /\ billTasks = [t \in TransactionIDs |-> 0]
  /\ h = [w \in Workers |-> Idle]
  /\ ongoing = [c \in Connectors |-> 0]
  /\ count = [requests |-> 0, boots |-> 0, soft |-> 0, roaming |-> 0]
  /\ inactivity = [t \in TransactionIDs |-> 0]
  /\ attempts = [t \in TransactionIDs |-> 0]
  /\ invoiced = [t \in TransactionIDs |-> {}]

-----------------------------------------------------------------------------
(* Operations on a station snapshot. *)

\* clearChargingStationConnectorRuntimeData
ClearConnector(st, c) ==
  IF st.connectors[c] = NoConnector THEN st ELSE [st EXCEPT !.connectors[c].tx = 0]

\* updateChargingStationConnectorRuntimeDataWithTransaction, transaction ongoing
ShowTransaction(st, c, t) ==
  IF st.connectors[c] = NoConnector THEN st ELSE [st EXCEPT !.connectors[c].tx = t]

\* The last part of enrichChargingStationFromBootNotification.
BackupConnectors(st) ==
  [connectors |-> [c \in Connectors |-> NoConnector],
   backup     |-> [c \in Connectors |->
     IF st.backup[c] = NoConnector THEN st.connectors[c] ELSE st.backup[c]]]

\* checkAndGetConnectorFromStatusNotification: known, restored or created.
GetConnector(st, c) ==
  CASE st.connectors[c] # NoConnector -> st
    [] st.connectors[c] = NoConnector /\ st.backup[c] # NoConnector ->
         [st EXCEPT !.connectors[c] = st.backup[c], !.backup[c] = NoConnector]
    [] OTHER -> [st EXCEPT !.connectors[c] = [status |-> "Unavailable", tx |-> 0]]

\* getLastTransactionFromChargingStation, 0 if there is none
LastTransaction(c) ==
  LET known == {t \in TransactionIDs :
                  transactions[t] # NoTransaction /\ transactions[t].connector = c}
  IN IF known = {} THEN 0 ELSE CHOOSE t \in known : \A u \in known : u <= t

\* findAvailableID that only looks at the open transactions.
FindUnusedID ==
  CHOOSE t \in TransactionIDs :
    /\ transactions[t] = NoTransaction \/ transactions[t].stop
    /\ \A u \in TransactionIDs : u < t => transactions[u] # NoTransaction /\ ~ transactions[u].stop

\* findAvailableID: an ID no document has.
FindAvailableID ==
  CHOOSE t \in TransactionIDs :
    /\ transactions[t] = NoTransaction
    /\ \A u \in TransactionIDs : u < t => transactions[u] # NoTransaction

-----------------------------------------------------------------------------
(* Handlers: a worker is idle or holds the state of its running handler. *)

Is(w, pc) == h[w].pc = pc
Become(w, state) == h' = [h EXCEPT ![w] = state]
Done(w) == Become(w, Idle)

tasks   == <<endTasks, billTasks>>
history == <<inactivity, attempts, invoiced>>

\* saveTransaction: findOneAndReplace of the whole document.
SaveTransaction(t, doc) == transactions' = [transactions EXCEPT ![t] = doc]

\* The bounds on the environment.
Bound == [requests |-> MaxRequests, boots |-> MaxBoots, soft |-> MaxSoftStops,
          roaming |-> MaxRoamingFailures]

Use(what) ==
  /\ \A x \in what : count[x] < Bound[x]
  /\ count' = [x \in DOMAIN count |-> IF x \in what THEN count[x] + 1 ELSE count[x]]

(***************************************************************************)
(* A request of the station arrives.  JsonWSConnection.handleRequest reads *)
(* the station document into the headers before it calls the handler.      *)
(***************************************************************************)
Receive(kinds, request) ==
  /\ Is("ocpp", "idle")
  /\ Use(kinds)
  /\ Become("ocpp", request)
  /\ UNCHANGED <<station, transactions, tasks, history>>

-----------------------------------------------------------------------------
(* BootNotification *)

ReceiveBootNotification ==
  /\ Receive({"requests", "boots"}, [pc |-> "boot", tx |-> 0, st |-> station])
  /\ UNCHANGED ongoing

\* handleBootNotification of a known station
HandleBootNotification ==
  /\ Is("ocpp", "boot")
  /\ station' = BackupConnectors(h["ocpp"].st)
  /\ Done("ocpp")
  /\ UNCHANGED <<transactions, ongoing, count, tasks, history>>

-----------------------------------------------------------------------------
(* StartTransaction *)

ReceiveStartTransaction(c) ==
  /\ ongoing[c] = 0
  /\ \E t \in TransactionIDs : transactions[t] = NoTransaction
  /\ Receive({"requests"}, [pc |-> "start", tx |-> 0, st |-> station, connector |-> c])
  /\ UNCHANGED ongoing

\* The connector is unknown (validateStartTransaction), the user is not
\* authorized or billing refuses: transactionId 0 is answered.
StartTransactionFails ==
  /\ Is("ocpp", "start")
  /\ Done("ocpp")
  /\ UNCHANGED <<station, transactions, ongoing, count, tasks, history>>

\* handleStartTransaction that saves the station before the transaction.
StartShowsFirst(billing) ==
  LET c == h["ocpp"].connector
      t == FindAvailableID
      shown == ShowTransaction(h["ocpp"].st, c, t)
  IN
  /\ Is("ocpp", "start")
  /\ h["ocpp"].st.connectors[c] # NoConnector
  /\ station' = shown
  /\ ongoing' = [ongoing EXCEPT ![c] = t]
  /\ Become("ocpp", [pc |-> "saveTx", tx |-> t, st |-> shown, doc |->
       [connector |-> c, stop |-> FALSE, extra |-> FALSE, billing |-> billing]])
  /\ UNCHANGED <<transactions, count, tasks, history>>

\* handleStartTransaction up to saveTransaction, under a new ID; whether the
\* session is billed is decided here (BillingFacade.processStartTransaction).
StartTransaction(billing) ==
  LET c == h["ocpp"].connector
      t == FindAvailableID
  IN
  /\ Is("ocpp", "start")
  /\ h["ocpp"].st.connectors[c] # NoConnector
  /\ SaveTransaction(t, [connector |-> c, stop |-> FALSE, extra |-> FALSE, billing |-> billing])
  /\ ongoing' = [ongoing EXCEPT ![c] = t]
  /\ Become("ocpp", [pc |-> "saveStation", tx |-> t, st |-> ShowTransaction(h["ocpp"].st, c, t)])
  /\ UNCHANGED <<station, count, tasks, history>>

\* The saveChargingStation that ends StartTransaction and MeterValues.
SaveStation ==
  /\ Is("ocpp", "saveStation")
  /\ station' = h["ocpp"].st
  /\ Done("ocpp")
  /\ UNCHANGED <<transactions, ongoing, count, tasks, history>>

-----------------------------------------------------------------------------
(* MeterValues *)

ReceiveMeterValues(t) ==
  /\ transactions[t] # NoTransaction
  /\ Receive({"requests"}, [pc |-> "meter", tx |-> t, st |-> station])
  /\ UNCHANGED ongoing

\* getTransactionFromMeterValues: the values of a stopped transaction are
\* refused (and the station is asked to stop it).
GetTransactionFromMeterValues ==
  LET doc == transactions[h["ocpp"].tx] IN
  /\ Is("ocpp", "meter")
  /\ IF doc.stop
     THEN Done("ocpp")
     ELSE Become("ocpp", [pc |-> "saveTx", tx |-> h["ocpp"].tx, st |-> h["ocpp"].st, doc |-> doc])
  /\ UNCHANGED <<station, transactions, ongoing, count, tasks, history>>

\* The rest of handleMeterValues up to saveTransaction, after the calls to
\* pricing and roaming: the document that was read is put back.
SaveMeterValues ==
  LET m == h["ocpp"] IN
  /\ Is("ocpp", "saveTx")
  /\ SaveTransaction(m.tx, m.doc)
  /\ Become("ocpp", [pc |-> "saveStation", tx |-> m.tx,
                     st |-> ShowTransaction(m.st, m.doc.connector, m.tx)])
  /\ UNCHANGED <<station, ongoing, count, tasks, history>>

\* Pricing or a storage call throws: logged, nothing is saved.
MeterValuesFail ==
  /\ Is("ocpp", "saveTx")
  /\ Done("ocpp")
  /\ UNCHANGED <<station, transactions, ongoing, count, tasks, history>>

-----------------------------------------------------------------------------
(* StopTransaction and soft stop *)

ReceiveStopTransaction(t) ==
  /\ transactions[t] # NoTransaction
  /\ Receive({"requests"}, [pc |-> "stop", tx |-> t, st |-> station,
                            doc |-> NoTransaction, given |-> NoTransaction])
  /\ ongoing' = [c \in Connectors |-> IF ongoing[c] = t THEN 0 ELSE ongoing[c]]

(***************************************************************************)
(* The callers of softStopTransaction: transactionSoftStop (REST), when    *)
(* the connector does not show the transaction or the station is inactive, *)
(* and CloseTransactionsInProgressTask, for the open transactions their    *)
(* connector does not show.  Both read the station and the transaction     *)
(* long before handleStopTransaction uses them.                            *)
(***************************************************************************)
SoftStop(t) ==
  /\ Is("soft", "idle")
  /\ Use({"soft"})
  /\ transactions[t] # NoTransaction
  /\ ~ transactions[t].stop
  /\ station.connectors[transactions[t].connector] # NoConnector
  /\ Become("soft", [pc |-> "stop", tx |-> t, st |-> station, doc |-> NoTransaction,
                     given |-> transactions[t]])
  /\ UNCHANGED <<station, transactions, ongoing, tasks, history>>

\* transactionSoftStop of a transaction that is already stopped.
SoftClear(t) ==
  /\ Is("soft", "idle")
  /\ Use({"soft"})
  /\ transactions[t] # NoTransaction
  /\ transactions[t].stop
  /\ LET k == station.connectors[transactions[t].connector]
     IN k # NoConnector /\ k.tx = t
  /\ Become("soft", [pc |-> "clear", tx |-> t,
                     st |-> ClearConnector(station, transactions[t].connector)])
  /\ UNCHANGED <<station, transactions, ongoing, tasks, history>>

\* saveChargingStationConnectors: the backup is left as it is.
SaveConnectors ==
  /\ Is("soft", "clear")
  /\ station' = [station EXCEPT !.connectors = h["soft"].st.connectors]
  /\ Done("soft")
  /\ UNCHANGED <<transactions, ongoing, count, tasks, history>>

\* handleStopTransaction that leaves the connector to the status notification.
StopKeepsConnector(w) ==
  LET doc == transactions[h[w].tx] IN
  /\ Is(w, "stop")
  /\ ~ doc.stop
  /\ Become(w, [h[w] EXCEPT !.pc = "stopStation", !.doc = doc])
  /\ UNCHANGED <<station, transactions, ongoing, count, tasks, history>>

\* handleStopTransaction up to saveChargingStation: the transaction is read,
\* is not stopped, the user is authorized, the connector is freed.
GetTransactionFromStopTransaction(w) ==
  LET doc == transactions[h[w].tx] IN
  /\ Is(w, "stop")
  /\ ~ doc.stop
  /\ Become(w, [h[w] EXCEPT !.pc = "stopStation", !.doc = doc,
                            !.st = ClearConnector(@, doc.connector)])
  /\ UNCHANGED <<station, transactions, ongoing, count, tasks, history>>

SaveStoppedStation(w) ==
  /\ Is(w, "stopStation")
  /\ station' = h[w].st
  /\ Become(w, [h[w] EXCEPT !.pc = "stopTx"])
  /\ UNCHANGED <<transactions, ongoing, count, tasks, history>>

(***************************************************************************)
(* handleStopTransaction answers Invalid.  softStopTransaction then stops  *)
(* and saves the transaction its caller gave it; the station's request is  *)
(* over, and the station does not repeat it.                               *)
(***************************************************************************)
AnswerInvalid(w) ==
  /\ IF w = "soft"
     THEN SaveTransaction(h[w].tx, [h[w].given EXCEPT !.stop = TRUE, !.extra = TRUE])
     ELSE UNCHANGED transactions
  /\ Done(w)

\* The transaction is already stopped, or the user is not authorized.
StopTransactionFails(w) ==
  /\ Is(w, "stop")
  /\ AnswerInvalid(w)
  /\ UNCHANGED <<station, ongoing, count, tasks, history>>

\* The partner of a roaming session refuses its end (OCPIFacade, OICPFacade):
\* the connector is already freed, the transaction is not saved.
StopSessionFails(w) ==
  /\ Is(w, "stopTx")
  /\ h[w].doc.billing = "off"
  /\ Use({"roaming"})
  /\ AnswerInvalid(w)
  /\ UNCHANGED <<station, ongoing, tasks, history>>

\* stopTransaction that forgets whether billing was active at the start.
StopBillsAll(doc) == {"PENDING", "UNBILLED"}

\* StripeBillingIntegration.stopTransaction; a suspicious session is not billed.
StopBilling(doc) == IF doc.billing = "off" THEN {"off"} ELSE {"PENDING", "UNBILLED"}

(***************************************************************************)
(* The rest of handleStopTransaction: updateTransactionWithStopTransaction *)
(* (the extra inactivity of a soft stop counts as computed), billing,      *)
(* saveTransaction, and the END_TRANSACTION task if the snapshot of the    *)
(* connector was already free (checkConnectorStatusOnStopTransaction).     *)
(***************************************************************************)
SaveStoppedTransaction(w) ==
  LET s == h[w]
      k == s.st.connectors[s.doc.connector]
  IN
  /\ Is(w, "stopTx")
  /\ \E b \in StopBilling(s.doc) :
       SaveTransaction(s.tx, [s.doc EXCEPT !.stop = TRUE, !.extra = (w = "soft"), !.billing = b])
  /\ endTasks' = IF k # NoConnector /\ k.status \in Free THEN endTasks \cup {s.tx} ELSE endTasks
  /\ Done(w)
  /\ UNCHANGED <<station, ongoing, count, billTasks, history>>

-----------------------------------------------------------------------------
(* StatusNotification and the end of a transaction *)

ReceiveStatusNotification(c, status) ==
  /\ Receive({"requests"}, [pc |-> "status", tx |-> 0, st |-> station, connector |-> c,
                            status |-> status])
  /\ UNCHANGED ongoing

\* A notification that repeats what the connector already says is ignored.
IgnoreStatusNotification ==
  LET n == h["ocpp"]
      k == n.st.connectors[n.connector]
  IN
  /\ Is("ocpp", "status")
  /\ k # NoConnector /\ k.status = n.status
  /\ Done("ocpp")
  /\ UNCHANGED <<station, transactions, ongoing, count, tasks, history>>

(***************************************************************************)
(* processConnectorFromStatusNotification: the connector is found,         *)
(* restored or created.  If it is free again its last transaction is read: *)
(* a stopped one is finalized, an open one only loses its connector.       *)
(***************************************************************************)
ProcessConnector ==
  LET n == h["ocpp"]
      st == GetConnector(n.st, n.connector)
      last == IF n.status \in Free THEN LastTransaction(n.connector) ELSE 0
  IN
  /\ Is("ocpp", "status")
  /\ Become("ocpp",
       IF last # 0 /\ transactions[last].stop
       THEN [pc |-> "finalize", tx |-> last, st |-> st, connector |-> n.connector,
             status |-> n.status, doc |-> transactions[last]]
       ELSE [n EXCEPT !.pc = "saveStatus",
                      !.st = IF last # 0 THEN ClearConnector(st, n.connector) ELSE st])
  /\ UNCHANGED <<station, transactions, ongoing, count, tasks, history>>

\* StripeBillingIntegration.endTransaction creates a BILL_TRANSACTION task
\* unless billing is off or the session is billed or not to be billed.
EndBills(billing) == billing \notin {"off", "BILLED", "UNBILLED"}

\* checkAndComputeTransactionExtraInactivityFromStatusNotification without
\* its flag.
ComputesAgain(f) ==
  f.st.connectors[f.connector].status \in CountsInactivity /\ f.status = "Available"

\* The extra inactivity is computed once, and only from these statuses.
ComputesInactivity(f) ==
  /\ ~ f.doc.extra
  /\ f.st.connectors[f.connector].status \in CountsInactivity
  /\ f.status = "Available"

\* buildAndPriceExtraConsumptionInactivity saves a consumption of its own.
PriceInactivity(f) ==
  inactivity' = IF ComputesInactivity(f)
                THEN [inactivity EXCEPT ![f.tx] = @ + 1] ELSE inactivity

\* The handler of worker w goes on after finalizeTransaction: the status is
\* saved, the END task is over.
AfterFinalize(w, st) ==
  IF w = "ocpp" THEN [h[w] EXCEPT !.pc = "saveStatus", !.st = st] ELSE Idle

\* finalizeTransaction that forgets to start the billing.
FinalizeUnbilled(w) ==
  LET f == h[w] IN
  /\ Is(w, "finalize")
  /\ PriceInactivity(f)
  /\ Become(w, [f EXCEPT !.pc = "saveFinal", !.doc.extra = TRUE])
  /\ UNCHANGED <<station, transactions, ongoing, count, tasks, attempts, invoiced>>

(***************************************************************************)
(* finalizeTransaction up to saveTransaction: the extra inactivity is      *)
(* priced and saved as a consumption, and the BILL_TRANSACTION task is     *)
(* created, all before the transaction itself is saved.                    *)
(***************************************************************************)
FinalizeTransaction(w) ==
  LET f == h[w] IN
  /\ Is(w, "finalize")
  /\ PriceInactivity(f)
  /\ billTasks' = IF EndBills(f.doc.billing)
                  THEN [billTasks EXCEPT ![f.tx] = @ + 1] ELSE billTasks
  /\ Become(w, [f EXCEPT !.pc = "saveFinal", !.doc.extra = TRUE,
                         !.doc.billing = IF EndBills(@) THEN "PENDING" ELSE @])
  /\ UNCHANGED <<station, transactions, ongoing, count, endTasks, attempts, invoiced>>

\* The CDR of a roaming session is refused by the OCPI partner: the error
\* leaves finalizeTransaction before the transaction is saved, and is logged.
FinalizeTransactionFails(w) ==
  LET f == h[w] IN
  /\ Is(w, "finalize")
  /\ f.doc.billing = "off"
  /\ Use({"roaming"})
  /\ PriceInactivity(f)
  /\ Become(w, AfterFinalize(w, f.st))
  /\ UNCHANGED <<station, transactions, ongoing, tasks, attempts, invoiced>>

\* saveTransaction of finalizeTransaction, of the document read before.
SaveFinalized(w) ==
  LET f == h[w] IN
  /\ Is(w, "saveFinal")
  /\ SaveTransaction(f.tx, f.doc)
  /\ Become(w, AfterFinalize(w, ClearConnector(f.st, f.connector)))
  /\ UNCHANGED <<station, ongoing, count, tasks, history>>

\* The end of processConnectorFromStatusNotification.
SaveStatus ==
  LET n == h["ocpp"] IN
  /\ Is("ocpp", "saveStatus")
  /\ station' = [n.st EXCEPT !.connectors[n.connector].status = n.status]
  /\ Done("ocpp")
  /\ UNCHANGED <<transactions, ongoing, count, tasks, history>>

-----------------------------------------------------------------------------
(* Asynchronous tasks *)

\* EndTransactionAsyncTask with its test of the extra inactivity inverted.
EndTaskIfComputed(t) ==
  /\ Is("end", "idle")
  /\ t \in endTasks
  /\ endTasks' = endTasks \ {t}
  /\ IF transactions[t].stop /\ transactions[t].extra
     THEN Become("end", [pc |-> "trigger", tx |-> t])
     ELSE Done("end")
  /\ UNCHANGED <<station, transactions, ongoing, count, billTasks, history>>

(***************************************************************************)
(* EndTransactionAsyncTask: nothing to do for a transaction that is open   *)
(* or already ended; otherwise triggerEndTransaction reads it again.       *)
(***************************************************************************)
EndTask(t) ==
  /\ Is("end", "idle")
  /\ t \in endTasks
  /\ endTasks' = endTasks \ {t}
  /\ IF transactions[t].stop /\ ~ transactions[t].extra
     THEN Become("end", [pc |-> "trigger", tx |-> t])
     ELSE Done("end")
  /\ UNCHANGED <<station, transactions, ongoing, count, billTasks, history>>

\* triggerEndTransaction: finalizes with a notification that repeats the
\* status of the connector; without the connector it throws.
TriggerEndTransaction ==
  LET t == h["end"].tx
      c == transactions[t].connector
      k == station.connectors[c]
  IN
  /\ Is("end", "trigger")
  /\ IF k = NoConnector \/ ~ transactions[t].stop
     THEN Done("end")
     ELSE Become("end", [pc |-> "finalize", tx |-> t, st |-> station, connector |-> c,
                         status |-> k.status, doc |-> transactions[t]])
  /\ UNCHANGED <<station, transactions, ongoing, count, tasks, history>>

\* BillTransactionAsyncTask, with the lock of the user: only a PENDING
\* transaction is billed.
BillTask(t) ==
  /\ Is("bill", "idle")
  /\ billTasks[t] > 0
  /\ billTasks' = [billTasks EXCEPT ![t] = @ - 1]
  /\ IF transactions[t].billing = "PENDING"
     THEN Become("bill", [pc |-> "bill", tx |-> t, doc |-> transactions[t]])
     ELSE Done("bill")
  /\ UNCHANGED <<station, transactions, ongoing, count, endTasks, history>>

\* StripeBillingIntegration.billTransaction: an invoice, or a failure.
BillTransaction(result) ==
  LET b == h["bill"] IN
  /\ Is("bill", "bill")
  /\ attempts' = [attempts EXCEPT ![b.tx] = @ + 1]
  /\ invoiced' = IF result = "BILLED"
                 THEN [invoiced EXCEPT ![b.tx] = @ \cup {b.doc.extra}] ELSE invoiced
  /\ Become("bill", [b EXCEPT !.pc = "saveBilling", !.doc.billing = result])
  /\ UNCHANGED <<station, transactions, ongoing, count, tasks, inactivity>>

\* saveTransactionBillingData: only the billing data is set.
SaveBillingData ==
  LET b == h["bill"] IN
  /\ Is("bill", "saveBilling")
  /\ transactions' = [transactions EXCEPT ![b.tx].billing = b.doc.billing]
  /\ Done("bill")
  /\ UNCHANGED <<station, ongoing, count, tasks, history>>

-----------------------------------------------------------------------------
Request ==
  \/ ReceiveBootNotification
  \/ \E c \in Connectors : ReceiveStartTransaction(c)
  \/ \E c \in Connectors, s \in Statuses : ReceiveStatusNotification(c, s)
  \/ \E t \in TransactionIDs : ReceiveMeterValues(t) \/ ReceiveStopTransaction(t)

Ocpp ==
  \/ HandleBootNotification
  \/ StartTransactionFails
  \/ \E b \in {"off", "active"} : StartTransaction(b)
  \/ SaveStation
  \/ GetTransactionFromMeterValues
  \/ SaveMeterValues
  \/ MeterValuesFail
  \/ IgnoreStatusNotification
  \/ ProcessConnector
  \/ SaveStatus

Stop(w) ==
  \/ GetTransactionFromStopTransaction(w)
  \/ StopTransactionFails(w)
  \/ SaveStoppedStation(w)
  \/ StopSessionFails(w)
  \/ SaveStoppedTransaction(w)

Finalize(w) == FinalizeTransaction(w) \/ FinalizeTransactionFails(w) \/ SaveFinalized(w)

Soft == \E t \in TransactionIDs : SoftStop(t) \/ SoftClear(t)

Tasks ==
  \/ \E t \in TransactionIDs : EndTask(t)
  \/ TriggerEndTransaction
  \/ \E t \in TransactionIDs : BillTask(t)
  \/ \E r \in {"BILLED", "FAILED"} : BillTransaction(r)
  \/ SaveBillingData

\* What the server does with the requests it has received.
Server ==
  \/ Ocpp
  \/ \E w \in {"ocpp", "soft"} : Stop(w)
  \/ SaveConnectors
  \/ \E w \in {"ocpp", "end"} : Finalize(w)
  \/ Tasks

Next == Request \/ Soft \/ Server

(***************************************************************************)
(* Every await ends and every task is picked up (AsyncTaskManager); nobody *)
(* promises that a station or a user sends another request.                *)
(***************************************************************************)
Spec == Init /\ [][Next]_vars /\ WF_vars(Server)

-----------------------------------------------------------------------------
(* Properties. *)

Known(t) == transactions[t] # NoTransaction

(***************************************************************************)
(* A stopped transaction is never reopened: no handler puts back a         *)
(* document it read before the stop.                                       *)
(***************************************************************************)
StoppedStaysStopped ==
  [][\A t \in TransactionIDs :
       Known(t) /\ transactions[t].stop => transactions'[t].stop]_vars

\* A connector, or its backup, only shows a transaction that is stored and
\* that runs on this connector.
ShowsStoredTransaction ==
  \A c \in Connectors, place \in {"connectors", "backup"} :
    LET k == station[place][c]
    IN k # NoConnector /\ k.tx # 0 => Known(k.tx) /\ transactions[k.tx].connector = c

\* A connector is in the station or in its backup, not in both: a status
\* notification never has to choose which one is right.
OneHome ==
  \A c \in Connectors : station.connectors[c] = NoConnector \/ station.backup[c] = NoConnector

\* A connector is in one place and shows a session that is stored there, so
\* that a status notification, a stop and a meter value find each other's work.
ConnectorsAgree == ShowsStoredTransaction /\ OneHome

\* The extra inactivity of a session is charged again only after a refused
\* CDR: no race of the END task, the soft stop and the station repeats it.
ExtraInactivityPerFailure ==
  \A t \in TransactionIDs : inactivity[t] <= 1 + count.roaming

\* A session that started without billing is never given to billing, even
\* when soft stops put back old documents.
BillingOffIsFinal ==
  [][\A t \in TransactionIDs :
       Known(t) /\ transactions[t].billing = "off" => transactions'[t].billing = "off"]_vars

ShownStopped ==
  {c \in Connectors :
     LET k == station.connectors[c]
     IN k # NoConnector /\ k.tx # 0 /\ transactions[k.tx].stop}

\* As long as the station did not reboot, a handled request leaves no
\* connector that shows a stopped transaction.
FreedUnlessRebooted == count.boots = 0 /\ Is("ocpp", "idle") => ShownStopped = {}

\* A finalized transaction that waits for its invoice gets one attempt.
FinalizedIsBilled ==
  \A t \in TransactionIDs :
    (Known(t) /\ transactions[t].extra /\ transactions[t].billing = "PENDING")
      ~> attempts[t] > 0

\* The END_TRANSACTION task of a billable session leads to its bill, unless a
\* reboot takes the connector away before triggerEndTransaction looks at it.
EndTaskBills ==
  \A t \in TransactionIDs :
    (t \in endTasks /\ transactions[t].billing = "PENDING")
      ~> (attempts[t] > 0 \/ count.boots > 0)

-----------------------------------------------------------------------------
(* What comments and messages of the code say, and the code does not do. *)

\* `the session has already been billed ... Preserve the previous state
\* unchanged' (endTransaction): an invoiced session stays BILLED.
InvoicedStaysBilled ==
  \A t \in TransactionIDs :
    invoiced[t] # {} /\ Is("bill", "idle") => transactions[t].billing = "BILLED"

\* `Make sure the Extra Inactivity is already known' (checkAndBillTransaction):
\* no invoice is made from a transaction without it.
InvoicedWithInactivity == \A t \in TransactionIDs : FALSE \notin invoiced[t]
=============================================================================
