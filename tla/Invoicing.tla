----------------------------- MODULE Invoicing -----------------------------
(***************************************************************************)
(* The invoices of the sessions of one user (integration/billing): what    *)
(* Stripe holds, what the database shows of it, and the jobs that keep     *)
(* both in step.                                                           *)
(*                                                                         *)
(* Two workers interleave between their calls:                             *)
(*   bill      the BILL_TRANSACTION task, alone under acquireBillUserLock; *)
(*   charge    the periodic operation, alone under its own lock: it charges*)
(*             the drafts of last month, or the unpaid invoices of this    *)
(*             month.                                                      *)
(* A worker reads a document, awaits, and writes it back whole.  A write   *)
(* over a document that changed since it was read is remembered in stale.  *)
(*                                                                         *)
(* Stripe keeps the answer to an idempotency key: an invoice is created    *)
(* once per session (it bears the name of that session) and a session has  *)
(* its items on one invoice.  The other way round, a key that comes back   *)
(* with another invoice is refused.                                        *)
(***************************************************************************)
EXTENDS Integers, FiniteSets

CONSTANTS
  Sessions,      \* charging sessions of the user, in the order of their IDs
  MaxDay,        \* bound: days; a month has two
  MaxCharges,    \* bound: runs of the periodic operation
  MaxFaults,     \* bound: crashes of the server in a job, and calls Stripe does not answer
  PageSize,      \* the page of chargeInvoices
  None

Month(d) == d \div 2

\* BillingInvoiceStatus; draft, open and paid are what this server brings about.
InvoiceStatus == {"draft", "open", "paid"}

\* TransactionBillingData, with the invoice it refers to and its status as shown.
BillingData ==
  [status : {"none", "UNBILLED", "PENDING", "FAILED", "BILLED"},
   invoice : Sessions \cup {None}, shown : InvoiceStatus \cup {None}]

\* BillingInvoice: its status and date, and how often each session is in it.
Invoice == [status : InvoiceStatus, on : 0 .. MaxDay, sessions : [Sessions -> Nat]]

VARIABLES
  day,
  settings,     \* isTransactionBillingActivated, immediateBillingAllowed, periodicBillingAllowed
  stripe,       \* Stripe: the status of each invoice and when it was created or finalized
  itemOn,       \* Stripe: the invoice that has the items of a session
  invoices,     \* collection invoices: status, date, sessions
  tx,           \* billingData of the transactions
  tasks,        \* BILL_TRANSACTION tasks that wait
  bill, charge, \* the workers
  count,        \* how often the bounded things happened
  stale,        \* history: documents written over a change the writer had not read,
                \* and invoices whose new status a billing task saved before the charge did
  interrupted   \* history: sessions and invoices a job left half-way, and tasks
                \* that ended with nothing saved

history == <<stale, interrupted>>
vars == <<day, settings, stripe, itemOn, invoices, tx, tasks, bill, charge, count, history>>

Idle == [pc |-> "idle"]

Init ==
  /\ day = 0
  /\ settings \in [activated : {FALSE}, immediate : BOOLEAN, periodic : BOOLEAN]
  /\ stripe = [i \in Sessions |-> None]
  /\ itemOn = [s \in Sessions |-> None]
  /\ invoices = [i \in Sessions |-> None]
  /\ tx = [s \in Sessions |-> [status |-> "none", invoice |-> None, shown |-> None]]
  /\ tasks = {}
  /\ bill = Idle /\ charge = Idle
  /\ count = [charges |-> 0, faults |-> 0]
  /\ stale = {} /\ interrupted = {}

Count(what) == count' = [count EXCEPT ![what] = @ + 1]

-----------------------------------------------------------------------------
(***************************************************************************)
(* Settings and sessions.                                                  *)
(***************************************************************************)

\* BillingService.handleUpdateBillingSetting: billing is saved as it was,
\* then activated once the prerequisites (connection, tax) are checked; it
\* is never switched off.
UpdateBillingSetting(ready) ==
  /\ ~settings.activated
  /\ settings' = [settings EXCEPT !.activated = ready]
  /\ UNCHANGED <<day, stripe, itemOn, invoices, tx, tasks, bill, charge, count, history>>

\* A session ends (OCPPService): stopTransaction and endTransaction leave it
\* PENDING with a task, or UNBILLED.
EndTransaction(s) ==
  /\ tx[s].status = "none"
  /\ \A r \in Sessions : r < s => tx[r].status # "none"
  /\ tx' = [tx EXCEPT ![s].status = IF settings.activated THEN "PENDING" ELSE "UNBILLED"]
  /\ tasks' = IF settings.activated THEN tasks \cup {s} ELSE tasks
  /\ UNCHANGED <<day, settings, stripe, itemOn, invoices, bill, charge, count, history>>

Tick ==
  /\ day < MaxDay
  /\ day' = day + 1
  /\ UNCHANGED <<settings, stripe, itemOn, invoices, tx, tasks, bill, charge, count, history>>

\* The user pays on the page of Stripe: the webhook (consumeBillingEvent)
\* only logs it.
PayOnline(i) ==
  /\ stripe[i] # None /\ stripe[i].status = "open"
  /\ stripe' = [stripe EXCEPT ![i].status = "paid"]
  /\ UNCHANGED <<day, settings, itemOn, invoices, tx, tasks, bill, charge, count, history>>

-----------------------------------------------------------------------------
(***************************************************************************)
(* Billing a session (BillTransactionAsyncTask, billTransaction).          *)
(***************************************************************************)
billRest == <<day, settings, charge, history>>

\* The task of a session starts, or drops one that is not PENDING any more.
BillTransactionAsyncTask(s) ==
  /\ bill = Idle /\ s \in tasks
  /\ IF tx[s].status = "PENDING"
     THEN /\ bill' = [pc |-> "invoice", s |-> s, was |-> tx[s], data |-> tx[s],
                     now |-> settings.immediate, i |-> None, read |-> None, doc |-> None]
          /\ UNCHANGED tasks
     ELSE /\ tasks' = tasks \ {s}
          /\ UNCHANGED bill
  /\ UNCHANGED <<stripe, itemOn, invoices, tx, count, billRest>>

\* checkConnection or checkBillTransaction throws: the task ends, the session
\* stays PENDING.
BillThrows ==
  /\ bill.pc = "invoice" /\ count.faults < MaxFaults
  /\ Count("faults")
  /\ tasks' = tasks \ {bill.s} /\ bill' = Idle
  /\ interrupted' = interrupted \cup {<<"task", bill.s>>}
  /\ UNCHANGED <<day, settings, stripe, itemOn, invoices, tx, charge, stale>>

\* Any Stripe call of billTransaction fails: FAILED.
BillFails ==
  /\ bill.pc \in {"invoice", "items", "refresh"} /\ count.faults < MaxFaults
  /\ Count("faults")
  /\ bill' = [bill EXCEPT !.pc = "saveTx", !.data.status = "FAILED"]
  /\ UNCHANGED <<stripe, itemOn, invoices, tx, tasks, billRest>>

\* getLatestDraftInvoiceOfTheMonth: which of several drafts Stripe lists
\* first is left open.
DraftsOfTheMonth ==
  {i \in Sessions : /\ stripe[i] # None
                    /\ stripe[i].status = "draft" /\ Month(stripe[i].on) = Month(day)}

\* createStripeInvoice, with the idempotency key of the session.
CreateStripeInvoice(s) ==
  IF stripe[s] = None THEN [stripe EXCEPT ![s] = [status |-> "draft", on |-> day]] ELSE stripe

\* billInvoiceItem, first part: the draft of the month or an own invoice.
ChooseInvoice ==
  /\ bill.pc = "invoice"
  /\ \/ /\ ~bill.now
        /\ \E i \in DraftsOfTheMonth : bill' = [bill EXCEPT !.pc = "items", !.i = i]
        /\ UNCHANGED stripe
     \/ /\ bill.now \/ DraftsOfTheMonth = {}
        /\ bill' = [bill EXCEPT !.pc = "items", !.i = bill.s]
        /\ stripe' = CreateStripeInvoice(bill.s)
  /\ UNCHANGED <<itemOn, invoices, tx, tasks, count, billRest>>

\* createStripeInvoiceItems: the keys are those of the session.  Items can
\* only be added to a draft; otherwise Stripe refuses and the session FAILED.
CreateStripeInvoiceItems ==
  /\ bill.pc = "items"
  /\ \/ /\ itemOn[bill.s] = bill.i \/ (itemOn[bill.s] = None /\ stripe[bill.i].status = "draft")
        /\ itemOn' = [itemOn EXCEPT ![bill.s] = bill.i]
        /\ bill' = [bill EXCEPT !.pc = IF bill.now THEN "charge" ELSE "refresh"]
     \/ /\ itemOn[bill.s] # bill.i /\ ~(itemOn[bill.s] = None /\ stripe[bill.i].status = "draft")
        /\ bill' = [bill EXCEPT !.pc = "saveTx", !.data.status = "FAILED"]
        /\ UNCHANGED itemOn
  /\ UNCHANGED <<stripe, invoices, tx, tasks, count, billRest>>

\* chargeStripeInvoice: a draft is finalized, then an open invoice is paid;
\* each of the two calls may fail, which is not an error of the caller.
Charged(i) ==
  LET draft == stripe[i].status = "draft"
      at(status) == [status |-> status, on |-> IF draft THEN day ELSE stripe[i].on]
  IN  {stripe[i]} \cup (IF stripe[i].status = "paid" THEN {} ELSE {at("open"), at("paid")})

ChargeImmediately ==
  /\ bill.pc = "charge"
  /\ \E result \in Charged(bill.i) : stripe' = [stripe EXCEPT ![bill.i] = result]
  /\ bill' = [bill EXCEPT !.pc = "refresh"]
  /\ UNCHANGED <<itemOn, invoices, tx, tasks, count, billRest>>

\* convertToBillingInvoice: Stripe's status on top of the stored document.
ConvertToBillingInvoice(i) ==
  [status |-> stripe[i].status, on |-> stripe[i].on,
   sessions |-> IF invoices[i] = None THEN [s \in Sessions |-> 0] ELSE invoices[i].sessions]

Refresh ==
  /\ bill.pc = "refresh"
  /\ bill' = [bill EXCEPT !.pc = "saveInvoice", !.read = invoices[bill.i],
                          !.doc = ConvertToBillingInvoice(bill.i)]
  /\ UNCHANGED <<stripe, itemOn, invoices, tx, tasks, count, billRest>>

\* StripeHelpers.enrichInvoiceWithAdditionalData pushes the session.
EnrichInvoice(doc, s) == [doc EXCEPT !.sessions[s] = @ + 1]

\* BillingStorage.saveInvoice
SaveInvoice(i, overtaken, doc) ==
  /\ invoices' = [invoices EXCEPT ![i] = doc]
  /\ stale' = IF overtaken THEN stale \cup {<<"invoice", i>>} ELSE stale

BillSavesInvoice ==
  /\ bill.pc = "saveInvoice"
  /\ LET overtaken == \/ invoices[bill.i] # bill.read
                      \/ bill.read # None /\ bill.read.status # bill.doc.status
     IN  SaveInvoice(bill.i, overtaken, EnrichInvoice(bill.doc, bill.s))
  /\ bill' = [bill EXCEPT !.pc = "saveTx", !.read = None, !.doc = None,
       !.data = [status |-> "BILLED", invoice |-> bill.i, shown |-> bill.doc.status]]
  /\ UNCHANGED <<day, settings, stripe, itemOn, tx, tasks, charge, count, interrupted>>

\* saveTransactionBillingData, and the end of the task.
BillSavesTransaction ==
  /\ bill.pc = "saveTx"
  /\ tx' = [tx EXCEPT ![bill.s] = bill.data]
  /\ stale' = IF tx[bill.s] = bill.was THEN stale ELSE stale \cup {<<"session", bill.s>>}
  /\ tasks' = tasks \ {bill.s} /\ bill' = Idle
  /\ UNCHANGED <<day, settings, stripe, itemOn, invoices, charge, count, interrupted>>

-----------------------------------------------------------------------------
(***************************************************************************)
(* The periodic operation (chargeInvoices).                                *)
(***************************************************************************)
chargeRest == <<day, settings, itemOn, tasks, bill, interrupted>>

\* preparePeriodicBillingQueryParameters: the previous month.
PeriodicWindow == {d \in 0 .. day : Month(d) + 1 = Month(day)}

\* prepareRetryPaymentQueryParameters: this month, before today.
RetryWindow == {d \in 0 .. day : Month(d) = Month(day) /\ d < day}

\* The filter of a run: its dates are computed when it starts.
Match(c, i) ==
  /\ invoices[i] # None
  /\ invoices[i].status = IF c.unpaid THEN "open" ELSE "draft"
  /\ invoices[i].on \in c.window

\* BillingStorage.getInvoices sorts by createdOn.
Before(j, i) == invoices[j].on < invoices[i].on \/ (invoices[j].on = invoices[i].on /\ j < i)

\* The invoices at the positions from .. from + PageSize - 1 of the sorted list.
GetInvoices(c, from) ==
  LET list == {i \in Sessions : Match(c, i)} IN
  {i \in list : Cardinality({j \in list : Before(j, i)}) \in from .. from + PageSize - 1}

ChargeInvoices(unpaid) ==
  /\ charge = Idle /\ count.charges < MaxCharges
  /\ unpaid \/ settings.periodic
  /\ LET run == [pc |-> "page", unpaid |-> unpaid, window |-> IF unpaid THEN RetryWindow ELSE PeriodicWindow,
                 skip |-> 0, page |-> {}, i |-> None, read |-> None, doc |-> None,
                 scope |-> {}, seen |-> [i \in Sessions |-> 0]]
     IN  charge' = [run EXCEPT !.scope = {i \in Sessions : Match(run, i)}]
  /\ Count("charges")
  /\ UNCHANGED <<stripe, invoices, tx, stale, chargeRest>>

\* The next page; an empty one ends the run and releases the lock.
ReadPage ==
  /\ charge.pc = "page" /\ charge.page = {}
  /\ LET page == GetInvoices(charge, charge.skip)
     IN  charge' = IF page = {} THEN [charge EXCEPT !.pc = "end"]
                   ELSE [charge EXCEPT !.page = page, !.skip = @ + PageSize]
  /\ UNCHANGED <<stripe, invoices, tx, count, stale, chargeRest>>

ChargeEnds ==
  /\ charge.pc = "end"
  /\ charge' = Idle
  /\ UNCHANGED <<stripe, invoices, tx, count, stale, chargeRest>>

\* The invoices of a page are charged one after the other.
IsNext(i) == i \in charge.page /\ \A j \in charge.page : ~Before(j, i)

\* chargeInvoice: the invoice is charged and read again from Stripe.
ChargeInvoice(i) ==
  /\ charge.pc = "page" /\ IsNext(i)
  /\ \E result \in Charged(i) : stripe' = [stripe EXCEPT ![i] = result]
  /\ charge' = [charge EXCEPT !.pc = "sync", !.i = i, !.seen[i] = @ + 1]
  /\ UNCHANGED <<invoices, tx, count, stale, chargeRest>>

\* Stripe cannot be reached: the invoice is counted as an error and left.
ChargeFails(i) ==
  /\ count.faults < MaxFaults
  /\ Count("faults")
  /\ \/ charge.pc = "page" /\ IsNext(i) /\ charge' = [charge EXCEPT !.page = @ \ {i}, !.seen[i] = @ + 1]
     \/ /\ charge.pc = "sync" /\ i = charge.i
        /\ charge' = [charge EXCEPT !.pc = "page", !.page = @ \ {i}, !.i = None]
  /\ interrupted' = interrupted \cup {<<"invoice", i>>}
  /\ UNCHANGED <<day, settings, stripe, itemOn, invoices, tx, tasks, bill, stale>>

Sync ==
  /\ charge.pc = "sync"
  /\ charge' = [charge EXCEPT !.pc = "save", !.read = invoices[charge.i],
                              !.doc = ConvertToBillingInvoice(charge.i)]
  /\ UNCHANGED <<stripe, invoices, tx, count, stale, chargeRest>>

ChargeSavesInvoice ==
  /\ charge.pc = "save"
  /\ SaveInvoice(charge.i, invoices[charge.i] # charge.read, charge.doc)
  /\ charge' = [charge EXCEPT !.pc = "readTx", !.read = None]
  /\ UNCHANGED <<stripe, tx, count, chargeRest>>

\* updateTransactionsBillingData reads the sessions of the invoice ...
ReadTransactions ==
  /\ charge.pc = "readTx"
  /\ charge' = [charge EXCEPT !.pc = "writeTx", !.read = tx]
  /\ UNCHANGED <<stripe, invoices, tx, count, stale, chargeRest>>

\* chargeInvoices without the correction of skip.
NoCorrection(c) == 0

\* isInvoiceOutOfPaginationScope: the invoice no longer matches the query.
OutOfScope(c) == IF c.doc.status # (IF c.unpaid THEN "open" ELSE "draft") THEN 1 ELSE 0

\* The billing data of a session with the new status of its invoice.
ShowStatus(data, status) == [data EXCEPT !.shown = status]

\* ... and writes the billing data of each of them back, whole.
UpdateTransactionsBillingData ==
  /\ charge.pc = "writeTx"
  /\ LET doc == charge.doc
         on  == {s \in Sessions : doc.sessions[s] > 0 /\ charge.read[s].status \notin {"none"}}
     IN  /\ tx' = [s \in Sessions |-> IF s \in on THEN ShowStatus(charge.read[s], doc.status)
                                                  ELSE tx[s]]
         /\ stale' = stale \cup {<<"session", s>> : s \in {r \in on : tx[r] # charge.read[r]}}
                          \cup (IF invoices[charge.i] = doc THEN {} ELSE {<<"invoice", charge.i>>})
  /\ charge' = [charge EXCEPT !.pc = "page", !.page = @ \ {charge.i}, !.i = None, !.read = None, !.doc = None,
                              !.skip = @ - OutOfScope(charge)]
  /\ UNCHANGED <<stripe, invoices, count, chargeRest>>

-----------------------------------------------------------------------------
(***************************************************************************)
(* The server stops in the middle of a job: the task of a session is run   *)
(* again (AsyncTaskManager), the periodic operation waits for its next     *)
(* schedule, and the locks expire (LockingManager).                        *)
(***************************************************************************)
Crash ==
  /\ count.faults < MaxFaults /\ Count("faults")
  /\ \/ bill # Idle /\ bill' = Idle
        /\ interrupted' = interrupted \cup {<<"session", bill.s>>}
        /\ UNCHANGED charge
     \/ charge # Idle /\ charge' = Idle
        /\ interrupted' = interrupted \cup
             (IF charge.i = None THEN {} ELSE {<<"invoice", charge.i>>})
        /\ UNCHANGED bill
  /\ UNCHANGED <<day, settings, stripe, itemOn, invoices, tx, tasks, stale>>

Bill ==
  \/ \E s \in Sessions : BillTransactionAsyncTask(s)
  \/ BillThrows \/ BillFails \/ ChooseInvoice \/ CreateStripeInvoiceItems \/ ChargeImmediately
  \/ Refresh \/ BillSavesInvoice \/ BillSavesTransaction

Charge ==
  \/ \E unpaid \in BOOLEAN : ChargeInvoices(unpaid)
  \/ \E i \in Sessions : ChargeInvoice(i) \/ ChargeFails(i)
  \/ ReadPage \/ ChargeEnds \/ Sync \/ ChargeSavesInvoice
  \/ ReadTransactions \/ UpdateTransactionsBillingData

Next ==
  \/ \E ready \in BOOLEAN : UpdateBillingSetting(ready)
  \/ \E s \in Sessions : EndTransaction(s) \/ PayOnline(s)
  \/ Tick \/ Bill \/ Charge \/ Crash

Spec == Init /\ [][Next]_vars

-----------------------------------------------------------------------------
TypeOK ==
  /\ day \in 0 .. MaxDay
  /\ settings \in [activated : BOOLEAN, immediate : BOOLEAN, periodic : BOOLEAN]
  /\ stripe \in [Sessions -> [status : InvoiceStatus, on : 0 .. MaxDay] \cup {None}]
  /\ itemOn \in [Sessions -> Sessions \cup {None}]
  /\ invoices \in [Sessions -> Invoice \cup {None}]
  /\ tx \in [Sessions -> BillingData]
  /\ tasks \subseteq Sessions

\* A session that is shown as billed has its items on that very invoice of
\* Stripe, and the stored invoice lists it (billInvoiceItem, over retries,
\* crashes and the turn of the month).
BilledIsInvoiced ==
  \A s \in Sessions : tx[s].status = "BILLED" =>
    /\ itemOn[s] = tx[s].invoice
    /\ invoices[itemOn[s]] # None
    /\ invoices[itemOn[s]].sessions[s] > 0 \/ <<"invoice", itemOn[s]>> \in stale

\* A stored invoice lists a session twice only if the task that billed it was
\* interrupted and run again (enrichInvoiceWithAdditionalData).
ListedOnce ==
  \A i, s \in Sessions : invoices[i] # None /\ invoices[i].sessions[s] > 1 =>
    <<"session", s>> \in interrupted

\* A session is never charged behind the back of the server: when its items
\* are on a paid invoice it is BILLED or about to be, or the task of it met a
\* failure (FAILED, or still PENDING when the failed task was a retry), or the
\* periodic operation wrote over the billing data it had read before
\* (updateTransactionsBillingData, at the turn of a month).
ChargedIsBilled ==
  \A s \in Sessions :
    itemOn[s] # None /\ stripe[itemOn[s]].status = "paid" =>
      \/ tx[s].status \in {"BILLED", "FAILED"}
      \/ s \in tasks
      \/ <<"session", s>> \in stale \/ <<"task", s>> \in interrupted

\* When nothing is going on, a billed session shows the status of its stored
\* invoice, unless the run that changed it was interrupted or raced with the
\* billing of a session (updateTransactionsBillingData).
ShowsInvoiceStatus ==
  \A s \in Sessions :
    LET i == tx[s].invoice IN
    bill = Idle /\ charge = Idle /\ tx[s].status = "BILLED" =>
      \/ tx[s].shown = invoices[i].status
      \/ <<"invoice", i>> \in stale \cup interrupted \/ <<"session", s>> \in stale \cup interrupted

\* The database agrees with Stripe, as told by the parts above.
InvoicesAgree ==
  /\ TypeOK
  /\ BilledIsInvoiced
  /\ ListedOnce
  /\ ChargedIsBilled
  /\ ShowsInvoiceStatus

\* A run of the periodic operation charges no invoice twice and leaves out
\* none that still needs it, although the invoices it charges leave the
\* pages it reads (the correction of skip in chargeInvoices), as long as no
\* other invoice joins or leaves its pages meanwhile: one that is stored
\* around midnight, or by a task that runs again after a crash.
EachInvoiceOnce ==
  LET joined == {i \in Sessions : Match(charge, i)} \ charge.scope IN
  charge.pc = "end" /\ stale = {} /\ joined = {} =>
    \A i \in charge.scope : charge.seen[i] = 1

=============================================================================
