-------------------------- MODULE BillingTransfers --------------------------
(***************************************************************************)
(* The billing platform: the funds of billed sessions are collected in     *)
(* transfers to the account of a business owner, less a platform fee       *)
(* (BillingIntegration.dispatchCollectedFunds, BillingService).            *)
(*                                                                         *)
(* The workers that interleave between their calls:                        *)
(*   dispatch  the dispatch of collected funds, alone under its lock;      *)
(*   charger   the payment of an invoice, which rewrites the billing data  *)
(*             of its sessions (Invoicing), under another lock;            *)
(*   Admins    REST users who finalize and send transfers and onboard the  *)
(*             account: they take no lock.                                 *)
(* A worker reads a document, awaits, and writes it back whole.  A write   *)
(* over a document that changed since it was read is remembered in stale.  *)
(***************************************************************************)
EXTENDS Naturals

CONSTANTS
  Sessions,      \* charging sessions on the sites of one account
  Admins,        \* REST users of the billing platform
  MaxTransfers,  \* bound: transfers to the account
  MaxDispatches, \* bound: runs of the dispatch
  MaxCharges,    \* bound: invoices that are charged
  MaxFaults,     \* bound: crashes of the server in the middle of an operation
  None

Transfers == 1 .. MaxTransfers

\* BillingTransferStatus
TransferStatus == {"draft", "finalized", "transferred"}

\* BillingTransfer: how often the funds of each session were added, and the
\* funds from which the amount to transfer was computed.
Transfer ==
  [status : TransferStatus, funds : [Sessions -> Nat], amount : [Sessions -> Nat] \cup {None}]

VARIABLES
  tx,           \* billingData of the transactions: BILLED or not, transferID
  transfers,    \* collection billingtransfers
  account,      \* the billing account: its status and its Stripe account
  feeOn,        \* Stripe: the funds whose fee was billed and paid, by transfer
  payouts,      \* Stripe: transfers of money, by transfer
  dispatch, charger, admin,   \* the workers
  count,        \* how often the bounded things happened
  stale,        \* history: documents written over a change the writer had not read
  interrupted   \* history: sessions and transfers an operation left half-way

history == <<stale, interrupted>>
vars == <<tx, transfers, account, feeOn, payouts, dispatch, charger, admin, count, history>>

Idle == [pc |-> "idle"]

Init ==
  /\ tx = [s \in Sessions |-> [billed |-> FALSE, transfer |-> None]]
  /\ transfers = [t \in Transfers |-> None]
  /\ account = [status |-> "idle", external |-> 0]
  /\ feeOn = [t \in Transfers |-> None]
  /\ payouts = [t \in Transfers |-> 0]
  /\ dispatch = Idle /\ charger = Idle
  /\ admin = [a \in Admins |-> Idle]
  /\ count = [dispatches |-> 0, charges |-> 0, faults |-> 0, accounts |-> 0]
  /\ stale = {} /\ interrupted = {}

Count(what) == count' = [count EXCEPT ![what] = @ + 1]

-----------------------------------------------------------------------------
\* A session of a site with an account is billed: convertToBillingInvoiceItem
\* keeps its account and fee (Invoicing tells how it is billed).
SessionBilled(s) ==
  /\ ~tx[s].billed
  /\ tx' = [tx EXCEPT ![s].billed = TRUE]
  /\ UNCHANGED <<transfers, account, feeOn, payouts, dispatch, charger, admin, count, history>>

\* updateTransactionsBillingData of an invoice that has just been charged:
\* it reads the billing data of a session ...
ChargerReads(s) ==
  /\ charger = Idle /\ count.charges < MaxCharges /\ tx[s].billed
  /\ charger' = [pc |-> "write", s |-> s, read |-> tx[s]]
  /\ Count("charges")
  /\ UNCHANGED <<tx, transfers, account, feeOn, payouts, dispatch, admin, history>>

\* ... and writes it back, with the transfer it had when it was read
\* (normalizeBillingData leaves out a transferID that is not set).
ChargerWrites ==
  /\ charger.pc = "write"
  /\ tx' = [tx EXCEPT ![charger.s] = charger.read]
  /\ stale' = IF tx[charger.s] = charger.read THEN stale ELSE stale \cup {<<"session", charger.s>>}
  /\ charger' = Idle
  /\ UNCHANGED <<transfers, account, feeOn, payouts, dispatch, admin, count, interrupted>>

-----------------------------------------------------------------------------
(***************************************************************************)
(* Dispatching the collected funds (dispatchCollectedFunds).               *)
(***************************************************************************)
dispatchRest == <<feeOn, payouts, account, charger, admin>>

\* getCollectedFunds that ignores the transfer of a session.
AllCollectedFunds == {s \in Sessions : tx[s].billed}

\* TransactionStorage.getCollectedFunds: billed sessions without a transfer.
CollectedFunds == {s \in Sessions : tx[s].billed /\ tx[s].transfer = None}

DispatchCollectedFunds ==
  /\ dispatch = Idle /\ count.dispatches < MaxDispatches /\ CollectedFunds # {}
  /\ dispatch' = [pc |-> "transfer", report |-> CollectedFunds]
  /\ Count("dispatches")
  /\ UNCHANGED <<tx, transfers, history, dispatchRest>>

EmptyTransfer == [status |-> "draft", funds |-> [s \in Sessions |-> 0], amount |-> None]

\* BillingStorage.getTransfers by status.
GetTransfers(status) == {t \in Transfers : transfers[t] # None /\ transfers[t].status = status}

\* getDraftTransferForAccount: the latest draft, or a new document.
DraftTransfer ==
  LET drafts == GetTransfers("draft")
      unused == {t \in Transfers : transfers[t] = None}
  IN  IF drafts # {} THEN {t \in drafts : \A u \in drafts : u <= t}
      ELSE {t \in unused : \A u \in unused : t <= u}

GetDraftTransfer ==
  /\ dispatch.pc = "transfer"
  /\ \E t \in DraftTransfer :
       dispatch' = [pc |-> "save", report |-> dispatch.report, t |-> t, read |-> transfers[t]]
  /\ UNCHANGED <<tx, transfers, count, history, dispatchRest>>

\* collectedFunds, collectedFees and sessionCounter of the report are added.
AddFunds(doc, report) ==
  [doc EXCEPT !.funds = [s \in Sessions |-> IF s \in report THEN @[s] + 1 ELSE @[s]]]

\* BillingStorage.saveTransfer
SaveTransfer(t, read, doc) ==
  /\ transfers' = [transfers EXCEPT ![t] = doc]
  /\ stale' = IF transfers[t] = read THEN stale ELSE stale \cup {<<"transfer", t>>}

\* The draft is read again before it is saved, and marked as a draft.
DispatchReopensTransfer ==
  /\ dispatch.pc = "save"
  /\ LET now == transfers[dispatch.t]
         doc == IF now = None THEN EmptyTransfer ELSE [now EXCEPT !.status = "draft"]
     IN  SaveTransfer(dispatch.t, now, AddFunds(doc, dispatch.report))
  /\ dispatch' = [dispatch EXCEPT !.pc = "mark"]
  /\ UNCHANGED <<tx, count, interrupted, dispatchRest>>

DispatchSavesTransfer ==
  /\ dispatch.pc = "save"
  /\ SaveTransfer(dispatch.t, dispatch.read,
                  AddFunds(IF dispatch.read = None THEN EmptyTransfer ELSE dispatch.read,
                           dispatch.report))
  /\ dispatch' = [dispatch EXCEPT !.pc = "mark"]
  /\ UNCHANGED <<tx, count, interrupted, dispatchRest>>

\* updateTransactionsWithTransferData; the locks are released.
MarkTransactions ==
  /\ dispatch.pc = "mark"
  /\ tx' = [s \in Sessions |-> IF s \in dispatch.report THEN [tx[s] EXCEPT !.transfer = dispatch.t]
                                                       ELSE tx[s]]
  /\ dispatch' = Idle
  /\ UNCHANGED <<transfers, count, history, dispatchRest>>

-----------------------------------------------------------------------------
(***************************************************************************)
(* Transfers and accounts (BillingService).                                *)
(***************************************************************************)
adminRest == <<tx, charger, dispatch>>

Become(a, state) == admin' = [admin EXCEPT ![a] = state]

\* handleFinalizeTransfer: only a draft.
FinalizeTransfer(a, t) ==
  /\ admin[a] = Idle
  /\ t \in GetTransfers("draft")
  /\ Become(a, [pc |-> "fee", t |-> t, read |-> transfers[t]])
  /\ UNCHANGED <<feeOn, payouts, transfers, account, count, history, adminRest>>

\* billPlatformFee: the keys are those of the transfer, and an invoice that
\* is paid cannot be paid again: the second attempt throws.
BillPlatformFee(a) ==
  /\ admin[a].pc = "fee"
  /\ LET t == admin[a].t IN
     IF feeOn[t] = None
     THEN /\ feeOn' = [feeOn EXCEPT ![t] = admin[a].read.funds]
          /\ Become(a, [admin[a] EXCEPT !.pc = "saveFinalized"])
     ELSE /\ Become(a, Idle)
          /\ UNCHANGED feeOn
  /\ UNCHANGED <<payouts, transfers, account, count, history, adminRest>>

SaveFinalizedTransfer(a) ==
  /\ admin[a].pc = "saveFinalized"
  /\ LET doc == admin[a].read IN
     SaveTransfer(admin[a].t, doc, [doc EXCEPT !.status = "finalized", !.amount = doc.funds])
  /\ Become(a, Idle)
  /\ UNCHANGED <<feeOn, payouts, account, count, interrupted, adminRest>>

\* handleSendTransfer: only a finalized transfer.
HandleSendTransfer(a, t) ==
  /\ admin[a] = Idle
  /\ t \in GetTransfers("finalized")
  /\ Become(a, [pc |-> "send", t |-> t, read |-> transfers[t]])
  /\ UNCHANGED <<feeOn, payouts, transfers, account, count, history, adminRest>>

\* sendTransfer: no idempotency key; Stripe refuses without a destination.
SendTransfer(a) ==
  /\ admin[a].pc = "send"
  /\ IF account.external = 0
     THEN Become(a, Idle) /\ UNCHANGED payouts
     ELSE /\ payouts' = [payouts EXCEPT ![admin[a].t] = @ + 1]
          /\ Become(a, [admin[a] EXCEPT !.pc = "saveSent"])
  /\ UNCHANGED <<feeOn, transfers, account, count, history, adminRest>>

SaveSentTransfer(a) ==
  /\ admin[a].pc = "saveSent"
  /\ SaveTransfer(admin[a].t, admin[a].read, [admin[a].read EXCEPT !.status = "transferred"])
  /\ Become(a, Idle)
  /\ UNCHANGED <<feeOn, payouts, account, count, interrupted, adminRest>>

\* handleOnboardAccount: an account of Stripe is created for an idle account.
OnboardAccount(a) ==
  /\ admin[a] = Idle /\ account.status = "idle"
  /\ Count("accounts")
  /\ Become(a, [pc |-> "saveAccount", external |-> count'.accounts])
  /\ UNCHANGED <<feeOn, payouts, transfers, account, history, adminRest>>

\* BillingStorage.saveAccount
SaveAccount(status, external) == account' = [status |-> status, external |-> external]

SaveOnboardedAccount(a) ==
  /\ admin[a].pc = "saveAccount"
  /\ SaveAccount("pending", admin[a].external)
  /\ stale' = IF account.status = "idle" THEN stale ELSE stale \cup {<<"account", 0>>}
  /\ Become(a, Idle)
  /\ UNCHANGED <<feeOn, payouts, transfers, count, interrupted, adminRest>>

\* handleActivateAccount
ActivateAccount ==
  /\ account.status = "pending"
  /\ SaveAccount("active", account.external)
  /\ UNCHANGED <<feeOn, payouts, transfers, admin, count, history, adminRest>>

-----------------------------------------------------------------------------
(***************************************************************************)
(* The server stops in the middle of an operation: the locks expire        *)
(* (LockingManager), the dispatch waits for its next schedule, and a REST  *)
(* user may try again.                                                     *)
(***************************************************************************)
Crash ==
  /\ count.faults < MaxFaults /\ Count("faults")
  /\ \/ dispatch # Idle /\ dispatch' = Idle
        /\ interrupted' = interrupted \cup {<<"session", s>> : s \in dispatch.report}
        /\ UNCHANGED admin
     \/ \E a \in Admins :
          /\ admin[a].pc \in {"fee", "saveFinalized", "send", "saveSent"} /\ Become(a, Idle)
          /\ interrupted' = interrupted \cup {<<"transfer", admin[a].t>>}
          /\ UNCHANGED dispatch
  /\ UNCHANGED <<tx, transfers, account, feeOn, payouts, charger, stale>>

Next ==
  \/ \E s \in Sessions : SessionBilled(s) \/ ChargerReads(s)
  \/ ChargerWrites
  \/ DispatchCollectedFunds \/ GetDraftTransfer \/ DispatchSavesTransfer \/ MarkTransactions
  \/ \E a \in Admins :
       \/ \E t \in Transfers : FinalizeTransfer(a, t) \/ HandleSendTransfer(a, t)
       \/ BillPlatformFee(a) \/ SaveFinalizedTransfer(a) \/ SendTransfer(a) \/ SaveSentTransfer(a)
       \/ OnboardAccount(a) \/ SaveOnboardedAccount(a)
  \/ ActivateAccount
  \/ Crash

Spec == Init /\ [][Next]_vars

-----------------------------------------------------------------------------
\* What a worker holds between its calls.
Dispatch ==
  {Idle} \cup [pc : {"transfer"}, report : SUBSET Sessions]
         \cup [pc : {"save", "mark"}, report : SUBSET Sessions, t : Transfers,
               read : Transfer \cup {None}]

Charger == {Idle} \cup [pc : {"write"}, s : Sessions,
                        read : [billed : BOOLEAN, transfer : Transfers \cup {None}]]

Admin ==
  {Idle} \cup [pc : {"fee", "saveFinalized", "send", "saveSent"}, t : Transfers, read : Transfer]
         \cup [pc : {"saveAccount"}, external : Nat]

TypeOK ==
  /\ tx \in [Sessions -> [billed : BOOLEAN, transfer : Transfers \cup {None}]]
  /\ transfers \in [Transfers -> Transfer \cup {None}]
  /\ account \in [status : {"idle", "pending", "active"}, external : Nat]
  /\ feeOn \in [Transfers -> [Sessions -> Nat] \cup {None}]
  /\ payouts \in [Transfers -> Nat]
  /\ dispatch \in Dispatch /\ charger \in Charger /\ admin \in [Admins -> Admin]
  /\ count \in [dispatches : Nat, charges : Nat, faults : Nat, accounts : Nat]

\* The funds of a session are dispatched once, unless the dispatch stopped
\* between the transfer and the sessions, or the payment of an invoice wrote
\* over the transfer of its session, or a transfer was written over.
DispatchedOnce ==
  \A s \in Sessions : <<"session", s>> \notin stale \cup interrupted =>
    \A t, u \in {d \in Transfers : transfers[d] # None /\ transfers[d].funds[s] > 0} :
      t = u /\ transfers[t].funds[s] = 1

\* A session that refers to a transfer has its funds in it, unless that
\* transfer was finalized while funds were being added.
FundsInTransfer ==
  \A s \in Sessions : tx[s].transfer # None =>
    \/ transfers[tx[s].transfer].funds[s] > 0
    \/ <<"transfer", tx[s].transfer>> \in stale

\* The fee of a transfer was billed on the funds it holds once finalized, and
\* it is money of these funds that is sent, unless funds were added meanwhile.
FeeMatchesFunds ==
  \A t \in Transfers : transfers[t] # None /\ transfers[t].status # "draft" =>
    /\ feeOn[t] = transfers[t].amount
    /\ transfers[t].funds = transfers[t].amount \/ <<"transfer", t>> \in stale

\* The fee of a transfer is paid only when the transfer is finalized or about
\* to be, unless the server stopped in between (such a draft can never be
\* finalized: billPlatformFee is refused) or the draft was written over.
FeePaidIsFinalized ==
  \A t \in Transfers : feeOn[t] # None /\ transfers[t].status = "draft" =>
    \/ <<"transfer", t>> \in stale \cup interrupted
    \/ \E a \in Admins : admin[a].pc = "saveFinalized" /\ admin[a].t = t

\* The money of a transfer is sent once, unless two users send it at the same
\* time or the server stops before it is saved (sendTransfer has no key).
SentOnce ==
  \A t \in Transfers : payouts[t] > 1 =>
    \/ <<"transfer", t>> \in stale \cup interrupted
    \/ \E a, b \in Admins :
         /\ a # b /\ admin[a].pc = "saveSent" /\ admin[a].t = t
         /\ admin[a].read # transfers[t] \/ (admin[b].pc = "saveSent" /\ admin[b].t = t)

\* Funds, fees and money of the transfers agree, as told by the parts above.
TransfersAgree ==
  /\ TypeOK
  /\ DispatchedOnce
  /\ FundsInTransfer
  /\ FeeMatchesFunds
  /\ FeePaidIsFinalized
  /\ SentOnce

\* A transfer never goes back to an earlier status, unless its document was
\* written over (saveTransfer).
OnlyForward ==
  [][\A t \in Transfers :
       LET rank(d) == IF d = None THEN 0
                      ELSE CASE d.status = "draft" -> 1 [] d.status = "finalized" -> 2 [] OTHER -> 3
       IN  rank(transfers'[t]) < rank(transfers[t]) => <<"transfer", t>> \in stale']_vars

=============================================================================
