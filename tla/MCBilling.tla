----------------------------- MODULE MCBilling -----------------------------
(***************************************************************************)
(* The three parts of billing and the charging plans, side by side: a      *)
(* behaviour moves one of the four (focus) and the others stay as they     *)
(* were initially; each property is asked of the part that moves.          *)
(***************************************************************************)
EXTENDS Naturals, FiniteSets

CONSTANTS Sessions, MaxDay, MaxCharges, MaxFaults, PageSize,
          Admins, MaxTransfers, MaxDispatches,
          Workers, Cards, MaxCustomers, MaxRequests, None,
          MaxAmps, UserLimit, Capacity, MaxSessions, MaxRuns, MaxEvents

VARIABLES
  focus,
  day, settings, stripe, itemOn, invoices, tx, tasks, bill, charge, count, stale, interrupted,
  funds, transfers, account, feeOn, payouts, dispatch, charger, admin, tcount, tstale, tinterrupted,
  user, gone, customers, created, default, attachedTo, work, requests, saved, raced,
  session, charging, atStation, stored, run, ops, asset, pcount, tainted, settled

I == INSTANCE Invoicing
T == INSTANCE BillingTransfers
       WITH tx <- funds, count <- tcount, stale <- tstale, interrupted <- tinterrupted
C == INSTANCE BillingCustomers

S == INSTANCE SmartCharging WITH count <- pcount

\* A site that can feed one of its two connectors.
OneConnector == [area \in {"root", "sub"} |-> MaxAmps]

\* A missing document or customer is none of the documents and numbers.
ASSUME MissingAssumption ==
  /\ None \notin Nat \cup Cards /\ None \notin T!Transfer /\ None \notin [Sessions -> Nat]
  /\ None \notin I!Invoice \cup I!InvoiceStatus /\ None \notin [status : I!InvoiceStatus, on : Nat]

\* The sessions are numbered; a page of invoices holds at least one.
ASSUME SessionsAssumption == IsFiniteSet(Sessions) /\ Sessions \subseteq Nat

ASSUME InvoicingAssumption == PageSize \in Nat \ {0} /\ MaxDay \in Nat

ASSUME MaxCustomersAssumption == MaxCustomers \in Nat

\* A limit that a user sets is checked against the connector.
ASSUME AmpsAssumption ==
  MaxAmps \in Nat /\ UserLimit \in 0..MaxAmps /\ Capacity \in [S!Areas -> Nat]

iVars == <<day, settings, stripe, itemOn, invoices, tx, tasks, bill, charge, count, stale, interrupted>>
tVars == <<funds, transfers, account, feeOn, payouts, dispatch, charger, admin, tcount, tstale,
           tinterrupted>>
cVars == <<user, gone, customers, created, default, attachedTo, work, requests, saved, raced>>
sVars == <<session, charging, atStation, stored, run, ops, asset, pcount, tainted, settled>>

MCInit ==
  /\ focus \in {"invoicing", "transfers", "customers", "plans"}
  /\ I!Init /\ T!Init /\ C!Init /\ S!Init
  /\ focus # "invoicing" => ~settings.immediate /\ ~settings.periodic

MCNext ==
  \/ focus = "invoicing" /\ I!Next /\ UNCHANGED <<focus, tVars, cVars, sVars>>
  \/ focus = "transfers" /\ T!Next /\ UNCHANGED <<focus, iVars, cVars, sVars>>
  \/ focus = "customers" /\ C!Next /\ UNCHANGED <<focus, iVars, tVars, sVars>>
  \/ focus = "plans" /\ S!Next /\ UNCHANGED <<focus, iVars, tVars, cVars>>

MCSpec == MCInit /\ [][MCNext]_<<focus, iVars, tVars, cVars, sVars>>

-----------------------------------------------------------------------------
\* See Invoicing: what is billed is invoiced once, and shown so, and the
\* pages of chargeInvoices take every invoice once.
InvoicesAgree == focus = "invoicing" => I!InvoicesAgree /\ I!EachInvoiceOnce

\* See BillingTransfers: funds are dispatched, billed and sent once.
TransfersAgree == focus = "transfers" => T!TransfersAgree

\* See BillingTransfers: saveTransfer over a transfer that went on.
OnlyForward == T!OnlyForward

\* See BillingCustomers: createBillingUser and the default card.
CustomerCanPay == focus = "customers" => C!CustomerCanPay

\* See SmartCharging: a plan that was applied to the end keeps the fuses, and
\* the database knows what the stations were told.
PlansAgree == focus = "plans" => S!PlansAgree
=============================================================================
