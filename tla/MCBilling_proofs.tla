--------------------------- MODULE MCBilling_proofs ---------------------------
(***************************************************************************)
(* Theorems about the billing platform (BillingTransfers), the customers   *)
(* of Stripe (BillingCustomers) and the charging plans (SmartCharging),    *)
(* for every number of sessions, transfers, REST users, requests, cards    *)
(* and faults, and for connectors and fuses of every size.                 *)
(***************************************************************************)
EXTENDS MCBilling, TLAPS

-----------------------------------------------------------------------------
(* Transfers: what the workers hold. *)

Sends == {"send", "saveSent"}
HoldsTransfer == {"fee", "saveFinalized", "send", "saveSent"}

\* The documents that are written back over a transfer.
ReadsAgree ==
  /\ dispatch.pc = "save" => dispatch.read = None \/ dispatch.read.status = "draft"
  /\ dispatch.pc = "mark" => transfers[dispatch.t] # None
  /\ \A a \in Admins :
       /\ admin[a].pc \in HoldsTransfer => transfers[admin[a].t] # None
       /\ admin[a].pc \in {"fee", "saveFinalized"} => admin[a].read.status = "draft"
       /\ admin[a].pc \in Sends => admin[a].read.status = "finalized"

LEMMA DispatchShape ==
  ASSUME NEW d \in T!Dispatch
  PROVE  /\ d.pc \in {"idle", "transfer", "save", "mark"}
         /\ d.pc = "idle" => d = T!Idle
         /\ d.pc = "transfer" => d \in [pc : {"transfer"}, report : SUBSET Sessions]
         /\ d.pc \in {"save", "mark"} =>
              d \in [pc : {d.pc}, report : SUBSET Sessions, t : T!Transfers,
                     read : T!Transfer \cup {None}]
  BY DEF T!Dispatch, T!Idle

LEMMA ChargerShape ==
  ASSUME NEW r \in T!Charger
  PROVE  /\ r.pc \in {"idle", "write"}
         /\ r.pc = "write" =>
              r \in [pc : {"write"}, s : Sessions,
                     read : [billed : BOOLEAN, transfer : T!Transfers \cup {None}]]
  BY DEF T!Charger, T!Idle

LEMMA AdminShape ==
  ASSUME NEW r \in T!Admin
  PROVE  /\ r.pc \in HoldsTransfer \cup {"idle", "saveAccount"}
         /\ r.pc = "saveAccount" => r \in [pc : {"saveAccount"}, external : Nat]
         /\ r.pc \in HoldsTransfer => r \in [pc : {r.pc}, t : T!Transfers, read : T!Transfer]
  BY DEF T!Admin, T!Idle, HoldsTransfer

\* What dispatchCollectedFunds adds to a transfer.
LEMMA AddedFunds ==
  ASSUME NEW doc \in T!Transfer, NEW report
  PROVE  /\ T!AddFunds(doc, report) \in T!Transfer
         /\ T!AddFunds(doc, report).status = doc.status
         /\ T!AddFunds(doc, report).amount = doc.amount
         /\ \A s \in Sessions : T!AddFunds(doc, report).funds[s] =
                                IF s \in report THEN doc.funds[s] + 1 ELSE doc.funds[s]
<1> DEFINE added == [s \in Sessions |-> IF s \in report THEN doc.funds[s] + 1 ELSE doc.funds[s]]
<1>1. T!AddFunds(doc, report) = [doc EXCEPT !.funds = added]
  BY DEF T!AddFunds
<1>2. doc.funds \in [Sessions -> Nat]
  BY DEF T!Transfer
<1>3. added \in [Sessions -> Nat]
  BY <1>2
<1>4. \A s \in Sessions : added[s] = IF s \in report THEN doc.funds[s] + 1 ELSE doc.funds[s]
  OBVIOUS
<1> HIDE DEF added
<1> QED BY <1>1, <1>3, <1>4 DEF T!Transfer

\* Every step keeps the types.
LEMMA TransfersType ==
  ASSUME T!TypeOK, T!Next \/ UNCHANGED tVars
  PROVE  T!TypeOK'
<1> USE DEF T!TypeOK, T!history, T!dispatchRest, T!adminRest
<1>1. ASSUME NEW what \in {"dispatches", "charges", "faults", "accounts"}, T!Count(what)
      PROVE  tcount' \in [dispatches : Nat, charges : Nat, faults : Nat, accounts : Nat]
  BY <1>1 DEF T!Count
<1>2. ASSUME NEW s \in Sessions, T!SessionBilled(s) PROVE T!TypeOK'
  BY <1>2 DEF T!SessionBilled
<1>3. ASSUME NEW s \in Sessions, T!ChargerReads(s) PROVE T!TypeOK'
  BY <1>1, <1>3 DEF T!ChargerReads, T!Charger
<1>4. CASE T!ChargerWrites
  BY <1>4, ChargerShape DEF T!ChargerWrites, T!Charger
<1>5. CASE T!DispatchCollectedFunds
  BY <1>1, <1>5 DEF T!DispatchCollectedFunds, T!CollectedFunds, T!Dispatch
<1>6. CASE T!GetDraftTransfer
  <2>1. T!DraftTransfer \subseteq T!Transfers
    BY DEF T!DraftTransfer, T!GetTransfers
  <2> QED BY <1>6, <2>1, DispatchShape DEF T!GetDraftTransfer, T!Dispatch
<1>7. CASE T!DispatchSavesTransfer
  <2>1. /\ dispatch \in [pc : {"save"}, report : SUBSET Sessions, t : T!Transfers,
                         read : T!Transfer \cup {None}]
    BY <1>7, DispatchShape DEF T!DispatchSavesTransfer
  <2> DEFINE doc == IF dispatch.read = None THEN T!EmptyTransfer ELSE dispatch.read
  <2>2. T!EmptyTransfer \in T!Transfer
    BY DEF T!EmptyTransfer, T!Transfer, T!TransferStatus
  <2>3. doc \in T!Transfer
    BY <2>1, <2>2
  <2> HIDE DEF doc
  <2>4. T!AddFunds(doc, dispatch.report) \in T!Transfer
    BY <2>3, AddedFunds
  <2>5. transfers' = [transfers EXCEPT ![dispatch.t] = T!AddFunds(doc, dispatch.report)]
    BY <1>7 DEF T!DispatchSavesTransfer, T!SaveTransfer, doc
  <2>6. transfers' \in [T!Transfers -> T!Transfer \cup {None}]
    BY <2>1, <2>4, <2>5
  <2>7. dispatch' \in T!Dispatch
    BY <1>7, <2>1 DEF T!DispatchSavesTransfer, T!Dispatch
  <2> QED BY <1>7, <2>6, <2>7 DEF T!DispatchSavesTransfer
<1>8. CASE T!MarkTransactions
  <2>1. dispatch.report \subseteq Sessions /\ dispatch.t \in T!Transfers
    BY <1>8, DispatchShape DEF T!MarkTransactions
  <2> QED BY <1>8, <2>1 DEF T!MarkTransactions, T!Dispatch
<1>9. ASSUME NEW a \in Admins, NEW state \in T!Admin, T!Become(a, state)
      PROVE  admin' \in [Admins -> T!Admin]
  BY <1>9 DEF T!Become
<1>10. T!Idle \in T!Admin
  BY DEF T!Admin
<1>11. ASSUME NEW a \in Admins, NEW t \in T!Transfers,
              T!FinalizeTransfer(a, t) \/ T!HandleSendTransfer(a, t)
       PROVE  T!TypeOK'
  <2>1. transfers[t] \in T!Transfer
    BY <1>11 DEF T!FinalizeTransfer, T!HandleSendTransfer, T!GetTransfers
  <2>2. [pc |-> "fee", t |-> t, read |-> transfers[t]] \in T!Admin
        /\ [pc |-> "send", t |-> t, read |-> transfers[t]] \in T!Admin
    BY <2>1 DEF T!Admin
  <2> QED BY <1>9, <1>11, <2>2 DEF T!FinalizeTransfer, T!HandleSendTransfer
<1>12. ASSUME NEW a \in Admins, admin[a].pc \in HoldsTransfer
       PROVE  /\ admin[a] \in [pc : {admin[a].pc}, t : T!Transfers, read : T!Transfer]
              /\ [admin[a] EXCEPT !.pc = "saveFinalized"] \in T!Admin
              /\ [admin[a] EXCEPT !.pc = "saveSent"] \in T!Admin
  <2>1. admin[a] \in [pc : {admin[a].pc}, t : T!Transfers, read : T!Transfer]
    BY <1>12, AdminShape
  <2> QED BY <2>1 DEF T!Admin
<1>13. ASSUME NEW a \in Admins, T!BillPlatformFee(a) PROVE T!TypeOK'
  <2>1. admin[a].pc \in HoldsTransfer
    BY <1>13 DEF T!BillPlatformFee, HoldsTransfer
  <2>2. admin[a].t \in T!Transfers /\ admin[a].read.funds \in [Sessions -> Nat]
    <3>1. admin[a].t \in T!Transfers /\ admin[a].read \in T!Transfer
      BY <1>12, <2>1
    <3> QED BY <3>1 DEF T!Transfer
  <2>4. feeOn' \in [T!Transfers -> [Sessions -> Nat] \cup {None}]
    BY <1>13, <2>2 DEF T!BillPlatformFee
  <2>3. admin' \in [Admins -> T!Admin]
    BY <1>9, <1>10, <1>12, <1>13, <2>1 DEF T!BillPlatformFee
  <2> QED BY <1>13, <2>3, <2>4 DEF T!BillPlatformFee
<1>14. ASSUME NEW a \in Admins, T!SaveFinalizedTransfer(a) \/ T!SaveSentTransfer(a) PROVE T!TypeOK'
  <2>1. admin[a] \in [pc : {admin[a].pc}, t : T!Transfers, read : T!Transfer]
    BY <1>12, <1>14 DEF T!SaveFinalizedTransfer, T!SaveSentTransfer, HoldsTransfer
  <2>2. /\ [admin[a].read EXCEPT !.status = "finalized", !.amount = admin[a].read.funds] \in T!Transfer
        /\ [admin[a].read EXCEPT !.status = "transferred"] \in T!Transfer
    BY <2>1 DEF T!Transfer, T!TransferStatus
  <2>3. transfers' \in [T!Transfers -> T!Transfer \cup {None}]
    BY <1>14, <2>1, <2>2 DEF T!SaveFinalizedTransfer, T!SaveSentTransfer, T!SaveTransfer
  <2>4. admin' \in [Admins -> T!Admin]
    BY <1>9, <1>10, <1>14 DEF T!SaveFinalizedTransfer, T!SaveSentTransfer
  <2> QED BY <1>14, <2>3, <2>4 DEF T!SaveFinalizedTransfer, T!SaveSentTransfer
<1>15. ASSUME NEW a \in Admins, T!SendTransfer(a) PROVE T!TypeOK'
  <2>1. admin[a].pc \in HoldsTransfer
    BY <1>15 DEF T!SendTransfer, HoldsTransfer
  <2>2. payouts' \in [T!Transfers -> Nat]
    BY <1>12, <1>15, <2>1 DEF T!SendTransfer
  <2>3. admin' \in [Admins -> T!Admin]
    BY <1>9, <1>10, <1>12, <1>15, <2>1 DEF T!SendTransfer
  <2> QED BY <1>15, <2>2, <2>3 DEF T!SendTransfer
<1>16. ASSUME NEW a \in Admins, T!OnboardAccount(a) PROVE T!TypeOK'
  <2>1. tcount' \in [dispatches : Nat, charges : Nat, faults : Nat, accounts : Nat]
    BY <1>1, <1>16 DEF T!OnboardAccount
  <2>2. [pc |-> "saveAccount", external |-> tcount'.accounts] \in T!Admin
    BY <2>1 DEF T!Admin
  <2> QED BY <1>9, <1>16, <2>1, <2>2 DEF T!OnboardAccount
<1>17. ASSUME NEW a \in Admins, T!SaveOnboardedAccount(a) PROVE T!TypeOK'
  <2>1. admin[a].external \in Nat
    BY <1>17, AdminShape DEF T!SaveOnboardedAccount
  <2> QED BY <1>9, <1>10, <1>17, <2>1 DEF T!SaveOnboardedAccount, T!SaveAccount
<1>18. CASE T!ActivateAccount
  BY <1>18 DEF T!ActivateAccount, T!SaveAccount
<1>19. CASE T!Crash
  <2>1. T!Idle \in T!Dispatch
    BY DEF T!Dispatch
  <2> QED BY <1>1, <1>9, <1>10, <1>19, <2>1 DEF T!Crash
<1>20. CASE UNCHANGED tVars
  BY <1>20 DEF tVars
<1> QED
  BY <1>2, <1>3, <1>4, <1>5, <1>6, <1>7, <1>8, <1>11, <1>13, <1>14, <1>15, <1>16, <1>17, <1>18,
     <1>19, <1>20
  DEF T!Next

\* saveTransfer writes one transfer, and remembers a write over a change.
LEMMA TransferSaved ==
  ASSUME T!TypeOK, NEW t \in T!Transfers, NEW read, NEW doc, T!SaveTransfer(t, read, doc)
  PROVE  /\ transfers'[t] = doc
         /\ \A u \in T!Transfers \ {t} : transfers'[u] = transfers[u]
         /\ transfers[t] # read => <<"transfer", t>> \in tstale'
         /\ tstale \subseteq tstale'
         /\ \A s \in Sessions : <<"session", s>> \in tstale' => <<"session", s>> \in tstale
  BY DEF T!TypeOK, T!SaveTransfer

\* A step of a REST user.
LEMMA AdminMoves ==
  ASSUME T!TypeOK, NEW a \in Admins, NEW state, T!Become(a, state)
  PROVE  admin'[a] = state /\ \A b \in Admins \ {a} : admin'[b] = admin[b]
  BY DEF T!TypeOK, T!Become

\* What the dispatch saves: the draft as it was read, with the funds added.
LEMMA DispatchSaves ==
  ASSUME T!TypeOK, T!DispatchSavesTransfer
  PROVE  /\ dispatch \in [pc : {"save"}, report : SUBSET Sessions, t : T!Transfers,
                          read : T!Transfer \cup {None}]
         /\ transfers'[dispatch.t] \in T!Transfer
         /\ dispatch.read = None => /\ transfers'[dispatch.t].status = "draft"
                                    /\ transfers'[dispatch.t].amount = None
         /\ dispatch.read # None =>
              /\ transfers'[dispatch.t].status = dispatch.read.status
              /\ transfers'[dispatch.t].amount = dispatch.read.amount
         /\ \A s \in Sessions :
              transfers'[dispatch.t].funds[s] =
                (IF dispatch.read = None THEN 0 ELSE dispatch.read.funds[s])
                  + (IF s \in dispatch.report THEN 1 ELSE 0)
         /\ \A u \in T!Transfers \ {dispatch.t} : transfers'[u] = transfers[u]
         /\ transfers[dispatch.t] # dispatch.read => <<"transfer", dispatch.t>> \in tstale'
         /\ tstale \subseteq tstale'
         /\ \A s \in Sessions : <<"session", s>> \in tstale' => <<"session", s>> \in tstale
         /\ UNCHANGED <<funds, feeOn, payouts, charger, admin, tinterrupted>>
         /\ dispatch'.pc = "mark" /\ dispatch'.t = dispatch.t /\ dispatch'.report = dispatch.report
<1>1. dispatch \in [pc : {"save"}, report : SUBSET Sessions, t : T!Transfers,
                    read : T!Transfer \cup {None}]
  BY DispatchShape DEF T!DispatchSavesTransfer, T!TypeOK
<1>2. PICK d : d = dispatch
  OBVIOUS
<1>3. PICK old : old = IF d.read = None THEN T!EmptyTransfer ELSE d.read
  OBVIOUS
<1>4. PICK doc : doc = T!AddFunds(old, d.report)
  OBVIOUS
<1>5. /\ T!EmptyTransfer \in T!Transfer /\ T!EmptyTransfer.status = "draft"
      /\ T!EmptyTransfer.amount = None /\ \A s \in Sessions : T!EmptyTransfer.funds[s] = 0
  BY DEF T!EmptyTransfer, T!Transfer, T!TransferStatus
<1>6. old \in T!Transfer
  BY <1>1, <1>2, <1>3, <1>5
<1>7. /\ doc \in T!Transfer /\ doc.status = old.status /\ doc.amount = old.amount
      /\ \A s \in Sessions : doc.funds[s] = IF s \in d.report THEN old.funds[s] + 1 ELSE old.funds[s]
  BY <1>4, <1>6, AddedFunds
<1>8. \A s \in Sessions : old.funds[s] \in Nat
  BY <1>6 DEF T!Transfer
<1>9. d.t \in T!Transfers /\ T!SaveTransfer(d.t, d.read, doc)
  BY <1>1, <1>2, <1>3, <1>4 DEF T!DispatchSavesTransfer
<1>10. /\ transfers'[d.t] = doc
       /\ \A u \in T!Transfers \ {d.t} : transfers'[u] = transfers[u]
       /\ transfers[d.t] # d.read => <<"transfer", d.t>> \in tstale'
       /\ tstale \subseteq tstale'
       /\ \A s \in Sessions : <<"session", s>> \in tstale' => <<"session", s>> \in tstale
  BY <1>9, TransferSaved
<1>11. \A s \in Sessions : doc.funds[s] = (IF d.read = None THEN 0 ELSE d.read.funds[s])
                                           + (IF s \in d.report THEN 1 ELSE 0)
  <2> SUFFICES ASSUME NEW s \in Sessions
               PROVE  doc.funds[s] = (IF d.read = None THEN 0 ELSE d.read.funds[s])
                                       + (IF s \in d.report THEN 1 ELSE 0)
    OBVIOUS
  <2>1. old.funds[s] = IF d.read = None THEN 0 ELSE d.read.funds[s]
    BY <1>3, <1>5
  <2>2. doc.funds[s] = IF s \in d.report THEN old.funds[s] + 1 ELSE old.funds[s]
    BY <1>7
  <2>3. old.funds[s] \in Nat
    BY <1>8
  <2>4. doc.funds[s] = old.funds[s] + (IF s \in d.report THEN 1 ELSE 0)
    BY <2>2, <2>3
  <2> QED BY <2>1, <2>4
<1>12. UNCHANGED <<funds, feeOn, payouts, charger, admin, tinterrupted>>
       /\ dispatch' = [dispatch EXCEPT !.pc = "mark"]
  BY DEF T!DispatchSavesTransfer, T!dispatchRest
<1>13. dispatch'.pc = "mark" /\ dispatch'.t = dispatch.t /\ dispatch'.report = dispatch.report
  BY <1>1, <1>12
<1>14. /\ d.read = None => doc.status = "draft" /\ doc.amount = None
       /\ d.read # None => doc.status = d.read.status /\ doc.amount = d.read.amount
  BY <1>3, <1>5, <1>7
<1>15. /\ transfers'[dispatch.t] = doc
       /\ \A u \in T!Transfers \ {dispatch.t} : transfers'[u] = transfers[u]
       /\ transfers[dispatch.t] # dispatch.read => <<"transfer", dispatch.t>> \in tstale'
  BY <1>2, <1>10
<1>16. /\ dispatch.read = None => doc.status = "draft" /\ doc.amount = None
       /\ dispatch.read # None => doc.status = dispatch.read.status /\ doc.amount = dispatch.read.amount
       /\ \A s \in Sessions : doc.funds[s] = (IF dispatch.read = None THEN 0 ELSE dispatch.read.funds[s])
                                           + (IF s \in dispatch.report THEN 1 ELSE 0)
  BY <1>2, <1>11, <1>14
<1> QED BY <1>1, <1>7, <1>10, <1>12, <1>13, <1>15, <1>16

\* What a REST user saves: the transfer as it was read, with its new status.
LEMMA AdminSaves ==
  ASSUME T!TypeOK, NEW a \in Admins, T!SaveFinalizedTransfer(a) \/ T!SaveSentTransfer(a)
  PROVE  /\ admin[a].t \in T!Transfers /\ admin[a].read \in T!Transfer
         /\ admin[a].pc \in {"saveFinalized", "saveSent"}
         /\ transfers'[admin[a].t] \in T!Transfer
         /\ transfers'[admin[a].t].funds = admin[a].read.funds
         /\ admin[a].pc = "saveFinalized" => /\ transfers'[admin[a].t].status = "finalized"
                                             /\ transfers'[admin[a].t].amount = admin[a].read.funds
         /\ admin[a].pc = "saveSent" => /\ transfers'[admin[a].t].status = "transferred"
                                        /\ transfers'[admin[a].t].amount = admin[a].read.amount
         /\ \A u \in T!Transfers \ {admin[a].t} : transfers'[u] = transfers[u]
         /\ transfers[admin[a].t] # admin[a].read => <<"transfer", admin[a].t>> \in tstale'
         /\ tstale \subseteq tstale'
         /\ \A s \in Sessions : <<"session", s>> \in tstale' => <<"session", s>> \in tstale
         /\ UNCHANGED <<funds, feeOn, payouts, charger, dispatch, tinterrupted>>
         /\ admin'[a].pc = "idle" /\ \A b \in Admins \ {a} : admin'[b] = admin[b]
<1>1. admin[a] \in [pc : {admin[a].pc}, t : T!Transfers, read : T!Transfer]
  BY AdminShape DEF T!SaveFinalizedTransfer, T!SaveSentTransfer, HoldsTransfer, T!TypeOK
<1>2. PICK w : w = admin[a]
  OBVIOUS
<1>3. w.t \in T!Transfers /\ w.read \in T!Transfer
  BY <1>1, <1>2
<1>4. PICK doc : doc = IF w.pc = "saveFinalized"
                       THEN [w.read EXCEPT !.status = "finalized", !.amount = w.read.funds]
                       ELSE [w.read EXCEPT !.status = "transferred"]
  OBVIOUS
<1>5. /\ doc \in T!Transfer /\ doc.funds = w.read.funds
      /\ w.pc = "saveFinalized" => doc.status = "finalized" /\ doc.amount = w.read.funds
      /\ w.pc # "saveFinalized" => doc.status = "transferred" /\ doc.amount = w.read.amount
  BY <1>3, <1>4 DEF T!Transfer, T!TransferStatus
<1>6. w.pc \in {"saveFinalized", "saveSent"} /\ T!SaveTransfer(w.t, w.read, doc)
  <2>1. CASE T!SaveFinalizedTransfer(a)
    <3>1. w.pc = "saveFinalized"
      BY <1>2, <2>1 DEF T!SaveFinalizedTransfer
    <3> QED BY <1>2, <1>4, <2>1, <3>1 DEF T!SaveFinalizedTransfer
  <2>2. CASE T!SaveSentTransfer(a)
    <3>1. w.pc = "saveSent"
      BY <1>2, <2>2 DEF T!SaveSentTransfer
    <3> QED BY <1>2, <1>4, <2>2, <3>1 DEF T!SaveSentTransfer
  <2> QED BY <2>1, <2>2
<1>7. /\ transfers'[w.t] = doc
      /\ \A u \in T!Transfers \ {w.t} : transfers'[u] = transfers[u]
      /\ transfers[w.t] # w.read => <<"transfer", w.t>> \in tstale'
      /\ tstale \subseteq tstale'
      /\ \A s \in Sessions : <<"session", s>> \in tstale' => <<"session", s>> \in tstale
  BY <1>3, <1>6, TransferSaved
<1>8. /\ UNCHANGED <<funds, feeOn, payouts, charger, dispatch, tinterrupted>>
      /\ T!Become(a, T!Idle)
  BY DEF T!SaveFinalizedTransfer, T!SaveSentTransfer, T!adminRest
<1>9. admin'[a].pc = "idle" /\ \A b \in Admins \ {a} : admin'[b] = admin[b]
  BY <1>8, AdminMoves DEF T!Idle
<1> QED BY <1>2, <1>3, <1>5, <1>6, <1>7, <1>8, <1>9

\* A step of a REST user that ends by saving a transfer.
AdminSavesTransfer == \E a \in Admins : T!SaveFinalizedTransfer(a) \/ T!SaveSentTransfer(a)

\* The other steps leave the transfers alone.
LEMMA TransfersKept ==
  ASSUME T!Next \/ UNCHANGED tVars, ~ T!DispatchSavesTransfer, ~ AdminSavesTransfer
  PROVE  UNCHANGED transfers
  BY DEF tVars, AdminSavesTransfer,
      T!Next, T!SessionBilled, T!ChargerReads, T!ChargerWrites, T!DispatchCollectedFunds,
      T!GetDraftTransfer, T!MarkTransactions, T!FinalizeTransfer, T!HandleSendTransfer,
      T!BillPlatformFee, T!SendTransfer, T!OnboardAccount, T!SaveOnboardedAccount,
      T!ActivateAccount, T!Crash

\* A transfer that was stored stays stored.
LEMMA TransfersStay ==
  ASSUME T!TypeOK, T!Next \/ UNCHANGED tVars, NEW t \in T!Transfers, transfers[t] # None
  PROVE  transfers'[t] # None
<1>1. CASE T!DispatchSavesTransfer
  BY <1>1, DispatchSaves, MissingAssumption
<1>2. CASE AdminSavesTransfer
  BY <1>2, AdminSaves, MissingAssumption DEF AdminSavesTransfer
<1> QED BY <1>1, <1>2, TransfersKept

\* The step of one REST user, as seen by each of them.
LEMMA AdminSteps ==
  ASSUME T!TypeOK, T!Next \/ UNCHANGED tVars, NEW a \in Admins
  PROVE  \/ admin'[a] = admin[a]
         \/ admin'[a].pc \in {"idle", "saveAccount"}
         \/ /\ UNCHANGED <<transfers, feeOn, payouts, tstale, tinterrupted>>
            /\ \E t \in T!Transfers :
                 \/ /\ admin'[a] = [pc |-> "fee", t |-> t, read |-> transfers[t]]
                    /\ transfers[t] \in T!Transfer /\ transfers[t].status = "draft"
                 \/ /\ admin'[a] = [pc |-> "send", t |-> t, read |-> transfers[t]]
                    /\ transfers[t] \in T!Transfer /\ transfers[t].status = "finalized"
         \/ /\ admin[a].pc = "fee" /\ T!BillPlatformFee(a)
            /\ admin'[a].pc = "saveFinalized" /\ admin'[a].t = admin[a].t
            /\ admin'[a].read = admin[a].read
            /\ feeOn[admin[a].t] = None /\ feeOn' = [feeOn EXCEPT ![admin[a].t] = admin[a].read.funds]
         \/ /\ admin[a].pc = "send" /\ T!SendTransfer(a)
            /\ admin'[a].pc = "saveSent" /\ admin'[a].t = admin[a].t
            /\ admin'[a].read = admin[a].read
            /\ payouts' = [payouts EXCEPT ![admin[a].t] = @ + 1]
<1>1. ASSUME NEW b \in Admins, NEW state, T!Become(b, state), state.pc \in {"idle", "saveAccount"}
      PROVE  admin'[a] = admin[a] \/ admin'[a].pc \in {"idle", "saveAccount"}
  BY <1>1, AdminMoves
<1>2. ASSUME NEW b \in Admins, T!Become(b, T!Idle)
      PROVE  admin'[a] = admin[a] \/ admin'[a].pc \in {"idle", "saveAccount"}
  BY <1>1, <1>2 DEF T!Idle
<1>3. ASSUME UNCHANGED admin PROVE admin'[a] = admin[a]
  BY <1>3
<1>4. ASSUME NEW b \in Admins, NEW t \in T!Transfers,
             T!FinalizeTransfer(b, t) \/ T!HandleSendTransfer(b, t)
      PROVE  \/ admin'[a] = admin[a]
             \/ /\ UNCHANGED <<transfers, feeOn, payouts, tstale, tinterrupted>>
                /\ \/ /\ admin'[a] = [pc |-> "fee", t |-> t, read |-> transfers[t]]
                      /\ transfers[t] \in T!Transfer /\ transfers[t].status = "draft"
                   \/ /\ admin'[a] = [pc |-> "send", t |-> t, read |-> transfers[t]]
                      /\ transfers[t] \in T!Transfer /\ transfers[t].status = "finalized"
  <2>1. transfers[t] \in T!Transfer
    BY <1>4 DEF T!FinalizeTransfer, T!HandleSendTransfer, T!GetTransfers, T!TypeOK
  <2>2. UNCHANGED <<transfers, feeOn, payouts, tstale, tinterrupted>>
    BY <1>4 DEF T!FinalizeTransfer, T!HandleSendTransfer, T!history
  <2>3. CASE T!FinalizeTransfer(b, t)
    <3>1. /\ T!Become(b, [pc |-> "fee", t |-> t, read |-> transfers[t]])
          /\ transfers[t].status = "draft"
      BY <2>3 DEF T!FinalizeTransfer, T!GetTransfers
    <3> QED BY <2>1, <2>2, <3>1, AdminMoves
  <2>4. CASE T!HandleSendTransfer(b, t)
    <3>1. /\ T!Become(b, [pc |-> "send", t |-> t, read |-> transfers[t]])
          /\ transfers[t].status = "finalized"
      BY <2>4 DEF T!HandleSendTransfer, T!GetTransfers
    <3> QED BY <2>1, <2>2, <3>1, AdminMoves
  <2> QED BY <1>4, <2>3, <2>4
<1>5. ASSUME NEW b \in Admins, T!BillPlatformFee(b)
      PROVE  \/ admin'[a] = admin[a]
             \/ admin'[a].pc = "idle"
             \/ /\ admin[a].pc = "fee" /\ T!BillPlatformFee(a)
                /\ admin'[a].pc = "saveFinalized" /\ admin'[a].t = admin[a].t
                /\ admin'[a].read = admin[a].read
                /\ feeOn[admin[a].t] = None
                /\ feeOn' = [feeOn EXCEPT ![admin[a].t] = admin[a].read.funds]
  <2>1. admin[b].pc = "fee" /\ admin[b] \in [pc : {"fee"}, t : T!Transfers, read : T!Transfer]
    BY <1>5, AdminShape DEF T!BillPlatformFee, T!TypeOK, HoldsTransfer
  <2>2. PICK r : r = [admin[b] EXCEPT !.pc = "saveFinalized"]
    OBVIOUS
  <2>3. r.pc = "saveFinalized" /\ r.t = admin[b].t /\ r.read = admin[b].read
    BY <2>1, <2>2
  <2>4. CASE T!Become(b, T!Idle)
    BY <2>4, AdminMoves DEF T!Idle
  <2>5. CASE T!Become(b, r) /\ feeOn[admin[b].t] = None
             /\ feeOn' = [feeOn EXCEPT ![admin[b].t] = admin[b].read.funds]
    BY <1>5, <2>1, <2>3, <2>5, AdminMoves
  <2> QED BY <1>5, <2>2, <2>4, <2>5 DEF T!BillPlatformFee
<1>6. ASSUME NEW b \in Admins, T!SendTransfer(b)
      PROVE  \/ admin'[a] = admin[a]
             \/ admin'[a].pc = "idle"
             \/ /\ admin[a].pc = "send" /\ T!SendTransfer(a)
                /\ admin'[a].pc = "saveSent" /\ admin'[a].t = admin[a].t
                /\ admin'[a].read = admin[a].read
                /\ payouts' = [payouts EXCEPT ![admin[a].t] = @ + 1]
  <2>1. admin[b].pc = "send" /\ admin[b] \in [pc : {"send"}, t : T!Transfers, read : T!Transfer]
    BY <1>6, AdminShape DEF T!SendTransfer, T!TypeOK, HoldsTransfer
  <2>2. PICK r : r = [admin[b] EXCEPT !.pc = "saveSent"]
    OBVIOUS
  <2>3. r.pc = "saveSent" /\ r.t = admin[b].t /\ r.read = admin[b].read
    BY <2>1, <2>2
  <2>4. CASE T!Become(b, T!Idle)
    BY <2>4, AdminMoves DEF T!Idle
  <2>5. CASE T!Become(b, r) /\ payouts' = [payouts EXCEPT ![admin[b].t] = @ + 1]
    BY <1>6, <2>1, <2>3, <2>5, AdminMoves
  <2> QED BY <1>6, <2>2, <2>4, <2>5 DEF T!SendTransfer
<1>7. ASSUME NEW b \in Admins,
             \/ T!SaveFinalizedTransfer(b) \/ T!SaveSentTransfer(b) \/ T!OnboardAccount(b)
             \/ T!SaveOnboardedAccount(b)
      PROVE  admin'[a] = admin[a] \/ admin'[a].pc \in {"idle", "saveAccount"}
  BY <1>1, <1>2, <1>7
  DEF T!SaveFinalizedTransfer, T!SaveSentTransfer, T!OnboardAccount, T!SaveOnboardedAccount
<1>8. CASE T!Crash
  BY <1>2, <1>3, <1>8 DEF T!Crash
<1>9. CASE \/ UNCHANGED tVars
           \/ \E s \in Sessions : T!SessionBilled(s) \/ T!ChargerReads(s)
           \/ T!ChargerWrites \/ T!DispatchCollectedFunds \/ T!GetDraftTransfer
           \/ T!DispatchSavesTransfer \/ T!MarkTransactions \/ T!ActivateAccount
  BY <1>9
  DEF tVars, T!SessionBilled, T!ChargerReads, T!ChargerWrites, T!DispatchCollectedFunds,
      T!GetDraftTransfer, T!DispatchSavesTransfer, T!MarkTransactions, T!ActivateAccount,
      T!dispatchRest
<1> QED BY <1>4, <1>5, <1>6, <1>7, <1>8, <1>9 DEF T!Next

\* The step of the dispatch.
LEMMA DispatchSteps ==
  ASSUME T!TypeOK, T!Next \/ UNCHANGED tVars
  PROVE  \/ UNCHANGED dispatch
         \/ dispatch'.pc = "idle" /\ (T!MarkTransactions \/ T!Crash)
         \/ /\ dispatch.pc = "idle" /\ dispatch'.pc = "transfer" /\ dispatch'.report = T!CollectedFunds
            /\ UNCHANGED <<funds, transfers, admin, tstale, tinterrupted>>
         \/ /\ dispatch.pc = "transfer" /\ dispatch'.pc = "save" /\ dispatch'.t \in T!Transfers
            /\ dispatch'.report = dispatch.report /\ dispatch'.read = transfers[dispatch'.t]
            /\ dispatch'.read = None \/ dispatch'.read.status = "draft"
            /\ UNCHANGED <<funds, transfers, admin, tstale, tinterrupted>>
         \/ /\ dispatch.pc = "save" /\ dispatch'.pc = "mark" /\ dispatch'.report = dispatch.report
            /\ dispatch'.t = dispatch.t /\ dispatch'.read = dispatch.read
            /\ T!DispatchSavesTransfer
<1>1. CASE T!GetDraftTransfer
  <2>1. PICK t \in T!DraftTransfer :
          dispatch' = [pc |-> "save", report |-> dispatch.report, t |-> t, read |-> transfers[t]]
    BY <1>1 DEF T!GetDraftTransfer
  <2>2. t \in T!Transfers /\ (transfers[t] = None \/ transfers[t].status = "draft")
    BY DEF T!DraftTransfer, T!GetTransfers
  <2> QED BY <1>1, <2>1, <2>2 DEF T!GetDraftTransfer, T!history, T!dispatchRest
<1>2. CASE T!DispatchSavesTransfer
  <2>1. dispatch \in [pc : {"save"}, report : SUBSET Sessions, t : T!Transfers,
                      read : T!Transfer \cup {None}]
    BY <1>2, DispatchShape DEF T!DispatchSavesTransfer, T!TypeOK
  <2>2. dispatch' = [dispatch EXCEPT !.pc = "mark"]
    BY <1>2 DEF T!DispatchSavesTransfer
  <2> QED BY <1>2, <2>1, <2>2
<1>3. CASE T!DispatchCollectedFunds
  BY <1>3 DEF T!DispatchCollectedFunds, T!history, T!dispatchRest, T!Idle
<1>4. CASE T!MarkTransactions \/ T!Crash
  BY <1>4 DEF T!MarkTransactions, T!Crash, T!Idle
<1>5. CASE UNCHANGED tVars
  BY <1>5 DEF tVars
<1>6. ASSUME T!Next, ~ T!GetDraftTransfer, ~ T!DispatchSavesTransfer, ~ T!DispatchCollectedFunds,
             ~ T!MarkTransactions, ~ T!Crash
      PROVE  UNCHANGED dispatch
  BY <1>6
  DEF T!Next, T!SessionBilled, T!ChargerReads, T!ChargerWrites, T!FinalizeTransfer,
      T!HandleSendTransfer, T!BillPlatformFee, T!SaveFinalizedTransfer, T!SendTransfer,
      T!SaveSentTransfer, T!OnboardAccount, T!SaveOnboardedAccount, T!ActivateAccount, T!adminRest
<1> QED BY <1>1, <1>2, <1>3, <1>4, <1>5, <1>6

\* In every step the workers hold what ReadsAgree says.
LEMMA ReadsPreserved ==
  ASSUME T!TypeOK, ReadsAgree, T!Next \/ UNCHANGED tVars
  PROVE  ReadsAgree'
<1>1. \A t \in T!Transfers : transfers[t] # None => transfers'[t] # None
  BY TransfersStay
<1>2. /\ dispatch'.pc = "save" => dispatch'.read = None \/ dispatch'.read.status = "draft"
      /\ dispatch'.pc = "mark" => transfers'[dispatch'.t] # None
  <2>1. dispatch.pc \in {"save", "mark"} => dispatch.t \in T!Transfers
    BY DispatchShape DEF T!TypeOK
  <2>2. T!DispatchSavesTransfer => transfers'[dispatch.t] # None
    BY DispatchSaves, MissingAssumption
  <2> QED BY <1>1, <2>1, <2>2, DispatchSteps DEF ReadsAgree
<1>3. ASSUME NEW a \in Admins
      PROVE  /\ admin'[a].pc \in HoldsTransfer => transfers'[admin'[a].t] # None
             /\ admin'[a].pc \in {"fee", "saveFinalized"} => admin'[a].read.status = "draft"
             /\ admin'[a].pc \in Sends => admin'[a].read.status = "finalized"
  <2>1. admin[a].pc \in HoldsTransfer => admin[a].t \in T!Transfers
    BY AdminShape DEF T!TypeOK
  <2>2. CASE admin'[a] = admin[a]
    BY <1>1, <1>3, <2>1, <2>2 DEF ReadsAgree, HoldsTransfer, Sends
  <2>3. CASE admin'[a].pc \in {"idle", "saveAccount"}
    BY <2>3 DEF HoldsTransfer, Sends
  <2>4. ASSUME NEW t \in T!Transfers, UNCHANGED transfers, transfers[t] \in T!Transfer,
               \/ /\ admin'[a] = [pc |-> "fee", t |-> t, read |-> transfers[t]]
                  /\ transfers[t].status = "draft"
               \/ /\ admin'[a] = [pc |-> "send", t |-> t, read |-> transfers[t]]
                  /\ transfers[t].status = "finalized"
        PROVE  /\ admin'[a].pc \in HoldsTransfer => transfers'[admin'[a].t] # None
               /\ admin'[a].pc \in {"fee", "saveFinalized"} => admin'[a].read.status = "draft"
               /\ admin'[a].pc \in Sends => admin'[a].read.status = "finalized"
    BY <2>4, MissingAssumption DEF Sends
  <2>5. ASSUME admin[a].pc \in {"fee", "send"}, admin'[a].t = admin[a].t,
               admin'[a].read = admin[a].read,
               admin'[a].pc = IF admin[a].pc = "fee" THEN "saveFinalized" ELSE "saveSent"
        PROVE  /\ admin'[a].pc \in HoldsTransfer => transfers'[admin'[a].t] # None
               /\ admin'[a].pc \in {"fee", "saveFinalized"} => admin'[a].read.status = "draft"
               /\ admin'[a].pc \in Sends => admin'[a].read.status = "finalized"
    BY <1>1, <1>3, <2>1, <2>5 DEF ReadsAgree, HoldsTransfer, Sends
  <2> QED BY <2>2, <2>3, <2>4, <2>5, AdminSteps
<1> QED BY <1>2, <1>3 DEF ReadsAgree

\* What the histories remember stays remembered.
LEMMA HistoryGrows ==
  ASSUME T!TypeOK, T!Next \/ UNCHANGED tVars
  PROVE  tstale \subseteq tstale' /\ tinterrupted \subseteq tinterrupted'
<1>1. CASE T!DispatchSavesTransfer
  BY <1>1, DispatchSaves
<1>2. CASE AdminSavesTransfer
  BY <1>2, AdminSaves DEF AdminSavesTransfer
<1>3. CASE UNCHANGED tVars
  BY <1>3 DEF tVars
<1>4. ASSUME T!Next, ~ T!DispatchSavesTransfer, ~ AdminSavesTransfer
      PROVE  tstale \subseteq tstale' /\ tinterrupted \subseteq tinterrupted'
  BY <1>4
  DEF AdminSavesTransfer, T!history,
      T!Next, T!SessionBilled, T!ChargerReads, T!ChargerWrites, T!DispatchCollectedFunds,
      T!GetDraftTransfer, T!MarkTransactions, T!FinalizeTransfer, T!HandleSendTransfer,
      T!BillPlatformFee, T!SendTransfer, T!OnboardAccount, T!SaveOnboardedAccount,
      T!ActivateAccount, T!Crash
<1> QED BY <1>1, <1>2, <1>3, <1>4

\* The rank of OnlyForward.
Rank(d) == IF d = None THEN 0
           ELSE CASE d.status = "draft" -> 1 [] d.status = "finalized" -> 2 [] OTHER -> 3

LEMMA Ranks ==
  ASSUME NEW d
  PROVE  /\ d = None => Rank(d) = 0
         /\ d # None /\ d.status = "draft" => Rank(d) = 1
         /\ d # None /\ d.status = "finalized" => Rank(d) = 2
         /\ d # None /\ d.status \notin {"draft", "finalized"} => Rank(d) = 3
         /\ ~ (Rank(d) < Rank(d))
  BY DEF Rank

\* A step that makes a transfer go back writes over its document.
LEMMA ForwardStep ==
  ASSUME T!TypeOK, ReadsAgree, T!Next \/ UNCHANGED tVars, NEW t \in T!Transfers
  PROVE  Rank(transfers'[t]) < Rank(transfers[t]) => <<"transfer", t>> \in tstale'
<1>1. CASE T!DispatchSavesTransfer
  <2>1. CASE t = dispatch.t /\ transfers[t] = dispatch.read
    <3>1. dispatch.pc = "save" /\ (dispatch.read = None \/ dispatch.read.status = "draft")
      BY <1>1 DEF T!DispatchSavesTransfer, ReadsAgree
    <3>2. transfers'[t].status = "draft" /\ transfers'[t] # None
      BY <1>1, <2>1, <3>1, DispatchSaves, MissingAssumption
    <3> QED BY <2>1, <3>1, <3>2, Ranks
  <2>2. CASE t # dispatch.t
    BY <1>1, <2>2, DispatchSaves, Ranks
  <2> QED BY <1>1, <2>1, <2>2, DispatchSaves
<1>2. ASSUME NEW a \in Admins, T!SaveFinalizedTransfer(a) \/ T!SaveSentTransfer(a)
      PROVE  Rank(transfers'[t]) < Rank(transfers[t]) => <<"transfer", t>> \in tstale'
  <2>1. CASE t = admin[a].t /\ transfers[t] = admin[a].read
    <3>1. /\ admin[a].pc = "saveFinalized" => admin[a].read.status = "draft"
          /\ admin[a].pc = "saveSent" => admin[a].read.status = "finalized"
      BY DEF ReadsAgree, Sends
    <3>2. transfers'[t] # None /\ transfers[t] # None
      BY <1>2, <2>1, AdminSaves, MissingAssumption
    <3>3. \/ transfers[t].status = "draft" /\ transfers'[t].status = "finalized"
          \/ transfers[t].status = "finalized" /\ transfers'[t].status = "transferred"
      BY <1>2, <2>1, <3>1, AdminSaves
    <3> QED BY <3>2, <3>3, Ranks
  <2>2. CASE t # admin[a].t
    BY <1>2, <2>2, AdminSaves, Ranks
  <2>3. CASE t = admin[a].t /\ transfers[t] # admin[a].read
    BY <1>2, <2>3, AdminSaves
  <2> QED BY <2>1, <2>2, <2>3
<1> QED BY <1>1, <1>2, TransfersKept, Ranks DEF AdminSavesTransfer

-----------------------------------------------------------------------------
(* Transfers: the platform fees. *)

\* The fee of a transfer was billed on the funds it is finalized with, and
\* belongs to the one user who is about to save it.
FeesAgree ==
  /\ \A t \in T!Transfers :
       /\ feeOn[t] # None => transfers[t] # None
       /\ transfers[t] # None /\ transfers[t].status # "draft" =>
            /\ feeOn[t] # None /\ feeOn[t] = transfers[t].amount
            /\ transfers[t].funds = transfers[t].amount \/ <<"transfer", t>> \in tstale
  /\ \A a \in Admins :
       /\ admin[a].pc = "saveFinalized" => feeOn[admin[a].t] = admin[a].read.funds
       /\ admin[a].pc \in Sends =>
            /\ feeOn[admin[a].t] # None /\ feeOn[admin[a].t] = admin[a].read.amount
            /\ \/ admin[a].read.funds = admin[a].read.amount
               \/ <<"transfer", admin[a].t>> \in tstale

\* A fee is billed once for each transfer.
LEMMA FeeSteps ==
  ASSUME T!TypeOK, ReadsAgree, T!Next \/ UNCHANGED tVars, NEW t \in T!Transfers
  PROVE  \/ feeOn'[t] = feeOn[t]
         \/ /\ feeOn[t] = None /\ UNCHANGED <<transfers, tstale, tinterrupted>>
            /\ transfers[t] # None /\ transfers[t] = transfers'[t]
            /\ \E a \in Admins : admin'[a].pc = "saveFinalized" /\ admin'[a].t = t
<1>1. ASSUME NEW a \in Admins, T!BillPlatformFee(a), feeOn'[t] # feeOn[t]
      PROVE  /\ feeOn[t] = None /\ UNCHANGED <<transfers, tstale, tinterrupted>>
             /\ transfers[t] # None /\ transfers[t] = transfers'[t]
             /\ admin'[a].pc = "saveFinalized" /\ admin'[a].t = t
  <2>1. admin[a] \in [pc : {"fee"}, t : T!Transfers, read : T!Transfer]
    BY <1>1, AdminShape DEF T!BillPlatformFee, T!TypeOK, HoldsTransfer
  <2>2. UNCHANGED <<transfers, tstale, tinterrupted>> /\ feeOn[admin[a].t] = None
        /\ feeOn' = [feeOn EXCEPT ![admin[a].t] = admin[a].read.funds]
        /\ T!Become(a, [admin[a] EXCEPT !.pc = "saveFinalized"])
    BY <1>1 DEF T!BillPlatformFee, T!history
  <2>3. admin[a].t = t
    BY <1>1, <2>1, <2>2 DEF T!TypeOK
  <2>4. admin'[a] = [admin[a] EXCEPT !.pc = "saveFinalized"]
    BY <2>2, AdminMoves
  <2>5. admin'[a].pc = "saveFinalized" /\ admin'[a].t = t
    BY <2>1, <2>3, <2>4
  <2>6. transfers[t] # None
    BY <2>1, <2>3 DEF ReadsAgree, HoldsTransfer
  <2> QED BY <2>2, <2>3, <2>5, <2>6
<1>2. ASSUME T!Next, \A a \in Admins : ~ T!BillPlatformFee(a)
      PROVE  UNCHANGED feeOn
  BY <1>2
  DEF T!Next, T!SessionBilled, T!ChargerReads, T!ChargerWrites, T!DispatchCollectedFunds,
      T!GetDraftTransfer, T!DispatchSavesTransfer, T!MarkTransactions, T!FinalizeTransfer,
      T!HandleSendTransfer, T!SaveFinalizedTransfer, T!SaveSentTransfer, T!SendTransfer,
      T!OnboardAccount, T!SaveOnboardedAccount, T!ActivateAccount, T!Crash, T!dispatchRest
<1>3. CASE UNCHANGED tVars
  BY <1>3 DEF tVars
<1> QED BY <1>1, <1>2, <1>3

LEMMA FeesPreserved ==
  ASSUME T!TypeOK, T!TypeOK', ReadsAgree, FeesAgree, T!Next \/ UNCHANGED tVars
  PROVE  FeesAgree'
<1>1. tstale \subseteq tstale'
  BY HistoryGrows
<1>2. ASSUME NEW t \in T!Transfers, transfers'[t] # transfers[t]
      PROVE  /\ feeOn'[t] = feeOn[t]
             /\ transfers'[t].status # "draft" =>
                  /\ feeOn'[t] # None /\ feeOn'[t] = transfers'[t].amount
                  /\ transfers'[t].funds = transfers'[t].amount \/ <<"transfer", t>> \in tstale'
  <2>1. CASE T!DispatchSavesTransfer
    <3>1. t = dispatch.t /\ feeOn'[t] = feeOn[t]
      BY <1>2, <2>1, DispatchSaves
    <3>2. dispatch.pc = "save" /\ (dispatch.read = None \/ dispatch.read.status = "draft")
      BY <2>1 DEF T!DispatchSavesTransfer, ReadsAgree
    <3> QED BY <2>1, <3>1, <3>2, DispatchSaves
  <2>2. ASSUME NEW a \in Admins, T!SaveFinalizedTransfer(a) \/ T!SaveSentTransfer(a)
        PROVE  /\ feeOn'[t] = feeOn[t]
               /\ feeOn'[t] # None /\ feeOn'[t] = transfers'[t].amount
               /\ transfers'[t].funds = transfers'[t].amount \/ <<"transfer", t>> \in tstale'
    <3>1. t = admin[a].t /\ feeOn'[t] = feeOn[t]
      BY <1>2, <2>2, AdminSaves
    <3>2. CASE admin[a].pc = "saveFinalized"
      <4>1. feeOn[t] = admin[a].read.funds
        BY <3>1, <3>2 DEF FeesAgree
      <4>2. admin[a].read.funds \in [Sessions -> Nat]
        BY <2>2, AdminSaves DEF T!Transfer
      <4> QED BY <2>2, <3>1, <3>2, <4>1, <4>2, AdminSaves, MissingAssumption
    <3>3. CASE admin[a].pc = "saveSent"
      <4>1. /\ feeOn[t] # None /\ feeOn[t] = admin[a].read.amount
            /\ admin[a].read.funds = admin[a].read.amount \/ <<"transfer", t>> \in tstale
        BY <3>1, <3>3 DEF FeesAgree, Sends
      <4> QED BY <1>1, <2>2, <3>1, <3>3, <4>1, AdminSaves
    <3> QED BY <2>2, <3>2, <3>3, AdminSaves
  <2> QED BY <1>2, <2>1, <2>2, TransfersKept DEF AdminSavesTransfer
<1>3. ASSUME NEW t \in T!Transfers
      PROVE  /\ feeOn'[t] # None => transfers'[t] # None
             /\ transfers'[t] # None /\ transfers'[t].status # "draft" =>
                  /\ feeOn'[t] # None /\ feeOn'[t] = transfers'[t].amount
                  /\ transfers'[t].funds = transfers'[t].amount \/ <<"transfer", t>> \in tstale'
  <2>1. CASE transfers'[t] = transfers[t]
    BY <1>1, <2>1, FeeSteps DEF FeesAgree
  <2>2. CASE transfers'[t] # transfers[t]
    <3>1. feeOn'[t] = feeOn[t]
      BY <1>2, <2>2
    <3>2. feeOn[t] # None => transfers'[t] # None
      BY TransfersStay DEF FeesAgree
    <3> QED BY <1>2, <2>2, <3>1, <3>2
  <2> QED BY <2>1, <2>2
<1>4. ASSUME NEW a \in Admins
      PROVE  /\ admin'[a].pc = "saveFinalized" => feeOn'[admin'[a].t] = admin'[a].read.funds
             /\ admin'[a].pc \in Sends =>
                  /\ feeOn'[admin'[a].t] # None /\ feeOn'[admin'[a].t] = admin'[a].read.amount
                  /\ \/ admin'[a].read.funds = admin'[a].read.amount
                     \/ <<"transfer", admin'[a].t>> \in tstale'
  <2>1. admin[a].pc \in HoldsTransfer => admin[a].t \in T!Transfers /\ admin[a].read \in T!Transfer
    BY AdminShape DEF T!TypeOK
  <2>2. admin[a].pc \in {"saveFinalized", "send", "saveSent"} =>
          feeOn'[admin[a].t] = feeOn[admin[a].t] /\ feeOn[admin[a].t] # None
    <3>1. admin[a].pc \in {"saveFinalized", "send", "saveSent"} => feeOn[admin[a].t] # None
      <4>1. admin[a].pc = "saveFinalized" => admin[a].read.funds \in [Sessions -> Nat]
        BY <2>1 DEF T!Transfer, HoldsTransfer
      <4> QED BY <4>1, MissingAssumption DEF FeesAgree, Sends
    <3> QED BY <2>1, <3>1, FeeSteps DEF HoldsTransfer
  <2>3. CASE admin'[a] = admin[a]
    BY <1>1, <2>2, <2>3 DEF FeesAgree, Sends
  <2>4. CASE admin'[a].pc \in {"idle", "saveAccount"}
    BY <2>4 DEF Sends
  <2>5. ASSUME NEW t \in T!Transfers, UNCHANGED <<feeOn, tstale>>, transfers[t] \in T!Transfer,
               \/ admin'[a] = [pc |-> "fee", t |-> t, read |-> transfers[t]]
               \/ /\ admin'[a] = [pc |-> "send", t |-> t, read |-> transfers[t]]
                  /\ transfers[t].status = "finalized"
        PROVE  /\ admin'[a].pc = "saveFinalized" => feeOn'[admin'[a].t] = admin'[a].read.funds
               /\ admin'[a].pc \in Sends =>
                    /\ feeOn'[admin'[a].t] # None /\ feeOn'[admin'[a].t] = admin'[a].read.amount
                    /\ \/ admin'[a].read.funds = admin'[a].read.amount
                       \/ <<"transfer", admin'[a].t>> \in tstale'
    BY <2>5, MissingAssumption DEF FeesAgree, Sends
  <2>6. CASE /\ admin[a].pc = "fee" /\ admin'[a].pc = "saveFinalized" /\ admin'[a].t = admin[a].t
             /\ admin'[a].read = admin[a].read
             /\ feeOn' = [feeOn EXCEPT ![admin[a].t] = admin[a].read.funds]
    BY <2>1, <2>6 DEF Sends, HoldsTransfer, T!TypeOK
  <2>7. CASE /\ admin[a].pc = "send" /\ admin'[a].pc = "saveSent" /\ admin'[a].t = admin[a].t
             /\ admin'[a].read = admin[a].read
    BY <1>1, <2>2, <2>7 DEF FeesAgree, Sends
  <2> QED BY <2>3, <2>4, <2>5, <2>6, <2>7, AdminSteps
<1> QED BY <1>3, <1>4 DEF FeesAgree

\* How a REST user who has paid the fee, or sent the money, ends.
LEMMA AdminEnds ==
  ASSUME T!TypeOK, T!Next \/ UNCHANGED tVars, NEW a \in Admins,
         admin[a].pc \in {"saveFinalized", "saveSent"}, admin'[a] # admin[a]
  PROVE  \/ admin[a].pc = "saveFinalized" /\ T!SaveFinalizedTransfer(a)
         \/ admin[a].pc = "saveSent" /\ T!SaveSentTransfer(a)
         \/ <<"transfer", admin[a].t>> \in tinterrupted'
<1>1. ASSUME NEW b \in Admins, NEW state, T!Become(b, state) PROVE b = a
  BY <1>1, AdminMoves
<1>2. ASSUME NEW b \in Admins,
             \/ \E t \in T!Transfers : T!FinalizeTransfer(b, t) \/ T!HandleSendTransfer(b, t)
             \/ T!BillPlatformFee(b) \/ T!SendTransfer(b)
             \/ T!OnboardAccount(b) \/ T!SaveOnboardedAccount(b)
      PROVE  FALSE
  <2>1. b = a
    BY <1>1, <1>2 DEF T!FinalizeTransfer, T!HandleSendTransfer, T!BillPlatformFee, T!SendTransfer,
                      T!OnboardAccount, T!SaveOnboardedAccount
  <2>2. admin[a] # T!Idle /\ admin[a].pc \notin {"fee", "send", "saveAccount"}
    BY DEF T!Idle
  <2> QED BY <1>2, <2>1, <2>2
      DEF T!FinalizeTransfer, T!HandleSendTransfer, T!BillPlatformFee, T!SendTransfer,
          T!OnboardAccount, T!SaveOnboardedAccount
<1>3. ASSUME NEW b \in Admins, T!SaveFinalizedTransfer(b) \/ T!SaveSentTransfer(b)
      PROVE  \/ admin[a].pc = "saveFinalized" /\ T!SaveFinalizedTransfer(a)
             \/ admin[a].pc = "saveSent" /\ T!SaveSentTransfer(a)
  <2>1. b = a
    BY <1>3, AdminSaves
  <2> QED BY <1>3, <2>1 DEF T!SaveFinalizedTransfer, T!SaveSentTransfer
<1>4. ASSUME T!Crash
      PROVE  <<"transfer", admin[a].t>> \in tinterrupted'
  BY <1>1, <1>4 DEF T!Crash
<1>5. ASSUME UNCHANGED admin PROVE FALSE
  BY <1>5
<1>6. CASE \/ UNCHANGED tVars
           \/ \E s \in Sessions : T!SessionBilled(s) \/ T!ChargerReads(s)
           \/ T!ChargerWrites \/ T!DispatchCollectedFunds \/ T!GetDraftTransfer
           \/ T!DispatchSavesTransfer \/ T!MarkTransactions \/ T!ActivateAccount
  BY <1>5, <1>6
  DEF tVars, T!SessionBilled, T!ChargerReads, T!ChargerWrites, T!DispatchCollectedFunds,
      T!GetDraftTransfer, T!DispatchSavesTransfer, T!MarkTransactions, T!ActivateAccount,
      T!dispatchRest
<1> QED BY <1>2, <1>3, <1>4, <1>6 DEF T!Next

\* A fee that was paid is the fee of a finalized transfer, or about to be.
LEMMA FeePaidPreserved ==
  ASSUME T!TypeOK, T!TypeOK', ReadsAgree, FeesAgree, T!FeePaidIsFinalized,
         T!Next \/ UNCHANGED tVars
  PROVE  T!FeePaidIsFinalized'
<1> SUFFICES ASSUME NEW t \in T!Transfers, feeOn'[t] # None, transfers'[t].status = "draft",
                    <<"transfer", t>> \notin tstale' \cup tinterrupted'
             PROVE  \E a \in Admins : admin'[a].pc = "saveFinalized" /\ admin'[a].t = t
  BY DEF T!FeePaidIsFinalized
<1>1. tstale \subseteq tstale' /\ tinterrupted \subseteq tinterrupted'
  BY HistoryGrows
<1>2. CASE feeOn'[t] # feeOn[t]
  BY <1>2, FeeSteps
<1>3. CASE feeOn'[t] = feeOn[t]
  <2>1. transfers[t] # None /\ transfers'[t] # None
    BY <1>3, TransfersStay DEF FeesAgree
  <2>2. Rank(transfers'[t]) = 1 /\ ~ (Rank(transfers'[t]) < Rank(transfers[t]))
    BY <2>1, Ranks, ForwardStep
  <2>3. transfers[t].status = "draft"
    <3>1. transfers[t] \in T!Transfer
      BY <2>1 DEF T!TypeOK
    <3>2. transfers[t].status \in {"draft", "finalized", "transferred"}
      BY <3>1 DEF T!Transfer, T!TransferStatus
    <3> QED BY <2>1, <2>2, <3>2, Ranks
  <2>4. PICK a \in Admins : admin[a].pc = "saveFinalized" /\ admin[a].t = t
    BY <1>1, <1>3, <2>3 DEF T!FeePaidIsFinalized
  <2>5. ~ T!SaveFinalizedTransfer(a)
    BY <2>4, AdminSaves
  <2> QED BY <2>4, <2>5, AdminEnds
<1> QED BY <1>2, <1>3

-----------------------------------------------------------------------------
(* Transfers: the money that is sent. *)

Disturbed == {t \in T!Transfers : <<"transfer", t>> \in tstale \cup tinterrupted}

\* A finalized transfer that someone is sending is as it was when it was
\* read, or was sent by another user.
ReadsCurrent ==
  \A a \in Admins : admin[a].pc \in Sends /\ admin[a].t \notin Disturbed =>
    \/ transfers[admin[a].t] = admin[a].read
    \/ /\ transfers[admin[a].t].status = "transferred"
       /\ \E b \in Admins : b # a

\* The money of a transfer is sent once, and the user who sent it saves it,
\* unless others hold the same transfer.
MoneyAgrees ==
  \A t \in T!Transfers : t \notin Disturbed /\ payouts[t] > 0 =>
    \/ payouts[t] = 1 /\ transfers[t] # None /\ transfers[t].status = "transferred"
    \/ payouts[t] = 1 /\ \E a \in Admins : admin[a].pc = "saveSent" /\ admin[a].t = t
    \/ \E a, b \in Admins :
         /\ a # b /\ admin[a].pc = "saveSent" /\ admin[a].t = t
         /\ \/ transfers[t] # None /\ transfers[t].status = "transferred"
            \/ admin[b].pc = "saveSent" /\ admin[b].t = t

LEMMA ReadsStayCurrent ==
  ASSUME T!TypeOK, ReadsAgree, ReadsCurrent, T!Next \/ UNCHANGED tVars
  PROVE  ReadsCurrent'
<1> SUFFICES ASSUME NEW a \in Admins, admin'[a].pc \in Sends, admin'[a].t \notin Disturbed'
             PROVE  \/ transfers'[admin'[a].t] = admin'[a].read
                    \/ /\ transfers'[admin'[a].t].status = "transferred"
                       /\ \E b \in Admins : b # a
  BY DEF ReadsCurrent
<1>1. tstale \subseteq tstale' /\ tinterrupted \subseteq tinterrupted'
  BY HistoryGrows
<1>2. ASSUME NEW t \in T!Transfers, UNCHANGED transfers,
             admin'[a] = [pc |-> "send", t |-> t, read |-> transfers[t]]
      PROVE  transfers'[admin'[a].t] = admin'[a].read
  BY <1>2
<1>3. ASSUME admin[a].pc \in Sends, admin'[a].t = admin[a].t, admin'[a].read = admin[a].read
      PROVE  \/ transfers'[admin[a].t] = admin[a].read
             \/ /\ transfers'[admin[a].t].status = "transferred"
                /\ \E b \in Admins : b # a
  <2> DEFINE t == admin[a].t
  <2>1. admin[a] \in [pc : {admin[a].pc}, t : T!Transfers, read : T!Transfer]
    BY <1>3, AdminShape DEF T!TypeOK, HoldsTransfer, Sends
  <2>2. t \in T!Transfers /\ admin[a].read.status = "finalized" /\ transfers[t] # None
    BY <1>3, <2>1 DEF ReadsAgree, Sends, HoldsTransfer
  <2>3. <<"transfer", t>> \notin tstale' \cup tinterrupted'
    BY <1>3, <2>2 DEF Disturbed
  <2>4. /\ t \notin Disturbed
        /\ \/ transfers[t] = admin[a].read
           \/ transfers[t].status = "transferred" /\ \E b \in Admins : b # a
    BY <1>1, <1>3, <2>3 DEF ReadsCurrent, Disturbed
  <2>5. transfers[t].status \in {"finalized", "transferred"}
    BY <2>2, <2>4
  <2> HIDE DEF t
  <2>6. CASE T!DispatchSavesTransfer
    <3>1. t # dispatch.t
      <4>1. dispatch.read = None \/ dispatch.read.status = "draft"
        BY <2>6 DEF ReadsAgree, T!DispatchSavesTransfer
      <4> QED BY <2>2, <2>3, <2>5, <2>6, <4>1, DispatchSaves
    <3>2. transfers'[t] = transfers[t]
      BY <2>2, <2>6, <3>1, DispatchSaves
    <3> QED BY <2>4, <3>2 DEF t
  <2>7. ASSUME NEW b \in Admins, T!SaveFinalizedTransfer(b) \/ T!SaveSentTransfer(b)
        PROVE  \/ transfers'[t] = admin[a].read
               \/ transfers'[t].status = "transferred" /\ \E c \in Admins : c # a
    <3>1. CASE t # admin[b].t
      <4>1. transfers'[t] = transfers[t]
        BY <2>2, <2>7, <3>1, AdminSaves
      <4> QED BY <2>4, <4>1
    <3>2. CASE t = admin[b].t
      <4>1. transfers[t] = admin[b].read
        BY <2>3, <2>7, <3>2, AdminSaves
      <4>2. admin[b].pc = "saveSent"
        BY <2>5, <2>7, <4>1, AdminSaves DEF ReadsAgree
      <4>3. transfers'[t].status = "transferred" /\ admin'[b].pc = "idle"
        BY <2>7, <3>2, <4>2, AdminSaves
      <4>4. b # a
        BY <4>3 DEF Sends
      <4> QED BY <4>3, <4>4
    <3> QED BY <3>1, <3>2
  <2>8. CASE UNCHANGED transfers
    BY <2>4, <2>8 DEF t
  <2> QED BY <2>6, <2>7, <2>8, TransfersKept DEF AdminSavesTransfer, t
<1>4. \/ admin'[a] = admin[a]
      \/ admin[a].pc = "send" /\ admin'[a].t = admin[a].t /\ admin'[a].read = admin[a].read
      \/ \E t \in T!Transfers :
           /\ UNCHANGED transfers
           /\ admin'[a] = [pc |-> "send", t |-> t, read |-> transfers[t]]
  <2>1. ASSUME NEW t \in T!Transfers, UNCHANGED transfers,
               \/ admin'[a] = [pc |-> "fee", t |-> t, read |-> transfers[t]]
               \/ admin'[a] = [pc |-> "send", t |-> t, read |-> transfers[t]]
        PROVE  admin'[a] = [pc |-> "send", t |-> t, read |-> transfers[t]]
    BY <2>1 DEF Sends
  <2>2. admin'[a].pc \notin {"idle", "saveAccount", "saveFinalized"}
    BY DEF Sends
  <2> QED BY <2>1, <2>2, AdminSteps
<1>5. CASE admin'[a] = admin[a]
  BY <1>3, <1>5
<1>6. CASE admin[a].pc = "send" /\ admin'[a].t = admin[a].t /\ admin'[a].read = admin[a].read
  BY <1>3, <1>6 DEF Sends
<1> QED BY <1>2, <1>4, <1>5, <1>6

\* sendTransfer sends the money of one transfer, once.
LEMMA PayoutSteps ==
  ASSUME T!TypeOK, T!Next \/ UNCHANGED tVars, NEW t \in T!Transfers, payouts'[t] # payouts[t]
  PROVE  /\ payouts'[t] = payouts[t] + 1 /\ UNCHANGED <<transfers, tstale, tinterrupted>>
         /\ \E a \in Admins :
              /\ admin[a].pc = "send" /\ admin[a].t = t
              /\ admin'[a].pc = "saveSent" /\ admin'[a].t = t
              /\ \A b \in Admins \ {a} : admin'[b] = admin[b]
<1>1. ASSUME T!Next, \A a \in Admins : ~ T!SendTransfer(a)
      PROVE  UNCHANGED payouts
  BY <1>1
  DEF T!Next, T!SessionBilled, T!ChargerReads, T!ChargerWrites, T!DispatchCollectedFunds,
      T!GetDraftTransfer, T!DispatchSavesTransfer, T!MarkTransactions, T!FinalizeTransfer,
      T!HandleSendTransfer, T!SaveFinalizedTransfer, T!SaveSentTransfer, T!BillPlatformFee,
      T!OnboardAccount, T!SaveOnboardedAccount, T!ActivateAccount, T!Crash, T!dispatchRest
<1>2. ASSUME UNCHANGED tVars PROVE UNCHANGED payouts
  BY <1>2 DEF tVars
<1>3. PICK a \in Admins : T!SendTransfer(a)
  BY <1>1, <1>2
<1>4. admin[a] \in [pc : {"send"}, t : T!Transfers, read : T!Transfer]
  BY <1>3, AdminShape DEF T!SendTransfer, T!TypeOK, HoldsTransfer
<1>5. /\ payouts' = [payouts EXCEPT ![admin[a].t] = @ + 1]
      /\ T!Become(a, [admin[a] EXCEPT !.pc = "saveSent"])
      /\ UNCHANGED <<transfers, tstale, tinterrupted>>
  BY <1>3 DEF T!SendTransfer, T!history
<1>6. admin[a].t = t
  BY <1>4, <1>5 DEF T!TypeOK
<1>7. payouts'[t] = payouts[t] + 1
  BY <1>5, <1>6 DEF T!TypeOK
<1>8. /\ admin'[a] = [admin[a] EXCEPT !.pc = "saveSent"]
      /\ \A b \in Admins \ {a} : admin'[b] = admin[b]
  BY <1>5, AdminMoves
<1>9. admin'[a].pc = "saveSent" /\ admin'[a].t = t
  BY <1>4, <1>6, <1>8
<1> QED BY <1>4, <1>5, <1>6, <1>7, <1>8, <1>9

LEMMA MoneyPreserved ==
  ASSUME T!TypeOK, T!TypeOK', ReadsAgree, ReadsCurrent, MoneyAgrees, T!Next \/ UNCHANGED tVars
  PROVE  MoneyAgrees'
<1> SUFFICES ASSUME NEW t \in T!Transfers, t \notin Disturbed', payouts'[t] > 0
             PROVE  \/ /\ payouts'[t] = 1 /\ transfers'[t] # None
                       /\ transfers'[t].status = "transferred"
                    \/ payouts'[t] = 1 /\ \E a \in Admins : admin'[a].pc = "saveSent" /\ admin'[a].t = t
                    \/ \E a, b \in Admins :
                         /\ a # b /\ admin'[a].pc = "saveSent" /\ admin'[a].t = t
                         /\ \/ transfers'[t] # None /\ transfers'[t].status = "transferred"
                            \/ admin'[b].pc = "saveSent" /\ admin'[b].t = t
  BY DEF MoneyAgrees
<1>1. /\ <<"transfer", t>> \notin tstale' \cup tinterrupted' /\ t \notin Disturbed
      /\ payouts[t] \in Nat
  BY HistoryGrows DEF Disturbed, T!TypeOK
<1>2. ASSUME transfers[t] # None, transfers[t].status = "transferred"
      PROVE  transfers'[t] # None /\ transfers'[t].status = "transferred"
  <2>1. Rank(transfers[t]) = 3 /\ ~ (Rank(transfers'[t]) < Rank(transfers[t]))
    BY <1>1, <1>2, Ranks, ForwardStep
  <2>2. transfers'[t] # None
    BY <1>2, TransfersStay
  <2>3. transfers'[t].status \in {"draft", "finalized", "transferred"}
    <3>1. transfers'[t] \in T!Transfer
      BY <2>2 DEF T!TypeOK
    <3> QED BY <3>1 DEF T!Transfer, T!TransferStatus
  <2> QED BY <2>1, <2>2, <2>3, Ranks
<1>3. ASSUME NEW a \in Admins, admin[a].pc = "saveSent", admin[a].t = t
      PROVE  \/ admin'[a].pc = "saveSent" /\ admin'[a].t = t
             \/ /\ T!SaveSentTransfer(a) /\ transfers'[t] # None
                /\ transfers'[t].status = "transferred"
  <2>1. T!SaveSentTransfer(a) => transfers'[t] # None /\ transfers'[t].status = "transferred"
    BY <1>3, AdminSaves, MissingAssumption
  <2>2. admin'[a] # admin[a] => T!SaveSentTransfer(a)
    BY <1>1, <1>3, AdminEnds
  <2> QED BY <1>3, <2>1, <2>2
<1>4. CASE payouts'[t] = payouts[t]
  <2>1. CASE transfers[t] # None /\ transfers[t].status = "transferred" /\ payouts[t] = 1
    BY <1>2, <1>4, <2>1
  <2>2. ASSUME payouts[t] = 1, NEW a \in Admins, admin[a].pc = "saveSent", admin[a].t = t
        PROVE  \/ /\ payouts'[t] = 1 /\ transfers'[t] # None
                  /\ transfers'[t].status = "transferred"
               \/ payouts'[t] = 1 /\ admin'[a].pc = "saveSent" /\ admin'[a].t = t
    BY <1>3, <1>4, <2>2
  <2>3. ASSUME NEW a \in Admins, NEW b \in Admins, a # b, admin[a].pc = "saveSent", admin[a].t = t,
               \/ transfers[t] # None /\ transfers[t].status = "transferred"
               \/ admin[b].pc = "saveSent" /\ admin[b].t = t
        PROVE  \E c, d \in Admins :
                 /\ c # d /\ admin'[c].pc = "saveSent" /\ admin'[c].t = t
                 /\ \/ transfers'[t] # None /\ transfers'[t].status = "transferred"
                    \/ admin'[d].pc = "saveSent" /\ admin'[d].t = t
    <3>1. CASE T!SaveSentTransfer(a)
      <4>1. transfers[t] = admin[a].read /\ transfers'[t] # None /\ transfers'[t].status = "transferred"
        BY <1>1, <2>3, <3>1, AdminSaves, MissingAssumption
      <4>2. transfers[t].status = "finalized"
        BY <2>3, <4>1 DEF ReadsAgree, Sends
      <4>3. admin'[b] = admin[b]
        BY <2>3, <3>1, AdminSaves
      <4> QED BY <2>3, <4>1, <4>2, <4>3
    <3>2. CASE admin'[a].pc = "saveSent" /\ admin'[a].t = t
      BY <1>2, <1>3, <2>3, <3>2
    <3> QED BY <1>3, <2>3, <3>1, <3>2
  <2>4. \/ payouts[t] = 1 /\ transfers[t] # None /\ transfers[t].status = "transferred"
        \/ payouts[t] = 1 /\ \E a \in Admins : admin[a].pc = "saveSent" /\ admin[a].t = t
        \/ \E a, b \in Admins :
             /\ a # b /\ admin[a].pc = "saveSent" /\ admin[a].t = t
             /\ \/ transfers[t] # None /\ transfers[t].status = "transferred"
                \/ admin[b].pc = "saveSent" /\ admin[b].t = t
    BY <1>1, <1>4 DEF MoneyAgrees
  <2> QED BY <2>1, <2>2, <2>3, <2>4
<1>5. CASE payouts'[t] # payouts[t]
  <2>1. PICK c \in Admins : /\ admin[c].pc = "send" /\ admin[c].t = t
                            /\ admin'[c].pc = "saveSent" /\ admin'[c].t = t
                            /\ \A b \in Admins \ {c} : admin'[b] = admin[b]
    BY <1>5, PayoutSteps
  <2>2. payouts'[t] = payouts[t] + 1 /\ UNCHANGED transfers
    BY <1>5, PayoutSteps
  <2>3. CASE payouts[t] = 0
    BY <2>1, <2>2, <2>3
  <2>4. CASE transfers[t] # None /\ transfers[t].status = "transferred"
    <3>1. \/ transfers[t] = admin[c].read
          \/ \E b \in Admins : b # c
      BY <1>1, <2>1 DEF ReadsCurrent, Sends
    <3>2. admin[c].read.status = "finalized"
      BY <2>1 DEF ReadsAgree, Sends
    <3>3. PICK b \in Admins : b # c
      BY <2>4, <3>1, <3>2
    <3> QED BY <2>1, <2>2, <2>4, <3>3
  <2>5. ASSUME NEW a \in Admins, admin[a].pc = "saveSent", admin[a].t = t
        PROVE  a # c /\ admin'[a].pc = "saveSent" /\ admin'[a].t = t
    BY <2>1, <2>5
  <2>6. CASE \E a \in Admins : admin[a].pc = "saveSent" /\ admin[a].t = t
    BY <2>1, <2>5, <2>6
  <2>7. payouts[t] > 0 => \/ transfers[t] # None /\ transfers[t].status = "transferred"
                          \/ \E a \in Admins : admin[a].pc = "saveSent" /\ admin[a].t = t
    BY <1>1 DEF MoneyAgrees
  <2> QED BY <1>1, <2>3, <2>4, <2>6, <2>7
<1> QED BY <1>4, <1>5

\* What the invariants say of the money is what is asked of it.
LEMMA MoneyIsSentOnce ==
  ASSUME ReadsAgree, MoneyAgrees, T!TypeOK
  PROVE  T!SentOnce
<1> SUFFICES ASSUME NEW t \in T!Transfers, payouts[t] > 1, t \notin Disturbed
             PROVE  \E a, b \in Admins :
                      /\ a # b /\ admin[a].pc = "saveSent" /\ admin[a].t = t
                      /\ \/ admin[a].read # transfers[t]
                         \/ admin[b].pc = "saveSent" /\ admin[b].t = t
  BY DEF T!SentOnce, Disturbed
<1>1. PICK a, b \in Admins :
         /\ a # b /\ admin[a].pc = "saveSent" /\ admin[a].t = t
         /\ \/ transfers[t] # None /\ transfers[t].status = "transferred"
            \/ admin[b].pc = "saveSent" /\ admin[b].t = t
  BY DEF MoneyAgrees, T!TypeOK
<1>2. admin[a].read.status = "finalized"
  BY <1>1 DEF ReadsAgree, Sends
<1> QED BY <1>1, <1>2

-----------------------------------------------------------------------------
(* Transfers: the funds of the sessions. *)

HasFunds(t, s) == transfers[t] # None /\ (transfers[t].funds[s] > 0 \/ <<"transfer", t>> \in tstale)

\* The funds of a session are in the transfer it refers to, or is about to.
FundsAgree ==
  \A s \in Sessions :
    /\ funds[s].transfer # None => HasFunds(funds[s].transfer, s)
    /\ charger.pc = "write" /\ charger.s = s /\ charger.read.transfer # None =>
         HasFunds(charger.read.transfer, s)
    /\ dispatch.pc = "mark" /\ s \in dispatch.report => HasFunds(dispatch.t, s)

\* Funds are not taken out of a transfer.
LEMMA FundsStay ==
  ASSUME T!TypeOK, T!Next \/ UNCHANGED tVars, NEW t \in T!Transfers, NEW s \in Sessions,
         HasFunds(t, s)
  PROVE  transfers'[t] # None /\ (transfers'[t].funds[s] > 0 \/ <<"transfer", t>> \in tstale')
<1>1. transfers[t] # None /\ transfers'[t] # None /\ tstale \subseteq tstale'
  BY TransfersStay, HistoryGrows DEF HasFunds
<1>2. CASE <<"transfer", t>> \in tstale \/ UNCHANGED transfers
  BY <1>1, <1>2 DEF HasFunds
<1>3. CASE <<"transfer", t>> \notin tstale /\ T!DispatchSavesTransfer
  <2>1. transfers[t].funds[s] > 0
    BY <1>3 DEF HasFunds
  <2>2. CASE t = dispatch.t /\ transfers[t] = dispatch.read
    <3>1. transfers'[t].funds[s] = transfers[t].funds[s] + (IF s \in dispatch.report THEN 1 ELSE 0)
      BY <1>1, <1>3, <2>2, DispatchSaves
    <3>2. transfers[t].funds[s] \in Nat
      <4>1. transfers[t] \in T!Transfer
        BY <1>1 DEF T!TypeOK
      <4> QED BY <4>1 DEF T!Transfer
    <3> QED BY <1>1, <2>1, <3>1, <3>2
  <2>3. CASE t # dispatch.t
    BY <1>1, <1>3, <2>1, <2>3, DispatchSaves
  <2>4. CASE t = dispatch.t /\ transfers[t] # dispatch.read
    BY <1>1, <1>3, <2>4, DispatchSaves
  <2> QED BY <2>2, <2>3, <2>4
<1>4. ASSUME <<"transfer", t>> \notin tstale, NEW a \in Admins,
             T!SaveFinalizedTransfer(a) \/ T!SaveSentTransfer(a)
      PROVE  transfers'[t].funds[s] > 0 \/ <<"transfer", t>> \in tstale'
  <2>1. transfers[t].funds[s] > 0
    BY <1>4 DEF HasFunds
  <2>2. CASE t = admin[a].t /\ transfers[t] = admin[a].read
    BY <1>4, <2>1, <2>2, AdminSaves
  <2>3. CASE t # admin[a].t
    BY <1>4, <2>1, <2>3, AdminSaves
  <2>4. CASE t = admin[a].t /\ transfers[t] # admin[a].read
    BY <1>4, <2>4, AdminSaves
  <2> QED BY <2>2, <2>3, <2>4
<1> QED BY <1>1, <1>2, <1>3, <1>4, TransfersKept DEF AdminSavesTransfer

\* How the transfer of a session changes.
LEMMA SessionSteps ==
  ASSUME T!TypeOK, T!Next \/ UNCHANGED tVars, NEW s \in Sessions
  PROVE  \/ funds'[s].transfer = funds[s].transfer
         \/ /\ charger.pc = "write" /\ charger.s = s /\ funds'[s].transfer = charger.read.transfer
            /\ <<"session", s>> \in tstale'
         \/ T!MarkTransactions /\ s \in dispatch.report /\ funds'[s].transfer = dispatch.t
<1>1. ASSUME NEW u \in Sessions, T!SessionBilled(u) PROVE funds'[s].transfer = funds[s].transfer
  <2>1. funds' = [funds EXCEPT ![u].billed = TRUE]
    BY <1>1 DEF T!SessionBilled
  <2>2. funds[s] \in [billed : BOOLEAN, transfer : T!Transfers \cup {None}]
    BY DEF T!TypeOK
  <2>3. funds'[s] = funds[s] \/ funds'[s] = [funds[s] EXCEPT !.billed = TRUE]
    BY <2>1 DEF T!TypeOK
  <2> QED BY <2>2, <2>3
<1>2. CASE T!ChargerWrites
  <2>1. funds' = [funds EXCEPT ![charger.s] = charger.read] /\ charger.pc = "write"
        /\ (funds[charger.s] # charger.read => <<"session", charger.s>> \in tstale')
    BY <1>2 DEF T!ChargerWrites
  <2>2. CASE s = charger.s
    <3>1. funds'[s] = charger.read
      BY <2>1, <2>2 DEF T!TypeOK
    <3> QED BY <2>1, <2>2, <3>1
  <2>3. CASE s # charger.s
    BY <2>1, <2>3 DEF T!TypeOK
  <2> QED BY <2>2, <2>3
<1>3. CASE T!MarkTransactions
  <2>1. funds'[s] = IF s \in dispatch.report THEN [funds[s] EXCEPT !.transfer = dispatch.t] ELSE funds[s]
    BY <1>3 DEF T!MarkTransactions
  <2>2. funds[s] \in [billed : BOOLEAN, transfer : T!Transfers \cup {None}]
    BY DEF T!TypeOK
  <2> QED BY <1>3, <2>1, <2>2
<1>4. ASSUME T!Next, \A u \in Sessions : ~ T!SessionBilled(u), ~ T!ChargerWrites, ~ T!MarkTransactions
      PROVE  UNCHANGED funds
  BY <1>4
  DEF T!Next, T!ChargerReads, T!DispatchCollectedFunds, T!GetDraftTransfer,
      T!DispatchSavesTransfer, T!FinalizeTransfer, T!HandleSendTransfer, T!BillPlatformFee,
      T!SaveFinalizedTransfer, T!SendTransfer, T!SaveSentTransfer, T!OnboardAccount,
      T!SaveOnboardedAccount, T!ActivateAccount, T!Crash, T!adminRest
<1>5. CASE UNCHANGED tVars
  BY <1>5 DEF tVars
<1> QED BY <1>1, <1>2, <1>3, <1>4, <1>5

\* The payment of an invoice reads a session before it writes it back.
LEMMA ChargerSteps ==
  ASSUME T!TypeOK, T!Next \/ UNCHANGED tVars
  PROVE  \/ UNCHANGED charger \/ charger'.pc = "idle"
         \/ /\ charger'.pc = "write" /\ charger'.s \in Sessions /\ charger'.read = funds[charger'.s]
            /\ UNCHANGED <<funds, transfers, tstale>>
<1>1. ASSUME NEW s \in Sessions, T!ChargerReads(s)
      PROVE  /\ charger'.pc = "write" /\ charger'.s \in Sessions /\ charger'.read = funds[charger'.s]
             /\ UNCHANGED <<funds, transfers, tstale>>
  BY <1>1 DEF T!ChargerReads, T!history
<1>2. CASE T!ChargerWrites
  BY <1>2 DEF T!ChargerWrites, T!Idle
<1>3. ASSUME T!Next, \A s \in Sessions : ~ T!ChargerReads(s), ~ T!ChargerWrites
      PROVE  UNCHANGED charger
  BY <1>3
  DEF T!dispatchRest, T!adminRest,
      T!Next, T!SessionBilled, T!DispatchCollectedFunds,
      T!GetDraftTransfer, T!DispatchSavesTransfer, T!MarkTransactions, T!FinalizeTransfer,
      T!HandleSendTransfer, T!BillPlatformFee, T!SaveFinalizedTransfer, T!SendTransfer,
      T!SaveSentTransfer, T!OnboardAccount, T!SaveOnboardedAccount, T!ActivateAccount, T!Crash
<1>4. CASE UNCHANGED tVars
  BY <1>4 DEF tVars
<1> QED BY <1>1, <1>2, <1>3, <1>4

LEMMA FundsPreserved ==
  ASSUME T!TypeOK, T!TypeOK', FundsAgree, T!Next \/ UNCHANGED tVars
  PROVE  FundsAgree'
<1> SUFFICES ASSUME NEW s \in Sessions
             PROVE  /\ funds'[s].transfer # None => HasFunds(funds[s].transfer, s)'
                    /\ charger'.pc = "write" /\ charger'.s = s /\ charger'.read.transfer # None =>
                         HasFunds(charger.read.transfer, s)'
                    /\ dispatch'.pc = "mark" /\ s \in dispatch'.report => HasFunds(dispatch.t, s)'
  BY DEF FundsAgree
<1>1. ASSUME NEW t \in T!Transfers, HasFunds(t, s)
      PROVE  transfers'[t] # None /\ (transfers'[t].funds[s] > 0 \/ <<"transfer", t>> \in tstale')
  BY <1>1, FundsStay
<1>2. /\ funds[s].transfer # None => funds[s].transfer \in T!Transfers
      /\ charger.pc = "write" /\ charger.read.transfer # None => charger.read.transfer \in T!Transfers
      /\ dispatch.pc \in {"save", "mark"} => dispatch.t \in T!Transfers
  BY ChargerShape, DispatchShape DEF T!TypeOK
<1>3. funds'[s].transfer # None => HasFunds(funds[s].transfer, s)'
  <2>1. funds'[s].transfer # None => HasFunds(funds'[s].transfer, s) /\ funds'[s].transfer \in T!Transfers
    <3>1. T!MarkTransactions => dispatch.pc = "mark"
      BY DEF T!MarkTransactions
    <3>2. CASE funds'[s].transfer = funds[s].transfer
      BY <1>2, <3>2 DEF FundsAgree
    <3>3. CASE charger.pc = "write" /\ charger.s = s /\ funds'[s].transfer = charger.read.transfer
      BY <1>2, <3>3 DEF FundsAgree
    <3>4. CASE T!MarkTransactions /\ s \in dispatch.report /\ funds'[s].transfer = dispatch.t
      BY <1>2, <3>1, <3>4 DEF FundsAgree
    <3> QED BY <3>2, <3>3, <3>4, SessionSteps
  <2> QED BY <1>1, <2>1 DEF HasFunds
<1>4. charger'.pc = "write" /\ charger'.s = s /\ charger'.read.transfer # None =>
        HasFunds(charger.read.transfer, s)'
  <2>1. charger'.pc = "write" /\ charger'.s = s /\ charger'.read.transfer # None =>
          HasFunds(charger'.read.transfer, s) /\ charger'.read.transfer \in T!Transfers
    BY <1>2, ChargerSteps DEF FundsAgree
  <2> QED BY <1>1, <2>1 DEF HasFunds
<1>5. dispatch'.pc = "mark" /\ s \in dispatch'.report => HasFunds(dispatch.t, s)'
  <2>1. CASE T!DispatchSavesTransfer /\ s \in dispatch.report
    <3>1. /\ dispatch'.t = dispatch.t /\ dispatch.t \in T!Transfers /\ transfers'[dispatch.t] # None
          /\ transfers'[dispatch.t].funds[s] =
               (IF dispatch.read = None THEN 0 ELSE dispatch.read.funds[s]) + 1
          /\ dispatch.read \in T!Transfer \cup {None}
      BY <2>1, DispatchSaves, MissingAssumption
    <3>2. dispatch.read # None => dispatch.read.funds[s] \in Nat
      BY <3>1 DEF T!Transfer
    <3>3. transfers'[dispatch.t].funds[s] > 0
      BY <3>1, <3>2
    <3> QED BY <3>1, <3>3 DEF HasFunds
  <2>2. ASSUME UNCHANGED dispatch, dispatch.pc = "mark", s \in dispatch.report
        PROVE  HasFunds(dispatch.t, s)'
    <3>1. HasFunds(dispatch.t, s) /\ dispatch.t \in T!Transfers /\ dispatch'.t = dispatch.t
      BY <1>2, <2>2 DEF FundsAgree
    <3> QED BY <1>1, <3>1 DEF HasFunds
  <2> QED BY <2>1, <2>2, DispatchSteps, DispatchSaves
<1> QED BY <1>3, <1>4, <1>5

\* A session is at home in the transfer it refers to, or is about to.
Home(t, s) ==
  \/ funds[s].transfer = t
  \/ dispatch.pc = "mark" /\ s \in dispatch.report /\ dispatch.t = t

Untouched == {s \in Sessions : <<"session", s>> \notin tstale \cup tinterrupted}

\* The funds of a session are in one transfer, once, wherever it was read.
OnceAgrees ==
  \A s \in Untouched :
    /\ dispatch.pc # "idle" /\ s \in dispatch.report => funds[s].transfer = None
    /\ \A t \in T!Transfers : transfers[t] # None /\ transfers[t].funds[s] > 0 =>
         Home(t, s) /\ transfers[t].funds[s] = 1
    /\ dispatch.pc = "save" /\ dispatch.read # None /\ dispatch.read.funds[s] > 0 =>
         Home(dispatch.t, s) /\ dispatch.read.funds[s] = 1
    /\ \A a \in Admins : admin[a].pc \in HoldsTransfer /\ admin[a].read.funds[s] > 0 =>
         Home(admin[a].t, s) /\ admin[a].read.funds[s] = 1

\* The sessions refer to the transfer at the end of the dispatch.
LEMMA DispatchEnds ==
  ASSUME T!TypeOK, T!Next \/ UNCHANGED tVars, NEW s \in Untouched',
         dispatch.pc # "idle", s \in dispatch.report, dispatch'.pc = "idle"
  PROVE  T!MarkTransactions /\ dispatch.pc = "mark" /\ funds'[s].transfer = dispatch.t
<1>1. s \in Sessions /\ <<"session", s>> \notin tinterrupted'
  BY DEF Untouched
<1>2. ~ T!Crash
  BY <1>1 DEF T!Crash, T!Idle
<1>3. T!MarkTransactions
  BY <1>2, DispatchSteps
<1>4. funds'[s] = [funds[s] EXCEPT !.transfer = dispatch.t]
  BY <1>1, <1>3 DEF T!MarkTransactions
<1>5. funds[s] \in [billed : BOOLEAN, transfer : T!Transfers \cup {None}]
  BY <1>1 DEF T!TypeOK
<1> QED BY <1>3, <1>4, <1>5 DEF T!MarkTransactions

\* A session keeps its home.
LEMMA HomeStays ==
  ASSUME T!TypeOK, OnceAgrees, T!Next \/ UNCHANGED tVars, NEW s \in Untouched',
         NEW t \in T!Transfers, Home(t, s)
  PROVE  \/ funds'[s].transfer = t
         \/ dispatch'.pc = "mark" /\ s \in dispatch'.report /\ dispatch'.t = t
<1>1. s \in Sessions /\ s \in Untouched /\ <<"session", s>> \notin tstale'
  BY HistoryGrows DEF Untouched
<1>2. CASE funds[s].transfer = t
  <2>1. dispatch.pc # "idle" /\ s \in dispatch.report => funds[s].transfer = None
    BY <1>1 DEF OnceAgrees
  <2>2. t # None
    BY MissingAssumption DEF T!Transfers
  <2>3. T!MarkTransactions => dispatch.pc = "mark"
    BY DEF T!MarkTransactions
  <2> QED BY <1>1, <1>2, <2>1, <2>2, <2>3, SessionSteps
<1>3. CASE dispatch.pc = "mark" /\ s \in dispatch.report /\ dispatch.t = t
  <2>1. CASE UNCHANGED dispatch
    BY <1>3, <2>1
  <2>2. CASE dispatch'.pc = "idle"
    BY <1>3, <2>2, DispatchEnds
  <2> QED BY <1>3, <2>1, <2>2, DispatchSteps
<1> QED BY <1>2, <1>3 DEF Home

LEMMA OncePreserved ==
  ASSUME T!TypeOK, T!TypeOK', ReadsAgree, OnceAgrees, T!Next \/ UNCHANGED tVars
  PROVE  OnceAgrees'
<1> SUFFICES ASSUME NEW s \in Untouched'
             PROVE  /\ dispatch'.pc # "idle" /\ s \in dispatch'.report => funds'[s].transfer = None
                    /\ \A t \in T!Transfers : transfers'[t] # None /\ transfers'[t].funds[s] > 0 =>
                         Home(t, s)' /\ transfers'[t].funds[s] = 1
                    /\ dispatch'.pc = "save" /\ dispatch'.read # None /\ dispatch'.read.funds[s] > 0 =>
                         Home(dispatch.t, s)' /\ dispatch'.read.funds[s] = 1
                    /\ \A a \in Admins : admin'[a].pc \in HoldsTransfer /\ admin'[a].read.funds[s] > 0 =>
                         Home(admin[a].t, s)' /\ admin'[a].read.funds[s] = 1
  BY DEF OnceAgrees
<1>1. s \in Sessions /\ s \in Untouched /\ <<"session", s>> \notin tstale' \cup tinterrupted'
  BY HistoryGrows DEF Untouched
<1>2. ASSUME NEW t \in T!Transfers, Home(t, s) PROVE Home(t, s)'
  BY <1>2, HomeStays DEF Home
<1>3. /\ dispatch.pc # "idle" /\ s \in dispatch.report => funds[s].transfer = None
      /\ \A t \in T!Transfers : transfers[t] # None /\ transfers[t].funds[s] > 0 =>
           Home(t, s) /\ transfers[t].funds[s] = 1
      /\ dispatch.pc = "save" /\ dispatch.read # None /\ dispatch.read.funds[s] > 0 =>
           Home(dispatch.t, s) /\ dispatch.read.funds[s] = 1
      /\ \A a \in Admins : admin[a].pc \in HoldsTransfer /\ admin[a].read.funds[s] > 0 =>
           Home(admin[a].t, s) /\ admin[a].read.funds[s] = 1
  BY <1>1 DEF OnceAgrees
<1>4. ASSUME dispatch'.pc # "idle", s \in dispatch'.report PROVE funds'[s].transfer = None
  <2>1. CASE dispatch.pc # "idle" /\ s \in dispatch.report
    <3>1. T!MarkTransactions => dispatch'.pc = "idle"
      BY DEF T!MarkTransactions, T!Idle
    <3>2. ~ (charger.pc = "write" /\ <<"session", s>> \in tstale')
      BY <1>1
    <3> QED BY <1>1, <1>3, <1>4, <2>1, <3>1, <3>2, SessionSteps
  <2>2. CASE dispatch'.pc = "transfer" /\ dispatch'.report = T!CollectedFunds /\ UNCHANGED funds
    BY <1>4, <2>2 DEF T!CollectedFunds
  <2> QED BY <1>4, <2>1, <2>2, DispatchSteps
<1>5. ASSUME NEW t \in T!Transfers, transfers'[t] # None, transfers'[t].funds[s] > 0
      PROVE  Home(t, s)' /\ transfers'[t].funds[s] = 1
  <2>1. CASE transfers'[t] = transfers[t]
    BY <1>2, <1>3, <1>5, <2>1
  <2>2. CASE T!DispatchSavesTransfer /\ t = dispatch.t
    <3>1. /\ dispatch.pc = "save" /\ dispatch.read \in T!Transfer \cup {None}
          /\ transfers'[t].funds[s] =
               (IF dispatch.read = None THEN 0 ELSE dispatch.read.funds[s])
                 + (IF s \in dispatch.report THEN 1 ELSE 0)
          /\ dispatch'.pc = "mark" /\ dispatch'.t = dispatch.t /\ dispatch'.report = dispatch.report
      BY <1>1, <2>2, DispatchSaves
    <3>2. dispatch.read # None => dispatch.read.funds[s] \in Nat
      BY <1>1, <3>1 DEF T!Transfer
    <3>3. CASE s \in dispatch.report
      <4>1. ~ Home(t, s)
        BY <1>3, <2>2, <3>1, <3>3, MissingAssumption DEF Home, T!Transfers
      <4>2. dispatch.read # None => dispatch.read.funds[s] = 0
        BY <1>3, <2>2, <3>1, <3>2, <4>1
      <4>3. transfers'[t].funds[s] = 1
        BY <3>1, <3>3, <4>2
      <4> QED BY <2>2, <3>1, <3>3, <4>3 DEF Home
    <3>4. CASE s \notin dispatch.report
      <4>1. dispatch.read # None /\ transfers'[t].funds[s] = dispatch.read.funds[s]
        BY <1>5, <3>1, <3>2, <3>4
      <4> QED BY <1>2, <1>3, <1>5, <2>2, <3>1, <4>1
    <3> QED BY <3>3, <3>4
  <2>3. ASSUME NEW a \in Admins, T!SaveFinalizedTransfer(a) \/ T!SaveSentTransfer(a), t = admin[a].t
        PROVE  Home(t, s)' /\ transfers'[t].funds[s] = 1
    <3>1. admin[a].pc \in HoldsTransfer /\ transfers'[t].funds = admin[a].read.funds
      BY <2>3, AdminSaves DEF HoldsTransfer
    <3> QED BY <1>2, <1>3, <1>5, <2>3, <3>1
  <2> QED BY <2>1, <2>2, <2>3, DispatchSaves, AdminSaves, TransfersKept DEF AdminSavesTransfer
<1>6. ASSUME dispatch'.pc = "save", dispatch'.read # None, dispatch'.read.funds[s] > 0
      PROVE  Home(dispatch.t, s)' /\ dispatch'.read.funds[s] = 1
  <2>1. dispatch.pc \in {"save", "mark"} => dispatch.t \in T!Transfers
    BY DispatchShape DEF T!TypeOK
  <2>2. ASSUME NEW t \in T!Transfers, Home(t, s), dispatch'.t = t PROVE Home(dispatch.t, s)'
    BY <1>2, <2>2 DEF Home
  <2>3. CASE UNCHANGED dispatch
    BY <1>3, <1>6, <2>1, <2>2, <2>3
  <2>4. CASE dispatch'.t \in T!Transfers /\ dispatch'.read = transfers[dispatch'.t]
    BY <1>3, <1>6, <2>2, <2>4
  <2> QED BY <1>6, <2>3, <2>4, DispatchSteps
<1>7. ASSUME NEW a \in Admins, admin'[a].pc \in HoldsTransfer, admin'[a].read.funds[s] > 0
      PROVE  Home(admin[a].t, s)' /\ admin'[a].read.funds[s] = 1
  <2>1. admin[a].pc \in HoldsTransfer => admin[a].t \in T!Transfers
    BY AdminShape DEF T!TypeOK
  <2>2. ASSUME NEW t \in T!Transfers, Home(t, s), admin'[a].t = t PROVE Home(admin[a].t, s)'
    BY <1>2, <2>2 DEF Home
  <2>3. CASE /\ admin[a].pc \in HoldsTransfer
             /\ admin'[a].t = admin[a].t /\ admin'[a].read = admin[a].read
    BY <1>3, <1>7, <2>1, <2>2, <2>3
  <2>4. ASSUME NEW t \in T!Transfers, transfers[t] \in T!Transfer,
               admin'[a].t = t, admin'[a].read = transfers[t]
        PROVE  Home(admin[a].t, s)' /\ admin'[a].read.funds[s] = 1
    BY <1>3, <1>7, <2>2, <2>4, MissingAssumption
  <2>5. \/ /\ admin[a].pc \in HoldsTransfer
           /\ admin'[a].t = admin[a].t /\ admin'[a].read = admin[a].read
        \/ \E t \in T!Transfers : /\ transfers[t] \in T!Transfer
                                  /\ admin'[a].t = t /\ admin'[a].read = transfers[t]
    <3>1. admin'[a].pc \notin {"idle", "saveAccount"}
      BY <1>7 DEF HoldsTransfer
    <3>2. CASE admin'[a] = admin[a]
      BY <1>7, <3>2
    <3>3. CASE \E t \in T!Transfers :
                 /\ transfers[t] \in T!Transfer
                 /\ \/ admin'[a] = [pc |-> "fee", t |-> t, read |-> transfers[t]]
                    \/ admin'[a] = [pc |-> "send", t |-> t, read |-> transfers[t]]
      BY <3>3
    <3>4. CASE /\ admin[a].pc \in {"fee", "send"}
               /\ admin'[a].t = admin[a].t /\ admin'[a].read = admin[a].read
      BY <3>4 DEF HoldsTransfer
    <3> QED BY <3>1, <3>2, <3>3, <3>4, AdminSteps
  <2> QED BY <2>3, <2>4, <2>5
<1> QED BY <1>4, <1>5, <1>6, <1>7

\* What the invariants say of the funds is what is asked of them.
LEMMA FundsAreDispatchedOnce ==
  ASSUME OnceAgrees, FundsAgree, FeesAgree, T!TypeOK
  PROVE  T!DispatchedOnce /\ T!FundsInTransfer /\ T!FeeMatchesFunds
<1>1. T!DispatchedOnce
  <2> SUFFICES ASSUME NEW s \in Untouched, NEW t \in T!Transfers, NEW u \in T!Transfers,
                      transfers[t] # None, transfers[t].funds[s] > 0,
                      transfers[u] # None, transfers[u].funds[s] > 0
               PROVE  t = u /\ transfers[t].funds[s] = 1
    BY DEF T!DispatchedOnce, Untouched
  <2>1. Home(t, s) /\ Home(u, s) /\ transfers[t].funds[s] = 1
    BY DEF OnceAgrees
  <2>2. dispatch.pc = "mark" /\ s \in dispatch.report => funds[s].transfer = None
    BY DEF OnceAgrees
  <2>3. None \notin T!Transfers
    BY MissingAssumption DEF T!Transfers
  <2> QED BY <2>1, <2>2, <2>3 DEF Home
<1>2. T!FundsInTransfer
  BY DEF T!FundsInTransfer, FundsAgree, HasFunds
<1>3. T!FeeMatchesFunds
  BY DEF T!FeeMatchesFunds, FeesAgree
<1> QED BY <1>1, <1>2, <1>3

-----------------------------------------------------------------------------
(* Transfers: the theorems. *)

TransfersInv ==
  /\ T!TypeOK /\ ReadsAgree /\ ReadsCurrent
  /\ FeesAgree /\ T!FeePaidIsFinalized /\ MoneyAgrees /\ FundsAgree /\ OnceAgrees

LEMMA TransfersInit == T!Init => TransfersInv
<1> SUFFICES ASSUME T!Init PROVE TransfersInv
  OBVIOUS
<1> USE DEF T!Init
<1>1. /\ dispatch.pc = "idle" /\ charger.pc = "idle" /\ \A a \in Admins : admin[a].pc = "idle"
      /\ \A t \in T!Transfers : transfers[t] = None /\ feeOn[t] = None /\ payouts[t] = 0
      /\ \A s \in Sessions : funds[s].transfer = None
  BY DEF T!Idle
<1>2. T!TypeOK
  BY DEF T!TypeOK, T!Dispatch, T!Charger, T!Admin
<1>3. ReadsAgree /\ ReadsCurrent
  BY <1>1 DEF ReadsAgree, ReadsCurrent, HoldsTransfer, Sends
<1>4. FeesAgree /\ T!FeePaidIsFinalized /\ MoneyAgrees
  BY <1>1 DEF FeesAgree, T!FeePaidIsFinalized, MoneyAgrees, Sends
<1>5. FundsAgree /\ OnceAgrees
  BY <1>1 DEF FundsAgree, OnceAgrees, Untouched, HoldsTransfer
<1> QED BY <1>2, <1>3, <1>4, <1>5 DEF TransfersInv

LEMMA TransfersNext == TransfersInv /\ (T!Next \/ UNCHANGED tVars) => TransfersInv'
<1> SUFFICES ASSUME TransfersInv, T!Next \/ UNCHANGED tVars PROVE TransfersInv'
  OBVIOUS
<1> USE DEF TransfersInv
<1>1. T!TypeOK'
  BY TransfersType
<1> QED
  BY <1>1, ReadsPreserved, ReadsStayCurrent, FeesPreserved, FeePaidPreserved, MoneyPreserved,
     FundsPreserved, OncePreserved

\* A step of the four parts is a step of the transfers, or leaves them alone.
LEMMA TransfersMove ==
  ASSUME MCNext \/ UNCHANGED <<focus, iVars, tVars, cVars, sVars>>
  PROVE  T!Next \/ UNCHANGED tVars
  BY DEF MCNext

LEMMA TransfersInvariant == MCSpec => []TransfersInv
<1>1. MCInit => TransfersInv
  BY TransfersInit DEF MCInit
<1>2. TransfersInv /\ [MCNext]_<<focus, iVars, tVars, cVars, sVars>> => TransfersInv'
  BY TransfersNext, TransfersMove
<1> QED BY <1>1, <1>2, PTL DEF MCSpec

\* The funds of a session are dispatched to one transfer, once; the fee of a
\* transfer is that of the funds it is finalized with; its money is sent once:
\* for any number of dispatches, payments, REST users and crashes, with the
\* exceptions the parts of TransfersAgree name (writes of a stale document,
\* operations that stopped half-way, two users sending at the same time).
THEOREM TransfersAlwaysAgree == MCSpec => []TransfersAgree
<1>1. TransfersInv => TransfersAgree
  BY FundsAreDispatchedOnce, MoneyIsSentOnce DEF TransfersInv, TransfersAgree, T!TransfersAgree
<1> QED BY <1>1, TransfersInvariant, PTL

\* saveTransfer takes a transfer back to an earlier status only when it
\* writes over a change that its caller had not read.
THEOREM TransfersGoForward == MCSpec => OnlyForward
<1>1. TransfersInv /\ [MCNext]_<<focus, iVars, tVars, cVars, sVars>> =>
        [\A t \in T!Transfers :
           LET rank(d) == IF d = None THEN 0
                          ELSE CASE d.status = "draft" -> 1 [] d.status = "finalized" -> 2 [] OTHER -> 3
           IN  rank(transfers'[t]) < rank(transfers[t]) => <<"transfer", t>> \in tstale']_T!vars
  <2> SUFFICES ASSUME TransfersInv, [MCNext]_<<focus, iVars, tVars, cVars, sVars>>,
                      NEW t \in T!Transfers
               PROVE  Rank(transfers'[t]) < Rank(transfers[t]) => <<"transfer", t>> \in tstale'
    BY DEF Rank
  <2> QED BY ForwardStep, TransfersMove DEF TransfersInv
<1> QED BY <1>1, TransfersInvariant, PTL DEF MCSpec, OnlyForward, T!OnlyForward

-----------------------------------------------------------------------------
(* Customers: what the requests hold. *)

LEMMA WorkShape ==
  ASSUME NEW r \in C!Work
  PROVE  /\ r.pc \in {"idle", "sync", "force", "saveCustomer", "attach", "default", "checkDefault",
                      "detach"}
         /\ r.pc = "idle" <=> r = C!Idle
         /\ r.pc # "idle" => r \in [pc : {r.pc}, op : {"setup", "update", "force", "delete"},
                                    card : Cards \cup {None},
                                    read : C!Customers \cup {None}, customer : C!Customers \cup {None}]
  BY DEF C!Work, C!Idle

LEMMA RequestMoves ==
  ASSUME C!TypeOK, NEW w \in Workers, NEW state, C!Become(w, state)
  PROVE  work'[w] = state /\ \A v \in Workers \ {w} : work'[v] = work[v]
  BY DEF C!TypeOK, C!Become

LEMMA RequestHolds ==
  ASSUME C!TypeOK, NEW w \in Workers, work[w].pc # "idle"
  PROVE  work[w] \in [pc : {work[w].pc}, op : {"setup", "update", "force", "delete"},
                      card : Cards \cup {None},
                      read : C!Customers \cup {None}, customer : C!Customers \cup {None}]
  BY WorkShape DEF C!TypeOK

\* A request starts with the user as it is.
LEMMA BeginStep ==
  ASSUME C!TypeOK, NEW w \in Workers,
         \/ \E card \in Cards \cup {None} : C!SetupPaymentMethod(w, card)
         \/ \E card \in Cards : C!DeletePaymentMethod(w, card)
         \/ C!SyncUserAndUpdateBillingData(w) \/ C!ForceSynchronizeUser(w)
  PROVE  /\ ~gone /\ work[w].pc = "idle" /\ work'[w] \in C!Work
         /\ work'[w].pc \in {"sync", "force", "attach", "checkDefault"}
         /\ work'[w].pc = "checkDefault" => work'[w].card \in Cards
         /\ work'[w].read = user /\ work'[w].customer = user
         /\ \A v \in Workers \ {w} : work'[v] = work[v]
         /\ UNCHANGED <<user, gone, customers, created, default, attachedTo, saved, raced>>
<1> USE DEF C!Begin, C!stripe
<1>1. user \in C!Customers \cup {None}
  BY DEF C!TypeOK
<1>2. ASSUME NEW state, state.pc \in {"sync", "force", "attach", "checkDefault"},
             state \in [pc : {state.pc}, op : {"setup", "update", "force", "delete"},
                        card : Cards \cup {None},
                        read : C!Customers \cup {None}, customer : C!Customers \cup {None}],
             state.read = user, state.customer = user,
             state.pc = "checkDefault" => state.card \in Cards,
             C!Begin(w, state)
      PROVE  /\ ~gone /\ work[w].pc = "idle" /\ work'[w] \in C!Work
             /\ work'[w].pc \in {"sync", "force", "attach", "checkDefault"}
             /\ work'[w].pc = "checkDefault" => work'[w].card \in Cards
             /\ work'[w].read = user /\ work'[w].customer = user
             /\ \A v \in Workers \ {w} : work'[v] = work[v]
             /\ UNCHANGED <<user, gone, customers, created, default, attachedTo, saved, raced>>
  <2>1. state \in C!Work
    BY <1>2 DEF C!Work
  <2>2. work'[w] = state /\ \A v \in Workers \ {w} : work'[v] = work[v]
    BY <1>2, RequestMoves
  <2>3. ~gone /\ work[w].pc = "idle"
        /\ UNCHANGED <<user, gone, customers, created, default, attachedTo, saved, raced>>
    BY <1>2 DEF C!Idle
  <2> QED BY <1>2, <2>1, <2>2, <2>3
<1>3. ASSUME NEW card \in Cards \cup {None}, C!SetupPaymentMethod(w, card)
      PROVE  \E state :
               /\ state.pc \in {"sync", "force", "attach", "checkDefault"}
               /\ state \in [pc : {state.pc}, op : {"setup", "update", "force", "delete"},
                             card : Cards \cup {None},
                             read : C!Customers \cup {None}, customer : C!Customers \cup {None}]
               /\ state.read = user /\ state.customer = user
               /\ state.pc = "checkDefault" => state.card \in Cards
               /\ C!Begin(w, state)
  <2> DEFINE pc == IF user = None THEN "sync" ELSE "attach"
  <2>1. C!Begin(w, [pc |-> pc, op |-> "setup", card |-> card, read |-> user, customer |-> user])
    BY <1>3 DEF C!SetupPaymentMethod
  <2>2. pc \in {"sync", "attach"}
    OBVIOUS
  <2> HIDE DEF pc
  <2> HIDE DEF C!Begin
  <2>3. WITNESS [pc |-> pc, op |-> "setup", card |-> card, read |-> user, customer |-> user]
  <2> QED BY <1>1, <1>3, <2>1, <2>2
<1>4. ASSUME NEW pc \in {"sync", "force", "checkDefault"}, NEW op \in {"update", "force", "delete"},
             NEW card \in Cards \cup {None}, pc = "checkDefault" => card \in Cards,
             C!Begin(w, [pc |-> pc, op |-> op, card |-> card, read |-> user, customer |-> user])
      PROVE  \E state :
               /\ state.pc \in {"sync", "force", "attach", "checkDefault"}
               /\ state \in [pc : {state.pc}, op : {"setup", "update", "force", "delete"},
                             card : Cards \cup {None},
                             read : C!Customers \cup {None}, customer : C!Customers \cup {None}]
               /\ state.read = user /\ state.customer = user
               /\ state.pc = "checkDefault" => state.card \in Cards
               /\ C!Begin(w, state)
  <2> HIDE DEF C!Begin
  <2>1. WITNESS [pc |-> pc, op |-> op, card |-> card, read |-> user, customer |-> user]
  <2> QED BY <1>1, <1>4
<1>5. ASSUME NEW card \in Cards, C!DeletePaymentMethod(w, card)
      PROVE  C!Begin(w, [pc |-> "checkDefault", op |-> "delete", card |-> card, read |-> user,
                         customer |-> user])
  BY <1>5 DEF C!DeletePaymentMethod
<1>6. ASSUME C!SyncUserAndUpdateBillingData(w)
      PROVE  C!Begin(w, [pc |-> "sync", op |-> "update", card |-> None, read |-> user,
                         customer |-> user])
  BY <1>6 DEF C!SyncUserAndUpdateBillingData
<1>7. ASSUME C!ForceSynchronizeUser(w)
      PROVE  C!Begin(w, [pc |-> "force", op |-> "force", card |-> None, read |-> user,
                         customer |-> user])
  BY <1>7 DEF C!ForceSynchronizeUser
<1> HIDE DEF C!Begin
<1>8. \E state :
        /\ state.pc \in {"sync", "force", "attach", "checkDefault"}
        /\ state \in [pc : {state.pc}, op : {"setup", "update", "force", "delete"},
                      card : Cards \cup {None},
                      read : C!Customers \cup {None}, customer : C!Customers \cup {None}]
        /\ state.read = user /\ state.customer = user
        /\ state.pc = "checkDefault" => state.card \in Cards
        /\ C!Begin(w, state)
  <2>1. CASE \E card \in Cards \cup {None} : C!SetupPaymentMethod(w, card)
    BY <1>3, <2>1
  <2>2. CASE \E card \in Cards : C!DeletePaymentMethod(w, card)
    BY <1>4, <1>5, <2>2
  <2>3. CASE C!SyncUserAndUpdateBillingData(w)
    BY <1>4, <1>6, <2>3
  <2>4. CASE C!ForceSynchronizeUser(w)
    BY <1>4, <1>7, <2>4
  <2> QED BY <2>1, <2>2, <2>3, <2>4
<1> QED BY <1>2, <1>8

\* A request of a synchronization ends, goes on with the customer of the user
\* it read, or creates a customer.
LEMMA SyncStep ==
  ASSUME C!TypeOK, NEW w \in Workers, C!SynchronizeUser(w) \/ C!ForceSync(w)
  PROVE  /\ work[w].pc \in {"sync", "force"} /\ work'[w] \in C!Work
         /\ \A v \in Workers \ {w} : work'[v] = work[v]
         /\ UNCHANGED <<user, gone, default, attachedTo, saved, raced>>
         /\ \/ /\ UNCHANGED <<customers, created>>
               /\ \/ work'[w].pc = "idle"
                  \/ /\ work'[w].pc = "attach" /\ work'[w].read = work[w].read
                     /\ work'[w].customer = work[w].read
            \/ /\ created < MaxCustomers /\ created' = created + 1
               /\ customers' = customers \cup {created + 1}
               /\ work[w].read \notin customers
               /\ work'[w].pc = "saveCustomer" /\ work'[w].read = work[w].read
               /\ work'[w].customer = created + 1
<1>1. work[w].pc \in {"sync", "force"} /\ UNCHANGED <<user, gone, default, attachedTo, saved, raced>>
  BY DEF C!SynchronizeUser, C!ForceSync, C!workRest
<1>2. work[w].read \in C!Customers \cup {None}
  BY <1>1, WorkShape DEF C!TypeOK
<1>3. C!Idle \in C!Work /\ C!Idle.pc = "idle"
  BY DEF C!Work, C!Idle
<1>4. CASE C!UpdateUser(w) \/ C!Become(w, C!Idle)
  <2>1. PICK state : /\ C!Become(w, state)
                     /\ \/ state = C!Idle
                        \/ state = [work[w] EXCEPT !.pc = "attach", !.customer = work[w].read]
    BY <1>4 DEF C!UpdateUser
  <2>2. state \in C!Work /\ \/ state.pc = "idle"
                            \/ /\ state.pc = "attach" /\ state.read = work[w].read
                               /\ state.customer = work[w].read
    <3>1. CASE state = C!Idle
      BY <1>3, <3>1
    <3>2. CASE state = [work[w] EXCEPT !.pc = "attach", !.customer = work[w].read]
      BY <1>1, <1>2, <3>2, RequestHolds DEF C!Work
    <3> QED BY <2>1, <3>1, <3>2
  <2>3. work'[w] = state /\ \A v \in Workers \ {w} : work'[v] = work[v]
    BY <2>1, RequestMoves
  <2> HIDE <1>4
  <2>4. UNCHANGED <<customers, created>>
    <3>1. C!CreateCustomer(w) => state.pc = "saveCustomer"
      <4>1. ASSUME C!CreateCustomer(w)
            PROVE  work'[w] = [work[w] EXCEPT !.pc = "saveCustomer", !.customer = created + 1]
        BY <4>1, RequestMoves DEF C!CreateCustomer
      <4>2. [work[w] EXCEPT !.pc = "saveCustomer", !.customer = created + 1].pc = "saveCustomer"
        BY <1>1, RequestHolds
      <4> QED BY <2>3, <4>1, <4>2
    <3>2. C!CreateCustomer(w) \/ UNCHANGED <<customers, created>>
      BY DEF C!SynchronizeUser, C!ForceSync
    <3> QED BY <2>2, <3>1, <3>2
  <2> QED BY <1>1, <2>2, <2>3, <2>4
<1>5. CASE C!CreateCustomer(w)
  <2>1. /\ created < MaxCustomers /\ created' = created + 1
        /\ customers' = customers \cup {created + 1}
        /\ C!Become(w, [work[w] EXCEPT !.pc = "saveCustomer", !.customer = created + 1])
    BY <1>5 DEF C!CreateCustomer
  <2>2. created + 1 \in C!Customers
    BY <2>1, MaxCustomersAssumption DEF C!TypeOK, C!Customers
  <2>3. PICK state : state = [work[w] EXCEPT !.pc = "saveCustomer", !.customer = created + 1]
    OBVIOUS
  <2>4. /\ state \in C!Work /\ state.pc = "saveCustomer" /\ state.read = work[w].read
        /\ state.customer = created + 1
    BY <1>1, <2>2, <2>3, RequestHolds DEF C!Work
  <2>5. work'[w] = state /\ \A v \in Workers \ {w} : work'[v] = work[v]
    BY <2>1, <2>3, RequestMoves
  <2>6. CASE work[w].read \notin customers
    BY <1>1, <2>1, <2>4, <2>5, <2>6
  <2>7. CASE work[w].read \in customers
    <3>1. work[w].read # None
      <4>1. customers \subseteq 1 .. created /\ created \in Nat
        BY DEF C!TypeOK
      <4>2. work[w].read \in 1 .. created
        BY <2>7, <4>1
      <4> QED BY <4>1, <4>2, MissingAssumption
    <3>2. FALSE
      <4>1. CASE C!SynchronizeUser(w)
        <5>1. C!UpdateUser(w) \/ C!Become(w, C!Idle)
          BY <3>1, <4>1 DEF C!SynchronizeUser
        <5>2. UNCHANGED created
          BY <3>1, <4>1 DEF C!SynchronizeUser
        <5> QED BY <2>1, <5>2 DEF C!TypeOK
      <4>2. CASE C!ForceSync(w)
        <5>1. UNCHANGED created
          BY <2>7, <3>1, <4>2 DEF C!ForceSync, C!Exists
        <5> QED BY <2>1, <5>1 DEF C!TypeOK
      <4> QED BY <4>1, <4>2
    <3> QED BY <3>2
  <2> QED BY <2>6, <2>7
<1> QED BY <1>4, <1>5 DEF C!SynchronizeUser, C!ForceSync

LEMMA SaveStep ==
  ASSUME C!TypeOK, NEW w \in Workers, C!SaveUserBillingData(w)
  PROVE  /\ work[w].pc = "saveCustomer" /\ work'[w] \in C!Work
         /\ \A v \in Workers \ {w} : work'[v] = work[v]
         /\ user' = IF gone THEN user ELSE work[w].customer
         /\ raced' = (raced \/ user # work[w].read \/ gone)
         /\ UNCHANGED <<gone, customers, created, default, attachedTo, saved>>
         /\ \/ work'[w].pc = "idle"
            \/ /\ work'[w].pc = "attach" /\ work'[w].read = work[w].read
               /\ work'[w].customer = work[w].customer
<1>1. PICK state : /\ C!Become(w, state)
                   /\ state = C!Idle \/ state = [work[w] EXCEPT !.pc = "attach"]
  BY DEF C!SaveUserBillingData
<1>2. work[w].pc = "saveCustomer"
  BY DEF C!SaveUserBillingData
<1>3. state \in C!Work /\ \/ state.pc = "idle"
                          \/ /\ state.pc = "attach" /\ state.read = work[w].read
                             /\ state.customer = work[w].customer
  <2>1. CASE state = C!Idle
    BY <2>1 DEF C!Work, C!Idle
  <2>2. CASE state = [work[w] EXCEPT !.pc = "attach"]
    BY <1>2, <2>2, RequestHolds DEF C!Work
  <2> QED BY <1>1, <2>1, <2>2
<1>4. work'[w] = state /\ \A v \in Workers \ {w} : work'[v] = work[v]
  BY <1>1, RequestMoves
<1>5. /\ user' = IF gone THEN user ELSE work[w].customer
      /\ raced' = (raced \/ user # work[w].read \/ gone)
      /\ UNCHANGED <<gone, customers, created, default, attachedTo, saved>>
  BY DEF C!SaveUserBillingData, C!stripe
<1> QED BY <1>2, <1>3, <1>4, <1>5

LEMMA AttachStep ==
  ASSUME C!TypeOK, NEW w \in Workers, C!AttachPaymentMethod(w)
  PROVE  /\ work[w].pc = "attach" /\ work'[w] \in C!Work
         /\ \A v \in Workers \ {w} : work'[v] = work[v]
         /\ attachedTo' \in [Cards -> C!Customers \cup {None}]
         /\ UNCHANGED <<user, gone, customers, created, default, saved, raced>>
         /\ \/ work'[w].pc = "idle"
            \/ /\ work'[w].pc = "default" /\ work'[w].read = work[w].read
               /\ work'[w].customer = work[w].customer /\ work'[w].card \in Cards
<1>1. work[w].pc = "attach" /\ UNCHANGED <<user, gone, customers, created, default, saved, raced>>
  BY DEF C!AttachPaymentMethod
<1>2. /\ work[w].card \in Cards \cup {None} /\ work[w].customer \in C!Customers \cup {None}
  BY <1>1, WorkShape DEF C!TypeOK
<1>3. PICK k, c : k = work[w].card /\ c = work[w].customer
  OBVIOUS
<1>4. CASE k # None /\ C!Exists(c) /\ attachedTo[k] \in {None, c}
  <2>1. /\ attachedTo' = [attachedTo EXCEPT ![k] = c]
        /\ C!Become(w, [work[w] EXCEPT !.pc = "default"])
    BY <1>3, <1>4 DEF C!AttachPaymentMethod
  <2>2. PICK state : state = [work[w] EXCEPT !.pc = "default"]
    OBVIOUS
  <2>3. /\ state \in C!Work /\ state.pc = "default" /\ state.read = work[w].read
        /\ state.customer = work[w].customer /\ state.card = k
    BY <1>1, <1>3, <2>2, RequestHolds DEF C!Work
  <2>4. work'[w] = state /\ \A v \in Workers \ {w} : work'[v] = work[v]
    BY <2>1, <2>2, RequestMoves
  <2>5. attachedTo' \in [Cards -> C!Customers \cup {None}]
    BY <1>2, <1>3, <2>1 DEF C!TypeOK
  <2> QED BY <1>1, <1>2, <1>3, <1>4, <2>3, <2>4, <2>5
<1>5. CASE ~ (k # None /\ C!Exists(c) /\ attachedTo[k] \in {None, c})
  <2>1. attachedTo' = attachedTo /\ C!Become(w, C!Idle)
    BY <1>3, <1>5 DEF C!AttachPaymentMethod
  <2>2. C!Idle \in C!Work /\ C!Idle.pc = "idle"
    BY DEF C!Work, C!Idle
  <2>3. work'[w] = C!Idle /\ \A v \in Workers \ {w} : work'[v] = work[v]
    BY <2>1, RequestMoves
  <2> QED BY <1>1, <2>1, <2>2, <2>3 DEF C!TypeOK
<1> QED BY <1>4, <1>5

LEMMA CheckStep ==
  ASSUME C!TypeOK, NEW w \in Workers, C!CheckDefault(w)
  PROVE  /\ work[w].pc = "checkDefault" /\ work'[w] \in C!Work
         /\ \A v \in Workers \ {w} : work'[v] = work[v]
         /\ UNCHANGED <<user, gone, customers, created, default, attachedTo, saved, raced>>
         /\ \/ work'[w].pc = "idle"
            \/ /\ work'[w].pc = "detach" /\ work'[w].read = work[w].read
               /\ work'[w].customer = work[w].customer /\ work'[w].card = work[w].card
               /\ work[w].customer \in customers /\ default[work[w].customer] # work[w].card
<1>1. /\ work[w].pc = "checkDefault"
      /\ UNCHANGED <<user, gone, customers, created, default, attachedTo, saved, raced>>
  BY DEF C!CheckDefault, C!stripe
<1>2. PICK state : /\ C!Become(w, state)
                   /\ \/ state = C!Idle
                      \/ /\ state = [work[w] EXCEPT !.pc = "detach"]
                         /\ C!Exists(work[w].customer) /\ default[work[w].customer] # work[w].card
  BY DEF C!CheckDefault
<1>3. work'[w] = state /\ \A v \in Workers \ {w} : work'[v] = work[v]
  BY <1>2, RequestMoves
<1>4. CASE state = C!Idle
  <2>1. C!Idle \in C!Work /\ C!Idle.pc = "idle"
    BY DEF C!Work, C!Idle
  <2> QED BY <1>1, <1>3, <1>4, <2>1
<1>5. CASE state # C!Idle
  <2>1. /\ state \in C!Work /\ state.pc = "detach" /\ state.read = work[w].read
        /\ state.customer = work[w].customer /\ state.card = work[w].card
    BY <1>1, <1>2, <1>5, RequestHolds DEF C!Work
  <2> QED BY <1>1, <1>2, <1>3, <1>5, <2>1 DEF C!Exists
<1> QED BY <1>4, <1>5

\* The steps that end a request.
LEMMA EndStep ==
  ASSUME C!TypeOK, NEW w \in Workers, C!SetDefault(w) \/ C!DetachPaymentMethod(w) \/ C!RequestFails(w)
  PROVE  /\ work[w].pc # "idle" /\ work'[w] = C!Idle /\ work'[w] \in C!Work /\ work'[w].pc = "idle"
         /\ \A v \in Workers \ {w} : work'[v] = work[v]
         /\ UNCHANGED <<user, gone, customers, created>>
<1>1. C!Become(w, C!Idle)
  BY DEF C!SetDefault, C!DetachPaymentMethod, C!RequestFails
<1>2. C!Idle \in C!Work /\ C!Idle.pc = "idle"
  BY DEF C!Work, C!Idle
<1>3. work[w].pc # "idle"
  <2>1. work[w] \in C!Work
    BY DEF C!TypeOK
  <2> QED BY <2>1, WorkShape DEF C!SetDefault, C!DetachPaymentMethod, C!RequestFails
<1>4. UNCHANGED <<user, gone, customers, created>>
  BY DEF C!SetDefault, C!DetachPaymentMethod, C!RequestFails, C!stripe
<1> QED BY <1>1, <1>2, <1>3, <1>4, RequestMoves

\* Every step keeps the types.
LEMMA CustomersType ==
  ASSUME C!TypeOK, C!Next \/ UNCHANGED cVars
  PROVE  C!TypeOK'
<1>1. ASSUME NEW w \in Workers, work'[w] \in C!Work, \A v \in Workers \ {w} : work'[v] = work[v],
             NEW state, C!Become(w, state)
      PROVE  work' \in [Workers -> C!Work]
  <2>1. work' = [work EXCEPT ![w] = state] /\ work'[w] = state
    BY <1>1, RequestMoves DEF C!Become
  <2> QED BY <1>1, <2>1 DEF C!TypeOK
<1>2. ASSUME NEW w \in Workers,
             \/ \E card \in Cards \cup {None} : C!SetupPaymentMethod(w, card)
             \/ \E card \in Cards : C!DeletePaymentMethod(w, card)
             \/ C!SyncUserAndUpdateBillingData(w) \/ C!ForceSynchronizeUser(w)
      PROVE  C!TypeOK'
  <2>1. \E state : C!Become(w, state)
    BY <1>2 DEF C!SetupPaymentMethod, C!DeletePaymentMethod, C!SyncUserAndUpdateBillingData,
                C!ForceSynchronizeUser, C!Begin
  <2>2. work' \in [Workers -> C!Work]
    BY <1>1, <1>2, <2>1, BeginStep
  <2> QED BY <1>2, <2>2, BeginStep DEF C!TypeOK
<1>3. ASSUME NEW w \in Workers, C!SynchronizeUser(w) \/ C!ForceSync(w) PROVE C!TypeOK'
  <2>1. \E state : C!Become(w, state)
    BY <1>3 DEF C!SynchronizeUser, C!ForceSync, C!CreateCustomer, C!UpdateUser
  <2>2. work' \in [Workers -> C!Work]
    BY <1>1, <1>3, <2>1, SyncStep
  <2>3. /\ created' \in Nat /\ created' <= MaxCustomers /\ customers' \subseteq 1 .. created'
    <3>1. customers \subseteq 1 .. created /\ created \in Nat /\ created <= MaxCustomers
      BY DEF C!TypeOK
    <3>2. \/ UNCHANGED <<customers, created>>
          \/ /\ created < MaxCustomers /\ created' = created + 1
             /\ customers' = customers \cup {created + 1}
      BY <1>3, SyncStep
    <3>3. CASE customers' = customers /\ created' = created
      BY <3>1, <3>3
    <3>4. CASE created < MaxCustomers /\ created' = created + 1 /\ customers' = customers \cup {created + 1}
      <4>1. 1 .. created \subseteq 1 .. created + 1 /\ created + 1 \in 1 .. created + 1
        BY <3>1
      <4>2. created + 1 <= MaxCustomers /\ created + 1 \in Nat
        BY <3>1, <3>4, MaxCustomersAssumption
      <4>3. customers \cup {created + 1} \subseteq 1 .. created + 1
        BY <3>1, <4>1
      <4> QED BY <3>4, <4>2, <4>3
    <3> QED BY <3>2, <3>3, <3>4
  <2>4. UNCHANGED <<user, gone, default, attachedTo, saved, raced>>
    BY <1>3, SyncStep
  <2> QED BY <2>2, <2>3, <2>4 DEF C!TypeOK
<1>4. ASSUME NEW w \in Workers, C!SaveUserBillingData(w) PROVE C!TypeOK'
  <2>1. \E state : C!Become(w, state)
    BY <1>4 DEF C!SaveUserBillingData
  <2>2. work' \in [Workers -> C!Work]
    BY <1>1, <1>4, <2>1, SaveStep
  <2>3. work[w].customer \in C!Customers \cup {None}
    BY <1>4, SaveStep, RequestHolds
  <2>4. user' \in C!Customers \cup {None} /\ raced' \in BOOLEAN
        /\ UNCHANGED <<gone, customers, created, default, attachedTo, saved>>
    BY <1>4, <2>3, SaveStep DEF C!TypeOK
  <2> QED BY <2>2, <2>4 DEF C!TypeOK
<1>5. ASSUME NEW w \in Workers, C!AttachPaymentMethod(w) PROVE C!TypeOK'
  <2>1. \E state : C!Become(w, state)
    BY <1>5 DEF C!AttachPaymentMethod
  <2>2. work' \in [Workers -> C!Work]
    BY <1>1, <1>5, <2>1, AttachStep
  <2> QED BY <1>5, <2>2, AttachStep DEF C!TypeOK
<1>6. ASSUME NEW w \in Workers, C!CheckDefault(w) PROVE C!TypeOK'
  <2>1. \E state : C!Become(w, state)
    BY <1>6 DEF C!CheckDefault
  <2>2. work' \in [Workers -> C!Work]
    BY <1>1, <1>6, <2>1, CheckStep
  <2> QED BY <1>6, <2>2, CheckStep DEF C!TypeOK
<1>7. ASSUME NEW w \in Workers, C!SetDefault(w) \/ C!DetachPaymentMethod(w) \/ C!RequestFails(w)
      PROVE  C!TypeOK'
  <2>1. \E state : C!Become(w, state)
    BY <1>7 DEF C!SetDefault, C!DetachPaymentMethod, C!RequestFails
  <2>2. work' \in [Workers -> C!Work]
    BY <1>1, <1>7, <2>1, EndStep
  <2>3. work[w].card \in Cards \cup {None}
    BY <1>7, EndStep, RequestHolds
  <2>4. /\ default' \in [C!Customers -> Cards \cup {None}]
        /\ attachedTo' \in [Cards -> C!Customers \cup {None}]
        /\ saved' \in BOOLEAN /\ raced' \in BOOLEAN
    BY <1>7, <2>3 DEF C!SetDefault, C!DetachPaymentMethod, C!RequestFails, C!stripe, C!TypeOK
  <2> QED BY <1>7, <2>2, <2>4, EndStep DEF C!TypeOK
<1>8. CASE C!DeleteUser
  BY <1>8 DEF C!DeleteUser, C!stripe, C!TypeOK
<1>9. CASE C!CustomerDeleted
  <2>1. /\ default' \in [C!Customers -> Cards \cup {None}]
        /\ attachedTo' \in [Cards -> C!Customers \cup {None}]
    BY <1>9 DEF C!CustomerDeleted, C!TypeOK
  <2>2. /\ customers' \subseteq 1 .. created /\ saved' \in BOOLEAN /\ raced' \in BOOLEAN
        /\ UNCHANGED <<user, gone, created, work>>
    BY <1>9 DEF C!CustomerDeleted, C!TypeOK
  <2> QED BY <2>1, <2>2 DEF C!TypeOK
<1>10. CASE UNCHANGED cVars
  BY <1>10 DEF cVars, C!TypeOK
<1> QED BY <1>2, <1>3, <1>4, <1>5, <1>6, <1>7, <1>8, <1>9, <1>10 DEF C!Next

-----------------------------------------------------------------------------
(* Customers: which of them the user refers to. *)

\* The customers a request holds were created, and the one it is about to
\* save is held by nobody else.
CustomersApart ==
  /\ user # None => user \in 1 .. created
  /\ \A w \in Workers : work[w].pc # "idle" =>
       /\ work[w].read # None => work[w].read \in 1 .. created
       /\ work[w].customer # None => work[w].customer \in 1 .. created
  /\ \A v \in Workers : work[v].pc = "saveCustomer" =>
       /\ work[v].customer # None /\ work[v].customer # user
       /\ work[v].read \notin customers
       /\ \A w \in Workers : work[w].pc # "idle" =>
            /\ work[w].read # work[v].customer
            /\ w # v => work[w].customer # work[v].customer

\* The action of a request, with the one it is of.
RequestStep(w) ==
  \/ \E card \in Cards \cup {None} : C!SetupPaymentMethod(w, card)
  \/ \E card \in Cards : C!DeletePaymentMethod(w, card)
  \/ C!SyncUserAndUpdateBillingData(w) \/ C!ForceSynchronizeUser(w)

LEMMA CustomerSteps ==
  ASSUME C!Next \/ UNCHANGED cVars
  PROVE  \/ \E w \in Workers :
              \/ RequestStep(w) \/ C!SynchronizeUser(w) \/ C!ForceSync(w)
              \/ C!SaveUserBillingData(w) \/ C!AttachPaymentMethod(w) \/ C!CheckDefault(w)
              \/ C!SetDefault(w) \/ C!DetachPaymentMethod(w) \/ C!RequestFails(w)
         \/ C!DeleteUser \/ C!CustomerDeleted \/ UNCHANGED cVars
  BY DEF C!Next, RequestStep

LEMMA ApartPreserved ==
  ASSUME C!TypeOK, CustomersApart, C!Next \/ UNCHANGED cVars
  PROVE  CustomersApart'
<1> USE DEF CustomersApart
<1>0. customers \subseteq 1 .. created /\ created \in Nat /\ None \notin Nat
  BY MissingAssumption DEF C!TypeOK
<1>1. ASSUME NEW w \in Workers, RequestStep(w) PROVE CustomersApart'
  <2>1. /\ work[w].pc = "idle" /\ work'[w].pc \in {"sync", "force", "attach", "checkDefault"}
        /\ work'[w].read = user /\ work'[w].customer = user
        /\ \A v \in Workers \ {w} : work'[v] = work[v]
        /\ UNCHANGED <<user, customers, created>>
    BY <1>1, BeginStep DEF RequestStep
  <2> QED BY <2>1
<1>2. ASSUME NEW w \in Workers, C!SynchronizeUser(w) \/ C!ForceSync(w) PROVE CustomersApart'
  <2>1. /\ work[w].pc \in {"sync", "force"} /\ user' = user
        /\ \A v \in Workers \ {w} : work'[v] = work[v]
    BY <1>2, SyncStep
  <2>2. CASE /\ UNCHANGED <<customers, created>>
             /\ \/ work'[w].pc = "idle"
                \/ /\ work'[w].pc = "attach" /\ work'[w].read = work[w].read
                   /\ work'[w].customer = work[w].read
    BY <2>1, <2>2
  <2>3. CASE /\ created' = created + 1 /\ customers' = customers \cup {created + 1}
             /\ work[w].read \notin customers
             /\ work'[w].pc = "saveCustomer" /\ work'[w].read = work[w].read
             /\ work'[w].customer = created + 1
    <3>1. /\ 1 .. created \subseteq 1 .. created' /\ created + 1 \in 1 .. created'
          /\ created + 1 \notin 1 .. created /\ created + 1 # None
      BY <1>0, <2>3
    <3>2. user # created + 1 /\ work[w].read # created + 1
          /\ \A v \in Workers : work[v].pc # "idle" =>
               work[v].read # created + 1 /\ work[v].customer # created + 1
      BY <2>1, <3>1
    <3>3. /\ user' # None => user' \in 1 .. created'
          /\ \A v \in Workers : work'[v].pc # "idle" =>
               /\ work'[v].read # None => work'[v].read \in 1 .. created'
               /\ work'[v].customer # None => work'[v].customer \in 1 .. created'
      BY <2>1, <2>3, <3>1
    <3>4. ASSUME NEW v \in Workers, work'[v].pc = "saveCustomer"
          PROVE  /\ work'[v].customer # None /\ work'[v].customer # user'
                 /\ work'[v].read \notin customers'
                 /\ \A u \in Workers : work'[u].pc # "idle" =>
                      /\ work'[u].read # work'[v].customer
                      /\ u # v => work'[u].customer # work'[v].customer
      <4>1. CASE v = w
        BY <2>1, <2>3, <3>1, <3>2, <4>1
      <4>2. CASE v # w
        BY <2>1, <2>3, <3>1, <3>2, <3>4, <4>2
      <4> QED BY <4>1, <4>2
    <3> QED BY <3>3, <3>4
  <2> QED BY <1>2, <2>2, <2>3, SyncStep
<1>3. ASSUME NEW w \in Workers, C!SaveUserBillingData(w) PROVE CustomersApart'
  <2>1. /\ work[w].pc = "saveCustomer" /\ \A v \in Workers \ {w} : work'[v] = work[v]
        /\ user' = user \/ user' = work[w].customer
        /\ UNCHANGED <<customers, created>>
        /\ \/ work'[w].pc = "idle"
           \/ /\ work'[w].pc = "attach" /\ work'[w].read = work[w].read
              /\ work'[w].customer = work[w].customer
    BY <1>3, SaveStep
  <2> QED BY <2>1
<1>4. ASSUME NEW w \in Workers, C!AttachPaymentMethod(w) \/ C!CheckDefault(w) PROVE CustomersApart'
  <2>1. /\ work[w].pc \in {"attach", "checkDefault"} /\ \A v \in Workers \ {w} : work'[v] = work[v]
        /\ UNCHANGED <<user, customers, created>>
        /\ \/ work'[w].pc = "idle"
           \/ /\ work'[w].pc \in {"default", "detach"} /\ work'[w].read = work[w].read
              /\ work'[w].customer = work[w].customer
    BY <1>4, AttachStep, CheckStep
  <2> QED BY <2>1
<1>5. ASSUME NEW w \in Workers, C!SetDefault(w) \/ C!DetachPaymentMethod(w) \/ C!RequestFails(w)
      PROVE  CustomersApart'
  <2>1. /\ work'[w].pc = "idle" /\ \A v \in Workers \ {w} : work'[v] = work[v]
        /\ UNCHANGED <<user, customers, created>>
    BY <1>5, EndStep
  <2> QED BY <2>1
<1>6. CASE C!DeleteUser
  <2>1. user' = None /\ UNCHANGED <<customers, created, work>>
    BY <1>6 DEF C!DeleteUser, C!stripe
  <2> QED BY <2>1
<1>7. CASE C!CustomerDeleted
  <2>1. customers' \subseteq customers /\ UNCHANGED <<user, created, work>>
    BY <1>7 DEF C!CustomerDeleted
  <2> QED BY <2>1
<1>8. CASE UNCHANGED cVars
  <2>1. UNCHANGED <<user, customers, created, work>>
    BY <1>8 DEF cVars
  <2> QED BY <2>1
<1> QED BY <1>1, <1>2, <1>3, <1>4, <1>5, <1>6, <1>7, <1>8, CustomerSteps

\* The customers of Stripe that no request is about to save.
Live == {c \in customers : \A w \in Workers : work[w].pc = "saveCustomer" => work[w].customer # c}

\* Unless requests raced, there is one at most, and the user refers to it.
LiveAgree ==
  /\ gone => user = None
  /\ ~raced => /\ \A c, d \in Live : c = d
               /\ ~gone => Live \subseteq {user}

LEMMA LivePreserved ==
  ASSUME C!TypeOK, CustomersApart, LiveAgree, C!Next \/ UNCHANGED cVars
  PROVE  LiveAgree'
<1>0. customers \subseteq 1 .. created /\ created \in Nat /\ None \notin Nat
  BY MissingAssumption DEF C!TypeOK
<1>1. ASSUME UNCHANGED <<user, gone>>, raced => raced', Live' \subseteq Live
      PROVE  LiveAgree'
  BY <1>1 DEF LiveAgree
<1>2. ASSUME NEW w \in Workers, \A v \in Workers \ {w} : work'[v] = work[v],
             work[w].pc # "saveCustomer", UNCHANGED customers
      PROVE  Live' \subseteq Live
  BY <1>2 DEF Live
<1>3. ASSUME NEW w \in Workers, RequestStep(w) PROVE LiveAgree'
  BY <1>1, <1>2, <1>3, BeginStep DEF RequestStep
<1>4. ASSUME NEW w \in Workers, C!SynchronizeUser(w) \/ C!ForceSync(w) PROVE LiveAgree'
  <2>1. /\ work[w].pc \in {"sync", "force"} /\ UNCHANGED <<user, gone, raced>>
        /\ \A v \in Workers \ {w} : work'[v] = work[v]
        /\ \/ UNCHANGED customers
           \/ /\ customers' = customers \cup {created + 1}
              /\ work'[w].pc = "saveCustomer" /\ work'[w].customer = created + 1
    BY <1>4, SyncStep
  <2>2. Live' \subseteq Live
    BY <2>1 DEF Live
  <2> QED BY <1>1, <2>1, <2>2
<1>5. ASSUME NEW w \in Workers, C!SaveUserBillingData(w) PROVE LiveAgree'
  <2>1. /\ work[w].pc = "saveCustomer" /\ \A v \in Workers \ {w} : work'[v] = work[v]
        /\ user' = IF gone THEN user ELSE work[w].customer
        /\ raced' = (raced \/ user # work[w].read \/ gone)
        /\ UNCHANGED <<gone, customers>>
    BY <1>5, SaveStep
  <2>2. CASE raced'
    BY <2>1, <2>2 DEF LiveAgree
  <2>3. CASE ~raced'
    <3>1. ~raced /\ ~gone /\ user = work[w].read
      BY <2>1, <2>3
    <3>2. user \notin customers
      BY <2>1, <3>1 DEF CustomersApart
    <3>3. Live = {}
      BY <3>1, <3>2 DEF LiveAgree, Live
    <3>4. Live' \subseteq {work[w].customer}
      BY <2>1, <3>3 DEF Live
    <3> QED BY <2>1, <3>1, <3>4 DEF LiveAgree
  <2> QED BY <2>2, <2>3
<1>6. ASSUME NEW w \in Workers, C!AttachPaymentMethod(w) \/ C!CheckDefault(w) PROVE LiveAgree'
  <2>1. /\ work[w].pc # "saveCustomer" /\ \A v \in Workers \ {w} : work'[v] = work[v]
        /\ UNCHANGED <<user, gone, customers, raced>>
    BY <1>6, AttachStep, CheckStep
  <2> QED BY <1>1, <1>2, <2>1
<1>7. ASSUME NEW w \in Workers, C!SetDefault(w) \/ C!DetachPaymentMethod(w) \/ C!RequestFails(w)
      PROVE  LiveAgree'
  <2>1. UNCHANGED <<user, gone, customers>> /\ \A v \in Workers \ {w} : work'[v] = work[v]
    BY <1>7, EndStep
  <2>2. (raced => raced') /\ (work[w].pc = "saveCustomer" => raced')
    <3>1. CASE C!SetDefault(w)
      <4>1. work[w].pc = "default" /\ (raced => raced')
        BY <3>1 DEF C!SetDefault
      <4> QED BY <4>1
    <3>2. CASE C!DetachPaymentMethod(w)
      <4>1. work[w].pc = "detach" /\ raced' = raced
        BY <3>2 DEF C!DetachPaymentMethod
      <4> QED BY <4>1
    <3>3. CASE C!RequestFails(w)
      BY <3>3 DEF C!RequestFails
    <3> QED BY <1>7, <3>1, <3>2, <3>3
  <2>3. CASE raced'
    BY <2>1, <2>3 DEF LiveAgree
  <2> QED BY <1>1, <1>2, <2>1, <2>2, <2>3
<1>8. CASE C!DeleteUser
  BY <1>8 DEF C!DeleteUser, C!stripe, LiveAgree, Live
<1>9. CASE C!CustomerDeleted
  <2>1. customers' \subseteq customers /\ UNCHANGED <<user, gone, work>> /\ (raced => raced')
    BY <1>9 DEF C!CustomerDeleted
  <2>2. Live' \subseteq Live
    BY <2>1 DEF Live
  <2> QED BY <1>1, <2>1, <2>2
<1>10. CASE UNCHANGED cVars
  BY <1>10 DEF cVars, LiveAgree, Live
<1> QED BY <1>3, <1>4, <1>5, <1>6, <1>7, <1>8, <1>9, <1>10, CustomerSteps

\* Once a card was set up the customer of the user has a default card, which
\* is none of those that are being detached.
CardsAgree ==
  /\ \A w \in Workers : work[w].pc \in {"default", "checkDefault", "detach"} => work[w].card \in Cards
  /\ saved /\ ~gone /\ ~raced =>
       /\ user \in customers /\ default[user] # None
       /\ \A w \in Workers : work[w].pc = "detach" => default[user] # work[w].card

LEMMA CardsPreserved ==
  ASSUME C!TypeOK, CustomersApart, LiveAgree, CardsAgree, C!Next \/ UNCHANGED cVars
  PROVE  CardsAgree'
<1>0. /\ customers \subseteq 1 .. created /\ created \in Nat /\ None \notin Nat \cup Cards
      /\ customers \subseteq C!Customers /\ default \in [C!Customers -> Cards \cup {None}]
  <2>1. customers \subseteq 1 .. created /\ created \in Nat /\ created <= MaxCustomers
    BY DEF C!TypeOK
  <2>2. 1 .. created \subseteq C!Customers
    BY <2>1, MaxCustomersAssumption DEF C!Customers
  <2> QED BY <2>1, <2>2, MissingAssumption DEF C!TypeOK
<1>1. ASSUME UNCHANGED <<user, gone, saved, default>>, customers \subseteq customers',
             raced => raced', NEW w \in Workers, \A v \in Workers \ {w} : work'[v] = work[v],
             work'[w].pc \notin {"default", "checkDefault", "detach"}
      PROVE  CardsAgree'
  BY <1>1 DEF CardsAgree
<1>2. ASSUME NEW w \in Workers, RequestStep(w) PROVE CardsAgree'
  <2>1. /\ ~gone /\ work'[w].pc \in {"sync", "force", "attach", "checkDefault"}
        /\ work'[w].pc = "checkDefault" => work'[w].card \in Cards
        /\ \A v \in Workers \ {w} : work'[v] = work[v]
        /\ UNCHANGED <<user, gone, customers, default, saved, raced>>
    BY <1>2, BeginStep DEF RequestStep
  <2> QED BY <2>1 DEF CardsAgree
<1>3. ASSUME NEW w \in Workers, C!SynchronizeUser(w) \/ C!ForceSync(w) PROVE CardsAgree'
  <2>1. /\ UNCHANGED <<user, gone, saved, default, raced>> /\ customers \subseteq customers'
        /\ \A v \in Workers \ {w} : work'[v] = work[v]
        /\ work'[w].pc \notin {"default", "checkDefault", "detach"}
    BY <1>3, SyncStep
  <2> QED BY <1>1, <2>1
<1>4. ASSUME NEW w \in Workers, C!SaveUserBillingData(w) PROVE CardsAgree'
  <2>1. /\ work[w].pc = "saveCustomer" /\ \A v \in Workers \ {w} : work'[v] = work[v]
        /\ raced' = (raced \/ user # work[w].read \/ gone)
        /\ UNCHANGED <<gone, customers, saved>> /\ work'[w].pc \in {"idle", "attach"}
    BY <1>4, SaveStep
  <2>2. work[w].read \notin customers
    BY <2>1 DEF CustomersApart
  <2>3. ~ (saved' /\ ~gone' /\ ~raced')
    BY <2>1, <2>2 DEF CardsAgree
  <2> QED BY <2>1, <2>3 DEF CardsAgree
<1>5. ASSUME NEW w \in Workers, C!AttachPaymentMethod(w) PROVE CardsAgree'
  <2>1. /\ \A v \in Workers \ {w} : work'[v] = work[v]
        /\ UNCHANGED <<user, gone, customers, default, saved, raced>>
        /\ \/ work'[w].pc = "idle"
           \/ work'[w].pc = "default" /\ work'[w].card \in Cards
    BY <1>5, AttachStep
  <2> QED BY <2>1 DEF CardsAgree
\* A customer that is neither to be saved nor unknown is the one of the user.
<1>6. ASSUME NEW w \in Workers, work[w].pc \notin {"idle", "saveCustomer"},
             work[w].customer \in customers, ~gone, ~raced
      PROVE  work[w].customer = user
  BY <1>6 DEF CustomersApart, LiveAgree, Live
<1>7. ASSUME NEW w \in Workers, C!CheckDefault(w) PROVE CardsAgree'
  <2>1. /\ work[w].pc = "checkDefault" /\ \A v \in Workers \ {w} : work'[v] = work[v]
        /\ UNCHANGED <<user, gone, customers, default, saved, raced>>
    BY <1>7, CheckStep
  <2>2. \/ work'[w].pc = "idle"
        \/ /\ work'[w].pc = "detach" /\ work'[w].card = work[w].card
           /\ work[w].customer \in customers /\ default[work[w].customer] # work[w].card
    BY <1>7, CheckStep
  <2>3. CASE work'[w].pc = "idle"
    BY <2>1, <2>3 DEF CardsAgree
  <2>4. CASE /\ work'[w].pc = "detach" /\ work'[w].card = work[w].card
             /\ work[w].customer \in customers /\ default[work[w].customer] # work[w].card
    <3>1. ~gone /\ ~raced => default[user] # work[w].card
      BY <1>6, <2>1, <2>4
    <3> QED BY <2>1, <2>4, <3>1 DEF CardsAgree
  <2> QED BY <2>2, <2>3, <2>4
<1>8. ASSUME NEW w \in Workers, C!SetDefault(w) PROVE CardsAgree'
  <2>1. /\ work'[w].pc = "idle" /\ \A v \in Workers \ {w} : work'[v] = work[v]
        /\ UNCHANGED <<user, gone, customers>>
    BY <1>8, EndStep
  <2>2. PICK k, c : k = work[w].card /\ c = work[w].customer
    OBVIOUS
  <2>3. work[w].pc = "default" /\ k \in Cards
    BY <1>8, <2>2 DEF C!SetDefault, CardsAgree
  <2>4. \A v \in Workers : work'[v].pc \in {"default", "checkDefault", "detach"} =>
          work'[v].card \in Cards
    BY <2>1 DEF CardsAgree
  <2>5. (raced => raced') /\ \A v \in Workers : work[v].pc = "detach" /\ work[v].card = k => raced'
    BY <1>8, <2>2 DEF C!SetDefault
  <2>6. CASE C!Exists(c) /\ attachedTo[k] = c
    <3>1. c \in customers /\ default' = [default EXCEPT ![c] = k]
      BY <1>8, <2>2, <2>6 DEF C!SetDefault, C!Exists
    <3>2. ~gone /\ ~raced => c = user
      BY <1>6, <2>2, <2>3, <3>1
    <3>3. ~gone /\ ~raced => user \in customers /\ default'[user] = k
      BY <1>0, <3>1, <3>2
    <3>4. k # None
      BY <1>0, <2>3
    <3> QED BY <2>1, <2>4, <2>5, <3>3, <3>4 DEF CardsAgree
  <2>7. CASE ~ (C!Exists(c) /\ attachedTo[k] = c)
    <3>1. default' = default
      BY <1>8, <2>2, <2>7 DEF C!SetDefault
    <3>2. saved' => saved
      BY <1>8, <2>2, <2>7 DEF C!SetDefault
    <3> QED BY <2>1, <2>4, <2>5, <3>1, <3>2 DEF CardsAgree
  <2> QED BY <2>6, <2>7
<1>9. ASSUME NEW w \in Workers, C!DetachPaymentMethod(w) PROVE CardsAgree'
  <2>1. /\ work'[w].pc = "idle" /\ \A v \in Workers \ {w} : work'[v] = work[v]
        /\ UNCHANGED <<user, gone, customers>>
    BY <1>9, EndStep
  <2>2. work[w].pc = "detach" /\ UNCHANGED <<saved, raced>>
        /\ default' = [c \in C!Customers |-> IF default[c] = work[w].card THEN None ELSE default[c]]
    BY <1>9 DEF C!DetachPaymentMethod
  <2>3. saved /\ ~gone /\ ~raced => /\ user \in customers /\ default'[user] = default[user]
                                    /\ default[user] # None
    BY <1>0, <2>2 DEF CardsAgree
  <2> QED BY <2>1, <2>2, <2>3 DEF CardsAgree
<1>10. ASSUME NEW w \in Workers, C!RequestFails(w) PROVE CardsAgree'
  <2>1. /\ work'[w].pc = "idle" /\ \A v \in Workers \ {w} : work'[v] = work[v]
        /\ UNCHANGED <<user, gone, customers>>
    BY <1>10, EndStep
  <2>2. (raced => raced') /\ UNCHANGED <<default, saved>>
    BY <1>10 DEF C!RequestFails, C!stripe
  <2> QED BY <1>1, <2>1, <2>2
<1>11. CASE C!DeleteUser
  <2>1. gone' /\ work' = work
    BY <1>11 DEF C!DeleteUser
  <2> QED BY <2>1 DEF CardsAgree
<1>12. CASE C!CustomerDeleted
  <2>1. ~saved' /\ work' = work
    BY <1>12 DEF C!CustomerDeleted
  <2> QED BY <2>1 DEF CardsAgree
<1>13. CASE UNCHANGED cVars
  BY <1>13 DEF cVars, CardsAgree
<1> QED BY <1>2, <1>3, <1>4, <1>5, <1>7, <1>8, <1>9, <1>10, <1>11, <1>12, <1>13, CustomerSteps

-----------------------------------------------------------------------------
(* Customers: the theorem. *)

CustomersInv == C!TypeOK /\ CustomersApart /\ LiveAgree /\ CardsAgree

LEMMA CustomersInvariant == MCSpec => []CustomersInv
<1>1. C!Init => CustomersInv
  <2> SUFFICES ASSUME C!Init PROVE CustomersInv
    OBVIOUS
  <2>1. /\ user = None /\ gone = FALSE /\ customers = {} /\ created = 0 /\ saved = FALSE /\ raced = FALSE
        /\ \A w \in Workers : work[w].pc = "idle"
    BY DEF C!Init, C!Idle
  <2>2. C!TypeOK
    <3>1. created \in Nat /\ created <= MaxCustomers /\ customers \subseteq 1 .. created
      BY <2>1, MaxCustomersAssumption
    <3> QED BY <2>1, <3>1 DEF C!Init, C!TypeOK, C!Work
  <2> QED BY <2>1, <2>2 DEF CustomersInv, CustomersApart, LiveAgree, Live, CardsAgree
<1>2. CustomersInv /\ [MCNext]_<<focus, iVars, tVars, cVars, sVars>> => CustomersInv'
  <2>1. [MCNext]_<<focus, iVars, tVars, cVars, sVars>> => C!Next \/ UNCHANGED cVars
    BY DEF MCNext
  <2> QED BY <2>1, CustomersType, ApartPreserved, LivePreserved, CardsPreserved DEF CustomersInv
<1> QED BY <1>1, <1>2, PTL DEF MCSpec, MCInit

\* The user has one customer at Stripe, unless requests raced or one is still
\* about to save the customer it created, and once a card was set up the
\* customer of the user keeps a default card: for any number of requests,
\* cards, repairs and deletions (createBillingUser, attachPaymentMethod,
\* detachStripePaymentMethod).
THEOREM CustomersCanPay == MCSpec => []CustomerCanPay
<1>1. ASSUME CustomersInv PROVE C!OneCustomer
  BY <1>1 DEF C!OneCustomer, CustomersInv, LiveAgree, Live
<1>2. ASSUME CustomersInv PROVE C!PaymentMethodStays
  <2> SUFFICES ASSUME saved, ~gone, ~raced PROVE C!Exists(user) /\ default[user] # None
    BY DEF C!PaymentMethodStays
  <2>1. user \in customers /\ default[user] # None
    BY <1>2 DEF CustomersInv, CardsAgree
  <2>2. user # None
    <3>1. customers \subseteq 1 .. created /\ created \in Nat
      BY <1>2 DEF CustomersInv, C!TypeOK
    <3>2. user \in 1 .. created
      BY <2>1, <3>1
    <3> QED BY <3>1, <3>2, MissingAssumption
  <2> QED BY <2>1, <2>2 DEF C!Exists
<1>3. CustomersInv => CustomerCanPay
  BY <1>1, <1>2 DEF CustomerCanPay, C!CustomerCanPay, CustomersInv
<1> QED BY <1>3, CustomersInvariant, PTL

-----------------------------------------------------------------------------
(* Charging plans: the values. *)

Profile == [tx : Nat, limit : 0 .. MaxAmps]
Profiles == [tx : Profile, user : Profile]
Entry == [s : S!Stations, tx : Nat \ {0}, limit : 0 .. MaxAmps]
Request == [s : S!Stations, purpose : {"tx", "user"}, st : {"clear", "delete", "save"}]
Run == [st : {"apply", "save"}, retry : BOOLEAN, excluded : SUBSET S!Stations, queue : SUBSET Entry,
        entry : Entry \cup {S!NoProfile}, failed : BOOLEAN, clean : BOOLEAN]

PlansTypeOK ==
  /\ session \in [S!Stations -> Nat]
  /\ charging \subseteq S!Stations
  /\ atStation \in [S!Stations -> Profiles] /\ stored \in [S!Stations -> Profiles]
  /\ run \in [S!Areas -> Run \cup {S!Idle}]
  /\ ops \subseteq Request
  /\ asset \in {0, 1}
  /\ pcount \in [session : Nat, run : Nat, event : Nat]
  /\ tainted \subseteq S!Stations
  /\ settled \in BOOLEAN

\* A run has profiles of sessions that have begun; one that is saved, or set
\* again, is one of them.
NumberedRun(r, last) ==
  r.st # "idle" =>
    /\ \A e \in r.queue : e.tx <= last
    /\ r.entry # S!NoProfile => r.entry \in r.queue
    /\ r.st = "save" => r.entry # S!NoProfile

\* A station has a profile of its session, or none; the database has one of
\* the session or of an earlier one.
Numbered ==
  /\ \A s \in S!Stations :
       /\ session[s] <= pcount.session /\ stored[s].tx.tx <= pcount.session
       /\ s \in charging => session[s] # 0
       /\ atStation[s].tx # S!NoProfile => session[s] # 0 /\ atStation[s].tx.tx = session[s]
  /\ \A area \in S!Areas : NumberedRun(run[area], pcount.session)

PlansShape == PlansTypeOK /\ Numbered

\* The cars that charge stay within the fuses when what is queued is set:
\* those of the excluded stations take what they can.
Fits(queue, excluded, cars, amps, profiles) ==
  \E plan \in [S!Stations -> Nat] :
    /\ plan["b"] + amps <= Capacity["sub"] /\ plan["a"] + plan["b"] + amps <= Capacity["root"]
    /\ \A s \in cars :
         /\ s \in excluded => plan[s] >= MaxAmps
         /\ s \notin excluded =>
              /\ \A e \in queue : e.s = s => e.limit = plan[s]
              /\ (\A e \in queue : e.s # s) =>
                   profiles[s].tx # S!NoProfile /\ profiles[s].tx.limit = plan[s]

-----------------------------------------------------------------------------
LEMMA RunFacts ==
  ASSUME NEW r \in Run \cup {S!Idle}
  PROVE  /\ r.st \in {"idle", "apply", "save"}
         /\ r.st = "idle" => r = S!Idle
         /\ r.st # "idle" => r \in Run
  BY DEF Run, S!Idle

\* Runs that know of a change no longer have the plan of the site.
LEMMA OutdatedRuns ==
  ASSUME PlansTypeOK
  PROVE  /\ S!Outdated(run) \in [S!Areas -> Run \cup {S!Idle}]
         /\ \A area \in S!Areas :
              /\ S!Outdated(run)[area].st = run[area].st
              /\ run[area].st # "idle" =>
                   /\ S!Outdated(run)[area].queue = run[area].queue
                   /\ S!Outdated(run)[area].entry = run[area].entry
                   /\ S!Outdated(run)[area].excluded = run[area].excluded
                   /\ S!Outdated(run)[area].clean = FALSE
              /\ NumberedRun(run[area], pcount.session) =>
                   NumberedRun(S!Outdated(run)[area], pcount.session)
<1>1. ASSUME NEW area \in S!Areas
      PROVE  /\ S!Outdated(run)[area] \in Run \cup {S!Idle}
             /\ S!Outdated(run)[area].st = run[area].st
             /\ run[area].st # "idle" =>
                   /\ S!Outdated(run)[area].queue = run[area].queue
                   /\ S!Outdated(run)[area].entry = run[area].entry
                   /\ S!Outdated(run)[area].excluded = run[area].excluded
                   /\ S!Outdated(run)[area].clean = FALSE
             /\ NumberedRun(run[area], pcount.session) =>
                  NumberedRun(S!Outdated(run)[area], pcount.session)
  <2>1. run[area] \in Run \cup {S!Idle}
    BY <1>1 DEF PlansTypeOK
  <2>2. CASE run[area].st = "idle"
    <3>1. S!Outdated(run)[area] = S!Idle
      BY <1>1, <2>2 DEF S!Outdated
    <3> QED BY <2>1, <2>2, <3>1 DEF S!Idle, NumberedRun
  <2>3. CASE run[area].st # "idle"
    <3>1. S!Outdated(run)[area] = [run[area] EXCEPT !.clean = FALSE]
      BY <1>1, <2>3 DEF S!Outdated
    <3>2. PICK r \in Run : r = run[area]
      BY <2>1, <2>3, RunFacts
    <3>3. [r EXCEPT !.clean = FALSE] \in Run
      BY <3>2 DEF Run
    <3>4. /\ [r EXCEPT !.clean = FALSE].st = r.st /\ [r EXCEPT !.clean = FALSE].queue = r.queue
          /\ [r EXCEPT !.clean = FALSE].entry = r.entry /\ [r EXCEPT !.clean = FALSE].excluded = r.excluded
          /\ [r EXCEPT !.clean = FALSE].clean = FALSE
      BY <3>2 DEF Run
    <3> QED BY <3>1, <3>2, <3>3, <3>4 DEF NumberedRun
  <2> QED BY <2>2, <2>3
<1>2. S!Outdated(run) = [area \in S!Areas |-> S!Outdated(run)[area]]
  BY DEF S!Outdated
<1> QED BY <1>1, <1>2

\* A plan of the optimizer fits, with what the excluded stations take.
LEMMA PlanFits ==
  ASSUME PlansShape, NEW excluded \in SUBSET S!Stations, NEW plan \in S!Plans(excluded),
         S!Possible(excluded), NEW queue,
         queue \subseteq S!BuildChargingProfilesFromOptimizerResponse(plan),
         \A e \in S!BuildChargingProfilesFromOptimizerResponse(plan) \ queue :
            atStation[e.s].tx = S!ProfileOf(e)
  PROVE  Fits(queue, excluded, charging, asset, atStation)
<1> DEFINE full == [s \in S!Stations |-> IF s \in charging
                                         THEN IF s \in excluded THEN MaxAmps ELSE plan[s]
                                         ELSE 0]
           out == [s \in charging \cap excluded |-> MaxAmps]
<1>1. charging \subseteq S!Stations /\ asset \in Nat /\ MaxAmps \in Nat
  BY AmpsAssumption DEF PlansShape, PlansTypeOK
<1>2. plan \in [charging \ excluded -> 0 .. MaxAmps]
  BY DEF S!Plans
<1>3. full \in [S!Stations -> Nat]
  <2>1. ASSUME NEW s \in S!Stations PROVE full[s] \in Nat
    <3>1. s \in charging \ excluded => plan[s] \in 0 .. MaxAmps
      BY <1>2
    <3> QED BY <1>1, <2>1, <3>1
  <2> QED BY <2>1
<1>4. ASSUME NEW area \in S!Areas
      PROVE  asset + S!PlanSum(plan, area) + S!PlanSum(out, area) <= Capacity[area]
  <2>1. Capacity[area] \in Nat
    BY <1>4, AmpsAssumption
  <2>2. S!ExcludedAmperage(area, excluded) = asset + S!PlanSum(out, area)
    BY DEF S!ExcludedAmperage
  <2>3. S!PlanSum(out, area) \in Nat
    BY <1>1, <1>4 DEF S!PlanSum, S!Areas
  <2>4. S!PlanSum(plan, area) \in Nat
    <3>1. \A s \in DOMAIN plan : plan[s] \in Nat
      BY <1>1, <1>2
    <3> QED BY <3>1, <1>4 DEF S!PlanSum, S!Areas
  <2>5. S!ExcludedAmperage(area, excluded) <= Capacity[area]
    BY <1>4 DEF S!Possible
  <2>6. S!PlanSum(plan, area) <= S!RootFuse(area, excluded)
    BY <1>4 DEF S!Plans
  <2>7. S!RootFuse(area, excluded) = Capacity[area] - S!ExcludedAmperage(area, excluded)
    BY <1>1, <2>1, <2>2, <2>3, <2>5 DEF S!RootFuse
  <2> HIDE DEF out
  <2> QED BY <1>1, <2>1, <2>2, <2>3, <2>4, <2>5, <2>6, <2>7
<1>5. ASSUME NEW s \in S!Stations
      PROVE  full[s] = (IF s \in DOMAIN plan THEN plan[s] ELSE 0) + (IF s \in DOMAIN out THEN out[s] ELSE 0)
  <2>1. s \in charging \ excluded => plan[s] \in Nat
    BY <1>1, <1>2
  <2>2. DOMAIN plan = charging \ excluded /\ DOMAIN out = charging \cap excluded
    BY <1>2
  <2> QED BY <1>1, <1>5, <2>1, <2>2
<1>6. /\ \A s \in S!Stations : (IF s \in DOMAIN plan THEN plan[s] ELSE 0) \in Nat
      /\ \A s \in S!Stations : (IF s \in DOMAIN out THEN out[s] ELSE 0) \in Nat
  BY <1>1, <1>2
<1>7. full["b"] + asset <= Capacity["sub"] /\ full["a"] + full["b"] + asset <= Capacity["root"]
  <2>1. PICK pa, pb, oa, ob :
          /\ pa = (IF "a" \in DOMAIN plan THEN plan["a"] ELSE 0)
          /\ pb = (IF "b" \in DOMAIN plan THEN plan["b"] ELSE 0)
          /\ oa = (IF "a" \in DOMAIN out THEN out["a"] ELSE 0)
          /\ ob = (IF "b" \in DOMAIN out THEN out["b"] ELSE 0)
    OBVIOUS
  <2>2. "a" \in S!Stations /\ "b" \in S!Stations /\ "root" \in S!Areas /\ "sub" \in S!Areas
    BY DEF S!Stations, S!Areas
  <2>3. /\ S!PlanSum(plan, "sub") = pb /\ S!PlanSum(out, "sub") = ob
        /\ S!PlanSum(plan, "root") = pa + pb /\ S!PlanSum(out, "root") = oa + ob
    BY <2>1 DEF S!PlanSum
  <2>4. full["a"] = pa + oa /\ full["b"] = pb + ob
    BY <1>5, <2>1, <2>2
  <2>5. pa \in Nat /\ pb \in Nat /\ oa \in Nat /\ ob \in Nat
    BY <1>6, <2>1, <2>2
  <2>6. /\ asset + S!PlanSum(plan, "sub") + S!PlanSum(out, "sub") <= Capacity["sub"]
        /\ asset + S!PlanSum(plan, "root") + S!PlanSum(out, "root") <= Capacity["root"]
    BY <1>4, <2>2
  <2>7. Capacity["sub"] \in Nat /\ Capacity["root"] \in Nat
    BY <2>2, AmpsAssumption
  <2> HIDE DEF full, out
  <2> QED BY <1>1, <2>3, <2>4, <2>5, <2>6, <2>7
<1>8. ASSUME NEW s \in charging
      PROVE  /\ s \in excluded => full[s] >= MaxAmps
             /\ s \notin excluded =>
                  /\ \A e \in queue : e.s = s => e.limit = full[s]
                  /\ (\A e \in queue : e.s # s) =>
                       atStation[s].tx # S!NoProfile /\ atStation[s].tx.limit = full[s]
  <2>1. s \in S!Stations
    BY <1>1, <1>8
  <2>2. s \in excluded => full[s] >= MaxAmps
    BY <1>1, <1>8, <2>1
  <2>3. ASSUME s \notin excluded PROVE full[s] = plan[s] /\ s \in DOMAIN plan
    BY <1>2, <1>8, <2>1, <2>3
  <2>4. ASSUME s \notin excluded, NEW e \in queue, e.s = s PROVE e.limit = full[s]
    <3>1. PICK x \in DOMAIN plan : e = [s |-> x, tx |-> session[x], limit |-> plan[x]]
      BY <2>4 DEF S!BuildChargingProfilesFromOptimizerResponse
    <3> QED BY <2>3, <2>4, <3>1
  <2>5. ASSUME s \notin excluded, \A e \in queue : e.s # s
        PROVE  atStation[s].tx # S!NoProfile /\ atStation[s].tx.limit = full[s]
    <3> DEFINE e == [s |-> s, tx |-> session[s], limit |-> plan[s]]
    <3>1. e \in S!BuildChargingProfilesFromOptimizerResponse(plan) /\ e \notin queue
      BY <2>3, <2>5 DEF S!BuildChargingProfilesFromOptimizerResponse
    <3>2. atStation[s].tx = [tx |-> session[s], limit |-> plan[s]]
      BY <3>1 DEF S!ProfileOf
    <3>3. session[s] # 0
      BY <1>8, <2>1 DEF PlansShape, Numbered
    <3> QED BY <2>3, <2>5, <3>2, <3>3 DEF S!NoProfile
  <2> QED BY <2>2, <2>4, <2>5
<1> HIDE DEF full
<1> QED BY <1>3, <1>7, <1>8 DEF Fits
-----------------------------------------------------------------------------
(* Charging plans: what the steps do. *)

LEMMA CountedFacts ==
  ASSUME PlansTypeOK, NEW kind \in {"session", "run", "event"}, NEW max, S!Counted(kind, max)
  PROVE  /\ pcount' \in [session : Nat, run : Nat, event : Nat]
         /\ kind = "session" => pcount'.session = pcount.session + 1
         /\ kind # "session" => pcount'.session = pcount.session
<1>1. pcount \in [session : Nat, run : Nat, event : Nat]
  BY DEF PlansTypeOK
<1>2. PICK k \in {"session", "run", "event"} : k = kind
  OBVIOUS
<1>3. pcount' = [pcount EXCEPT ![k] = @ + 1]
  BY <1>2 DEF S!Counted
<1> QED BY <1>1, <1>2, <1>3

\* A run releases the lock, or has a plan that fits the fuses unless another
\* run is under way, the excluded stations need too much or the database did
\* not know what a station has.
LEMMA Computed ==
  ASSUME PlansShape, NEW area \in S!Areas, NEW r \in Run, r.st = "apply", r.entry = S!NoProfile,
         S!ComputeAndApplyChargingProfiles(area, r)
  PROVE  \/ run' = [run EXCEPT ![area] = S!Idle] /\ settled' = settled
         \/ /\ settled' = FALSE
            /\ \E new \in Run :
                 /\ run' = [S!Outdated(run) EXCEPT ![area] = new]
                 /\ new.st = "apply" /\ new.entry = S!NoProfile /\ new.failed = r.failed
                 /\ \A e \in new.queue : e.tx <= pcount.session
                 /\ new.clean =>
                      /\ \A other \in S!Areas : other # area => run[other].st = "idle"
                      /\ Fits(new.queue, new.excluded, charging, asset, atStation)
<1>1. CASE charging \subseteq r.excluded
  BY <1>1 DEF S!ComputeAndApplyChargingProfiles, S!Release
<1>2. CASE ~ (charging \subseteq r.excluded)
  <2>1. settled' = FALSE
    BY <1>2 DEF S!ComputeAndApplyChargingProfiles
  <2>2. PICK plan \in S!Plans(r.excluded), sameQuarter \in BOOLEAN :
          LET profiles == S!BuildChargingProfilesFromOptimizerResponse(plan)
              applied == IF sameQuarter THEN S!CheckIfChargingProfileAlreadyApplied(profiles) ELSE {}
          IN  run' = [S!Outdated(run) EXCEPT ![area] =
                       [r EXCEPT !.st = "apply", !.queue = profiles \ applied,
                                 !.clean = /\ ~ \E other \in S!Areas \ {area} : run[other].st # "idle"
                                           /\ S!Possible(r.excluded)
                                           /\ \A e \in applied : atStation[e.s].tx = stored[e.s].tx]]
    BY <1>2 DEF S!ComputeAndApplyChargingProfiles
  <2> DEFINE profiles == S!BuildChargingProfilesFromOptimizerResponse(plan)
             applied == IF sameQuarter THEN S!CheckIfChargingProfileAlreadyApplied(profiles) ELSE {}
             clean == /\ ~ \E other \in S!Areas \ {area} : run[other].st # "idle"
                      /\ S!Possible(r.excluded)
                      /\ \A e \in applied : atStation[e.s].tx = stored[e.s].tx
             new == [r EXCEPT !.st = "apply", !.queue = profiles \ applied, !.clean = clean]
  <2>3. run' = [S!Outdated(run) EXCEPT ![area] = new]
    BY <2>2
  <2>4. r.excluded \in SUBSET S!Stations
    BY DEF Run
  <2>5. ASSUME NEW e \in profiles PROVE e \in Entry /\ e.tx <= pcount.session
    <3>1. PICK s \in DOMAIN plan : e = [s |-> s, tx |-> session[s], limit |-> plan[s]]
      BY <2>5 DEF S!BuildChargingProfilesFromOptimizerResponse
    <3>2. plan \in [charging \ r.excluded -> 0 .. MaxAmps]
      BY DEF S!Plans
    <3>3. s \in charging /\ s \in S!Stations /\ plan[s] \in 0 .. MaxAmps
      BY <3>1, <3>2 DEF PlansShape, PlansTypeOK
    <3>4. session[s] \in Nat /\ session[s] # 0 /\ session[s] <= pcount.session
      BY <3>3 DEF PlansShape, PlansTypeOK, Numbered
    <3> QED BY <3>1, <3>3, <3>4 DEF Entry
  <2>6. applied \subseteq profiles /\ \A e \in applied : stored[e.s].tx = S!ProfileOf(e)
    BY DEF S!CheckIfChargingProfileAlreadyApplied
  <2>7. clean => Fits(profiles \ applied, r.excluded, charging, asset, atStation)
    <3> SUFFICES ASSUME clean PROVE Fits(profiles \ applied, r.excluded, charging, asset, atStation)
      OBVIOUS
    <3>1. S!Possible(r.excluded)
      OBVIOUS
    <3>2. \A e \in applied : atStation[e.s].tx = stored[e.s].tx
      OBVIOUS
    <3>3. \A e \in profiles \ (profiles \ applied) : atStation[e.s].tx = S!ProfileOf(e)
      <4> HIDE DEF profiles, applied, clean, new
      <4> QED BY <2>6, <3>2
    <3> HIDE DEF applied, clean, new
    <3> QED BY <2>4, <3>1, <3>3, PlanFits
  <2>8. clean => \A other \in S!Areas : other # area => run[other].st = "idle"
    OBVIOUS
  <2>9. clean \in BOOLEAN
    OBVIOUS
  <2> HIDE DEF profiles, applied, clean
  <2>10. profiles \ applied \in SUBSET Entry
    BY <2>5
  <2>11. new \in Run
    BY <2>9, <2>10 DEF Run
  <2>12. /\ new.st = "apply" /\ new.entry = r.entry /\ new.failed = r.failed
         /\ new.queue = profiles \ applied /\ new.excluded = r.excluded /\ new.clean = clean
    BY DEF Run
  <2> HIDE DEF new
  <2>13. \A e \in new.queue : e.tx <= pcount.session
    BY <2>5, <2>12
  <2>14. new.clean => /\ \A other \in S!Areas : other # area => run[other].st = "idle"
                      /\ Fits(new.queue, new.excluded, charging, asset, atStation)
    BY <2>7, <2>8, <2>12
  <2> QED BY <2>1, <2>3, <2>11, <2>12, <2>13, <2>14
<1> QED BY <1>1, <1>2

\* What a run sends is in its queue.
LEMMA NextProfileQueued ==
  ASSUME PlansShape, NEW area \in S!Areas, run[area].st = "apply",
         NEW e \in S!NextProfiles(run[area])
  PROVE  run[area] \in Run /\ e \in run[area].queue /\ e \in Entry /\ e.tx <= pcount.session
<1>1. run[area] \in Run
  BY RunFacts DEF PlansShape, PlansTypeOK
<1>2. NumberedRun(run[area], pcount.session)
  BY DEF PlansShape, Numbered
<1>3. e \in run[area].queue
  BY <1>2 DEF S!NextProfiles, NumberedRun
<1>4. run[area].queue \subseteq Entry
  BY <1>1 DEF Run
<1> QED BY <1>1, <1>2, <1>3, <1>4 DEF NumberedRun

LEMMA SavedProfile ==
  ASSUME PlansShape, NEW area \in S!Areas, run[area].st = "save"
  PROVE  /\ run[area] \in Run /\ run[area].entry \in run[area].queue
         /\ run[area].entry \in Entry /\ run[area].entry.tx <= pcount.session
<1>1. run[area] \in Run
  BY RunFacts DEF PlansShape, PlansTypeOK
<1>2. NumberedRun(run[area], pcount.session)
  BY DEF PlansShape, Numbered
<1>3. run[area].entry \in run[area].queue
  BY <1>2 DEF NumberedRun
<1>4. run[area].queue \subseteq Entry
  BY <1>1 DEF Run
<1> QED BY <1>1, <1>2, <1>3, <1>4 DEF NumberedRun

\* A station that refused is excluded.
LEMMA Refused ==
  ASSUME PlansShape, NEW area \in S!Areas, run[area] \in Run, NEW e \in Entry,
         S!HandleRefusedChargingProfile(area, e)
  PROVE  \E new \in Run :
           /\ run' = [run EXCEPT ![area] = new]
           /\ new.st = "apply" /\ new.entry = S!NoProfile /\ new.failed = TRUE
           /\ new.queue = run[area].queue \ {e}
<1>1. PICK r \in Run : r = run[area]
  OBVIOUS
<1> DEFINE new == [r EXCEPT !.st = "apply", !.entry = S!NoProfile, !.queue = r.queue \ {e},
                            !.failed = TRUE, !.excluded = r.excluded \cup {e.s}]
<1>2. run' = [run EXCEPT ![area] = new]
  BY <1>1 DEF S!HandleRefusedChargingProfile
<1>3. new \in Run
  BY DEF Run, Entry
<1>4. /\ new.st = "apply" /\ new.entry = S!NoProfile /\ new.failed = TRUE
      /\ new.queue = r.queue \ {e}
  BY DEF Run
<1> QED BY <1>1, <1>2, <1>3, <1>4

\* A run that goes on with some of its queue.
LEMMA RunGoesOn ==
  ASSUME PlansShape, NEW area \in S!Areas, NEW new \in Run,
         run' = [run EXCEPT ![area] = new], pcount'.session = pcount.session,
         new.queue \subseteq run[area].queue, run[area].st # "idle",
         new.entry # S!NoProfile => new.entry \in new.queue,
         new.st = "save" => new.entry # S!NoProfile
  PROVE  /\ run' \in [S!Areas -> Run \cup {S!Idle}]
         /\ \A a \in S!Areas : NumberedRun(run'[a], pcount'.session)
<1>1. run \in [S!Areas -> Run \cup {S!Idle}]
  BY DEF PlansShape, PlansTypeOK
<1>2. run' \in [S!Areas -> Run \cup {S!Idle}]
  BY <1>1
<1>3. \A a \in S!Areas : run'[a] = IF a = area THEN new ELSE run[a]
  BY <1>1
<1>4. NumberedRun(run[area], pcount.session)
  BY DEF PlansShape, Numbered
<1>5. NumberedRun(new, pcount.session)
  BY <1>4 DEF NumberedRun
<1>6. \A a \in S!Areas : NumberedRun(run[a], pcount.session)
  BY DEF PlansShape, Numbered
<1> QED BY <1>2, <1>3, <1>5, <1>6
-----------------------------------------------------------------------------
(* Charging plans: the types, and the numbers of the sessions. *)

\* The part of a station.
NumberedStation(s) ==
  /\ session[s] <= pcount.session /\ stored[s].tx.tx <= pcount.session
  /\ s \in charging => session[s] # 0
  /\ atStation[s].tx # S!NoProfile => session[s] # 0 /\ atStation[s].tx.tx = session[s]

StationsTypeOK ==
  /\ session \in [S!Stations -> Nat]
  /\ charging \subseteq S!Stations
  /\ atStation \in [S!Stations -> Profiles] /\ stored \in [S!Stations -> Profiles]

RestTypeOK ==
  /\ ops \subseteq Request
  /\ asset \in {0, 1}
  /\ pcount \in [session : Nat, run : Nat, event : Nat]
  /\ tainted \subseteq S!Stations
  /\ settled \in BOOLEAN

RunsOK ==
  /\ run \in [S!Areas -> Run \cup {S!Idle}]
  /\ \A area \in S!Areas : NumberedRun(run[area], pcount.session)

StationsOK == StationsTypeOK /\ \A s \in S!Stations : NumberedStation(s)

LEMMA ShapeParts ==
  /\ PlansShape <=> StationsOK /\ RestTypeOK /\ RunsOK
  /\ StationsOK' /\ RestTypeOK' /\ RunsOK' => PlansShape'
  BY DEF PlansShape, PlansTypeOK, Numbered, StationsOK, StationsTypeOK, NumberedStation, RestTypeOK, RunsOK

LEMMA SetTxProfile ==
  ASSUME NEW f \in [S!Stations -> Profiles], NEW s \in S!Stations, NEW p \in Profile, NEW g,
         g = [f EXCEPT ![s] = [f[s] EXCEPT !.tx = p]]
  PROVE  /\ g \in [S!Stations -> Profiles]
         /\ \A x \in S!Stations : g[x].tx = IF x = s THEN p ELSE f[x].tx
<1>1. PICK d \in Profiles : d = f[s]
  OBVIOUS
<1>2. [d EXCEPT !.tx = p] \in Profiles /\ [d EXCEPT !.tx = p].tx = p
  BY DEF Profiles
<1> QED BY <1>1, <1>2

LEMMA SetUserProfile ==
  ASSUME NEW f \in [S!Stations -> Profiles], NEW s \in S!Stations, NEW p \in Profile, NEW g,
         g = [f EXCEPT ![s] = [f[s] EXCEPT !.user = p]]
  PROVE  /\ g \in [S!Stations -> Profiles]
         /\ \A x \in S!Stations : g[x].tx = f[x].tx
<1>1. PICK d \in Profiles : d = f[s]
  OBVIOUS
<1>2. [d EXCEPT !.user = p] \in Profiles /\ [d EXCEPT !.user = p].tx = d.tx
  BY DEF Profiles
<1> QED BY <1>1, <1>2

LEMMA NoProfileType == S!NoProfile \in Profile /\ S!NoProfiles \in Profiles /\ S!NoProfiles.tx = S!NoProfile
<1>1. S!NoProfile \in Profile
  BY AmpsAssumption DEF S!NoProfile, Profile
<1> QED BY <1>1 DEF S!NoProfiles, Profiles

LEMMA SessionLater ==
  ASSUME PlansShape, pcount'.session = pcount.session + 1, NEW r, NumberedRun(r, pcount.session),
         r \in Run \cup {S!Idle}
  PROVE  NumberedRun(r, pcount'.session)
<1>1. pcount.session \in Nat
  BY DEF PlansShape, PlansTypeOK
<1>2. r.st # "idle" => \A e \in r.queue : e.tx \in Nat
  <2>1. r.st # "idle" => r.queue \subseteq Entry
    BY RunFacts DEF Run
  <2> QED BY <2>1 DEF Entry
<1> QED BY <1>1, <1>2 DEF NumberedRun

LEMMA StartShape ==
  ASSUME PlansShape, NEW s \in S!Stations, S!StartTransaction(s)
  PROVE  PlansShape'
<1>1. /\ pcount' \in [session : Nat, run : Nat, event : Nat] /\ pcount'.session = pcount.session + 1
  BY CountedFacts DEF PlansShape, S!StartTransaction
<1>2. PlansTypeOK /\ pcount.session \in Nat
  BY DEF PlansShape, PlansTypeOK
<1>3. /\ session[s] = 0 /\ session' = [session EXCEPT ![s] = pcount.session + 1]
      /\ charging' = charging \cup {s} /\ run' = S!Outdated(run) /\ settled' = FALSE
      /\ UNCHANGED <<atStation, stored, ops, asset, tainted>>
  BY DEF S!StartTransaction
<1>4. StationsTypeOK'
  BY <1>2, <1>3 DEF PlansTypeOK, StationsTypeOK
<1>5. ASSUME NEW x \in S!Stations PROVE NumberedStation(x)'
  <2>1. NumberedStation(x)
    BY ShapeParts DEF StationsOK
  <2>2. session'[x] = IF x = s THEN pcount.session + 1 ELSE session[x]
    BY <1>2, <1>3 DEF PlansTypeOK
  <2>3. session[x] \in Nat /\ stored[x].tx.tx \in Nat
    BY <1>2 DEF PlansTypeOK, Profiles, Profile
  <2> QED BY <1>1, <1>2, <1>3, <2>1, <2>2, <2>3 DEF NumberedStation
<1>6. RunsOK'
  <2>1. run' \in [S!Areas -> Run \cup {S!Idle}]
    BY <1>2, <1>3, OutdatedRuns
  <2>2. \A area \in S!Areas : NumberedRun(run'[area], pcount.session)
    BY <1>2, <1>3, OutdatedRuns DEF PlansShape, Numbered
  <2> QED BY <1>1, <2>1, <2>2, SessionLater DEF RunsOK
<1>7. RestTypeOK'
  BY <1>1, <1>2, <1>3 DEF PlansTypeOK, RestTypeOK
<1>8. StationsOK'
  BY <1>4, <1>5 DEF StationsOK
<1> QED BY <1>6, <1>7, <1>8, ShapeParts

\* The station stays as it was, or the runs are out of date.
LEMMA RunsKept ==
  ASSUME PlansShape, pcount'.session = pcount.session, run' = run \/ run' = S!Outdated(run)
  PROVE  RunsOK'
<1>1. PlansTypeOK /\ RunsOK
  BY ShapeParts DEF PlansShape
<1> QED BY <1>1, OutdatedRuns DEF RunsOK

LEMMA StationsKept ==
  ASSUME PlansShape, pcount'.session = pcount.session, charging' \subseteq charging \cup {s \in S!Stations : session[s] # 0},
         UNCHANGED session, atStation' \in [S!Stations -> Profiles], stored' \in [S!Stations -> Profiles],
         NEW x \in S!Stations, NEW p \in Profile,
         \A s \in S!Stations : \/ atStation'[s].tx = atStation[s].tx
                               \/ atStation'[s].tx = S!NoProfile
                               \/ s = x /\ atStation'[s].tx = p /\ p.tx = session[x] /\ p.tx # 0,
         \A s \in S!Stations : \/ stored'[s].tx = stored[s].tx
                               \/ stored'[s].tx = S!NoProfile
                               \/ s = x /\ stored'[s].tx = p /\ p.tx <= pcount.session
  PROVE  StationsOK'
<1>1. StationsTypeOK'
  BY DEF PlansShape, PlansTypeOK, StationsTypeOK
<1>2. ASSUME NEW s \in S!Stations PROVE NumberedStation(s)'
  <2>1. NumberedStation(s) /\ pcount.session \in Nat
    BY ShapeParts DEF StationsOK, RestTypeOK
  <2>2. session'[s] <= pcount'.session /\ (s \in charging' => session'[s] # 0)
    BY <1>2, <2>1 DEF NumberedStation
  <2>3. stored'[s].tx.tx <= pcount'.session
    BY <1>2, <2>1 DEF NumberedStation, S!NoProfile
  <2>4. atStation'[s].tx # S!NoProfile => session'[s] # 0 /\ atStation'[s].tx.tx = session'[s]
    BY <1>2, <2>1 DEF NumberedStation
  <2> QED BY <2>2, <2>3, <2>4 DEF NumberedStation
<1> QED BY <1>1, <1>2 DEF StationsOK

\* The steps that change neither the runs, but for what they know, nor a
\* session.
LEMMA StationsAndRequestsShape ==
  ASSUME PlansShape,
         \/ \E s \in S!Stations :
              \/ S!Suspend(s) \/ S!Resume(s) \/ S!SetAndSaveChargingProfile(s)
              \/ \E purpose \in {"tx", "user"} : S!HandleDeleteChargingProfile(s, purpose)
         \/ S!AssetConsumes \/ S!ClearChargingProfile \/ S!ClearFails \/ S!DeleteChargingProfile
         \/ S!SaveUserProfile
  PROVE  PlansShape'
<1>1. PlansTypeOK /\ StationsOK /\ RestTypeOK /\ RunsOK
  BY ShapeParts DEF PlansShape
<1>2. /\ S!NoProfile \in Profile /\ S!NoProfiles.tx = S!NoProfile /\ S!NoProfiles \in Profiles
      /\ [tx |-> 0, limit |-> UserLimit] \in Profile /\ "a" \in S!Stations
  BY AmpsAssumption, NoProfileType DEF Profile, S!Stations
<1>3. atStation \in [S!Stations -> Profiles] /\ stored \in [S!Stations -> Profiles]
  BY <1>1 DEF PlansTypeOK
<1>4. ASSUME NEW s \in S!Stations, S!Suspend(s) PROVE PlansShape'
  <2>1. pcount' \in [session : Nat, run : Nat, event : Nat] /\ pcount'.session = pcount.session
    BY <1>1, <1>4, CountedFacts DEF S!Suspend
  <2>2. charging' \subseteq charging /\ UNCHANGED <<session, atStation, stored, run, ops, asset, tainted, settled>>
    BY <1>4 DEF S!Suspend
  <2>3. StationsOK'
    BY <1>1, <1>2, <1>3, <2>1, <2>2, StationsKept
  <2>4. RunsOK' /\ RestTypeOK'
    BY <1>1, <2>1, <2>2, RunsKept DEF RestTypeOK
  <2> QED BY <2>3, <2>4, ShapeParts
<1>5. ASSUME NEW s \in S!Stations, S!Resume(s) PROVE PlansShape'
  <2>1. /\ charging' = charging \cup {s} /\ session[s] # 0 /\ run' = S!Outdated(run) /\ settled' = FALSE
        /\ UNCHANGED <<session, atStation, stored, ops, asset, pcount, tainted>>
    BY <1>5 DEF S!Resume
  <2>2. StationsOK'
    BY <1>1, <1>2, <1>3, <1>5, <2>1, StationsKept
  <2>3. RunsOK' /\ RestTypeOK'
    BY <1>1, <2>1, RunsKept DEF RestTypeOK
  <2> QED BY <2>2, <2>3, ShapeParts
<1>6. ASSUME NEW s \in S!Stations, S!SetAndSaveChargingProfile(s) PROVE PlansShape'
  <2>1. pcount' \in [session : Nat, run : Nat, event : Nat] /\ pcount'.session = pcount.session
    BY <1>1, <1>6, CountedFacts DEF S!SetAndSaveChargingProfile
  <2>2. /\ atStation' = [atStation EXCEPT ![s] = [atStation[s] EXCEPT !.user = [tx |-> 0, limit |-> UserLimit]]]
        /\ ops' \subseteq ops \cup {[s |-> s, purpose |-> "user", st |-> "save"]}
        /\ UNCHANGED <<session, charging, stored, run, asset, tainted, settled>>
    BY <1>6 DEF S!SetAndSaveChargingProfile
  <2>3. atStation' \in [S!Stations -> Profiles] /\ \A x \in S!Stations : atStation'[x].tx = atStation[x].tx
    <3>1. PICK p \in Profile : p = [tx |-> 0, limit |-> UserLimit]
      BY <1>2
    <3>2. atStation' = [atStation EXCEPT ![s] = [atStation[s] EXCEPT !.user = p]]
      BY <2>2, <3>1
    <3> QED BY <1>3, <1>6, <3>2, SetUserProfile
  <2>4. StationsOK'
    BY <1>1, <1>2, <1>3, <2>1, <2>2, <2>3, StationsKept
  <2>5. [s |-> s, purpose |-> "user", st |-> "save"] \in Request
    BY <1>6 DEF Request
  <2>6. RunsOK' /\ RestTypeOK'
    BY <1>1, <2>1, <2>2, <2>5, RunsKept DEF RestTypeOK
  <2> QED BY <2>4, <2>6, ShapeParts
<1>7. ASSUME NEW s \in S!Stations, NEW purpose \in {"tx", "user"}, S!HandleDeleteChargingProfile(s, purpose)
      PROVE  PlansShape'
  <2>1. pcount' \in [session : Nat, run : Nat, event : Nat] /\ pcount'.session = pcount.session
    BY <1>1, <1>7, CountedFacts DEF S!HandleDeleteChargingProfile
  <2>2. /\ ops' = ops \cup {[s |-> s, purpose |-> purpose, st |-> "clear"]}
        /\ UNCHANGED <<session, charging, atStation, stored, run, asset, tainted, settled>>
    BY <1>7 DEF S!HandleDeleteChargingProfile
  <2>3. StationsOK'
    BY <1>1, <1>2, <1>3, <2>1, <2>2, StationsKept
  <2>4. [s |-> s, purpose |-> purpose, st |-> "clear"] \in Request
    BY <1>7 DEF Request
  <2>5. RunsOK' /\ RestTypeOK'
    BY <1>1, <2>1, <2>2, <2>4, RunsKept DEF RestTypeOK
  <2> QED BY <2>3, <2>5, ShapeParts
<1>8. CASE S!AssetConsumes
  <2>1. pcount' \in [session : Nat, run : Nat, event : Nat] /\ pcount'.session = pcount.session
    BY <1>1, <1>8, CountedFacts DEF S!AssetConsumes
  <2>2. /\ asset' = 1 - asset /\ run' = S!Outdated(run) /\ settled' = FALSE
        /\ UNCHANGED <<session, charging, atStation, stored, ops, tainted>>
    BY <1>8 DEF S!AssetConsumes
  <2>3. StationsOK'
    BY <1>1, <1>2, <1>3, <2>1, <2>2, StationsKept
  <2>4. asset' \in {0, 1}
    BY <1>1, <2>2 DEF RestTypeOK
  <2>5. RunsOK'
    BY <1>1, <2>1, <2>2, RunsKept
  <2>6. RestTypeOK'
    BY <1>1, <2>1, <2>2, <2>4 DEF RestTypeOK
  <2> QED BY <2>3, <2>5, <2>6, ShapeParts
<1>9. CASE S!ClearChargingProfile
  <2>1. PICK op \in ops :
          /\ atStation' = [atStation EXCEPT ![op.s] = S!NoProfiles]
          /\ ops' = (ops \ {op}) \cup {[op EXCEPT !.st = "delete"]}
          /\ tainted' \in {tainted \cup {op.s}, tainted \ {op.s}}
          /\ run' = S!Outdated(run) /\ settled' = FALSE
          /\ UNCHANGED <<session, charging, stored, asset, pcount>>
    BY <1>9 DEF S!ClearChargingProfile, S!Touch
  <2>2. op \in Request /\ op.s \in S!Stations /\ [op EXCEPT !.st = "delete"] \in Request
    BY <1>1 DEF PlansTypeOK, Request
  <2>3. /\ atStation' \in [S!Stations -> Profiles]
        /\ \A x \in S!Stations : atStation'[x].tx \in {atStation[x].tx, S!NoProfile}
    BY <1>2, <1>3, <2>1, <2>2
  <2>4. StationsOK'
    BY <1>1, <1>2, <1>3, <2>1, <2>3, StationsKept
  <2>5. RunsOK' /\ RestTypeOK'
    BY <1>1, <2>1, <2>2, RunsKept DEF RestTypeOK
  <2> QED BY <2>4, <2>5, ShapeParts
<1>10. CASE S!ClearFails
  <2>1. pcount' \in [session : Nat, run : Nat, event : Nat] /\ pcount'.session = pcount.session
    BY <1>1, <1>10, CountedFacts DEF S!ClearFails
  <2>2. PICK op \in ops :
          /\ atStation' \in {atStation, [atStation EXCEPT ![op.s] = S!NoProfiles]}
          /\ ops' = ops \ {op} /\ tainted' = tainted \cup {op.s}
          /\ run' = S!Outdated(run) /\ settled' = FALSE
          /\ UNCHANGED <<session, charging, stored, asset>>
    BY <1>10 DEF S!ClearFails
  <2>3. op \in Request /\ op.s \in S!Stations
    BY <1>1 DEF PlansTypeOK, Request
  <2>4. /\ atStation' \in [S!Stations -> Profiles]
        /\ \A x \in S!Stations : atStation'[x].tx \in {atStation[x].tx, S!NoProfile}
    BY <1>2, <1>3, <2>2, <2>3
  <2>5. StationsOK'
    BY <1>1, <1>2, <1>3, <2>1, <2>2, <2>4, StationsKept
  <2>6. RunsOK' /\ RestTypeOK'
    BY <1>1, <2>1, <2>2, <2>3, RunsKept DEF RestTypeOK
  <2> QED BY <2>5, <2>6, ShapeParts
<1>11. CASE S!DeleteChargingProfile
  <2>1. PICK op \in ops :
          /\ stored' = [stored EXCEPT ![op.s] = [stored[op.s] EXCEPT ![op.purpose] = S!NoProfile]]
          /\ ops' = ops \ {op}
          /\ UNCHANGED <<session, charging, atStation, run, asset, pcount, tainted, settled>>
    BY <1>11 DEF S!DeleteChargingProfile
  <2>2. op.s \in S!Stations /\ op.purpose \in {"tx", "user"}
    BY <1>1 DEF PlansTypeOK, Request
  <2>3. \/ stored' = [stored EXCEPT ![op.s] = [stored[op.s] EXCEPT !.tx = S!NoProfile]]
        \/ stored' = [stored EXCEPT ![op.s] = [stored[op.s] EXCEPT !.user = S!NoProfile]]
    BY <2>1, <2>2
  <2>4. /\ stored' \in [S!Stations -> Profiles]
        /\ \A x \in S!Stations : stored'[x].tx \in {stored[x].tx, S!NoProfile}
    <3>1. CASE stored' = [stored EXCEPT ![op.s] = [stored[op.s] EXCEPT !.tx = S!NoProfile]]
      BY <1>2, <1>3, <2>2, <3>1, SetTxProfile
    <3>2. CASE stored' = [stored EXCEPT ![op.s] = [stored[op.s] EXCEPT !.user = S!NoProfile]]
      BY <1>2, <1>3, <2>2, <3>2, SetUserProfile
    <3> QED BY <2>3, <3>1, <3>2
  <2>5. StationsOK'
    BY <1>1, <1>2, <1>3, <2>1, <2>4, StationsKept
  <2>6. RunsOK' /\ RestTypeOK'
    BY <1>1, <2>1, RunsKept DEF RestTypeOK
  <2> QED BY <2>5, <2>6, ShapeParts
<1>12. CASE S!SaveUserProfile
  <2>1. PICK op \in ops :
          /\ stored' = [stored EXCEPT ![op.s] = [stored[op.s] EXCEPT !.user = [tx |-> 0, limit |-> UserLimit]]]
          /\ ops' = ops \ {op}
          /\ UNCHANGED <<session, charging, atStation, run, asset, pcount, tainted, settled>>
    BY <1>12 DEF S!SaveUserProfile
  <2>2. op.s \in S!Stations
    BY <1>1 DEF PlansTypeOK, Request
  <2>3. /\ stored' \in [S!Stations -> Profiles]
        /\ \A x \in S!Stations : stored'[x].tx = stored[x].tx
    BY <1>2, <1>3, <2>1, <2>2, SetUserProfile
  <2>4. StationsOK'
    BY <1>1, <1>2, <1>3, <2>1, <2>3, StationsKept
  <2>5. RunsOK' /\ RestTypeOK'
    BY <1>1, <2>1, RunsKept DEF RestTypeOK
  <2> QED BY <2>4, <2>5, ShapeParts
<1> QED BY <1>4, <1>5, <1>6, <1>7, <1>8, <1>9, <1>10, <1>11, <1>12

\* The steps of the runs, and the end of a session.
LEMMA RunsShape ==
  ASSUME PlansShape,
         \/ \E s \in S!Stations : S!TriggerSmartChargingStopTransaction(s)
         \/ \E area \in S!Areas :
              \/ S!TriggerSmartCharging(area) \/ S!SetChargingProfile(area) \/ S!SetFails(area)
              \/ S!SaveChargingProfile(area) \/ S!SaveFails(area)
              \/ S!ComputeAgain(area) \/ S!Applied(area) \/ S!RunDies(area)
  PROVE  PlansShape'
<1>1. PlansTypeOK /\ StationsOK /\ RestTypeOK /\ RunsOK
  BY ShapeParts DEF PlansShape
<1>2. /\ S!NoProfile \in Profile /\ "a" \in S!Stations
      /\ atStation \in [S!Stations -> Profiles] /\ stored \in [S!Stations -> Profiles]
      /\ run \in [S!Areas -> Run \cup {S!Idle}] /\ pcount.session \in Nat
  BY <1>1, NoProfileType DEF PlansTypeOK, S!Stations
<1>3. ASSUME NEW e \in Entry PROVE S!ProfileOf(e) \in Profile /\ S!ProfileOf(e).tx = e.tx /\ e.tx # 0 /\ e.s \in S!Stations
  BY DEF Entry, Profile, S!ProfileOf
<1>4. ASSUME NEW area \in S!Areas, NEW r \in Run, r.st = "apply", r.entry = S!NoProfile,
             S!ComputeAndApplyChargingProfiles(area, r), pcount'.session = pcount.session
      PROVE  RunsOK' /\ settled' \in BOOLEAN
  <2>1. CASE run' = [run EXCEPT ![area] = S!Idle] /\ settled' = settled
    <3>1. \A a \in S!Areas : run'[a] = IF a = area THEN S!Idle ELSE run[a]
      BY <1>2, <2>1
    <3>2. run' \in [S!Areas -> Run \cup {S!Idle}]
      BY <1>2, <2>1
    <3> QED BY <1>1, <1>4, <2>1, <3>1, <3>2 DEF RunsOK, RestTypeOK, NumberedRun, S!Idle
  <2>2. ASSUME settled' = FALSE,
               NEW new \in Run, run' = [S!Outdated(run) EXCEPT ![area] = new],
               new.st = "apply", new.entry = S!NoProfile, \A e \in new.queue : e.tx <= pcount.session
        PROVE  RunsOK' /\ settled' \in BOOLEAN
    <3>1. /\ S!Outdated(run) \in [S!Areas -> Run \cup {S!Idle}]
          /\ \A a \in S!Areas : NumberedRun(S!Outdated(run)[a], pcount.session)
      BY <1>1, OutdatedRuns DEF RunsOK
    <3>2. NumberedRun(new, pcount.session)
      BY <2>2 DEF NumberedRun
    <3>3. \A a \in S!Areas : run'[a] = IF a = area THEN new ELSE S!Outdated(run)[a]
      BY <2>2, <3>1
    <3>4. run' \in [S!Areas -> Run \cup {S!Idle}]
      BY <2>2, <3>1
    <3> QED BY <1>4, <2>2, <3>1, <3>2, <3>3, <3>4 DEF RunsOK
  <2> QED BY <1>4, <2>1, <2>2, Computed
<1>5. ASSUME NEW s \in S!Stations, S!TriggerSmartChargingStopTransaction(s) PROVE PlansShape'
  <2>1. /\ session' = [session EXCEPT ![s] = 0] /\ charging' = charging \ {s}
        /\ atStation' = [atStation EXCEPT ![s] = [atStation[s] EXCEPT !.tx = S!NoProfile]]
        /\ ops' \subseteq ops \cup {[s |-> s, purpose |-> "tx", st |-> "clear"]}
        /\ UNCHANGED <<stored, run, asset, pcount, tainted, settled>>
    BY <1>5 DEF S!TriggerSmartChargingStopTransaction
  <2>2. /\ atStation' \in [S!Stations -> Profiles]
        /\ \A x \in S!Stations : atStation'[x].tx = IF x = s THEN S!NoProfile ELSE atStation[x].tx
    BY <1>2, <1>5, <2>1, SetTxProfile
  <2>3. StationsTypeOK'
    BY <1>1, <2>1, <2>2 DEF StationsTypeOK, PlansTypeOK
  <2>4. ASSUME NEW x \in S!Stations PROVE NumberedStation(x)'
    <3>1. NumberedStation(x)
      BY <1>1 DEF StationsOK
    <3>2. session'[x] = IF x = s THEN 0 ELSE session[x]
      BY <1>1, <2>1 DEF PlansTypeOK
    <3> QED BY <1>2, <2>1, <2>2, <3>1, <3>2 DEF NumberedStation
  <2>5. [s |-> s, purpose |-> "tx", st |-> "clear"] \in Request
    BY <1>5 DEF Request
  <2>6. RunsOK'
    BY <1>1, <2>1, RunsKept
  <2>7. RestTypeOK'
    BY <1>1, <2>1, <2>5 DEF RestTypeOK
  <2>8. StationsOK'
    BY <2>3, <2>4 DEF StationsOK
  <2> QED BY <2>6, <2>7, <2>8, ShapeParts
<1>6. ASSUME NEW area \in S!Areas, S!TriggerSmartCharging(area) PROVE PlansShape'
  <2>1. pcount' \in [session : Nat, run : Nat, event : Nat] /\ pcount'.session = pcount.session
    BY <1>1, <1>6, CountedFacts DEF S!TriggerSmartCharging
  <2>2. PICK r : /\ r = [st |-> "apply", retry |-> FALSE, excluded |-> {}, queue |-> {},
                         entry |-> S!NoProfile, failed |-> FALSE, clean |-> TRUE]
                 /\ S!ComputeAndApplyChargingProfiles(area, r)
                 /\ UNCHANGED <<session, charging, atStation, stored, ops, asset, tainted>>
    BY <1>6 DEF S!TriggerSmartCharging
  <2>3. r \in Run /\ r.st = "apply" /\ r.entry = S!NoProfile
    BY <2>2 DEF Run
  <2>4. RunsOK' /\ settled' \in BOOLEAN
    BY <1>4, <1>6, <2>1, <2>2, <2>3
  <2>5. StationsOK'
    BY <1>1, <1>2, <2>1, <2>2, StationsKept
  <2>6. RestTypeOK'
    BY <1>1, <2>1, <2>2, <2>4 DEF RestTypeOK
  <2> QED BY <2>4, <2>5, <2>6, ShapeParts
<1>7. ASSUME NEW area \in S!Areas, S!SetChargingProfile(area) PROVE PlansShape'
  <2>1. PICK e \in S!NextProfiles(run[area]) :
          /\ S!Accepts(e.s, e.tx) /\ S!Sent(e)
          /\ run' = [run EXCEPT ![area] = [run[area] EXCEPT !.st = "save", !.entry = e]]
          /\ tainted' \in {tainted \cup {e.s}, tainted \ {e.s}}
    BY <1>7 DEF S!SetChargingProfile, S!Touch
  <2>2. run[area].st = "apply" /\ UNCHANGED <<session, charging, stored, ops, asset, pcount, settled>>
    BY <1>7 DEF S!SetChargingProfile
  <2>3. run[area] \in Run /\ e \in run[area].queue /\ e \in Entry /\ e.tx <= pcount.session
    BY <1>7, <2>2, NextProfileQueued
  <2>4. PICK p \in Profile : p = S!ProfileOf(e) /\ p.tx = e.tx
    BY <1>3, <2>3
  <2>5. /\ atStation' \in [S!Stations -> Profiles]
        /\ \A x \in S!Stations : atStation'[x].tx = IF x = e.s THEN p ELSE atStation[x].tx
    BY <1>2, <1>3, <2>1, <2>3, <2>4, SetTxProfile DEF S!Sent
  <2>6. StationsOK'
    <3>1. p.tx = session[e.s] /\ p.tx # 0 /\ e.s \in S!Stations
      BY <1>3, <2>1, <2>3, <2>4 DEF S!Accepts
    <3> QED BY <1>1, <1>2, <2>2, <2>5, <3>1, StationsKept
  <2>7. RunsOK'
    <3>1. PICK r \in Run : r = run[area]
      BY <2>3
    <3>2. PICK new \in Run : new = [r EXCEPT !.st = "save", !.entry = e]
      BY <2>3 DEF Run
    <3>3. new.st = "save" /\ new.entry = e /\ new.queue = r.queue
      BY <3>2 DEF Run
    <3>4. e # S!NoProfile
      BY <1>3, <2>3 DEF S!NoProfile
    <3>5. run' = [run EXCEPT ![area] = new]
      BY <2>1, <3>1, <3>2
    <3> QED BY <1>7, <2>2, <2>3, <3>1, <3>3, <3>4, <3>5, RunGoesOn DEF RunsOK
  <2>8. RestTypeOK'
    BY <1>1, <1>3, <2>1, <2>2, <2>3 DEF RestTypeOK
  <2> QED BY <2>6, <2>7, <2>8, ShapeParts
<1>8. ASSUME NEW area \in S!Areas, S!SetFails(area) PROVE PlansShape'
  <2>1. PICK e \in S!NextProfiles(run[area]) :
          /\ \/ ~S!Accepts(e.s, e.tx) /\ UNCHANGED <<atStation, tainted, pcount>>
             \/ S!Counted("event", MaxEvents) /\ UNCHANGED <<atStation, tainted>>
             \/ /\ S!Accepts(e.s, e.tx) /\ S!Counted("event", MaxEvents) /\ S!Sent(e)
                /\ tainted' = tainted \cup {e.s}
          /\ S!HandleRefusedChargingProfile(area, e)
    BY <1>8 DEF S!SetFails
  <2>2. run[area].st = "apply" /\ UNCHANGED <<session, charging, stored, ops, asset, settled>>
    BY <1>8 DEF S!SetFails
  <2>3. run[area] \in Run /\ e \in run[area].queue /\ e \in Entry /\ e.tx <= pcount.session
    BY <1>8, <2>2, NextProfileQueued
  <2>4. pcount' \in [session : Nat, run : Nat, event : Nat] /\ pcount'.session = pcount.session
    BY <1>1, <2>1, CountedFacts DEF RestTypeOK
  <2>5. StationsOK'
    <3>1. CASE UNCHANGED atStation
      BY <1>1, <1>2, <2>2, <2>4, <3>1, StationsKept
    <3>2. CASE S!Accepts(e.s, e.tx) /\ S!Sent(e)
      <4>1. PICK p \in Profile : p = S!ProfileOf(e) /\ p.tx = e.tx
        BY <1>3, <2>3
      <4>2. /\ atStation' \in [S!Stations -> Profiles]
            /\ \A x \in S!Stations : atStation'[x].tx = IF x = e.s THEN p ELSE atStation[x].tx
        BY <1>2, <1>3, <2>3, <3>2, <4>1, SetTxProfile DEF S!Sent
      <4>3. p.tx = session[e.s] /\ p.tx # 0 /\ e.s \in S!Stations
        BY <1>3, <2>3, <3>2, <4>1 DEF S!Accepts
      <4> QED BY <1>1, <1>2, <2>2, <2>4, <4>2, <4>3, StationsKept
    <3> QED BY <2>1, <3>1, <3>2
  <2>6. PICK new \in Run : /\ run' = [run EXCEPT ![area] = new]
                           /\ new.st = "apply" /\ new.entry = S!NoProfile /\ new.failed = TRUE
                           /\ new.queue = run[area].queue \ {e}
    BY <1>8, <2>1, <2>3, Refused
  <2>7. RunsOK'
    BY <1>8, <2>2, <2>4, <2>6, RunGoesOn DEF RunsOK
  <2>8. RestTypeOK'
    <3>1. tainted' \subseteq S!Stations
      BY <1>1, <1>3, <2>1, <2>3 DEF RestTypeOK
    <3> QED BY <1>1, <2>2, <2>4, <3>1 DEF RestTypeOK
  <2> QED BY <2>5, <2>7, <2>8, ShapeParts
<1>9. ASSUME NEW area \in S!Areas, S!SaveChargingProfile(area) PROVE PlansShape'
  <2>1. PICK e : e = run[area].entry
    OBVIOUS
  <2>2. /\ run[area].st = "save"
        /\ stored' = [stored EXCEPT ![e.s] = [stored[e.s] EXCEPT !.tx = S!ProfileOf(e)]]
        /\ run' = [run EXCEPT ![area] = [run[area] EXCEPT !.st = "apply", !.entry = S!NoProfile,
                                                          !.queue = run[area].queue \ {e}]]
        /\ UNCHANGED <<session, charging, atStation, ops, asset, pcount, tainted, settled>>
    BY <1>9, <2>1 DEF S!SaveChargingProfile
  <2>3. run[area] \in Run /\ e \in Entry /\ e.tx <= pcount.session
    BY <1>9, <2>1, <2>2, SavedProfile
  <2>4. PICK p \in Profile : p = S!ProfileOf(e) /\ p.tx = e.tx
    BY <1>3, <2>3
  <2>5. /\ stored' \in [S!Stations -> Profiles]
        /\ \A x \in S!Stations : stored'[x].tx = IF x = e.s THEN p ELSE stored[x].tx
    BY <1>2, <1>3, <2>2, <2>3, <2>4, SetTxProfile
  <2>6. StationsOK'
    BY <1>1, <1>2, <1>3, <2>2, <2>3, <2>4, <2>5, StationsKept
  <2>7. RunsOK'
    <3>1. PICK r \in Run : r = run[area]
      BY <2>3
    <3>2. PICK new \in Run : new = [r EXCEPT !.st = "apply", !.entry = S!NoProfile, !.queue = r.queue \ {e}]
      BY DEF Run
    <3>3. new.st = "apply" /\ new.entry = S!NoProfile /\ new.queue = r.queue \ {e}
      BY <3>2 DEF Run
    <3>4. run' = [run EXCEPT ![area] = new]
      BY <2>2, <3>1, <3>2
    <3> QED BY <1>9, <2>2, <3>1, <3>3, <3>4, RunGoesOn DEF RunsOK
  <2>8. RestTypeOK'
    BY <1>1, <2>2 DEF RestTypeOK
  <2> QED BY <2>6, <2>7, <2>8, ShapeParts
<1>10. ASSUME NEW area \in S!Areas, S!SaveFails(area) PROVE PlansShape'
  <2>1. PICK e : e = run[area].entry
    OBVIOUS
  <2>2. /\ run[area].st = "save"
        /\ \/ run' = [run EXCEPT ![area] = [run[area] EXCEPT !.st = "apply"]]
           \/ S!HandleRefusedChargingProfile(area, e)
        /\ tainted' = tainted \cup {e.s}
        /\ UNCHANGED <<session, charging, atStation, stored, ops, asset, settled>>
    BY <1>10, <2>1 DEF S!SaveFails
  <2>3. run[area] \in Run /\ e \in Entry /\ e \in run[area].queue
    BY <1>10, <2>1, <2>2, SavedProfile
  <2>4. pcount' \in [session : Nat, run : Nat, event : Nat] /\ pcount'.session = pcount.session
    BY <1>1, <1>10, CountedFacts DEF S!SaveFails
  <2>5. StationsOK'
    BY <1>1, <1>2, <2>2, <2>4, StationsKept
  <2>6. RunsOK'
    <3>1. CASE run' = [run EXCEPT ![area] = [run[area] EXCEPT !.st = "apply"]]
      <4>1. PICK r \in Run : r = run[area]
        BY <2>3
      <4>2. PICK new \in Run : new = [r EXCEPT !.st = "apply"]
        BY DEF Run
      <4>3. new.st = "apply" /\ new.entry = r.entry /\ new.queue = r.queue
        BY <4>2 DEF Run
      <4>4. run' = [run EXCEPT ![area] = new]
        BY <3>1, <4>1, <4>2
      <4> QED BY <1>10, <2>1, <2>2, <2>3, <2>4, <4>1, <4>3, <4>4, RunGoesOn DEF RunsOK
    <3>2. CASE S!HandleRefusedChargingProfile(area, e)
      <4>1. PICK new \in Run : /\ run' = [run EXCEPT ![area] = new]
                               /\ new.st = "apply" /\ new.entry = S!NoProfile /\ new.failed = TRUE
                               /\ new.queue = run[area].queue \ {e}
        BY <1>10, <2>3, <3>2, Refused
      <4> QED BY <1>10, <2>2, <2>4, <4>1, RunGoesOn DEF RunsOK
    <3> QED BY <2>2, <3>1, <3>2
  <2>7. RestTypeOK'
    BY <1>1, <1>3, <2>2, <2>3, <2>4 DEF RestTypeOK
  <2> QED BY <2>5, <2>6, <2>7, ShapeParts
<1>11. ASSUME NEW area \in S!Areas, S!ComputeAgain(area) PROVE PlansShape'
  <2>1. /\ run[area].st = "apply" /\ run[area].queue = {}
        /\ S!ComputeAndApplyChargingProfiles(area, [run[area] EXCEPT !.retry = TRUE, !.failed = FALSE])
        /\ UNCHANGED <<session, charging, atStation, stored, ops, asset, pcount, tainted>>
    BY <1>11 DEF S!ComputeAgain
  <2>2. run[area] \in Run /\ run[area].entry = S!NoProfile
    BY <1>1, <1>2, <1>11, <2>1, RunFacts DEF RunsOK, NumberedRun
  <2>3. PICK r \in Run : r = run[area]
    BY <2>2
  <2>4. PICK new \in Run : new = [r EXCEPT !.retry = TRUE, !.failed = FALSE]
    BY DEF Run
  <2>5. new.st = "apply" /\ new.entry = S!NoProfile
    BY <2>1, <2>2, <2>3, <2>4 DEF Run
  <2>6. RunsOK' /\ settled' \in BOOLEAN
    BY <1>4, <1>11, <2>1, <2>3, <2>4, <2>5
  <2>7. StationsOK'
    BY <1>1, <1>2, <2>1, StationsKept
  <2>8. RestTypeOK'
    BY <1>1, <2>1, <2>6 DEF RestTypeOK
  <2> QED BY <2>6, <2>7, <2>8, ShapeParts
<1>12. ASSUME NEW area \in S!Areas, S!Applied(area) \/ S!RunDies(area) PROVE PlansShape'
  <2>1. /\ run[area].st # "idle" /\ run' = [run EXCEPT ![area] = S!Idle]
        /\ UNCHANGED <<session, charging, atStation, stored, ops, asset>>
    BY <1>12 DEF S!Applied, S!RunDies, S!Release
  <2>2. pcount' \in [session : Nat, run : Nat, event : Nat] /\ pcount'.session = pcount.session
    <3>1. CASE S!Applied(area)
      BY <1>1, <3>1 DEF S!Applied, RestTypeOK
    <3>2. CASE S!RunDies(area)
      BY <1>1, <3>2, CountedFacts DEF S!RunDies
    <3> QED BY <1>12, <3>1, <3>2
  <2>3. tainted' \subseteq S!Stations
    <3>1. CASE run[area].st = "save"
      <4>1. run[area].entry \in Entry
        BY <1>12, <3>1, SavedProfile
      <4> QED BY <1>1, <1>3, <1>12, <4>1 DEF S!Applied, S!RunDies, RestTypeOK
    <3>2. CASE run[area].st # "save"
      BY <1>1, <1>12, <3>2 DEF S!Applied, S!RunDies, RestTypeOK
    <3> QED BY <3>1, <3>2
  <2>4. settled' \in BOOLEAN
    <3>1. CASE S!Applied(area)
      <4>1. run[area] \in Run
        BY <1>2, <1>12, <2>1, RunFacts
      <4>2. run[area].clean \in BOOLEAN /\ run[area].failed \in BOOLEAN
        BY <4>1 DEF Run
      <4> QED BY <3>1, <4>2 DEF S!Applied, S!Release
    <3>2. CASE S!RunDies(area)
      BY <1>1, <3>2 DEF S!RunDies, S!Release, RestTypeOK
    <3> QED BY <1>12, <3>1, <3>2
  <2>5. StationsOK'
    BY <1>1, <1>2, <2>1, <2>2, StationsKept
  <2>6. RunsOK'
    <3>1. \A a \in S!Areas : run'[a] = IF a = area THEN S!Idle ELSE run[a]
      BY <1>2, <2>1
    <3>2. run' \in [S!Areas -> Run \cup {S!Idle}]
      BY <1>2, <2>1
    <3> QED BY <1>1, <2>2, <3>1, <3>2 DEF RunsOK, NumberedRun, S!Idle
  <2>7. RestTypeOK'
    BY <1>1, <2>1, <2>2, <2>3, <2>4 DEF RestTypeOK
  <2> QED BY <2>5, <2>6, <2>7, ShapeParts
<1> QED BY <1>5, <1>6, <1>7, <1>8, <1>9, <1>10, <1>11, <1>12

-----------------------------------------------------------------------------
(* Charging plans: what the database knows of the stations. *)

Saving(area, s) == run[area].st = "save" /\ run[area].entry.s = s
Deletes(op, s) == op \in ops /\ op.s = s /\ op.st = "delete"
Deleting(s) == \E op \in ops : Deletes(op, s)

\* Where no request failed or met another one, at most one is between the
\* station and the database, and it is known what it will leave there.
AgreeAt(s) ==
  /\ \A op \in ops : Deletes(op, s) => op.purpose = "tx" /\ atStation[s].tx = S!NoProfile
  /\ \A area \in S!Areas : Saving(area, s) =>
       /\ atStation[s].tx = IF run[area].entry.tx = session[s] THEN S!ProfileOf(run[area].entry) ELSE S!NoProfile
       /\ ~Deleting(s)
       /\ \A other \in S!Areas : Saving(other, s) => other = area
  /\ session[s] # 0 /\ ~Deleting(s) /\ (\A area \in S!Areas : ~Saving(area, s)) =>
       atStation[s].tx = S!StoredForSession(s)

\* Nothing that concerns a station has changed.
LEMMA AgreeFrame ==
  ASSUME NEW s \in S!Stations, AgreeAt(s),
         atStation'[s].tx = atStation[s].tx, stored'[s].tx = stored[s].tx, session'[s] = session[s],
         \A op : Deletes(op, s)' <=> Deletes(op, s),
         \A area \in S!Areas : (Saving(area, s)' <=> Saving(area, s)),
         \A area \in S!Areas : Saving(area, s) => run'[area].entry = run[area].entry
  PROVE  AgreeAt(s)'
<1>1. Deleting(s)' <=> Deleting(s)
  BY DEF Deleting, Deletes
<1>2. S!StoredForSession(s)' = S!StoredForSession(s)
  BY DEF S!StoredForSession
<1>3. ASSUME NEW op \in ops', Deletes(op, s)' PROVE op.purpose = "tx" /\ (atStation[s].tx)' = S!NoProfile
  <2>1. Deletes(op, s) /\ op \in ops
    BY <1>3 DEF Deletes
  <2> QED BY <2>1 DEF AgreeAt
<1>4. ASSUME NEW area \in S!Areas, Saving(area, s)'
      PROVE  /\ atStation'[s].tx = IF run'[area].entry.tx = session'[s] THEN S!ProfileOf(run'[area].entry)
                                   ELSE S!NoProfile
             /\ ~Deleting(s)'
             /\ \A other \in S!Areas : Saving(other, s)' => other = area
  <2>1. Saving(area, s) /\ run'[area].entry = run[area].entry
    BY <1>4
  <2> QED BY <1>1, <2>1 DEF AgreeAt
<1>5. ASSUME session'[s] # 0, ~Deleting(s)', \A area \in S!Areas : ~Saving(area, s)'
      PROVE  atStation'[s].tx = S!StoredForSession(s)'
  BY <1>1, <1>2, <1>5 DEF AgreeAt
<1> QED BY <1>3, <1>4, <1>5 DEF AgreeAt

\* The runs have not sent nor saved anything for a station.
LEMMA SavingFrame ==
  ASSUME PlansShape, NEW s, run' = run \/ run' = S!Outdated(run)
  PROVE  /\ \A area \in S!Areas : (Saving(area, s)' <=> Saving(area, s))
         /\ \A area \in S!Areas : Saving(area, s) => run'[area].entry = run[area].entry
<1>1. ASSUME NEW area \in S!Areas
      PROVE  /\ run'[area].st = run[area].st
             /\ run[area].st # "idle" => run'[area].entry = run[area].entry
  BY OutdatedRuns DEF PlansShape
<1> QED BY <1>1 DEF Saving

\* One run goes on, the others know at most that something has changed.
LEMMA SavingOther ==
  ASSUME PlansShape, NEW s, NEW area \in S!Areas, NEW new, NEW old, old = run \/ old = S!Outdated(run),
         run' = [old EXCEPT ![area] = new], ~Saving(area, s), new.st = "save" => new.entry.s # s
  PROVE  /\ \A a \in S!Areas : (Saving(a, s)' <=> Saving(a, s))
         /\ \A a \in S!Areas : Saving(a, s) => run'[a].entry = run[a].entry
<1>1. /\ DOMAIN old = S!Areas
      /\ \A a \in S!Areas : old[a].st = run[a].st /\ (run[a].st # "idle" => old[a].entry = run[a].entry)
  BY OutdatedRuns DEF PlansShape, PlansTypeOK
<1>2. \A a \in S!Areas : run'[a] = IF a = area THEN new ELSE old[a]
  BY <1>1
<1>3. ASSUME NEW a \in S!Areas
      PROVE  (Saving(a, s)' <=> Saving(a, s)) /\ (Saving(a, s) => run'[a].entry = run[a].entry)
  <2>1. CASE a = area
    BY <1>2, <2>1 DEF Saving
  <2>2. CASE a # area
    BY <1>1, <1>2, <1>3, <2>2 DEF Saving
  <2> QED BY <2>1, <2>2
<1> QED BY <1>3

LEMMA BetweenFacts ==
  ASSUME NEW s
  PROVE  /\ S!BetweenRuns(s) = {} <=> \A area \in S!Areas : ~Saving(area, s)
         /\ S!BetweenOps(s) = {} => ~Deleting(s)
  BY DEF S!BetweenRuns, S!BetweenOps, Saving, Deleting, Deletes

\* Requests are added and taken away, but none that deletes.
LEMMA DeletesFrame ==
  ASSUME NEW s, NEW more, NEW fewer, ops' = (ops \cup more) \ fewer \/ ops' = (ops \ fewer) \cup more,
         \A op \in more \cup fewer : op.s = s => op.st # "delete"
  PROVE  \A op : Deletes(op, s)' <=> Deletes(op, s)
  BY DEF Deletes

LEMMA StartAgrees ==
  ASSUME PlansShape, NEW s \in S!Stations, AgreeAt(s), S!StartTransaction(s)
  PROVE  AgreeAt(s)'
<1>1. /\ session[s] = 0 /\ session' = [session EXCEPT ![s] = pcount.session + 1]
      /\ run' = S!Outdated(run) /\ UNCHANGED <<atStation, stored, ops>>
  BY DEF S!StartTransaction
<1>2. /\ session'[s] = pcount.session + 1 /\ pcount.session \in Nat
  BY <1>1 DEF PlansShape, PlansTypeOK
<1>3. atStation[s].tx = S!NoProfile
  BY <1>1 DEF PlansShape, Numbered
<1>4. (\A op : Deletes(op, s)' <=> Deletes(op, s)) /\ (Deleting(s)' <=> Deleting(s))
  BY <1>1 DEF Deletes, Deleting
<1>5. /\ \A area \in S!Areas : (Saving(area, s)' <=> Saving(area, s))
      /\ \A area \in S!Areas : Saving(area, s) => run'[area].entry = run[area].entry
  BY <1>1, SavingFrame
<1>6. ASSUME NEW op \in ops', Deletes(op, s)' PROVE op.purpose = "tx" /\ atStation'[s].tx = S!NoProfile
  <2>1. Deletes(op, s) /\ op \in ops
    BY <1>1, <1>4, <1>6
  <2> QED BY <1>1, <2>1 DEF AgreeAt
<1>7. ASSUME NEW area \in S!Areas, Saving(area, s)'
      PROVE  /\ atStation'[s].tx = IF run'[area].entry.tx = session'[s] THEN S!ProfileOf(run'[area].entry)
                                   ELSE S!NoProfile
             /\ ~Deleting(s)'
             /\ \A other \in S!Areas : Saving(other, s)' => other = area
  <2>1. Saving(area, s) /\ run'[area].entry = run[area].entry
    BY <1>5, <1>7
  <2>2. run[area].entry.tx <= pcount.session /\ run[area].entry.tx \in Nat
    BY <2>1, SavedProfile DEF Saving, Entry
  <2>3. run'[area].entry.tx # session'[s]
    BY <1>2, <2>1, <2>2
  <2> QED BY <1>1, <1>3, <1>4, <1>5, <2>1, <2>3 DEF AgreeAt
<1>8. atStation'[s].tx = S!StoredForSession(s)'
  <2>1. stored[s].tx.tx <= pcount.session /\ stored[s].tx.tx \in Nat
    BY DEF PlansShape, PlansTypeOK, Numbered, Profiles, Profile
  <2>2. stored'[s].tx.tx # session'[s]
    BY <1>1, <1>2, <2>1
  <2> QED BY <1>1, <1>3, <2>2 DEF S!StoredForSession
<1> QED BY <1>6, <1>7, <1>8 DEF AgreeAt

LEMMA StopAgrees ==
  ASSUME PlansShape, NEW s \in S!Stations, AgreeAt(s), S!TriggerSmartChargingStopTransaction(s)
  PROVE  AgreeAt(s)'
<1>1. /\ session' = [session EXCEPT ![s] = 0]
      /\ atStation' = [atStation EXCEPT ![s] = [atStation[s] EXCEPT !.tx = S!NoProfile]]
      /\ ops' = ops \/ ops' = ops \cup {[s |-> s, purpose |-> "tx", st |-> "clear"]}
      /\ UNCHANGED <<stored, run>>
  BY DEF S!TriggerSmartChargingStopTransaction
<1>2. session'[s] = 0
  BY <1>1 DEF PlansShape, PlansTypeOK
<1>3. atStation'[s].tx = S!NoProfile
  BY <1>1, SetTxProfile, NoProfileType DEF PlansShape, PlansTypeOK
<1>4. \A op : Deletes(op, s)' <=> Deletes(op, s)
  BY <1>1 DEF Deletes
<1>5. Deleting(s)' <=> Deleting(s)
  BY <1>4 DEF Deleting, Deletes
<1>6. \A area \in S!Areas : (Saving(area, s)' <=> Saving(area, s))
  BY <1>1, SavingFrame
<1>7. ASSUME NEW op \in ops', Deletes(op, s)' PROVE op.purpose = "tx"
  <2>1. Deletes(op, s) /\ op \in ops
    BY <1>4, <1>7 DEF Deletes
  <2> QED BY <2>1 DEF AgreeAt
<1>8. ASSUME NEW area \in S!Areas, Saving(area, s)'
      PROVE  /\ run'[area].entry.tx # 0
             /\ ~Deleting(s)'
             /\ \A other \in S!Areas : Saving(other, s)' => other = area
  <2>1. Saving(area, s)
    BY <1>6, <1>8
  <2>2. run[area].entry.tx # 0
    BY <2>1, SavedProfile DEF Saving, Entry
  <2> QED BY <1>1, <1>5, <1>6, <2>1, <2>2 DEF AgreeAt
<1> QED BY <1>2, <1>3, <1>7, <1>8 DEF AgreeAt

\* Stations, assets, and the profiles set or cleared outside the runs.
LEMMA StationsAndRequestsAgree ==
  ASSUME PlansShape, NEW s \in S!Stations, s \notin tainted => AgreeAt(s), s \notin tainted',
         \/ \E x \in S!Stations :
              \/ S!StartTransaction(x) \/ S!Suspend(x) \/ S!Resume(x)
              \/ S!TriggerSmartChargingStopTransaction(x) \/ S!SetAndSaveChargingProfile(x)
              \/ \E purpose \in {"tx", "user"} : S!HandleDeleteChargingProfile(x, purpose)
         \/ S!AssetConsumes \/ S!ClearChargingProfile \/ S!ClearFails \/ S!DeleteChargingProfile
         \/ S!SaveUserProfile
  PROVE  AgreeAt(s)'
<1>1. /\ session \in [S!Stations -> Nat] /\ ops \subseteq Request
      /\ atStation \in [S!Stations -> Profiles] /\ stored \in [S!Stations -> Profiles]
  BY DEF PlansShape, PlansTypeOK
<1>2. S!NoProfile \in Profile /\ S!NoProfiles \in Profiles /\ S!NoProfiles.tx = S!NoProfile
      /\ [tx |-> 0, limit |-> UserLimit] \in Profile
  BY NoProfileType, AmpsAssumption DEF Profile
<1>3. ASSUME NEW op \in ops PROVE op.s \in S!Stations /\ op.purpose \in {"tx", "user"}
  BY <1>1 DEF Request
<1>4. ASSUME s \notin tainted, atStation'[s].tx = atStation[s].tx, stored'[s].tx = stored[s].tx,
             session'[s] = session[s], \A op : Deletes(op, s)' <=> Deletes(op, s),
             run' = run \/ run' = S!Outdated(run)
      PROVE  AgreeAt(s)'
  BY <1>4, AgreeFrame, SavingFrame
<1>5. ASSUME NEW x \in S!Stations, S!StartTransaction(x) PROVE AgreeAt(s)'
  <2>1. CASE x = s
    BY <1>5, <2>1, StartAgrees DEF S!StartTransaction
  <2>2. CASE x # s
    <3>1. /\ session' = [session EXCEPT ![x] = pcount.session + 1]
          /\ run' = S!Outdated(run) /\ UNCHANGED <<atStation, stored, ops, tainted>>
      BY <1>5 DEF S!StartTransaction
    <3>2. \A op : Deletes(op, s)' <=> Deletes(op, s)
      BY <3>1 DEF Deletes
    <3> QED BY <1>1, <1>4, <2>2, <3>1, <3>2
  <2> QED BY <2>1, <2>2
<1>6. ASSUME NEW x \in S!Stations, S!Suspend(x) \/ S!Resume(x) PROVE AgreeAt(s)'
  <2>1. /\ UNCHANGED <<session, atStation, stored, ops, tainted>>
        /\ run' = run \/ run' = S!Outdated(run)
    BY <1>6 DEF S!Suspend, S!Resume
  <2>2. \A op : Deletes(op, s)' <=> Deletes(op, s)
    BY <2>1 DEF Deletes
  <2> QED BY <1>4, <2>1, <2>2
<1>7. ASSUME NEW x \in S!Stations, S!TriggerSmartChargingStopTransaction(x) PROVE AgreeAt(s)'
  <2>1. CASE x = s
    BY <1>7, <2>1, StopAgrees DEF S!TriggerSmartChargingStopTransaction
  <2>2. CASE x # s
    <3>1. /\ session' = [session EXCEPT ![x] = 0]
          /\ atStation' = [atStation EXCEPT ![x] = [atStation[x] EXCEPT !.tx = S!NoProfile]]
          /\ ops' = ops \/ ops' = ops \cup {[s |-> x, purpose |-> "tx", st |-> "clear"]}
          /\ UNCHANGED <<stored, run, tainted>>
      BY <1>7 DEF S!TriggerSmartChargingStopTransaction
    <3>2. \A op : Deletes(op, s)' <=> Deletes(op, s)
      BY <3>1 DEF Deletes
    <3> QED BY <1>1, <1>4, <2>2, <3>1, <3>2
  <2> QED BY <2>1, <2>2
<1>8. ASSUME NEW x \in S!Stations, S!SetAndSaveChargingProfile(x) PROVE AgreeAt(s)'
  <2>1. /\ atStation' = [atStation EXCEPT ![x] = [atStation[x] EXCEPT !.user = [tx |-> 0, limit |-> UserLimit]]]
        /\ ops' = ops \/ ops' = ops \cup {[s |-> x, purpose |-> "user", st |-> "save"]}
        /\ UNCHANGED <<session, stored, run, tainted>>
    BY <1>8 DEF S!SetAndSaveChargingProfile
  <2>2. \A op : Deletes(op, s)' <=> Deletes(op, s)
    BY <2>1 DEF Deletes
  <2>3. PICK p \in Profile : p = [tx |-> 0, limit |-> UserLimit]
    BY <1>2
  <2>4. atStation' = [atStation EXCEPT ![x] = [atStation[x] EXCEPT !.user = p]]
    BY <2>1, <2>3
  <2>5. atStation'[s].tx = atStation[s].tx
    BY <1>1, <1>8, <2>4, SetUserProfile
  <2> QED BY <1>4, <2>1, <2>2, <2>5
<1>9. ASSUME NEW x \in S!Stations, NEW purpose \in {"tx", "user"}, S!HandleDeleteChargingProfile(x, purpose)
      PROVE  AgreeAt(s)'
  <2>1. /\ ops' = ops \cup {[s |-> x, purpose |-> purpose, st |-> "clear"]}
        /\ UNCHANGED <<session, atStation, stored, run, tainted>>
    BY <1>9 DEF S!HandleDeleteChargingProfile
  <2>2. \A op : Deletes(op, s)' <=> Deletes(op, s)
    BY <2>1 DEF Deletes
  <2> QED BY <1>4, <2>1, <2>2
<1>10. CASE S!AssetConsumes
  <2>1. run' = S!Outdated(run) /\ UNCHANGED <<session, atStation, stored, ops, tainted>>
    BY <1>10 DEF S!AssetConsumes
  <2>2. \A op : Deletes(op, s)' <=> Deletes(op, s)
    BY <2>1 DEF Deletes
  <2> QED BY <1>4, <2>1, <2>2
<1>11. CASE S!ClearChargingProfile
  <2>1. PICK op \in ops :
          /\ op.st = "clear"
          /\ atStation' = [atStation EXCEPT ![op.s] = S!NoProfiles]
          /\ ops' = (ops \ {op}) \cup {[op EXCEPT !.st = "delete"]}
          /\ S!Touch(op.s, S!BetweenRuns(op.s) # {} \/ S!BetweenOps(op.s) # {} \/ op.purpose # "tx")
          /\ run' = S!Outdated(run)
          /\ UNCHANGED <<session, stored>>
    BY <1>11 DEF S!ClearChargingProfile
  <2>2. /\ op \in Request /\ op.s \in S!Stations
    BY <1>1, <1>3
  <2>3. PICK done \in Request : done = [op EXCEPT !.st = "delete"]
    BY <2>2 DEF Request
  <2>4. done.s = op.s /\ done.purpose = op.purpose /\ done.st = "delete"
    BY <2>2, <2>3 DEF Request
  <2>5. CASE op.s = s
    <3>1. S!BetweenRuns(s) = {} /\ S!BetweenOps(s) = {} /\ op.purpose = "tx"
      BY <2>1, <2>5 DEF S!Touch
    <3>2. atStation'[s].tx = S!NoProfile
      BY <1>1, <1>2, <2>1, <2>5
    <3>3. \A area \in S!Areas : ~Saving(area, s)'
      BY <2>1, <3>1, BetweenFacts, SavingFrame
    <3>4. ASSUME NEW o \in ops', Deletes(o, s)' PROVE o.purpose = "tx"
      <4>1. o \in ops => ~ (o.s = s /\ o.st = "delete")
        BY <3>1 DEF S!BetweenOps
      <4>2. o \in ops \/ o = done
        BY <2>1, <2>3, <3>4
      <4> QED BY <2>4, <3>1, <3>4, <4>1, <4>2 DEF Deletes
    <3>5. Deleting(s)'
      <4>1. done \in ops'
        BY <2>1, <2>3
      <4> QED BY <2>4, <2>5, <4>1 DEF Deleting, Deletes
    <3> QED BY <3>2, <3>3, <3>4, <3>5 DEF AgreeAt
  <2>6. CASE op.s # s
    <3>1. s \notin tainted
      BY <2>1, <2>6 DEF S!Touch
    <3>2. \A o : Deletes(o, s)' <=> Deletes(o, s)
      BY <2>1, <2>3, <2>4, <2>6 DEF Deletes
    <3>3. atStation'[s] = atStation[s]
      BY <1>1, <2>1, <2>6
    <3> QED BY <1>4, <2>1, <3>1, <3>2, <3>3
  <2> QED BY <2>5, <2>6
<1>12. CASE S!ClearFails
  <2>1. PICK op \in ops :
          /\ op.st = "clear"
          /\ atStation' \in {atStation, [atStation EXCEPT ![op.s] = S!NoProfiles]}
          /\ ops' = ops \ {op} /\ tainted' = tainted \cup {op.s}
          /\ run' = S!Outdated(run) /\ UNCHANGED <<session, stored>>
    BY <1>12 DEF S!ClearFails
  <2>2. op.s # s /\ s \notin tainted /\ op.s \in S!Stations
    BY <1>3, <2>1
  <2>3. \A o : Deletes(o, s)' <=> Deletes(o, s)
    BY <2>1 DEF Deletes
  <2>4. atStation'[s] = atStation[s]
    BY <1>1, <2>1, <2>2
  <2> QED BY <1>4, <2>1, <2>2, <2>3, <2>4
<1>13. CASE S!DeleteChargingProfile
  <2>1. PICK op \in ops :
          /\ op.st = "delete"
          /\ stored' = [stored EXCEPT ![op.s] = [stored[op.s] EXCEPT ![op.purpose] = S!NoProfile]]
          /\ ops' = ops \ {op}
          /\ UNCHANGED <<session, atStation, run, tainted>>
    BY <1>13 DEF S!DeleteChargingProfile
  <2>2. op.s \in S!Stations /\ op.purpose \in {"tx", "user"}
    BY <1>3
  <2>3. CASE op.s = s
    <3>1. Deletes(op, s) /\ Deleting(s) /\ AgreeAt(s)
      BY <2>1, <2>3 DEF Deletes, Deleting
    <3>2. op.purpose = "tx" /\ atStation'[s].tx = S!NoProfile /\ \A area \in S!Areas : ~Saving(area, s)
      BY <2>1, <3>1 DEF AgreeAt
    <3>3. stored' = [stored EXCEPT ![s] = [stored[s] EXCEPT !.tx = S!NoProfile]]
      BY <2>1, <2>3, <3>2
    <3>4. stored'[s].tx = S!NoProfile
      BY <1>1, <1>2, <3>3, SetTxProfile
    <3>5. S!StoredForSession(s)' = S!NoProfile
      BY <3>4 DEF S!StoredForSession
    <3>6. \A area \in S!Areas : ~Saving(area, s)'
      BY <2>1, <3>2 DEF Saving
    <3>7. ASSUME NEW o \in ops', Deletes(o, s)' PROVE o.purpose = "tx"
      <4>1. o \in ops /\ Deletes(o, s)
        BY <2>1, <3>7 DEF Deletes
      <4> QED BY <3>1, <4>1 DEF AgreeAt
    <3> QED BY <3>2, <3>5, <3>6, <3>7 DEF AgreeAt
  <2>4. CASE op.s # s
    <3>1. stored'[s] = stored[s]
      BY <1>1, <2>1, <2>4
    <3>2. \A o : Deletes(o, s)' <=> Deletes(o, s)
      BY <2>1, <2>4 DEF Deletes
    <3> QED BY <1>4, <2>1, <3>1, <3>2
  <2> QED BY <2>3, <2>4
<1>14. CASE S!SaveUserProfile
  <2>1. PICK op \in ops :
          /\ op.st = "save"
          /\ stored' = [stored EXCEPT ![op.s] = [stored[op.s] EXCEPT !.user = [tx |-> 0, limit |-> UserLimit]]]
          /\ ops' = ops \ {op}
          /\ UNCHANGED <<session, atStation, run, tainted>>
    BY <1>14 DEF S!SaveUserProfile
  <2>2. op.s \in S!Stations
    BY <1>3
  <2>3. PICK p \in Profile : p = [tx |-> 0, limit |-> UserLimit]
    BY <1>2
  <2>4. stored' = [stored EXCEPT ![op.s] = [stored[op.s] EXCEPT !.user = p]]
    BY <2>1, <2>3
  <2>5. stored'[s].tx = stored[s].tx
    BY <1>1, <2>2, <2>4, SetUserProfile
  <2>6. \A o : Deletes(o, s)' <=> Deletes(o, s)
    BY <2>1 DEF Deletes
  <2> QED BY <1>4, <2>1, <2>5, <2>6
<1> QED BY <1>5, <1>6, <1>7, <1>8, <1>9, <1>10, <1>11, <1>12, <1>13, <1>14

\* The steps of the runs.
LEMMA RunsAgree ==
  ASSUME PlansShape, NEW s \in S!Stations, s \notin tainted => AgreeAt(s), s \notin tainted', NEW area \in S!Areas,
         \/ S!TriggerSmartCharging(area) \/ S!SetChargingProfile(area) \/ S!SetFails(area)
         \/ S!SaveChargingProfile(area) \/ S!SaveFails(area)
         \/ S!ComputeAgain(area) \/ S!Applied(area) \/ S!RunDies(area)
  PROVE  AgreeAt(s)'
<1>1. /\ atStation \in [S!Stations -> Profiles] /\ stored \in [S!Stations -> Profiles]
      /\ run \in [S!Areas -> Run \cup {S!Idle}]
  BY DEF PlansShape, PlansTypeOK
<1>2. ASSUME NEW e \in Entry PROVE S!ProfileOf(e) \in Profile /\ e.s \in S!Stations
  BY DEF Entry, Profile, S!ProfileOf
<1>3. ASSUME s \notin tainted, (atStation[s].tx)' = atStation[s].tx, UNCHANGED <<stored, session, ops>>,
             ~Saving(area, s), NEW old, old = run \/ old = S!Outdated(run),
             NEW new, run' = [old EXCEPT ![area] = new], new.st = "save" => new.entry.s # s
      PROVE  AgreeAt(s)'
  <2>1. \A op : Deletes(op, s)' <=> Deletes(op, s)
    BY <1>3 DEF Deletes
  <2>2. /\ \A a \in S!Areas : (Saving(a, s)' <=> Saving(a, s))
        /\ \A a \in S!Areas : Saving(a, s) => run'[a].entry = run[a].entry
    BY <1>3, SavingOther
  <2> QED BY <1>3, <2>1, <2>2, AgreeFrame
<1>4. ASSUME NEW r \in Run, r.st = "apply", r.entry = S!NoProfile, run[area].st # "save",
             S!ComputeAndApplyChargingProfiles(area, r),
             UNCHANGED <<session, atStation, stored, ops, tainted>>
      PROVE  AgreeAt(s)'
  <2>1. ~Saving(area, s)
    BY <1>4 DEF Saving
  <2>2. CASE run' = [run EXCEPT ![area] = S!Idle]
    BY <1>3, <1>4, <2>1, <2>2 DEF S!Idle
  <2>3. ASSUME NEW new \in Run, run' = [S!Outdated(run) EXCEPT ![area] = new], new.st = "apply"
        PROVE  AgreeAt(s)'
    BY <1>3, <1>4, <2>1, <2>3
  <2> QED BY <1>4, <2>2, <2>3, Computed
<1>5. CASE S!TriggerSmartCharging(area)
  <2>1. PICK r : /\ r = [st |-> "apply", retry |-> FALSE, excluded |-> {}, queue |-> {},
                         entry |-> S!NoProfile, failed |-> FALSE, clean |-> TRUE]
                 /\ S!ComputeAndApplyChargingProfiles(area, r)
                 /\ UNCHANGED <<session, charging, atStation, stored, ops, asset, tainted>>
    BY <1>5 DEF S!TriggerSmartCharging
  <2>2. r \in Run /\ r.st = "apply" /\ r.entry = S!NoProfile
    BY <2>1 DEF Run
  <2>3. run[area].st = "idle"
    BY <1>5 DEF S!TriggerSmartCharging
  <2> QED BY <1>4, <2>1, <2>2, <2>3
<1>6. CASE S!SetChargingProfile(area)
  <2>1. PICK e \in S!NextProfiles(run[area]) :
          /\ S!Accepts(e.s, e.tx) /\ S!Sent(e)
          /\ run' = [run EXCEPT ![area] = [run[area] EXCEPT !.st = "save", !.entry = e]]
          /\ S!Touch(e.s, S!BetweenRuns(e.s) # {} \/ S!BetweenOps(e.s) # {})
    BY <1>6 DEF S!SetChargingProfile
  <2>2. run[area].st = "apply" /\ UNCHANGED <<session, stored, ops>>
    BY <1>6 DEF S!SetChargingProfile
  <2>3. run[area] \in Run /\ e \in Entry
    BY <2>2, NextProfileQueued
  <2>4. PICK r \in Run : r = run[area]
    BY <2>3
  <2>5. PICK new \in Run : new = [r EXCEPT !.st = "save", !.entry = e]
    BY <2>3 DEF Run
  <2>6. new.st = "save" /\ new.entry = e
    BY <2>5 DEF Run
  <2>7. run' = [run EXCEPT ![area] = new]
    BY <2>1, <2>4, <2>5
  <2>8. PICK p \in Profile : p = S!ProfileOf(e)
    BY <1>2, <2>3
  <2>9. \A x \in S!Stations : atStation'[x].tx = IF x = e.s THEN p ELSE atStation[x].tx
    BY <1>1, <1>2, <2>1, <2>3, <2>8, SetTxProfile DEF S!Sent
  <2>10. CASE e.s = s
    <3>1. S!BetweenRuns(s) = {} /\ S!BetweenOps(s) = {}
      BY <2>1, <2>10 DEF S!Touch
    <3>2. ~Deleting(s) /\ \A a \in S!Areas : ~Saving(a, s)
      BY <3>1, BetweenFacts
    <3>3. ~Deleting(s)' /\ \A op \in ops' : ~Deletes(op, s)'
      BY <2>2, <3>2 DEF Deleting, Deletes
    <3>4. \A a \in S!Areas : run'[a] = IF a = area THEN new ELSE run[a]
      BY <1>1, <2>7
    <3>5. Saving(area, s)' /\ \A a \in S!Areas : Saving(a, s)' => a = area
      BY <2>6, <2>10, <3>2, <3>4 DEF Saving
    <3>6. run'[area].entry = e /\ session'[s] = e.tx /\ atStation'[s].tx = S!ProfileOf(e)
      BY <2>1, <2>2, <2>6, <2>8, <2>9, <2>10, <3>4 DEF S!Accepts
    <3> QED BY <3>3, <3>5, <3>6 DEF AgreeAt
  <2>11. CASE e.s # s
    <3>1. s \notin tainted /\ ~Saving(area, s)
      BY <2>1, <2>2, <2>11 DEF S!Touch, Saving
    <3>2. atStation'[s].tx = atStation[s].tx
      BY <2>9, <2>11
    <3> QED BY <1>3, <2>2, <2>6, <2>7, <2>11, <3>1, <3>2
  <2> QED BY <2>10, <2>11
<1>7. CASE S!SetFails(area)
  <2>1. PICK e \in S!NextProfiles(run[area]) :
          /\ \/ UNCHANGED <<atStation, tainted>>
             \/ S!Sent(e) /\ tainted' = tainted \cup {e.s}
          /\ S!HandleRefusedChargingProfile(area, e)
    BY <1>7 DEF S!SetFails
  <2>2. run[area].st = "apply" /\ UNCHANGED <<session, stored, ops>>
    BY <1>7 DEF S!SetFails
  <2>3. run[area] \in Run /\ e \in Entry
    BY <2>2, NextProfileQueued
  <2>4. PICK new \in Run : /\ run' = [run EXCEPT ![area] = new]
                           /\ new.st = "apply" /\ new.entry = S!NoProfile /\ new.failed = TRUE
                           /\ new.queue = run[area].queue \ {e}
    BY <2>1, <2>3, Refused
  <2>5. s \notin tainted /\ atStation'[s].tx = atStation[s].tx
    <3>1. CASE UNCHANGED <<atStation, tainted>>
      BY <3>1
    <3>2. CASE S!Sent(e) /\ tainted' = tainted \cup {e.s}
      BY <1>1, <1>2, <2>3, <3>2 DEF S!Sent
    <3> QED BY <2>1, <3>1, <3>2
  <2>6. ~Saving(area, s)
    BY <2>2 DEF Saving
  <2> QED BY <1>3, <2>2, <2>4, <2>5, <2>6
<1>8. CASE S!SaveChargingProfile(area)
  <2>1. PICK e : e = run[area].entry
    OBVIOUS
  <2>2. /\ run[area].st = "save"
        /\ stored' = [stored EXCEPT ![e.s] = [stored[e.s] EXCEPT !.tx = S!ProfileOf(e)]]
        /\ run' = [run EXCEPT ![area] = [run[area] EXCEPT !.st = "apply", !.entry = S!NoProfile,
                                                          !.queue = run[area].queue \ {e}]]
        /\ UNCHANGED <<session, atStation, ops, tainted>>
    BY <1>8, <2>1 DEF S!SaveChargingProfile
  <2>3. run[area] \in Run /\ e \in Entry
    BY <2>1, <2>2, SavedProfile
  <2>4. PICK r \in Run : r = run[area]
    BY <2>3
  <2>5. PICK new \in Run : new = [r EXCEPT !.st = "apply", !.entry = S!NoProfile, !.queue = r.queue \ {e}]
    BY DEF Run
  <2>6. new.st = "apply"
    BY <2>5 DEF Run
  <2>7. run' = [run EXCEPT ![area] = new]
    BY <2>2, <2>4, <2>5
  <2>8. PICK p \in Profile : p = S!ProfileOf(e)
    BY <1>2, <2>3
  <2>9. \A x \in S!Stations : stored'[x].tx = IF x = e.s THEN p ELSE stored[x].tx
    BY <1>1, <1>2, <2>2, <2>3, <2>8, SetTxProfile
  <2>10. \A op : Deletes(op, s)' <=> Deletes(op, s)
    BY <2>2 DEF Deletes
  <2>11. \A a \in S!Areas : run'[a] = IF a = area THEN new ELSE run[a]
    BY <1>1, <2>7
  <2>12. CASE e.s = s
    <3>1. Saving(area, s) /\ AgreeAt(s)
      BY <2>1, <2>2, <2>12 DEF Saving
    <3>2. ~Deleting(s) /\ \A a \in S!Areas : Saving(a, s) => a = area
      BY <3>1 DEF AgreeAt
    <3>3. ~Deleting(s)' /\ \A op \in ops' : ~Deletes(op, s)'
      BY <2>2, <3>2 DEF Deleting, Deletes
    <3>4. \A a \in S!Areas : ~Saving(a, s)'
      BY <2>6, <2>11, <3>2 DEF Saving
    <3>5. atStation'[s].tx = IF e.tx = session'[s] THEN S!ProfileOf(e) ELSE S!NoProfile
      BY <2>1, <2>2, <3>1 DEF AgreeAt
    <3>6. stored'[s].tx = S!ProfileOf(e) /\ S!ProfileOf(e).tx = e.tx
      BY <2>8, <2>9, <2>12 DEF S!ProfileOf
    <3>7. atStation'[s].tx = S!StoredForSession(s)'
      BY <3>5, <3>6 DEF S!StoredForSession
    <3> QED BY <3>3, <3>4, <3>7 DEF AgreeAt
  <2>13. CASE e.s # s
    <3>1. s \notin tainted /\ ~Saving(area, s)
      BY <2>1, <2>2, <2>13 DEF Saving
    <3>2. /\ \A a \in S!Areas : (Saving(a, s)' <=> Saving(a, s))
          /\ \A a \in S!Areas : Saving(a, s) => run'[a].entry = run[a].entry
      BY <2>6, <2>7, <3>1, SavingOther
    <3>3. stored'[s].tx = stored[s].tx
      BY <2>9, <2>13
    <3> QED BY <2>2, <2>10, <3>1, <3>2, <3>3, AgreeFrame
  <2> QED BY <2>12, <2>13
<1>9. CASE S!SaveFails(area)
  <2>1. PICK e : e = run[area].entry
    OBVIOUS
  <2>2. /\ run[area].st = "save"
        /\ \/ run' = [run EXCEPT ![area] = [run[area] EXCEPT !.st = "apply"]]
           \/ S!HandleRefusedChargingProfile(area, e)
        /\ tainted' = tainted \cup {e.s}
        /\ UNCHANGED <<session, atStation, stored, ops>>
    BY <1>9, <2>1 DEF S!SaveFails
  <2>3. run[area] \in Run /\ e \in Entry
    BY <2>1, <2>2, SavedProfile
  <2>4. s \notin tainted /\ ~Saving(area, s)
    BY <2>1, <2>2 DEF Saving
  <2>5. CASE run' = [run EXCEPT ![area] = [run[area] EXCEPT !.st = "apply"]]
    <3>1. PICK r \in Run : r = run[area]
      BY <2>3
    <3>2. PICK new \in Run : new = [r EXCEPT !.st = "apply"]
      BY DEF Run
    <3>3. new.st = "apply" /\ run' = [run EXCEPT ![area] = new]
      BY <2>5, <3>1, <3>2 DEF Run
    <3> QED BY <1>3, <2>2, <2>4, <3>3
  <2>6. CASE S!HandleRefusedChargingProfile(area, e)
    <3>1. PICK new \in Run : /\ run' = [run EXCEPT ![area] = new]
                             /\ new.st = "apply" /\ new.entry = S!NoProfile /\ new.failed = TRUE
                             /\ new.queue = run[area].queue \ {e}
      BY <2>3, <2>6, Refused
    <3> QED BY <1>3, <2>2, <2>4, <3>1
  <2> QED BY <2>2, <2>5, <2>6
<1>10. CASE S!ComputeAgain(area)
  <2>1. /\ run[area].st = "apply" /\ run[area].queue = {}
        /\ S!ComputeAndApplyChargingProfiles(area, [run[area] EXCEPT !.retry = TRUE, !.failed = FALSE])
        /\ UNCHANGED <<session, charging, atStation, stored, ops, asset, pcount, tainted>>
    BY <1>10 DEF S!ComputeAgain
  <2>2. run[area] \in Run /\ run[area].entry = S!NoProfile
    BY <1>1, <2>1, RunFacts DEF PlansShape, Numbered, NumberedRun
  <2>3. PICK r \in Run : r = run[area]
    BY <2>2
  <2>4. PICK new \in Run : new = [r EXCEPT !.retry = TRUE, !.failed = FALSE]
    BY DEF Run
  <2>5. new.st = "apply" /\ new.entry = S!NoProfile
    BY <2>1, <2>2, <2>3, <2>4 DEF Run
  <2> QED BY <1>4, <2>1, <2>3, <2>4, <2>5
<1>11. CASE S!Applied(area) \/ S!RunDies(area)
  <2>1. run' = [run EXCEPT ![area] = S!Idle] /\ UNCHANGED <<session, atStation, stored, ops>>
    BY <1>11 DEF S!Applied, S!RunDies, S!Release
  <2>2. s \notin tainted /\ ~Saving(area, s)
    BY <1>11 DEF S!Applied, S!RunDies, Saving
  <2> QED BY <1>3, <2>1, <2>2 DEF S!Idle
<1> QED BY <1>5, <1>6, <1>7, <1>8, <1>9, <1>10, <1>11

-----------------------------------------------------------------------------
(* Charging plans: the fuses. *)

\* A run whose plan is still that of the site is the only one, and what it
\* has sent and has still to send is within the fuses.
PlanHolds(area) ==
  /\ \A other \in S!Areas : other # area => run[other].st = "idle"
  /\ ~run[area].failed =>
       /\ Fits(run[area].queue, run[area].excluded, charging, asset, atStation)
       /\ \A s \in charging : Saving(area, s) => atStation[s].tx = S!ProfileOf(run[area].entry)

FusesInv ==
  /\ \A area \in S!Areas : run[area].st # "idle" /\ run[area].clean => PlanHolds(area)
  /\ settled => /\ \A area \in S!Areas : run[area].st = "idle"
                /\ \E excluded \in SUBSET S!Stations : Fits({}, excluded, charging, asset, atStation)

\* Fewer cars charge, or a station has got a profile that is queued.
LEMMA FitsStays ==
  ASSUME NEW queue, NEW excluded, NEW cars, NEW amps, NEW profiles, NEW cars2, NEW profiles2,
         cars2 \subseteq cars, Fits(queue, excluded, cars, amps, profiles),
         \A s \in cars2 : (\A e \in queue : e.s # s) => profiles2[s].tx = profiles[s].tx
  PROVE  Fits(queue, excluded, cars2, amps, profiles2)
  BY DEF Fits

\* What was sent is no longer queued.
LEMMA FitsSaved ==
  ASSUME NEW queue, NEW excluded, NEW cars, NEW amps, NEW profiles, NEW e \in queue, e.tx # 0,
         Fits(queue, excluded, cars, amps, profiles),
         e.s \in cars => profiles[e.s].tx = S!ProfileOf(e)
  PROVE  Fits(queue \ {e}, excluded, cars, amps, profiles)
<1>1. PICK plan \in [S!Stations -> Nat] :
        /\ plan["b"] + amps <= Capacity["sub"] /\ plan["a"] + plan["b"] + amps <= Capacity["root"]
        /\ \A s \in cars :
             /\ s \in excluded => plan[s] >= MaxAmps
             /\ s \notin excluded =>
                  /\ \A x \in queue : x.s = s => x.limit = plan[s]
                  /\ (\A x \in queue : x.s # s) =>
                       profiles[s].tx # S!NoProfile /\ profiles[s].tx.limit = plan[s]
  BY DEF Fits
<1>2. S!ProfileOf(e) # S!NoProfile /\ S!ProfileOf(e).limit = e.limit
  BY DEF S!ProfileOf, S!NoProfile
<1>3. ASSUME NEW s \in cars, s \notin excluded, \A x \in queue \ {e} : x.s # s
      PROVE  profiles[s].tx # S!NoProfile /\ profiles[s].tx.limit = plan[s]
  <2>1. CASE e.s = s
    BY <1>1, <1>2, <1>3, <2>1
  <2>2. CASE e.s # s
    BY <1>1, <1>3, <2>2
  <2> QED BY <2>1, <2>2
<1> QED BY <1>1, <1>3 DEF Fits

\* Nothing but that fewer cars charge.
LEMMA FusesFrame ==
  ASSUME FusesInv, UNCHANGED <<run, settled, asset>>, charging' \subseteq charging,
         \A s \in charging' : atStation'[s].tx = atStation[s].tx
  PROVE  FusesInv'
<1>1. ASSUME NEW queue, NEW excluded, Fits(queue, excluded, charging, asset, atStation)
      PROVE  Fits(queue, excluded, charging', asset', atStation')
  BY <1>1, FitsStays
<1>2. ASSUME NEW area \in S!Areas, run'[area].st # "idle", run'[area].clean
      PROVE  PlanHolds(area)'
  <2>1. PlanHolds(area)
    BY <1>2 DEF FusesInv
  <2>2. \A s \in charging' : Saving(area, s)' => atStation'[s].tx = S!ProfileOf(run'[area].entry) \/ run'[area].failed
    BY <2>1 DEF PlanHolds, Saving
  <2>3. ~run'[area].failed => Fits(run'[area].queue, run'[area].excluded, charging', asset', atStation')
    BY <1>1, <2>1 DEF PlanHolds
  <2>4. \A other \in S!Areas : other # area => run'[other].st = "idle"
    BY <2>1 DEF PlanHolds
  <2> QED BY <2>2, <2>3, <2>4 DEF PlanHolds
<1>3. settled' => /\ \A area \in S!Areas : run'[area].st = "idle"
                  /\ \E excluded \in SUBSET S!Stations : Fits({}, excluded, charging', asset', atStation')
  BY <1>1 DEF FusesInv
<1> QED BY <1>2, <1>3 DEF FusesInv

\* All the runs know of a change.
LEMMA FusesOutdated ==
  ASSUME PlansShape, run' = S!Outdated(run), settled' = FALSE
  PROVE  FusesInv'
<1>1. \A area \in S!Areas : run'[area].st = "idle" \/ run'[area].clean = FALSE
  BY OutdatedRuns DEF PlansShape
<1> QED BY <1>1 DEF FusesInv

\* One run goes on: it is known to hold, and no other run is under way with
\* the plan of the site.
LEMMA FusesOne ==
  ASSUME PlansShape, NEW area \in S!Areas, NEW new, NEW old, old = run \/ old = S!Outdated(run),
         run' = [old EXCEPT ![area] = new], settled' = FALSE,
         \A other \in S!Areas : other # area /\ old[other].st # "idle" => ~old[other].clean,
         new.st # "idle" /\ new.clean => PlanHolds(area)'
  PROVE  FusesInv'
<1>1. DOMAIN old = S!Areas
  BY OutdatedRuns DEF PlansShape, PlansTypeOK
<1>2. \A a \in S!Areas : run'[a] = IF a = area THEN new ELSE old[a]
  BY <1>1
<1>3. ASSUME NEW a \in S!Areas, run'[a].st # "idle", run'[a].clean PROVE PlanHolds(a)'
  BY <1>2, <1>3
<1> QED BY <1>3 DEF FusesInv

\* While a run is under way no other has the plan of the site, and none that
\* was applied is up to date.
LEMMA OnlyRun ==
  ASSUME PlansShape, FusesInv, NEW area \in S!Areas, run[area].st # "idle"
  PROVE  /\ settled = FALSE
         /\ \A other \in S!Areas : other # area /\ run[other].st # "idle" => ~run[other].clean
<1>1. settled = FALSE
  BY DEF FusesInv, PlansShape, PlansTypeOK
<1>2. ASSUME NEW other \in S!Areas, other # area, run[other].st # "idle", run[other].clean PROVE FALSE
  <2>1. PlanHolds(other)
    BY <1>2 DEF FusesInv
  <2> QED BY <1>2, <2>1 DEF PlanHolds
<1> QED BY <1>1, <1>2

\* Stations, assets, and the profiles set or cleared outside the runs.
LEMMA StationsAndRequestsFit ==
  ASSUME PlansShape, FusesInv,
         \/ \E x \in S!Stations :
              \/ S!StartTransaction(x) \/ S!Suspend(x) \/ S!Resume(x)
              \/ S!TriggerSmartChargingStopTransaction(x) \/ S!SetAndSaveChargingProfile(x)
              \/ \E purpose \in {"tx", "user"} : S!HandleDeleteChargingProfile(x, purpose)
         \/ S!AssetConsumes \/ S!ClearChargingProfile \/ S!ClearFails \/ S!DeleteChargingProfile
         \/ S!SaveUserProfile
  PROVE  FusesInv'
<1>1. charging \subseteq S!Stations /\ atStation \in [S!Stations -> Profiles]
  BY DEF PlansShape, PlansTypeOK
<1>2. ASSUME NEW x \in S!Stations, S!StartTransaction(x) \/ S!Resume(x) PROVE FusesInv'
  BY <1>2, FusesOutdated DEF S!StartTransaction, S!Resume
<1>3. ASSUME NEW x \in S!Stations, S!Suspend(x) PROVE FusesInv'
  <2>1. charging' \subseteq charging /\ UNCHANGED <<run, settled, asset, atStation>>
    BY <1>3 DEF S!Suspend
  <2> QED BY <2>1, FusesFrame
<1>4. ASSUME NEW x \in S!Stations, S!TriggerSmartChargingStopTransaction(x) PROVE FusesInv'
  <2>1. /\ charging' = charging \ {x} /\ UNCHANGED <<run, settled, asset>>
        /\ atStation' = [atStation EXCEPT ![x] = [atStation[x] EXCEPT !.tx = S!NoProfile]]
    BY <1>4 DEF S!TriggerSmartChargingStopTransaction
  <2>2. \A s \in charging' : atStation'[s].tx = atStation[s].tx
    BY <1>1, <2>1
  <2> QED BY <2>1, <2>2, FusesFrame
<1>5. ASSUME NEW x \in S!Stations, S!SetAndSaveChargingProfile(x) PROVE FusesInv'
  <2>1. /\ UNCHANGED <<run, settled, asset, charging>>
        /\ atStation' = [atStation EXCEPT ![x] = [atStation[x] EXCEPT !.user = [tx |-> 0, limit |-> UserLimit]]]
    BY <1>5 DEF S!SetAndSaveChargingProfile
  <2>2. PICK p \in Profile : p = [tx |-> 0, limit |-> UserLimit]
    BY AmpsAssumption DEF Profile
  <2>3. atStation' = [atStation EXCEPT ![x] = [atStation[x] EXCEPT !.user = p]]
    BY <2>1, <2>2
  <2>4. \A s \in charging' : atStation'[s].tx = atStation[s].tx
    BY <1>1, <1>5, <2>1, <2>3, SetUserProfile
  <2> QED BY <2>1, <2>4, FusesFrame
<1>6. ASSUME NEW x \in S!Stations, NEW purpose \in {"tx", "user"}, S!HandleDeleteChargingProfile(x, purpose)
      PROVE  FusesInv'
  <2>1. UNCHANGED <<run, settled, asset, charging, atStation>>
    BY <1>6 DEF S!HandleDeleteChargingProfile
  <2> QED BY <2>1, FusesFrame
<1>7. CASE S!AssetConsumes \/ S!ClearChargingProfile \/ S!ClearFails
  BY <1>7, FusesOutdated DEF S!AssetConsumes, S!ClearChargingProfile, S!ClearFails
<1>8. CASE S!DeleteChargingProfile \/ S!SaveUserProfile
  <2>1. UNCHANGED <<run, settled, asset, charging, atStation>>
    BY <1>8 DEF S!DeleteChargingProfile, S!SaveUserProfile
  <2> QED BY <2>1, FusesFrame
<1> QED BY <1>2, <1>3, <1>4, <1>5, <1>6, <1>7, <1>8

\* The steps of the runs.
LEMMA RunsFit ==
  ASSUME PlansShape, FusesInv, NEW area \in S!Areas,
         \/ S!TriggerSmartCharging(area) \/ S!SetChargingProfile(area) \/ S!SetFails(area)
         \/ S!SaveChargingProfile(area) \/ S!SaveFails(area)
         \/ S!ComputeAgain(area) \/ S!Applied(area) \/ S!RunDies(area)
  PROVE  FusesInv'
<1>1. /\ atStation \in [S!Stations -> Profiles] /\ charging \subseteq S!Stations
      /\ run \in [S!Areas -> Run \cup {S!Idle}]
  BY DEF PlansShape, PlansTypeOK
<1>2. ASSUME NEW e \in Entry PROVE S!ProfileOf(e) \in Profile /\ e.s \in S!Stations /\ e.tx # 0
  BY DEF Entry, Profile, S!ProfileOf
<1>3. ASSUME run[area].st # "idle", NEW new, run' = [run EXCEPT ![area] = new], UNCHANGED settled,
             new.st # "idle" /\ new.clean => PlanHolds(area)'
      PROVE  FusesInv'
  <2>1. settled' = FALSE /\ \A other \in S!Areas : other # area /\ run[other].st # "idle" => ~run[other].clean
    BY <1>3, OnlyRun
  <2> QED BY <1>3, <2>1, FusesOne
<1>4. ASSUME NEW r \in Run, r.st = "apply", r.entry = S!NoProfile, r.failed = FALSE,
             S!ComputeAndApplyChargingProfiles(area, r), UNCHANGED <<charging, asset, atStation>>
      PROVE  FusesInv'
  <2>1. CASE run' = [run EXCEPT ![area] = S!Idle] /\ settled' = settled
    <3>1. CASE run[area].st = "idle"
      <4>1. run[area] = S!Idle
        BY <1>1, <3>1, RunFacts
      <4>2. run' = run
        BY <1>1, <2>1, <4>1
      <4> QED BY <1>4, <2>1, <4>2, FusesFrame
    <3>2. CASE run[area].st # "idle"
      BY <1>3, <2>1, <3>2 DEF S!Idle
    <3> QED BY <3>1, <3>2
  <2>2. ASSUME settled' = FALSE, NEW new \in Run, run' = [S!Outdated(run) EXCEPT ![area] = new],
               new.st = "apply", new.failed = r.failed,
               new.clean => /\ \A other \in S!Areas : other # area => run[other].st = "idle"
                            /\ Fits(new.queue, new.excluded, charging, asset, atStation)
        PROVE  FusesInv'
    <3>1. \A other \in S!Areas : /\ S!Outdated(run)[other].st = run[other].st
                                 /\ run[other].st # "idle" => S!Outdated(run)[other].clean = FALSE
      BY OutdatedRuns DEF PlansShape
    <3>2. \A a \in S!Areas : run'[a] = IF a = area THEN new ELSE S!Outdated(run)[a]
      BY <2>2, OutdatedRuns DEF PlansShape
    <3>3. ASSUME new.clean PROVE PlanHolds(area)'
      <4>1. \A other \in S!Areas : other # area => run'[other].st = "idle"
        BY <2>2, <3>1, <3>2, <3>3
      <4>2. Fits(run'[area].queue, run'[area].excluded, charging', asset', atStation')
        BY <1>4, <2>2, <3>2, <3>3
      <4>3. \A s : ~Saving(area, s)'
        BY <2>2, <3>2 DEF Saving
      <4> QED BY <4>1, <4>2, <4>3 DEF PlanHolds
    <3>4. \A other \in S!Areas : other # area /\ S!Outdated(run)[other].st # "idle" => ~S!Outdated(run)[other].clean
      BY <3>1
    <3> QED BY <2>2, <3>3, <3>4, FusesOne
  <2> QED BY <1>4, <2>1, <2>2, Computed
<1>5. CASE S!TriggerSmartCharging(area)
  <2>1. PICK r : /\ r = [st |-> "apply", retry |-> FALSE, excluded |-> {}, queue |-> {},
                         entry |-> S!NoProfile, failed |-> FALSE, clean |-> TRUE]
                 /\ S!ComputeAndApplyChargingProfiles(area, r)
                 /\ UNCHANGED <<session, charging, atStation, stored, ops, asset, tainted>>
    BY <1>5 DEF S!TriggerSmartCharging
  <2>2. r \in Run /\ r.st = "apply" /\ r.entry = S!NoProfile /\ r.failed = FALSE
    BY <2>1 DEF Run
  <2> QED BY <1>4, <2>1, <2>2
<1>6. CASE S!SetChargingProfile(area)
  <2>1. PICK e \in S!NextProfiles(run[area]) :
          /\ S!Accepts(e.s, e.tx) /\ S!Sent(e)
          /\ run' = [run EXCEPT ![area] = [run[area] EXCEPT !.st = "save", !.entry = e]]
    BY <1>6 DEF S!SetChargingProfile
  <2>2. run[area].st = "apply" /\ UNCHANGED <<charging, asset, settled>>
    BY <1>6 DEF S!SetChargingProfile
  <2>3. run[area] \in Run /\ e \in Entry /\ e \in run[area].queue
    BY <2>2, NextProfileQueued
  <2>4. PICK r \in Run : r = run[area]
    BY <2>3
  <2>5. PICK new \in Run : new = [r EXCEPT !.st = "save", !.entry = e]
    BY <2>3 DEF Run
  <2>6. /\ new.st = "save" /\ new.entry = e /\ new.queue = r.queue /\ new.excluded = r.excluded
        /\ new.failed = r.failed /\ new.clean = r.clean
    BY <2>5 DEF Run
  <2>7. run' = [run EXCEPT ![area] = new]
    BY <2>1, <2>4, <2>5
  <2>8. PICK p \in Profile : p = S!ProfileOf(e)
    BY <1>2, <2>3
  <2>9. \A x \in S!Stations : atStation'[x].tx = IF x = e.s THEN p ELSE atStation[x].tx
    BY <1>1, <1>2, <2>1, <2>3, <2>8, SetTxProfile DEF S!Sent
  <2>10. \A a \in S!Areas : run'[a] = IF a = area THEN new ELSE run[a]
    BY <1>1, <2>7
  <2>11. ASSUME new.clean PROVE PlanHolds(area)'
    <3>1. PlanHolds(area)
      BY <2>2, <2>4, <2>6, <2>11 DEF FusesInv
    <3>2. \A other \in S!Areas : other # area => run'[other].st = "idle"
      BY <2>10, <3>1 DEF PlanHolds
    <3>3. ASSUME ~new.failed PROVE Fits(new.queue, new.excluded, charging', asset', atStation')
      <4>1. Fits(r.queue, r.excluded, charging, asset, atStation)
        BY <2>4, <2>6, <3>1, <3>3 DEF PlanHolds
      <4>2. \A s \in charging : (\A x \in r.queue : x.s # s) => atStation'[s].tx = atStation[s].tx
        BY <1>1, <2>3, <2>4, <2>9
      <4> QED BY <2>2, <2>6, <4>1, <4>2, FitsStays
    <3>4. \A s \in charging' : Saving(area, s)' => atStation'[s].tx = S!ProfileOf(run'[area].entry)
      BY <1>1, <2>2, <2>6, <2>8, <2>9, <2>10 DEF Saving
    <3>5. run'[area] = new
      BY <2>10
    <3> QED BY <3>2, <3>3, <3>4, <3>5 DEF PlanHolds
  <2> QED BY <1>3, <2>2, <2>7, <2>11
<1>7. ASSUME NEW e \in Entry, run[area] \in Run, run[area].st # "idle",
             S!HandleRefusedChargingProfile(area, e), UNCHANGED settled
      PROVE  FusesInv'
  <2>1. PICK new \in Run : /\ run' = [run EXCEPT ![area] = new]
                           /\ new.st = "apply" /\ new.entry = S!NoProfile /\ new.failed = TRUE
                           /\ new.queue = run[area].queue \ {e}
    BY <1>7, Refused
  <2>2. \A a \in S!Areas : run'[a] = IF a = area THEN new ELSE run[a]
    BY <1>1, <2>1
  <2>3. PICK r \in Run : r = run[area]
    BY <1>7
  <2>4. new.clean = r.clean
    <3>1. run'[area] = [r EXCEPT !.st = "apply", !.entry = S!NoProfile, !.queue = r.queue \ {e},
                                 !.failed = TRUE, !.excluded = r.excluded \cup {e.s}]
      BY <1>1, <1>7, <2>3 DEF S!HandleRefusedChargingProfile
    <3> QED BY <2>2, <3>1 DEF Run
  <2>5. ASSUME new.clean PROVE PlanHolds(area)'
    <3>1. PlanHolds(area)
      BY <1>7, <2>3, <2>4, <2>5 DEF FusesInv
    <3> QED BY <2>1, <2>2, <3>1 DEF PlanHolds
  <2> QED BY <1>3, <1>7, <2>1, <2>5
<1>8. CASE S!SetFails(area)
  <2>1. PICK e \in S!NextProfiles(run[area]) : S!HandleRefusedChargingProfile(area, e)
    BY <1>8 DEF S!SetFails
  <2>2. run[area].st = "apply" /\ UNCHANGED settled
    BY <1>8 DEF S!SetFails
  <2>3. run[area] \in Run /\ e \in Entry
    BY <2>2, NextProfileQueued
  <2> QED BY <1>7, <2>1, <2>2, <2>3
<1>9. CASE S!SaveChargingProfile(area)
  <2>1. PICK e : e = run[area].entry
    OBVIOUS
  <2>2. /\ run[area].st = "save"
        /\ run' = [run EXCEPT ![area] = [run[area] EXCEPT !.st = "apply", !.entry = S!NoProfile,
                                                          !.queue = run[area].queue \ {e}]]
        /\ UNCHANGED <<charging, atStation, asset, settled>>
    BY <1>9, <2>1 DEF S!SaveChargingProfile
  <2>3. run[area] \in Run /\ e \in Entry /\ e \in run[area].queue
    BY <2>1, <2>2, SavedProfile
  <2>4. PICK r \in Run : r = run[area]
    BY <2>3
  <2>5. PICK new \in Run : new = [r EXCEPT !.st = "apply", !.entry = S!NoProfile, !.queue = r.queue \ {e}]
    BY DEF Run
  <2>6. /\ new.st = "apply" /\ new.queue = r.queue \ {e} /\ new.excluded = r.excluded
        /\ new.failed = r.failed /\ new.clean = r.clean
    BY <2>5 DEF Run
  <2>7. run' = [run EXCEPT ![area] = new]
    BY <2>2, <2>4, <2>5
  <2>8. \A a \in S!Areas : run'[a] = IF a = area THEN new ELSE run[a]
    BY <1>1, <2>7
  <2>9. ASSUME new.clean PROVE PlanHolds(area)'
    <3>1. PlanHolds(area)
      BY <2>2, <2>4, <2>6, <2>9 DEF FusesInv
    <3>2. \A other \in S!Areas : other # area => run'[other].st = "idle"
      BY <2>8, <3>1 DEF PlanHolds
    <3>3. ASSUME ~new.failed PROVE Fits(new.queue, new.excluded, charging', asset', atStation')
      <4>1. Fits(r.queue, r.excluded, charging, asset, atStation)
        BY <2>4, <2>6, <3>1, <3>3 DEF PlanHolds
      <4>2. e.s \in charging => atStation[e.s].tx = S!ProfileOf(e)
        BY <2>1, <2>2, <2>4, <2>6, <3>1, <3>3 DEF PlanHolds, Saving
      <4>3. Fits(r.queue \ {e}, r.excluded, charging, asset, atStation)
        BY <1>2, <2>3, <2>4, <4>1, <4>2, FitsSaved
      <4> QED BY <2>2, <2>6, <4>3
    <3>4. \A s : ~Saving(area, s)'
      BY <2>6, <2>8 DEF Saving
    <3>5. run'[area] = new
      BY <2>8
    <3> QED BY <3>2, <3>3, <3>4, <3>5 DEF PlanHolds
  <2> QED BY <1>3, <2>2, <2>7, <2>9
<1>10. CASE S!SaveFails(area)
  <2>1. PICK e : e = run[area].entry
    OBVIOUS
  <2>2. /\ run[area].st = "save"
        /\ \/ run' = [run EXCEPT ![area] = [run[area] EXCEPT !.st = "apply"]]
           \/ S!HandleRefusedChargingProfile(area, e)
        /\ UNCHANGED <<charging, atStation, asset, settled>>
    BY <1>10, <2>1 DEF S!SaveFails
  <2>3. run[area] \in Run /\ e \in Entry
    BY <2>1, <2>2, SavedProfile
  <2>4. CASE run' = [run EXCEPT ![area] = [run[area] EXCEPT !.st = "apply"]]
    <3>1. PICK r \in Run : r = run[area]
      BY <2>3
    <3>2. PICK new \in Run : new = [r EXCEPT !.st = "apply"]
      BY DEF Run
    <3>3. /\ new.st = "apply" /\ new.queue = r.queue /\ new.excluded = r.excluded
          /\ new.failed = r.failed /\ new.clean = r.clean
      BY <3>2 DEF Run
    <3>4. run' = [run EXCEPT ![area] = new]
      BY <2>4, <3>1, <3>2
    <3>5. \A a \in S!Areas : run'[a] = IF a = area THEN new ELSE run[a]
      BY <1>1, <3>4
    <3>6. ASSUME new.clean PROVE PlanHolds(area)'
      <4>1. PlanHolds(area)
        BY <2>2, <3>1, <3>3, <3>6 DEF FusesInv
      <4>2. \A other \in S!Areas : other # area => run'[other].st = "idle"
        BY <3>5, <4>1 DEF PlanHolds
      <4>3. ~new.failed => Fits(new.queue, new.excluded, charging', asset', atStation')
        BY <2>2, <3>1, <3>3, <4>1 DEF PlanHolds
      <4>4. \A s : ~Saving(area, s)'
        BY <3>3, <3>5 DEF Saving
      <4>5. run'[area] = new
        BY <3>5
      <4> QED BY <4>2, <4>3, <4>4, <4>5 DEF PlanHolds
    <3> QED BY <1>3, <2>2, <3>4, <3>6
  <2>5. CASE S!HandleRefusedChargingProfile(area, e)
    BY <1>7, <2>2, <2>3, <2>5
  <2> QED BY <2>2, <2>4, <2>5
<1>11. CASE S!ComputeAgain(area)
  <2>1. /\ run[area].st = "apply"
        /\ S!ComputeAndApplyChargingProfiles(area, [run[area] EXCEPT !.retry = TRUE, !.failed = FALSE])
        /\ run[area].queue = {}
        /\ UNCHANGED <<charging, atStation, asset>>
    BY <1>11 DEF S!ComputeAgain
  <2>2. run[area] \in Run /\ run[area].entry = S!NoProfile
    BY <1>1, <2>1, RunFacts DEF PlansShape, Numbered, NumberedRun
  <2>3. PICK r \in Run : r = run[area]
    BY <2>2
  <2>4. PICK new \in Run : new = [r EXCEPT !.retry = TRUE, !.failed = FALSE]
    BY DEF Run
  <2>5. new.st = "apply" /\ new.entry = S!NoProfile /\ new.failed = FALSE
    BY <2>1, <2>2, <2>3, <2>4 DEF Run
  <2> QED BY <1>4, <2>1, <2>3, <2>4, <2>5
<1>12. CASE S!Applied(area)
  <2>1. /\ run[area].st = "apply" /\ run[area].queue = {} /\ run' = [run EXCEPT ![area] = S!Idle]
        /\ settled' = (run[area].clean /\ ~run[area].failed) /\ UNCHANGED <<charging, atStation, asset>>
    BY <1>12 DEF S!Applied, S!Release
  <2>2. \A a \in S!Areas : run'[a] = IF a = area THEN S!Idle ELSE run[a]
    BY <1>1, <2>1
  <2>3. run[area] \in Run
    BY <1>1, <2>1, RunFacts
  <2>4. CASE run[area].clean /\ ~run[area].failed
    <3>1. PlanHolds(area)
      BY <2>1, <2>4 DEF FusesInv
    <3>2. \A a \in S!Areas : run'[a].st = "idle"
      BY <2>2, <3>1 DEF PlanHolds, S!Idle
    <3>3. Fits({}, run[area].excluded, charging', asset', atStation')
      BY <2>1, <2>4, <3>1 DEF PlanHolds
    <3>4. run[area].excluded \in SUBSET S!Stations
      BY <2>3 DEF Run
    <3> QED BY <3>2, <3>3, <3>4 DEF FusesInv
  <2>5. CASE ~ (run[area].clean /\ ~run[area].failed)
    <3>1. settled' = settled
      <4>1. settled = FALSE
        BY <2>1, OnlyRun
      <4>2. settled' = FALSE
        BY <2>1, <2>5
      <4> QED BY <4>1, <4>2
    <3> QED BY <1>3, <2>1, <3>1 DEF S!Idle
  <2> QED BY <2>4, <2>5
<1>13. CASE S!RunDies(area)
  <2>1. /\ run[area].st # "idle" /\ run' = [run EXCEPT ![area] = S!Idle] /\ settled' = settled
    BY <1>13 DEF S!RunDies, S!Release
  <2> QED BY <1>3, <2>1 DEF S!Idle
<1> QED BY <1>5, <1>6, <1>8, <1>9, <1>10, <1>11, <1>12, <1>13

-----------------------------------------------------------------------------
(* Charging plans: the theorem. *)

PlansInv == PlansShape /\ (\A s \in S!Stations : s \notin tainted => AgreeAt(s)) /\ FusesInv

LEMMA PlansInvariant == MCSpec => []PlansInv
<1>1. S!Init => PlansInv
  <2> SUFFICES ASSUME S!Init PROVE PlansInv
    OBVIOUS
  <2>1. /\ session = [s \in S!Stations |-> 0] /\ charging = {} /\ ops = {} /\ asset = 0
        /\ atStation = [s \in S!Stations |-> S!NoProfiles] /\ stored = [s \in S!Stations |-> S!NoProfiles]
        /\ run = [area \in S!Areas |-> S!Idle] /\ pcount = [session |-> 0, run |-> 0, event |-> 0]
        /\ tainted = {} /\ settled = FALSE
    BY DEF S!Init
  <2>2. \A area \in S!Areas : run[area] = S!Idle /\ run[area].st = "idle"
    BY <2>1 DEF S!Idle
  <2>3. \A s \in S!Stations : session[s] = 0 /\ atStation[s] = S!NoProfiles /\ stored[s] = S!NoProfiles
    BY <2>1
  <2>4. PlansTypeOK
    BY <2>1, NoProfileType DEF PlansTypeOK
  <2>5. Numbered
    BY <2>1, <2>2, <2>3, NoProfileType DEF Numbered, NumberedRun, S!NoProfile
  <2>6. \A s \in S!Stations : AgreeAt(s)
    BY <2>1, <2>2, <2>3 DEF AgreeAt, Saving
  <2>7. FusesInv
    BY <2>1, <2>2 DEF FusesInv
  <2> QED BY <2>4, <2>5, <2>6, <2>7 DEF PlansInv, PlansShape
<1>2. PlansInv /\ [MCNext]_<<focus, iVars, tVars, cVars, sVars>> => PlansInv'
  <2> SUFFICES ASSUME PlansInv, [MCNext]_<<focus, iVars, tVars, cVars, sVars>> PROVE PlansInv'
    OBVIOUS
  <2>1. S!Next \/ UNCHANGED sVars
    BY DEF MCNext
  <2>2. CASE UNCHANGED sVars
    <3>1. PlansShape'
      BY <2>2 DEF PlansInv, PlansShape, PlansTypeOK, Numbered, sVars
    <3>2. ASSUME NEW s \in S!Stations, s \notin tainted' PROVE AgreeAt(s)'
      BY <2>2, <3>2 DEF PlansInv, AgreeAt, Saving, Deleting, Deletes, S!StoredForSession, sVars
    <3>3. FusesInv'
      BY <2>2, FusesFrame DEF PlansInv, sVars
    <3> QED BY <3>1, <3>2, <3>3 DEF PlansInv
  <2>3. CASE \/ \E x \in S!Stations :
                  \/ S!StartTransaction(x) \/ S!Suspend(x) \/ S!Resume(x)
                  \/ S!TriggerSmartChargingStopTransaction(x) \/ S!SetAndSaveChargingProfile(x)
                  \/ \E purpose \in {"tx", "user"} : S!HandleDeleteChargingProfile(x, purpose)
             \/ S!AssetConsumes \/ S!ClearChargingProfile \/ S!ClearFails \/ S!DeleteChargingProfile
             \/ S!SaveUserProfile
    <3>1. PlansShape'
      BY <2>3, StartShape, StationsAndRequestsShape, RunsShape DEF PlansInv
    <3>2. \A s \in S!Stations : s \notin tainted' => AgreeAt(s)'
      BY <2>3, StationsAndRequestsAgree DEF PlansInv
    <3>3. FusesInv'
      BY <2>3, StationsAndRequestsFit DEF PlansInv
    <3> QED BY <3>1, <3>2, <3>3 DEF PlansInv
  <2>4. CASE \E area \in S!Areas :
               \/ S!TriggerSmartCharging(area) \/ S!SetChargingProfile(area) \/ S!SetFails(area)
               \/ S!SaveChargingProfile(area) \/ S!SaveFails(area)
               \/ S!ComputeAgain(area) \/ S!Applied(area) \/ S!RunDies(area)
    <3>1. PlansShape'
      BY <2>4, RunsShape DEF PlansInv
    <3>2. \A s \in S!Stations : s \notin tainted' => AgreeAt(s)'
      BY <2>4, RunsAgree DEF PlansInv
    <3>3. FusesInv'
      BY <2>4, RunsFit DEF PlansInv
    <3> QED BY <3>1, <3>2, <3>3 DEF PlansInv
  <2> QED BY <2>1, <2>2, <2>3, <2>4 DEF S!Next
<1> QED BY <1>1, <1>2, PTL DEF MCSpec, MCInit

\* Where a plan fits, what the cars may draw does.
LEMMA PlanBoundsLimits ==
  ASSUME PlansShape, NEW excluded, Fits({}, excluded, charging, asset, atStation), NEW area \in S!Areas
  PROVE  S!PlanSum([s \in S!Stations |-> S!Limit(s)], area) + asset <= Capacity[area]
<1>1. PICK plan \in [S!Stations -> Nat] :
        /\ plan["b"] + asset <= Capacity["sub"] /\ plan["a"] + plan["b"] + asset <= Capacity["root"]
        /\ \A s \in charging :
             /\ s \in excluded => plan[s] >= MaxAmps
             /\ s \notin excluded => atStation[s].tx # S!NoProfile /\ atStation[s].tx.limit = plan[s]
  BY DEF Fits
<1>2. ASSUME NEW s \in S!Stations PROVE S!Limit(s) \in Nat /\ S!Limit(s) <= plan[s]
  <2>1. /\ plan[s] \in Nat /\ MaxAmps \in Nat
        /\ atStation[s].tx.limit \in 0 .. MaxAmps /\ atStation[s].user.limit \in 0 .. MaxAmps
    BY <1>2, AmpsAssumption DEF PlansShape, PlansTypeOK, Profiles, Profile
  <2>2. CASE s \notin charging
    BY <2>1, <2>2 DEF S!Limit
  <2>3. CASE s \in charging /\ atStation[s].tx # S!NoProfile
    <3>1. S!Limit(s) = atStation[s].tx.limit
      BY <2>3 DEF S!Limit
    <3> QED BY <1>1, <2>1, <2>3, <3>1
  <2>4. CASE s \in charging /\ atStation[s].tx = S!NoProfile
    <3>1. plan[s] >= MaxAmps
      BY <1>1, <2>4
    <3>2. S!Limit(s) \in {atStation[s].user.limit, MaxAmps}
      BY <2>4 DEF S!Limit
    <3> QED BY <2>1, <3>1, <3>2
  <2> QED BY <2>2, <2>3, <2>4
<1>3. PICK la, lb : la = S!Limit("a") /\ lb = S!Limit("b")
  OBVIOUS
<1>4. la \in Nat /\ lb \in Nat /\ la <= plan["a"] /\ lb <= plan["b"]
  BY <1>2, <1>3 DEF S!Stations
<1>5. S!PlanSum([s \in S!Stations |-> S!Limit(s)], area) = IF area = "sub" THEN lb ELSE la + lb
  BY <1>3 DEF S!PlanSum, S!Stations
<1>6. plan["a"] \in Nat /\ plan["b"] \in Nat /\ Capacity["sub"] \in Nat /\ Capacity["root"] \in Nat
      /\ asset \in Nat
  BY AmpsAssumption DEF S!Stations, S!Areas, PlansShape, PlansTypeOK
<1>7. area = "sub" \/ area = "root"
  BY DEF S!Areas
<1> QED BY <1>1, <1>4, <1>5, <1>6, <1>7

\* A plan that was applied to the end, and that nothing has outdated, keeps
\* the fuses of the areas, and the database knows the profile of a session at
\* its station unless a request failed half-way or met another one: for
\* connectors and fuses of any size and any number of sessions, runs and
\* events (computeAndApplyChargingProfiles, setAndSaveChargingProfile,
\* clearAndDeleteChargingProfile).
THEOREM PlansAlwaysAgree == MCSpec => []PlansAgree
<1>1. ASSUME PlansInv PROVE S!FusesHold
  <2> SUFFICES ASSUME settled, NEW area \in S!Areas
               PROVE  S!PlanSum([s \in S!Stations |-> S!Limit(s)], area) + asset <= Capacity[area]
    BY DEF S!FusesHold
  <2>1. PICK excluded \in SUBSET S!Stations : Fits({}, excluded, charging, asset, atStation)
    BY <1>1 DEF PlansInv, FusesInv
  <2> QED BY <1>1, <2>1, PlanBoundsLimits DEF PlansInv
<1>2. ASSUME PlansInv PROVE S!ProfilesAgree
  <2> SUFFICES ASSUME NEW s \in S!Stations \ tainted, session[s] # 0,
                      S!BetweenRuns(s) = {}, S!BetweenOps(s) = {}
               PROVE  atStation[s].tx = S!StoredForSession(s)
    BY DEF S!ProfilesAgree
  <2>1. AgreeAt(s) /\ ~Deleting(s) /\ \A area \in S!Areas : ~Saving(area, s)
    BY <1>2, BetweenFacts DEF PlansInv
  <2> QED BY <2>1 DEF AgreeAt
<1>3. PlansInv => PlansAgree
  BY <1>1, <1>2 DEF PlansAgree, S!PlansAgree
<1> QED BY <1>3, PlansInvariant, PTL
=============================================================================
