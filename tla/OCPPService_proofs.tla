------------------------- MODULE OCPPService_proofs -------------------------
(***************************************************************************)
(* Proofs about the sessions of a station, for any connectors, any number  *)
(* of transactions, requests, reboots, soft stops and refused CDRs.        *)
(***************************************************************************)
EXTENDS OCPPService, WellFoundedInduction, TLAPS

(***************************************************************************)
(* What the invariants say of a snapshot of a transaction document: it is  *)
(* of a stored transaction, on the connector of this transaction, and says *)
(* "off" exactly when the stored document does.                            *)
(***************************************************************************)
Agrees(t, doc) ==
  /\ Known(t)
  /\ doc \in Transaction
  /\ doc.connector = transactions[t].connector
  /\ doc.billing = "off" <=> transactions[t].billing = "off"

\* The points of a handler where it holds a snapshot of its transaction.
HoldsDocument(r) ==
  r.pc \in {"saveTx", "stopStation", "stopTx", "finalize", "saveFinal", "bill", "saveBilling"}

\* The handler r of worker w.  The soft stop also holds the document its
\* caller gave it, and a status is saved on a connector that was found.
HandlerAgrees(w, r) ==
  /\ r.pc # "idle" /\ r.tx # 0 => Known(r.tx)
  /\ HoldsDocument(r) => Agrees(r.tx, r.doc)
  /\ w = "soft" /\ r.pc \in {"stop", "stopStation", "stopTx"} => Agrees(r.tx, r.given)
  /\ r.pc \in {"bill", "saveBilling"} => r.doc.billing # "off"
  /\ r.pc = "start" => \E t \in TransactionIDs : ~ Known(t)
  /\ r.pc \in {"finalize", "saveFinal", "saveStatus"} =>
       r.st.connectors[r.connector] # NoConnector

TasksAgree ==
  /\ \A t \in endTasks : Known(t)
  /\ \A t \in TransactionIDs : billTasks[t] > 0 => Known(t)

SnapshotsAgree == TasksAgree /\ \A w \in Workers : HandlerAgrees(w, h[w])

-----------------------------------------------------------------------------
(* Operators of the model. *)

Less == {ss \in Nat \X Nat : ss[1] < ss[2]}

\* A nonempty set of naturals has a smallest element.
LEMMA SmallestExists ==
  ASSUME NEW S \in SUBSET Nat, S # {}
  PROVE  \E x \in S : \A y \in S : x <= y
<1>1. IsWellFoundedOn(Less, Nat)
  BY NatLessThanWellFounded DEF Less, OpToRel
<1>2. PICK x \in S : \A y \in S : ~ (<<y, x>> \in Less)
  BY <1>1, WFMin
<1>3. ASSUME NEW y \in S PROVE x <= y
  <2>1. x \in Nat /\ y \in Nat
    OBVIOUS
  <2>2. <<y, x>> \in Less <=> y < x
    BY <2>1 DEF Less
  <2> QED BY <1>2, <2>1, <2>2
<1> QED BY <1>3

\* A nonempty set of naturals up to n has a largest element.
LEMMA LargestExists ==
  ASSUME NEW n \in Nat, NEW S \in SUBSET (1 .. n), S # {}
  PROVE  \E x \in S : \A y \in S : y <= x
<1> DEFINE D == {d \in Nat : n - d \in S}
<1>1. \A x \in S : x \in Nat /\ n - x \in Nat /\ n - (n - x) = x
  OBVIOUS
<1>2. \A x \in S : n - x \in D
  BY <1>1
<1>3. D \in SUBSET Nat /\ D # {}
  BY <1>2
<1>4. PICK d \in D : \A e \in D : d <= e
  BY <1>3, SmallestExists
<1>5. ASSUME NEW y \in S PROVE y <= n - d
  <2>1. d \in Nat /\ d <= n - y
    BY <1>2, <1>4
  <2> QED BY <2>1, <1>1
<1> QED BY <1>4, <1>5

\* findAvailableID finds the ID of no document, if there is one.
LEMMA AvailableIDIsUnknown ==
  ASSUME \E t \in TransactionIDs : ~ Known(t)
  PROVE  FindAvailableID \in TransactionIDs /\ ~ Known(FindAvailableID)
<1> DEFINE S == {t \in TransactionIDs : ~ Known(t)}
<1>1. S \in SUBSET Nat /\ S # {}
  BY OCPPAssumption DEF TransactionIDs
<1>2. PICK t \in S : \A u \in S : t <= u
  BY <1>1, SmallestExists
<1>3. \A u \in TransactionIDs : u < t => transactions[u] # NoTransaction
  BY <1>1, <1>2, OCPPAssumption DEF Known, TransactionIDs
<1> QED
  BY <1>2, <1>3 DEF FindAvailableID, Known

\* getLastTransactionFromChargingStation finds a transaction of the connector.
LEMMA LastTransactionIsStored ==
  ASSUME NEW c, LastTransaction(c) # 0
  PROVE  /\ LastTransaction(c) \in TransactionIDs
         /\ Known(LastTransaction(c))
         /\ transactions[LastTransaction(c)].connector = c
<1> DEFINE known == {t \in TransactionIDs : Known(t) /\ transactions[t].connector = c}
<1>1. known # {} /\ LastTransaction(c) = CHOOSE t \in known : \A u \in known : u <= t
  BY DEF LastTransaction, Known
<1>2. \E t \in known : \A u \in known : u <= t
  BY <1>1, LargestExists, OCPPAssumption DEF TransactionIDs
<1> QED
  BY <1>1, <1>2

\* The operations on a snapshot of the station keep its type.
LEMMA StationOperations ==
  ASSUME NEW st \in Station, NEW c \in Connectors
  PROVE  /\ ClearConnector(st, c) \in Station
         /\ \A t \in TransactionIDs : ShowTransaction(st, c, t) \in Station
         /\ BackupConnectors(st) \in Station
         /\ GetConnector(st, c) \in Station
         /\ GetConnector(st, c).connectors[c] # NoConnector
<1>1. st.connectors[c] # NoConnector => st.connectors[c] \in Connector
  BY DEF Station
<1>2. ClearConnector(st, c) \in Station
  BY <1>1 DEF ClearConnector, Station, Connector
<1>3. \A t \in TransactionIDs : ShowTransaction(st, c, t) \in Station
  BY <1>1 DEF ShowTransaction, Station, Connector
<1>4. BackupConnectors(st) \in Station
  BY DEF BackupConnectors, Station
<1>5. GetConnector(st, c) \in Station /\ GetConnector(st, c).connectors[c] # NoConnector
  <2>1. [status |-> "Unavailable", tx |-> 0] \in Connector
    BY DEF Connector, Statuses
  <2>2. CASE st.connectors[c] # NoConnector
    BY <2>2 DEF GetConnector
  <2>3. CASE st.connectors[c] = NoConnector /\ st.backup[c] # NoConnector
    BY <2>3 DEF GetConnector, Station
  <2>4. CASE st.connectors[c] = NoConnector /\ st.backup[c] = NoConnector
    <3>1. GetConnector(st, c) = [st EXCEPT !.connectors[c] = [status |-> "Unavailable", tx |-> 0]]
      BY <2>4 DEF GetConnector
    <3> QED BY <3>1, <2>1, MissingAssumption DEF Station
  <2> QED BY <2>2, <2>3, <2>4
<1> QED BY <1>2, <1>3, <1>4, <1>5
\* To free a connector does not remove it, nor any other one.
LEMMA ClearKeepsConnectors ==
  ASSUME NEW st \in Station, NEW c \in Connectors
  PROVE  /\ ClearConnector(st, c).backup = st.backup
         /\ \A d \in Connectors \ {c} : ClearConnector(st, c).connectors[d] = st.connectors[d]
         /\ st.connectors[c] = NoConnector => ClearConnector(st, c).connectors[c] = NoConnector
         /\ st.connectors[c] # NoConnector =>
              /\ ClearConnector(st, c).connectors[c] # NoConnector
              /\ ClearConnector(st, c).connectors[c].tx = 0
<1>1. CASE st.connectors[c] = NoConnector
  BY <1>1 DEF ClearConnector
<1>2. CASE st.connectors[c] # NoConnector
  <2>1. [st.connectors[c] EXCEPT !.tx = 0] \in Connector /\ [st.connectors[c] EXCEPT !.tx = 0].tx = 0
    BY <1>2 DEF Station, Connector
  <2>2. /\ ClearConnector(st, c).backup = st.backup
        /\ ClearConnector(st, c).connectors =
             [st.connectors EXCEPT ![c] = [st.connectors[c] EXCEPT !.tx = 0]]
    BY <1>2 DEF ClearConnector, Station
  <2>3. st.connectors \in [Connectors -> Connector \cup {NoConnector}]
    BY DEF Station
  <2> QED BY <1>2, <2>1, <2>2, <2>3, MissingAssumption
<1> QED BY <1>1, <1>2

-----------------------------------------------------------------------------
(* Types. *)

\* What a handler holds, by the point it has reached.
LEMMA HandlerShape ==
  ASSUME NEW r \in Handler
  PROVE  /\ r.pc = "boot" => r \in [pc : {"boot"}, tx : {0}, st : Station]
         /\ r.pc = "start" => r \in [pc : {"start"}, tx : {0}, st : Station, connector : Connectors]
         /\ r.pc \in {"meter", "saveStation", "clear"} =>
              r \in [pc : {r.pc}, tx : TransactionIDs, st : Station]
         /\ r.pc = "saveTx" =>
              r \in [pc : {"saveTx"}, tx : TransactionIDs, st : Station, doc : Transaction]
         /\ r.pc \in {"stop", "stopStation", "stopTx"} =>
              r \in [pc : {r.pc}, tx : TransactionIDs, st : Station,
                     doc : Transaction \cup {NoTransaction},
                     given : Transaction \cup {NoTransaction}]
         /\ r.pc = "status" =>
              r \in [pc : {"status"}, tx : {0}, st : Station, connector : Connectors,
                     status : Statuses]
         /\ r.pc \in {"finalize", "saveFinal"} =>
              r \in [pc : {r.pc}, tx : TransactionIDs, st : Station, connector : Connectors,
                     status : Statuses, doc : Transaction]
         /\ r.pc = "saveStatus" => r.st \in Station /\ r.connector \in Connectors /\ r.status \in Statuses
         /\ r.pc = "trigger" => r.tx \in TransactionIDs
         /\ r.pc \in {"bill", "saveBilling"} =>
              r \in [pc : {r.pc}, tx : TransactionIDs, doc : Transaction]
  BY DEF Handler, Idle
\* The transaction that a handler is about is stored.
LEMMA HandledIsStored ==
  ASSUME TypeOK, SnapshotsAgree, NEW w \in Workers,
         h[w].pc # "idle", h[w].tx \in TransactionIDs
  PROVE  Known(h[w].tx) /\ transactions[h[w].tx] \in Transaction
<1>1. h[w].tx # 0
  BY OCPPAssumption DEF TransactionIDs
<1>2. Known(h[w].tx)
  BY <1>1 DEF SnapshotsAgree, HandlerAgrees
<1> QED BY <1>2 DEF Known, TypeOK

\* A handler that a worker may be in keeps the type of h.
LEMMA BecomeType ==
  ASSUME TypeOK, NEW w \in Workers, NEW r \in Handler, Become(w, r),
         w = "ocpp" => r.pc \notin {"clear", "trigger", "bill", "saveBilling"},
         w = "soft" => r.pc \in {"idle", "stop", "stopStation", "stopTx", "clear"},
         w = "end" => r.pc \in {"idle", "trigger", "finalize", "saveFinal"},
         w = "bill" => r.pc \in {"idle", "bill", "saveBilling"}
  PROVE  /\ h' \in [Workers -> Handler]
         /\ h'["ocpp"].pc \notin {"clear", "trigger", "bill", "saveBilling"}
         /\ h'["soft"].pc \in {"idle", "stop", "stopStation", "stopTx", "clear"}
         /\ h'["end"].pc \in {"idle", "trigger", "finalize", "saveFinal"}
         /\ h'["bill"].pc \in {"idle", "bill", "saveBilling"}
  BY DEF TypeOK, Become, Workers

LEMMA DoneType ==
  ASSUME TypeOK, NEW w \in Workers, Done(w)
  PROVE  /\ h' \in [Workers -> Handler]
         /\ h'["ocpp"].pc \notin {"clear", "trigger", "bill", "saveBilling"}
         /\ h'["soft"].pc \in {"idle", "stop", "stopStation", "stopTx", "clear"}
         /\ h'["end"].pc \in {"idle", "trigger", "finalize", "saveFinal"}
         /\ h'["bill"].pc \in {"idle", "bill", "saveBilling"}
<1>1. Idle \in Handler
  BY DEF Handler
<1>2. Idle.pc = "idle"
  BY DEF Idle
<1> QED BY <1>1, <1>2, BecomeType DEF Done

\* The use of a bound is counted.
LEMMA UseType ==
  ASSUME TypeOK, NEW what \in SUBSET {"requests", "boots", "soft", "roaming"}, Use(what)
  PROVE  /\ count' \in [requests : Nat, boots : Nat, soft : Nat, roaming : Nat]
         /\ "roaming" \in what => count'.roaming = count.roaming + 1
         /\ "roaming" \notin what => count'.roaming = count.roaming
         /\ count'.soft >= count.soft /\ count'.boots >= count.boots
         /\ "soft" \notin what => count'.soft = count.soft
         /\ "soft" \in what => count'.soft > 0
         /\ "boots" \in what => count'.boots > 0
  BY DEF TypeOK, Use

\* A request that arrives keeps the types.
LEMMA ReceiveType ==
  ASSUME TypeOK, NEW kinds \in SUBSET {"requests", "boots"}, NEW r \in Handler,
         r.pc \notin {"clear", "trigger", "bill", "saveBilling"}, Receive(kinds, r),
         ongoing' \in [Connectors -> {0} \cup TransactionIDs]
  PROVE  TypeOK'
<1>1. "ocpp" \in Workers
  BY DEF Workers
<1>2. Become("ocpp", r) /\ Use(kinds)
  BY DEF Receive
<1>3. UNCHANGED <<station, transactions, endTasks, billTasks, inactivity, attempts, invoiced>>
  BY DEF Receive, tasks, history
<1> QED BY <1>1, <1>2, <1>3, BecomeType, UseType DEF TypeOK
\* Every request of the station keeps the types.
LEMMA RequestType == TypeOK /\ Request => TypeOK'
<1> SUFFICES ASSUME TypeOK, Request PROVE TypeOK'
  OBVIOUS
<1>1. CASE ReceiveBootNotification
  <2> DEFINE r == [pc |-> "boot", tx |-> 0, st |-> station]
  <2>1. r \in Handler /\ r.pc = "boot"
    BY DEF TypeOK, Handler
  <2> QED BY <1>1, <2>1, ReceiveType DEF ReceiveBootNotification, TypeOK
<1>2. ASSUME NEW c \in Connectors, ReceiveStartTransaction(c) PROVE TypeOK'
  <2> DEFINE r == [pc |-> "start", tx |-> 0, st |-> station, connector |-> c]
  <2>1. r \in Handler /\ r.pc = "start"
    BY DEF TypeOK, Handler
  <2> QED BY <1>2, <2>1, ReceiveType DEF ReceiveStartTransaction, TypeOK
<1>3. ASSUME NEW c \in Connectors, NEW s \in Statuses, ReceiveStatusNotification(c, s) PROVE TypeOK'
  <2> DEFINE r == [pc |-> "status", tx |-> 0, st |-> station, connector |-> c, status |-> s]
  <2>1. r \in Handler /\ r.pc = "status"
    BY DEF TypeOK, Handler
  <2> QED BY <1>3, <2>1, ReceiveType DEF ReceiveStatusNotification, TypeOK
<1>4. ASSUME NEW t \in TransactionIDs, ReceiveMeterValues(t) PROVE TypeOK'
  <2> DEFINE r == [pc |-> "meter", tx |-> t, st |-> station]
  <2>1. r \in Handler /\ r.pc = "meter"
    BY DEF TypeOK, Handler
  <2> QED BY <1>4, <2>1, ReceiveType DEF ReceiveMeterValues, TypeOK
<1>5. ASSUME NEW t \in TransactionIDs, ReceiveStopTransaction(t) PROVE TypeOK'
  <2> DEFINE r == [pc |-> "stop", tx |-> t, st |-> station,
                   doc |-> NoTransaction, given |-> NoTransaction]
  <2>1. r \in Handler /\ r.pc = "stop"
    BY DEF TypeOK, Handler
  <2>2. ongoing' \in [Connectors -> {0} \cup TransactionIDs]
    BY <1>5 DEF ReceiveStopTransaction, TypeOK
  <2> QED BY <1>5, <2>1, <2>2, ReceiveType DEF ReceiveStopTransaction
<1> QED BY <1>1, <1>2, <1>3, <1>4, <1>5 DEF Request

LEMMA WorkerNames == {"ocpp", "soft", "end", "bill"} \subseteq Workers
  BY DEF Workers

\* Every other step of the station's requests keeps the types.
LEMMA OcppType == TypeOK /\ SnapshotsAgree /\ Ocpp => TypeOK'
<1> SUFFICES ASSUME TypeOK, SnapshotsAgree, Ocpp PROVE TypeOK'
  OBVIOUS
<1> DEFINE o == h["ocpp"]
<1>0. o \in Handler /\ "ocpp" \in Workers
  BY WorkerNames DEF TypeOK
<1>1. CASE HandleBootNotification
  <2>1. o.st \in Station
    BY <1>0, <1>1, HandlerShape DEF HandleBootNotification, Is
  <2>2. station' \in Station
    BY <2>1, <1>1 DEF HandleBootNotification, BackupConnectors, Station
  <2> QED BY <1>0, <1>1, <2>2, DoneType DEF HandleBootNotification, TypeOK, tasks, history
<1>2. CASE StartTransactionFails \/ MeterValuesFail \/ IgnoreStatusNotification
  BY <1>0, <1>2, DoneType
  DEF StartTransactionFails, MeterValuesFail, IgnoreStatusNotification, TypeOK, tasks, history
<1>3. ASSUME NEW b \in {"off", "active"}, StartTransaction(b) PROVE TypeOK'
  <2> DEFINE c == o.connector
             t == FindAvailableID
             doc == [connector |-> c, stop |-> FALSE, extra |-> FALSE, billing |-> b]
             r == [pc |-> "saveStation", tx |-> t, st |-> ShowTransaction(o.st, c, t)]
  <2>1. o.st \in Station /\ c \in Connectors
    BY <1>0, <1>3, HandlerShape DEF StartTransaction, Is
  <2>2. t \in TransactionIDs
    <3>1. HandlerAgrees("ocpp", o) /\ o.pc = "start"
      BY <1>0, <1>3 DEF SnapshotsAgree, StartTransaction, Is
    <3> QED BY <3>1, AvailableIDIsUnknown DEF HandlerAgrees
  <2>3. doc \in Transaction
    BY <2>1 DEF Transaction, BillingStatus
  <2>4. r \in Handler /\ r.pc = "saveStation"
    BY <2>1, <2>2, StationOperations DEF Handler
  <2>5. Become("ocpp", r) /\ SaveTransaction(t, doc) /\ ongoing' = [ongoing EXCEPT ![c] = t]
    BY <1>3 DEF StartTransaction
  <2>6. UNCHANGED <<station, count, endTasks, billTasks, inactivity, attempts, invoiced>>
    BY <1>3 DEF StartTransaction, tasks, history
  <2> HIDE DEF r, doc, c, t
  <2> QED BY <1>0, <2>1, <2>2, <2>3, <2>4, <2>5, <2>6, BecomeType DEF SaveTransaction, TypeOK
<1>4. CASE SaveStation
  <2>1. o.st \in Station
    BY <1>0, <1>4, HandlerShape DEF SaveStation, Is
  <2> QED BY <1>0, <1>4, <2>1, DoneType DEF SaveStation, TypeOK, tasks, history
<1>5. CASE GetTransactionFromMeterValues
  <2> DEFINE doc == transactions[o.tx]
             r == [pc |-> "saveTx", tx |-> o.tx, st |-> o.st, doc |-> doc]
  <2>1. o.st \in Station /\ o.tx \in TransactionIDs /\ o.pc = "meter"
    BY <1>0, <1>5, HandlerShape DEF GetTransactionFromMeterValues, Is
  <2>2. doc \in Transaction
    BY <1>0, <2>1, HandledIsStored
  <2>3. r \in Handler /\ r.pc = "saveTx"
    BY <2>1, <2>2 DEF Handler
  <2>4. UNCHANGED <<station, transactions, ongoing, count, endTasks, billTasks, inactivity, attempts, invoiced>>
    BY <1>5 DEF GetTransactionFromMeterValues, tasks, history
  <2>5. Done("ocpp") \/ Become("ocpp", r)
    BY <1>5 DEF GetTransactionFromMeterValues
  <2> HIDE DEF r
  <2> QED BY <1>0, <2>3, <2>4, <2>5, BecomeType, DoneType DEF TypeOK
<1>6. CASE SaveMeterValues
  <2> DEFINE r == [pc |-> "saveStation", tx |-> o.tx,
                   st |-> ShowTransaction(o.st, o.doc.connector, o.tx)]
  <2>1. o.st \in Station /\ o.tx \in TransactionIDs /\ o.doc \in Transaction
    BY <1>0, <1>6, HandlerShape DEF SaveMeterValues, Is
  <2>2. o.doc.connector \in Connectors
    BY <2>1 DEF Transaction
  <2>3. r \in Handler /\ r.pc = "saveStation"
    BY <2>1, <2>2, StationOperations DEF Handler
  <2>4. Become("ocpp", r) /\ SaveTransaction(o.tx, o.doc)
    BY <1>6 DEF SaveMeterValues
  <2>5. UNCHANGED <<station, ongoing, count, endTasks, billTasks, inactivity, attempts, invoiced>>
    BY <1>6 DEF SaveMeterValues, tasks, history
  <2> HIDE DEF r
  <2> QED BY <1>0, <2>1, <2>3, <2>4, <2>5, BecomeType DEF SaveTransaction, TypeOK
<1>7. CASE ProcessConnector
  <2> DEFINE st == GetConnector(o.st, o.connector)
             last == IF o.status \in Free THEN LastTransaction(o.connector) ELSE 0
             f == [pc |-> "finalize", tx |-> last, st |-> st, connector |-> o.connector,
                   status |-> o.status, doc |-> transactions[last]]
             n == [o EXCEPT !.pc = "saveStatus",
                            !.st = IF last # 0 THEN ClearConnector(st, o.connector) ELSE st]
  <2>1. /\ o \in [pc : {"status"}, tx : {0}, st : Station, connector : Connectors, status : Statuses]
        /\ o.st \in Station /\ o.connector \in Connectors /\ o.status \in Statuses
    BY <1>0, <1>7, HandlerShape DEF ProcessConnector, Is
  <2>2. st \in Station
    BY <2>1, StationOperations
  <2>3. ASSUME last # 0 PROVE last \in TransactionIDs /\ transactions[last] \in Transaction
    BY <2>3, LastTransactionIsStored DEF Known, TypeOK
  <2>4. ClearConnector(st, o.connector) \in Station
    BY <2>1, <2>2, StationOperations
  <2> HIDE DEF st, last
  <2>5. n \in Handler /\ n.pc = "saveStatus"
    BY <2>1, <2>2, <2>4 DEF Handler
  <2>6. ASSUME last # 0 PROVE f \in Handler /\ f.pc = "finalize"
    BY <2>1, <2>2, <2>3, <2>6 DEF Handler
  <2>7. (last # 0 /\ Become("ocpp", f)) \/ Become("ocpp", n)
    BY <1>7 DEF ProcessConnector, st, last
  <2>8. UNCHANGED <<station, transactions, ongoing, count, endTasks, billTasks, inactivity, attempts, invoiced>>
    BY <1>7 DEF ProcessConnector, tasks, history
  <2> HIDE DEF n, f
  <2> QED BY <1>0, <2>5, <2>6, <2>7, <2>8, BecomeType DEF TypeOK
<1>8. CASE SaveStatus
  <2>1. o.st \in Station /\ o.connector \in Connectors /\ o.status \in Statuses
    BY <1>0, <1>8, HandlerShape DEF SaveStatus, Is
  <2>2. o.st.connectors[o.connector] \in Connector
    BY <1>0, <1>8, <2>1 DEF SaveStatus, Is, SnapshotsAgree, HandlerAgrees, Station
  <2>3. station' \in Station
    BY <1>8, <2>1, <2>2 DEF SaveStatus, Station, Connector
  <2> QED BY <1>0, <1>8, <2>3, DoneType DEF SaveStatus, TypeOK, tasks, history
<1> QED BY <1>1, <1>2, <1>3, <1>4, <1>5, <1>6, <1>7, <1>8 DEF Ocpp
\* The steps of StopTransaction and of a soft stop keep the types.
LEMMA StopType ==
  ASSUME TypeOK, SnapshotsAgree, NEW w \in {"ocpp", "soft"}, Stop(w)
  PROVE  TypeOK'
<1> DEFINE s == h[w]
<1>0. s \in Handler /\ w \in Workers
  BY WorkerNames DEF TypeOK
<1>1. CASE GetTransactionFromStopTransaction(w)
  <2> DEFINE doc == transactions[s.tx]
             r == [s EXCEPT !.pc = "stopStation", !.doc = doc,
                            !.st = ClearConnector(@, doc.connector)]
  <2>1. /\ s \in [pc : {"stop"}, tx : TransactionIDs, st : Station,
                  doc : Transaction \cup {NoTransaction}, given : Transaction \cup {NoTransaction}]
        /\ s.st \in Station /\ s.tx \in TransactionIDs /\ s.pc = "stop"
    BY <1>0, <1>1, HandlerShape DEF GetTransactionFromStopTransaction, Is
  <2>2. doc \in Transaction
    BY <1>0, <2>1, HandledIsStored
  <2>3. ClearConnector(s.st, doc.connector) \in Station
    BY <2>1, <2>2, StationOperations DEF Transaction
  <2> HIDE DEF doc
  <2>4. r \in Handler /\ r.pc = "stopStation"
    BY <2>1, <2>2, <2>3 DEF Handler
  <2>5. Become(w, r)
    BY <1>1 DEF GetTransactionFromStopTransaction, doc
  <2>6. UNCHANGED <<station, transactions, ongoing, count, endTasks, billTasks, inactivity, attempts, invoiced>>
    BY <1>1 DEF GetTransactionFromStopTransaction, tasks, history
  <2> HIDE DEF r
  <2> QED BY <1>0, <2>4, <2>5, <2>6, BecomeType DEF TypeOK
<1>2. ASSUME AnswerInvalid(w), s.pc \in {"stop", "stopTx"}
      PROVE  Done(w) /\ transactions' \in [TransactionIDs -> Transaction \cup {NoTransaction}]
  <2>1. CASE w = "soft"
    <3>1. s.tx \in TransactionIDs /\ s.given \in Transaction
      BY <1>0, <1>2, <2>1, HandlerShape DEF SnapshotsAgree, HandlerAgrees, Agrees
    <3>2. [s.given EXCEPT !.stop = TRUE, !.extra = TRUE] \in Transaction
      BY <3>1 DEF Transaction
    <3> QED BY <1>2, <2>1, <3>1, <3>2 DEF AnswerInvalid, SaveTransaction, TypeOK
  <2>2. CASE w # "soft"
    BY <1>2, <2>2 DEF AnswerInvalid, TypeOK
  <2> QED BY <2>1, <2>2
<1>3. CASE StopTransactionFails(w)
  BY <1>0, <1>2, <1>3, DoneType DEF StopTransactionFails, Is, TypeOK, tasks, history
<1>4. CASE SaveStoppedStation(w)
  <2> DEFINE r == [s EXCEPT !.pc = "stopTx"]
  <2>1. /\ s \in [pc : {"stopStation"}, tx : TransactionIDs, st : Station,
                  doc : Transaction \cup {NoTransaction}, given : Transaction \cup {NoTransaction}]
        /\ s.st \in Station
    BY <1>0, <1>4, HandlerShape DEF SaveStoppedStation, Is
  <2>2. r \in Handler /\ r.pc = "stopTx"
    BY <2>1 DEF Handler
  <2>3. Become(w, r) /\ station' = s.st
    BY <1>4 DEF SaveStoppedStation
  <2>4. UNCHANGED <<transactions, ongoing, count, endTasks, billTasks, inactivity, attempts, invoiced>>
    BY <1>4 DEF SaveStoppedStation, tasks, history
  <2> HIDE DEF r
  <2> QED BY <1>0, <2>1, <2>2, <2>3, <2>4, BecomeType DEF TypeOK
<1>5. CASE StopSessionFails(w)
  BY <1>0, <1>2, <1>5, DoneType, UseType DEF StopSessionFails, Is, TypeOK, tasks, history
<1>6. CASE SaveStoppedTransaction(w)
  <2>1. s.tx \in TransactionIDs /\ s.doc \in Transaction
    BY <1>0, <1>6, HandlerShape DEF SaveStoppedTransaction, Is, SnapshotsAgree, HandlerAgrees, Agrees, HoldsDocument
  <2>2. PICK b \in StopBilling(s.doc) :
          SaveTransaction(s.tx, [s.doc EXCEPT !.stop = TRUE, !.extra = (w = "soft"), !.billing = b])
    BY <1>6 DEF SaveStoppedTransaction
  <2>3. b \in BillingStatus /\ (w = "soft") \in BOOLEAN
    BY <2>2 DEF StopBilling, BillingStatus
  <2>4. [s.doc EXCEPT !.stop = TRUE, !.extra = (w = "soft"), !.billing = b] \in Transaction
    BY <2>1, <2>3 DEF Transaction
  <2>5. transactions' \in [TransactionIDs -> Transaction \cup {NoTransaction}]
    BY <2>1, <2>2, <2>4 DEF SaveTransaction, TypeOK
  <2>6. endTasks' \subseteq TransactionIDs
    BY <1>6, <2>1 DEF SaveStoppedTransaction, TypeOK
  <2> QED BY <1>0, <1>6, <2>5, <2>6, DoneType DEF SaveStoppedTransaction, TypeOK, history
<1> QED BY <1>1, <1>3, <1>4, <1>5, <1>6 DEF Stop

\* The callers of a soft stop keep the types.
LEMMA SoftType == TypeOK /\ (Soft \/ SaveConnectors) => TypeOK'
<1> SUFFICES ASSUME TypeOK, Soft \/ SaveConnectors PROVE TypeOK'
  OBVIOUS
<1> DEFINE s == h["soft"]
<1>0. s \in Handler /\ "soft" \in Workers
  BY WorkerNames DEF TypeOK
<1>1. ASSUME NEW t \in TransactionIDs, SoftStop(t) PROVE TypeOK'
  <2> DEFINE r == [pc |-> "stop", tx |-> t, st |-> station, doc |-> NoTransaction,
                   given |-> transactions[t]]
  <2>1. r \in Handler /\ r.pc = "stop"
    BY DEF TypeOK, Handler
  <2>2. Become("soft", r) /\ Use({"soft"})
    BY <1>1 DEF SoftStop
  <2>3. UNCHANGED <<station, transactions, ongoing, endTasks, billTasks, inactivity, attempts, invoiced>>
    BY <1>1 DEF SoftStop, tasks, history
  <2> HIDE DEF r
  <2> QED BY <1>0, <2>1, <2>2, <2>3, BecomeType, UseType DEF TypeOK
<1>2. ASSUME NEW t \in TransactionIDs, SoftClear(t) PROVE TypeOK'
  <2> DEFINE st == ClearConnector(station, transactions[t].connector)
             r == [pc |-> "clear", tx |-> t, st |-> st]
  <2>1. transactions[t].connector \in Connectors
    BY <1>2 DEF SoftClear, TypeOK, Transaction
  <2>2. st \in Station
    BY <2>1, StationOperations DEF TypeOK
  <2> HIDE DEF st
  <2>3. r \in Handler /\ r.pc = "clear"
    BY <2>2 DEF Handler
  <2>4. Become("soft", r) /\ Use({"soft"})
    BY <1>2 DEF SoftClear, st
  <2>5. UNCHANGED <<station, transactions, ongoing, endTasks, billTasks, inactivity, attempts, invoiced>>
    BY <1>2 DEF SoftClear, tasks, history
  <2> HIDE DEF r
  <2> QED BY <1>0, <2>3, <2>4, <2>5, BecomeType, UseType DEF TypeOK
<1>3. CASE SaveConnectors
  <2>1. s.st \in Station
    BY <1>0, <1>3, HandlerShape DEF SaveConnectors, Is
  <2>2. station' \in Station
    BY <1>3, <2>1 DEF SaveConnectors, Station, TypeOK
  <2> QED BY <1>0, <1>3, <2>2, DoneType DEF SaveConnectors, TypeOK, tasks, history
<1> QED BY <1>1, <1>2, <1>3 DEF Soft
\* finalizeTransaction, called by a status notification or by the END task,
\* keeps the types.
LEMMA FinalizeType ==
  ASSUME TypeOK, NEW w \in {"ocpp", "end"}, Finalize(w)
  PROVE  TypeOK'
<1> DEFINE f == h[w]
<1>0. f \in Handler /\ w \in Workers
  BY WorkerNames DEF TypeOK
<1>1. ASSUME f.pc \in {"finalize", "saveFinal"}
      PROVE  /\ f \in [pc : {f.pc}, tx : TransactionIDs, st : Station, connector : Connectors,
                       status : Statuses, doc : Transaction]
             /\ f.tx \in TransactionIDs /\ f.doc \in Transaction
             /\ f.st \in Station /\ f.connector \in Connectors
  BY <1>0, <1>1, HandlerShape
<1>2. ASSUME f.pc \in {"finalize", "saveFinal"}, NEW st \in Station,
             Become(w, AfterFinalize(w, st))
      PROVE  /\ h' \in [Workers -> Handler]
             /\ h'["ocpp"].pc \notin {"clear", "trigger", "bill", "saveBilling"}
             /\ h'["soft"].pc \in {"idle", "stop", "stopStation", "stopTx", "clear"}
             /\ h'["end"].pc \in {"idle", "trigger", "finalize", "saveFinal"}
             /\ h'["bill"].pc \in {"idle", "bill", "saveBilling"}
  <2>1. CASE w = "ocpp"
    <3> DEFINE r == [f EXCEPT !.pc = "saveStatus", !.st = st]
    <3>1. r \in Handler /\ r.pc = "saveStatus"
      BY <1>1, <1>2 DEF Handler
    <3>2. Become(w, r)
      BY <1>2, <2>1 DEF AfterFinalize
    <3> HIDE DEF r
    <3> QED BY <1>0, <2>1, <3>1, <3>2, BecomeType
  <2>2. CASE w # "ocpp"
    BY <1>0, <1>2, <2>2, DoneType DEF AfterFinalize, Done
  <2> QED BY <2>1, <2>2
<1>3. ASSUME PriceInactivity(f), f.pc = "finalize"
      PROVE  inactivity' \in [TransactionIDs -> Nat]
  BY <1>1, <1>3 DEF PriceInactivity, TypeOK
<1>4. CASE FinalizeTransaction(w)
  <2> DEFINE b == IF EndBills(f.doc.billing) THEN "PENDING" ELSE f.doc.billing
             r == [f EXCEPT !.pc = "saveFinal", !.doc.extra = TRUE, !.doc.billing = b]
  <2>1. f.pc = "finalize" /\ PriceInactivity(f)
    BY <1>4 DEF FinalizeTransaction, Is
  <2>2. b \in BillingStatus
    BY <1>1, <2>1 DEF Transaction, BillingStatus
  <2>3. Become(w, r)
    BY <1>4 DEF FinalizeTransaction
  <2> HIDE DEF b
  <2>4. [f.doc EXCEPT !.extra = TRUE, !.billing = b] \in Transaction
    BY <1>1, <2>1, <2>2 DEF Transaction
  <2>5. r = [f EXCEPT !.pc = "saveFinal", !.doc = [f.doc EXCEPT !.extra = TRUE, !.billing = b]]
    BY <1>1, <2>1
  <2>6. r \in Handler /\ r.pc = "saveFinal"
    BY <1>1, <2>1, <2>4, <2>5 DEF Handler
  <2>7. billTasks' \in [TransactionIDs -> Nat]
    BY <1>1, <1>4, <2>1 DEF FinalizeTransaction, TypeOK
  <2>8. UNCHANGED <<station, transactions, ongoing, count, endTasks, attempts, invoiced>>
    BY <1>4 DEF FinalizeTransaction
  <2> HIDE DEF r
  <2> QED BY <1>0, <1>3, <2>1, <2>3, <2>6, <2>7, <2>8, BecomeType DEF TypeOK
<1>5. CASE FinalizeTransactionFails(w)
  BY <1>1, <1>2, <1>3, <1>5, UseType DEF FinalizeTransactionFails, Is, TypeOK, tasks
<1>6. CASE SaveFinalized(w)
  <2>1. f.pc = "saveFinal" /\ ClearConnector(f.st, f.connector) \in Station
    BY <1>1, <1>6, StationOperations DEF SaveFinalized, Is
  <2> QED BY <1>1, <1>2, <1>6, <2>1 DEF SaveFinalized, SaveTransaction, TypeOK, tasks, history
<1> QED BY <1>4, <1>5, <1>6 DEF Finalize

\* The asynchronous tasks keep the types.
LEMMA TasksType == TypeOK /\ SnapshotsAgree /\ Tasks => TypeOK'
<1> SUFFICES ASSUME TypeOK, SnapshotsAgree, Tasks PROVE TypeOK'
  OBVIOUS
<1>0. /\ h["end"] \in Handler /\ "end" \in Workers
      /\ h["bill"] \in Handler /\ "bill" \in Workers
  BY WorkerNames DEF TypeOK
<1>1. ASSUME NEW t \in TransactionIDs, EndTask(t) PROVE TypeOK'
  <2> DEFINE r == [pc |-> "trigger", tx |-> t]
  <2>1. r \in Handler /\ r.pc = "trigger"
    BY DEF Handler
  <2>2. Become("end", r) \/ Done("end")
    BY <1>1 DEF EndTask
  <2> HIDE DEF r
  <2> QED BY <1>0, <1>1, <2>1, <2>2, BecomeType, DoneType DEF EndTask, TypeOK, history
<1>2. CASE TriggerEndTransaction
  <2> DEFINE t == h["end"].tx
             c == transactions[t].connector
             k == station.connectors[c]
             r == [pc |-> "finalize", tx |-> t, st |-> station, connector |-> c,
                   status |-> k.status, doc |-> transactions[t]]
  <2>1. t \in TransactionIDs /\ t # 0 /\ h["end"].pc = "trigger"
    BY <1>0, <1>2, HandlerShape, OCPPAssumption DEF TriggerEndTransaction, Is, TransactionIDs
  <2>2. transactions[t] \in Transaction
    BY <1>0, <2>1, HandledIsStored
  <2>3. c \in Connectors
    BY <2>2 DEF Transaction
  <2>4. k # NoConnector => k.status \in Statuses
    BY <2>3 DEF TypeOK, Station, Connector
  <2> HIDE DEF c, k, t
  <2>5. k # NoConnector => r \in Handler /\ r.pc = "finalize"
    BY <2>1, <2>2, <2>3, <2>4 DEF Handler, TypeOK
  <2>6. Done("end") \/ (k # NoConnector /\ Become("end", r))
    BY <1>2 DEF TriggerEndTransaction, t, c, k
  <2>7. UNCHANGED <<station, transactions, ongoing, count, endTasks, billTasks, inactivity, attempts, invoiced>>
    BY <1>2 DEF TriggerEndTransaction, tasks, history
  <2> HIDE DEF r
  <2> QED BY <1>0, <2>5, <2>6, <2>7, BecomeType, DoneType DEF TypeOK
<1>3. ASSUME NEW t \in TransactionIDs, BillTask(t) PROVE TypeOK'
  <2> DEFINE r == [pc |-> "bill", tx |-> t, doc |-> transactions[t]]
  <2>1. transactions[t] \in Transaction
    BY <1>3 DEF BillTask, SnapshotsAgree, TasksAgree, Known, TypeOK
  <2>2. r \in Handler /\ r.pc = "bill"
    BY <2>1 DEF Handler
  <2>3. Become("bill", r) \/ Done("bill")
    BY <1>3 DEF BillTask
  <2>4. billTasks' \in [TransactionIDs -> Nat]
    BY <1>3 DEF BillTask, TypeOK
  <2>5. UNCHANGED <<station, transactions, ongoing, count, endTasks, inactivity, attempts, invoiced>>
    BY <1>3 DEF BillTask, history
  <2> HIDE DEF r
  <2> QED BY <1>0, <2>2, <2>3, <2>4, <2>5, BecomeType, DoneType DEF TypeOK
<1>4. ASSUME NEW result \in {"BILLED", "FAILED"}, BillTransaction(result) PROVE TypeOK'
  <2> DEFINE b == h["bill"]
             r == [b EXCEPT !.pc = "saveBilling", !.doc.billing = result]
  <2>1. /\ b \in [pc : {"bill"}, tx : TransactionIDs, doc : Transaction]
        /\ b.tx \in TransactionIDs /\ b.doc \in Transaction
    BY <1>0, <1>4, HandlerShape DEF BillTransaction, Is
  <2>2. [b.doc EXCEPT !.billing = result] \in Transaction
    BY <2>1 DEF Transaction, BillingStatus
  <2>3. r = [b EXCEPT !.pc = "saveBilling", !.doc = [b.doc EXCEPT !.billing = result]]
    BY <2>1
  <2>4. r \in Handler /\ r.pc = "saveBilling"
    BY <2>1, <2>2, <2>3 DEF Handler
  <2>5. Become("bill", r)
    BY <1>4 DEF BillTransaction
  <2>6. attempts' \in [TransactionIDs -> Nat] /\ invoiced' \in [TransactionIDs -> SUBSET BOOLEAN]
    BY <1>4, <2>1 DEF BillTransaction, TypeOK, Transaction
  <2>7. UNCHANGED <<station, transactions, ongoing, count, endTasks, billTasks, inactivity>>
    BY <1>4 DEF BillTransaction, tasks
  <2> HIDE DEF r
  <2> QED BY <1>0, <2>4, <2>5, <2>6, <2>7, BecomeType DEF TypeOK
<1>5. CASE SaveBillingData
  <2> DEFINE b == h["bill"]
  <2>1. b.tx \in TransactionIDs /\ b.doc \in Transaction /\ b.tx # 0 /\ b.pc = "saveBilling"
    BY <1>0, <1>5, HandlerShape, OCPPAssumption DEF SaveBillingData, Is, TransactionIDs
  <2>2. transactions[b.tx] \in Transaction
    BY <1>0, <2>1, HandledIsStored
  <2>3. [transactions[b.tx] EXCEPT !.billing = b.doc.billing] \in Transaction
    BY <2>1, <2>2 DEF Transaction
  <2>4. transactions' \in [TransactionIDs -> Transaction \cup {NoTransaction}]
    BY <1>5, <2>1, <2>3 DEF SaveBillingData, TypeOK
  <2> QED BY <1>0, <1>5, <2>4, DoneType DEF SaveBillingData, TypeOK, tasks, history
<1> QED BY <1>1, <1>2, <1>3, <1>4, <1>5 DEF Tasks

\* Every step keeps the types, in a state whose snapshots agree.
LEMMA TypePreserved ==
  TypeOK /\ SnapshotsAgree /\ [Next]_vars => TypeOK'
<1>1. TypeOK /\ UNCHANGED vars => TypeOK'
  BY DEF TypeOK, vars
<1> QED
  BY <1>1, RequestType, OcppType, StopType, SoftType, FinalizeType, TasksType DEF Next, Server
-----------------------------------------------------------------------------
(* Documents. *)

\* No step removes a transaction, moves it to another connector or changes
\* whether it is billed at all; only StartTransaction creates one.
DocumentsKeep ==
  /\ \A t \in TransactionIDs : Known(t) =>
       /\ Known(t)'
       /\ transactions'[t].connector = transactions[t].connector
       /\ transactions'[t].billing = "off" <=> transactions[t].billing = "off"
  /\ \A t \in TransactionIDs : Known(t)' /\ ~ Known(t) =>
       h["ocpp"].pc = "start" /\ h'["ocpp"].pc # "start"

\* saveTransaction of a snapshot that agrees, or under an ID of no document.
LEMMA SaveKeeps ==
  ASSUME TypeOK, NEW t \in TransactionIDs, NEW doc \in Transaction, SaveTransaction(t, doc),
         \/ Agrees(t, doc)
         \/ ~ Known(t) /\ h["ocpp"].pc = "start" /\ h'["ocpp"].pc # "start"
  PROVE  /\ DocumentsKeep
         /\ Known(t)'
         /\ \A u \in TransactionIDs \ {t} : transactions'[u] = transactions[u]
         /\ transactions'[t] = doc
<1>1. /\ \A u \in TransactionIDs \ {t} : transactions'[u] = transactions[u]
      /\ transactions'[t] = doc
  BY DEF SaveTransaction, TypeOK
<1>2. doc # NoTransaction
  BY MissingAssumption
<1> QED BY <1>1, <1>2 DEF DocumentsKeep, Agrees, Known

\* softStopTransaction, when the stop is Invalid, puts back what it was given.
LEMMA InvalidKeeps ==
  ASSUME TypeOK, SnapshotsAgree, NEW w \in {"ocpp", "soft"},
         h[w].pc \in {"stop", "stopTx"}, AnswerInvalid(w)
  PROVE  DocumentsKeep
<1> DEFINE s == h[w]
           doc == [s.given EXCEPT !.stop = TRUE, !.extra = TRUE]
<1>0. s \in Handler /\ w \in Workers
  BY WorkerNames DEF TypeOK
<1>1. CASE w = "soft"
  <2>1. s.tx \in TransactionIDs
    BY <1>0, HandlerShape
  <2>2. HandlerAgrees("soft", s)
    BY <1>0, <1>1 DEF SnapshotsAgree
  <2>3. Agrees(s.tx, s.given)
    BY <1>1, <2>2 DEF HandlerAgrees
  <2>4. Agrees(s.tx, doc) /\ doc \in Transaction
    BY <2>3 DEF Agrees, Transaction
  <2>5. SaveTransaction(s.tx, doc)
    BY <1>1 DEF AnswerInvalid
  <2> HIDE DEF doc
  <2> QED BY <2>1, <2>4, <2>5, SaveKeeps
<1>2. CASE w # "soft"
  BY <1>2 DEF AnswerInvalid, DocumentsKeep, Known
<1> QED BY <1>1, <1>2

\* The document that stops a transaction.
LEMMA StoppedAgrees ==
  ASSUME NEW t, NEW doc, Agrees(t, doc), NEW b \in StopBilling(doc), NEW extra \in BOOLEAN
  PROVE  /\ [doc EXCEPT !.stop = TRUE, !.extra = extra, !.billing = b] \in Transaction
         /\ Agrees(t, [doc EXCEPT !.stop = TRUE, !.extra = extra, !.billing = b])
<1>1. b \in BillingStatus /\ (b = "off" <=> doc.billing = "off")
  BY DEF StopBilling, BillingStatus
<1> QED BY <1>1 DEF Agrees, Transaction

LEMMA KeepDocuments ==
  ASSUME TypeOK, SnapshotsAgree, [Next]_vars
  PROVE  DocumentsKeep
<1>1. UNCHANGED transactions => DocumentsKeep
  BY DEF DocumentsKeep, Known
<1>2. \A w \in Workers : h[w] \in Handler /\ HandlerAgrees(w, h[w])
  BY DEF TypeOK, SnapshotsAgree
<1>3. CASE UNCHANGED vars \/ Request \/ Soft \/ SaveConnectors
  BY <1>1, <1>3
  DEF vars, Request, ReceiveBootNotification, ReceiveStartTransaction, ReceiveStatusNotification,
      ReceiveMeterValues, ReceiveStopTransaction, Receive, Soft, SoftStop, SoftClear, SaveConnectors
<1>4. CASE Ocpp
  <2> DEFINE o == h["ocpp"]
  <2>0. o \in Handler /\ HandlerAgrees("ocpp", o)
    BY <1>2, WorkerNames
  <2>1. ASSUME NEW b \in {"off", "active"}, StartTransaction(b) PROVE DocumentsKeep
    <3> DEFINE t == FindAvailableID
               doc == [connector |-> o.connector, stop |-> FALSE, extra |-> FALSE, billing |-> b]
    <3>1. o.pc = "start" /\ SaveTransaction(t, doc)
      BY <2>1 DEF StartTransaction, Is
    <3>2. t \in TransactionIDs /\ ~ Known(t)
      BY <2>0, <3>1, AvailableIDIsUnknown DEF HandlerAgrees
    <3>3. doc \in Transaction
      BY <2>0, <3>1, HandlerShape DEF Transaction, BillingStatus
    <3>4. h'["ocpp"].pc # "start"
      BY <2>1, WorkerNames DEF StartTransaction, Become, TypeOK
    <3> HIDE DEF t, doc
    <3> QED BY <3>1, <3>2, <3>3, <3>4, SaveKeeps
  <2>2. CASE SaveMeterValues
    <3>1. o.tx \in TransactionIDs /\ o.doc \in Transaction /\ SaveTransaction(o.tx, o.doc)
      BY <2>0, <2>2, HandlerShape DEF SaveMeterValues, Is
    <3>2. Agrees(o.tx, o.doc)
      BY <2>0, <2>2 DEF SaveMeterValues, Is, HandlerAgrees, HoldsDocument
    <3> QED BY <3>1, <3>2, SaveKeeps
  <2> QED
    BY <1>1, <1>4, <2>1, <2>2
    DEF Ocpp, HandleBootNotification, StartTransactionFails, SaveStation,
        GetTransactionFromMeterValues, MeterValuesFail, IgnoreStatusNotification,
        ProcessConnector, SaveStatus
<1>5. ASSUME NEW w \in {"ocpp", "soft"}, Stop(w) PROVE DocumentsKeep
  <2>0. h[w] \in Handler /\ HandlerAgrees(w, h[w])
    BY <1>2, WorkerNames
  <2>1. CASE StopTransactionFails(w) \/ StopSessionFails(w)
    BY <2>1, InvalidKeeps DEF StopTransactionFails, StopSessionFails, Is
  <2>2. CASE SaveStoppedTransaction(w)
    <3>1. h[w].pc = "stopTx" /\ h[w].tx \in TransactionIDs
      BY <2>0, <2>2, HandlerShape DEF SaveStoppedTransaction, Is
    <3>2. Agrees(h[w].tx, h[w].doc)
      BY <2>0, <3>1 DEF HandlerAgrees, HoldsDocument
    <3>3. PICK b \in StopBilling(h[w].doc) :
            SaveTransaction(h[w].tx,
              [h[w].doc EXCEPT !.stop = TRUE, !.extra = (w = "soft"), !.billing = b])
      BY <2>2 DEF SaveStoppedTransaction
    <3> DEFINE doc == [h[w].doc EXCEPT !.stop = TRUE, !.extra = (w = "soft"), !.billing = b]
    <3>4. doc \in Transaction /\ Agrees(h[w].tx, doc)
      BY <3>2, StoppedAgrees
    <3>5. SaveTransaction(h[w].tx, doc)
      BY <3>3
    <3> HIDE DEF doc
    <3> QED BY <3>1, <3>4, <3>5, SaveKeeps
  <2> QED
    BY <1>1, <1>5, <2>1, <2>2 DEF Stop, GetTransactionFromStopTransaction, SaveStoppedStation
<1>6. ASSUME NEW w \in {"ocpp", "end"}, Finalize(w) PROVE DocumentsKeep
  <2>0. h[w] \in Handler /\ HandlerAgrees(w, h[w])
    BY <1>2, WorkerNames
  <2>1. CASE SaveFinalized(w)
    <3>1. h[w].pc = "saveFinal" /\ h[w].tx \in TransactionIDs
      BY <2>0, <2>1, HandlerShape DEF SaveFinalized, Is
    <3>2. Agrees(h[w].tx, h[w].doc) /\ SaveTransaction(h[w].tx, h[w].doc)
      BY <2>0, <2>1, <3>1 DEF HandlerAgrees, HoldsDocument, SaveFinalized
    <3> QED BY <3>1, <3>2, SaveKeeps DEF Agrees
  <2> QED BY <1>1, <1>6, <2>1 DEF Finalize, FinalizeTransaction, FinalizeTransactionFails
<1>7. CASE Tasks
  <2> DEFINE b == h["bill"]
  <2>0. b \in Handler /\ HandlerAgrees("bill", b)
    BY <1>2, WorkerNames
  <2>1. CASE SaveBillingData
    <3>1. b.pc = "saveBilling" /\ b.tx \in TransactionIDs /\ b.doc \in Transaction
      BY <2>0, <2>1, HandlerShape DEF SaveBillingData, Is
    <3>2. Agrees(b.tx, b.doc) /\ b.doc.billing # "off"
      BY <2>0, <3>1 DEF HandlerAgrees, HoldsDocument
    <3>3. transactions[b.tx] \in Transaction
      BY <3>1, <3>2 DEF Agrees, Known, TypeOK
    <3> DEFINE doc == [transactions[b.tx] EXCEPT !.billing = b.doc.billing]
    <3>4. doc \in Transaction /\ Agrees(b.tx, doc)
      BY <3>1, <3>2, <3>3 DEF Transaction, Agrees
    <3>5. SaveTransaction(b.tx, doc)
      BY <2>1, <3>1 DEF SaveBillingData, SaveTransaction, TypeOK
    <3> HIDE DEF doc
    <3> QED BY <3>1, <3>4, <3>5, SaveKeeps
  <2> QED
    BY <1>1, <1>7, <2>1 DEF Tasks, EndTask, TriggerEndTransaction, BillTask, BillTransaction
<1> QED BY <1>3, <1>4, <1>5, <1>6, <1>7 DEF Next, Server
\* What was true of a snapshot stays true of it.
LEMMA AgreesKept ==
  ASSUME DocumentsKeep, NEW t \in TransactionIDs, NEW doc, Agrees(t, doc)
  PROVE  Agrees(t, doc)'
  BY DEF Agrees, DocumentsKeep

LEMMA HandlerKept ==
  ASSUME DocumentsKeep, NEW w \in Workers, NEW r \in Handler, HandlerAgrees(w, r),
         r.pc # "start"
  PROVE  HandlerAgrees(w, r)'
<1>1. r.pc # "idle" /\ r.tx # 0 => r.tx \in TransactionIDs
  BY DEF Handler, Idle
<1>2. r.pc # "idle" /\ r.tx # 0 => Known(r.tx)'
  BY <1>1 DEF HandlerAgrees, DocumentsKeep
<1>3. HoldsDocument(r) => r.tx \in TransactionIDs
  BY HandlerShape DEF HoldsDocument
<1>4. HoldsDocument(r) => Agrees(r.tx, r.doc)'
  BY <1>3, AgreesKept DEF HandlerAgrees
<1>5. r.pc \in {"stop", "stopStation", "stopTx"} => r.tx \in TransactionIDs
  BY HandlerShape
<1>6. w = "soft" /\ r.pc \in {"stop", "stopStation", "stopTx"} => Agrees(r.tx, r.given)'
  BY <1>5, AgreesKept DEF HandlerAgrees
<1> QED BY <1>2, <1>4, <1>6 DEF HandlerAgrees, HoldsDocument

\* The steps change the handler of one worker.
OnlyMoves(w) == \A v \in Workers \ {w} : h'[v] = h[v]

LEMMA BecomeMoves ==
  ASSUME TypeOK, NEW w \in Workers, NEW r, Become(w, r)
  PROVE  h'[w] = r /\ OnlyMoves(w)
  BY DEF Become, TypeOK, OnlyMoves

\* A step of one worker, to a handler that agrees, keeps all of them so.
LEMMA HandlersKept ==
  ASSUME TypeOK, SnapshotsAgree, DocumentsKeep, NEW w \in Workers,
         OnlyMoves(w), h'[w] = h[w] \/ HandlerAgrees(w, h[w])'
  PROVE  \A v \in Workers : HandlerAgrees(v, h[v])'
<1> SUFFICES ASSUME NEW v \in Workers PROVE HandlerAgrees(v, h[v])'
  OBVIOUS
<1>1. h[v] \in Handler /\ HandlerAgrees(v, h[v])
  BY DEF TypeOK, SnapshotsAgree
<1>2. ASSUME h'[v] = h[v], h[v].pc # "start" PROVE HandlerAgrees(v, h[v])'
  <2>1. \A x \in Handler : HandlerAgrees(v, x) /\ x.pc # "start" => HandlerAgrees(v, x)'
    BY HandlerKept
  <2>2. PICK x \in Handler : x = h[v]
    BY <1>1
  <2>3. HandlerAgrees(v, x)'
    BY <1>1, <1>2, <2>1, <2>2
  <2>4. x = h'[v]
    BY <1>2, <2>2
  <2> QED BY <2>3, <2>4
<1>3. ASSUME h'[v] = h[v], h[v].pc = "start" PROVE HandlerAgrees(v, h[v])'
  <2>1. v = "ocpp"
    BY <1>3 DEF TypeOK, Workers
  <2>2. \A t \in TransactionIDs : ~ Known(t) => ~ Known(t)'
    BY <1>3, <2>1 DEF DocumentsKeep
  <2>3. h'[v].tx = 0 /\ h'[v].pc = "start"
    BY <1>1, <1>3, HandlerShape
  <2>4. \E t \in TransactionIDs : ~ Known(t)'
    BY <1>1, <1>3, <2>2 DEF HandlerAgrees
  <2> QED BY <2>3, <2>4 DEF HandlerAgrees, HoldsDocument
<1> QED BY <1>2, <1>3 DEF OnlyMoves

LEMMA IdleAgrees ==
  ASSUME TypeOK, NEW w \in Workers, Done(w)
  PROVE  HandlerAgrees(w, h[w])' /\ OnlyMoves(w)
<1>1. h'[w] = Idle /\ OnlyMoves(w)
  BY BecomeMoves DEF Done
<1> QED BY <1>1 DEF HandlerAgrees, HoldsDocument, Idle

LEMMA TasksKept ==
  ASSUME TypeOK, SnapshotsAgree, DocumentsKeep,
         \A t \in endTasks' : t \in endTasks \/ (t \in TransactionIDs /\ Known(t)),
         \A t \in TransactionIDs : billTasks'[t] > 0 => billTasks[t] > 0 \/ Known(t)
  PROVE  TasksAgree'
  BY DEF TypeOK, SnapshotsAgree, TasksAgree, DocumentsKeep

\* The requests of the station hold documents that agree.
LEMMA RequestAgrees ==
  ASSUME TypeOK, SnapshotsAgree, DocumentsKeep, Request
  PROVE  HandlerAgrees("ocpp", h["ocpp"])' /\ OnlyMoves("ocpp")
<1>1. CASE ReceiveBootNotification
  <2>1. h'["ocpp"] = [pc |-> "boot", tx |-> 0, st |-> station] /\ OnlyMoves("ocpp")
    BY <1>1, BecomeMoves, WorkerNames DEF ReceiveBootNotification, Receive
  <2> QED BY <2>1 DEF HandlerAgrees, HoldsDocument
<1>2. ASSUME NEW c \in Connectors, ReceiveStartTransaction(c)
      PROVE  HandlerAgrees("ocpp", h["ocpp"])' /\ OnlyMoves("ocpp")
  <2>1. /\ h'["ocpp"] = [pc |-> "start", tx |-> 0, st |-> station, connector |-> c]
        /\ OnlyMoves("ocpp") /\ UNCHANGED transactions
        /\ \E t \in TransactionIDs : ~ Known(t)
    BY <1>2, BecomeMoves, WorkerNames DEF ReceiveStartTransaction, Receive, Known
  <2> QED BY <2>1 DEF HandlerAgrees, HoldsDocument, Known
<1>3. ASSUME NEW c \in Connectors, NEW s \in Statuses, ReceiveStatusNotification(c, s)
      PROVE  HandlerAgrees("ocpp", h["ocpp"])' /\ OnlyMoves("ocpp")
  <2>1. /\ h'["ocpp"] = [pc |-> "status", tx |-> 0, st |-> station, connector |-> c, status |-> s]
        /\ OnlyMoves("ocpp")
    BY <1>3, BecomeMoves, WorkerNames DEF ReceiveStatusNotification, Receive
  <2> QED BY <2>1 DEF HandlerAgrees, HoldsDocument
<1>4. ASSUME NEW t \in TransactionIDs, ReceiveMeterValues(t)
      PROVE  HandlerAgrees("ocpp", h["ocpp"])' /\ OnlyMoves("ocpp")
  <2>1. /\ h'["ocpp"] = [pc |-> "meter", tx |-> t, st |-> station]
        /\ OnlyMoves("ocpp") /\ Known(t) /\ UNCHANGED transactions
    BY <1>4, BecomeMoves, WorkerNames DEF ReceiveMeterValues, Receive, Known
  <2> QED BY <2>1 DEF HandlerAgrees, HoldsDocument, Known
<1>5. ASSUME NEW t \in TransactionIDs, ReceiveStopTransaction(t)
      PROVE  HandlerAgrees("ocpp", h["ocpp"])' /\ OnlyMoves("ocpp")
  <2>1. /\ h'["ocpp"] = [pc |-> "stop", tx |-> t, st |-> station,
                         doc |-> NoTransaction, given |-> NoTransaction]
        /\ OnlyMoves("ocpp") /\ Known(t) /\ UNCHANGED transactions
    BY <1>5, BecomeMoves, WorkerNames DEF ReceiveStopTransaction, Receive, Known
  <2> QED BY <2>1 DEF HandlerAgrees, HoldsDocument, Known
<1> QED BY <1>1, <1>2, <1>3, <1>4, <1>5 DEF Request

\* So do the steps that handle them.
LEMMA OcppAgrees ==
  ASSUME TypeOK, SnapshotsAgree, DocumentsKeep, Ocpp
  PROVE  HandlerAgrees("ocpp", h["ocpp"])' /\ OnlyMoves("ocpp")
<1> DEFINE o == h["ocpp"]
           Goal == HandlerAgrees("ocpp", h["ocpp"])' /\ OnlyMoves("ocpp")
<1>0. o \in Handler /\ HandlerAgrees("ocpp", o) /\ "ocpp" \in Workers
  BY WorkerNames DEF TypeOK, SnapshotsAgree
<1>1. ASSUME Done("ocpp") PROVE Goal
  BY <1>0, <1>1, IdleAgrees
<1>2. ASSUME NEW b \in {"off", "active"}, StartTransaction(b) PROVE Goal
  <2> DEFINE t == FindAvailableID
             doc == [connector |-> o.connector, stop |-> FALSE, extra |-> FALSE, billing |-> b]
             st == ShowTransaction(o.st, o.connector, t)
  <2>1. o.pc = "start" /\ SaveTransaction(t, doc)
        /\ Become("ocpp", [pc |-> "saveStation", tx |-> t, st |-> st])
    BY <1>2 DEF StartTransaction, Is
  <2>2. t \in TransactionIDs /\ doc \in Transaction
    BY <1>0, <2>1, AvailableIDIsUnknown, HandlerShape DEF HandlerAgrees, Transaction, BillingStatus
  <2> HIDE DEF t, doc, st
  <2>3. transactions'[t] # NoTransaction
    BY <2>1, <2>2, MissingAssumption DEF SaveTransaction, TypeOK
  <2>4. h'["ocpp"] = [pc |-> "saveStation", tx |-> t, st |-> st] /\ OnlyMoves("ocpp")
    BY <1>0, <2>1, BecomeMoves
  <2> QED BY <2>3, <2>4 DEF HandlerAgrees, HoldsDocument, Known
<1>3. CASE GetTransactionFromMeterValues
  <2>1. o.pc = "meter" /\ o.tx \in TransactionIDs /\ UNCHANGED transactions
    BY <1>0, <1>3, HandlerShape DEF GetTransactionFromMeterValues, Is
  <2>2. Known(o.tx)
    BY <1>0, <2>1, HandledIsStored
  <2>3. Agrees(o.tx, transactions[o.tx])
    BY <2>1, <2>2 DEF TypeOK, Known, Agrees
  <2>4. ASSUME Become("ocpp", [pc |-> "saveTx", tx |-> o.tx, st |-> o.st, doc |-> transactions[o.tx]])
        PROVE  Goal
    <3>1. /\ h'["ocpp"] = [pc |-> "saveTx", tx |-> o.tx, st |-> o.st, doc |-> transactions[o.tx]]
          /\ OnlyMoves("ocpp")
      BY <1>0, <2>4, BecomeMoves
    <3> QED BY <2>1, <2>2, <2>3, <3>1 DEF HandlerAgrees, HoldsDocument, Known, Agrees
  <2> QED BY <1>1, <1>3, <2>4 DEF GetTransactionFromMeterValues
<1>4. CASE SaveMeterValues
  <2> DEFINE st == ShowTransaction(o.st, o.doc.connector, o.tx)
  <2>1. o.pc = "saveTx" /\ o.tx \in TransactionIDs
    BY <1>0, <1>4, HandlerShape DEF SaveMeterValues, Is
  <2>2. transactions'[o.tx] # NoTransaction
    BY <1>0, <2>1, HandledIsStored DEF DocumentsKeep, Known
  <2>3. h'["ocpp"] = [pc |-> "saveStation", tx |-> o.tx, st |-> st] /\ OnlyMoves("ocpp")
    BY <1>0, <1>4, BecomeMoves DEF SaveMeterValues
  <2> HIDE DEF st
  <2> QED BY <2>2, <2>3 DEF HandlerAgrees, HoldsDocument, Known
<1>5. CASE ProcessConnector
  <2> DEFINE st == GetConnector(o.st, o.connector)
             last == IF o.status \in Free THEN LastTransaction(o.connector) ELSE 0
             f == [pc |-> "finalize", tx |-> last, st |-> st, connector |-> o.connector,
                   status |-> o.status, doc |-> transactions[last]]
             free == IF last # 0 THEN ClearConnector(st, o.connector) ELSE st
             n == [o EXCEPT !.pc = "saveStatus", !.st = free]
  <2>1. /\ o \in [pc : {"status"}, tx : {0}, st : Station, connector : Connectors, status : Statuses]
        /\ o.st \in Station /\ o.connector \in Connectors /\ UNCHANGED transactions
    BY <1>0, <1>5, HandlerShape DEF ProcessConnector, Is
  <2>2. st \in Station /\ st.connectors[o.connector] # NoConnector
    BY <2>1, StationOperations
  <2>3. ASSUME last # 0 PROVE last \in TransactionIDs /\ Known(last)
    BY <2>3, LastTransactionIsStored
  <2>4. free.connectors[o.connector] # NoConnector
    BY <2>1, <2>2, ClearKeepsConnectors
  <2>5. (last # 0 /\ Become("ocpp", f)) \/ Become("ocpp", n)
    BY <1>5 DEF ProcessConnector
  <2> HIDE DEF st, last, free
  <2>6. ASSUME last # 0, Become("ocpp", f) PROVE Goal
    <3>1. h'["ocpp"] = f /\ OnlyMoves("ocpp")
      BY <1>0, <2>6, BecomeMoves
    <3>2. Agrees(last, transactions[last])
      BY <2>3, <2>6 DEF Agrees, Known, TypeOK
    <3> QED BY <2>1, <2>2, <3>1, <3>2 DEF HandlerAgrees, HoldsDocument, Agrees, Known
  <2>7. ASSUME Become("ocpp", n) PROVE Goal
    <3>1. h'["ocpp"] = n /\ OnlyMoves("ocpp")
      BY <1>0, <2>7, BecomeMoves
    <3> QED BY <2>1, <2>4, <3>1 DEF HandlerAgrees, HoldsDocument
  <2> QED BY <2>5, <2>6, <2>7
<1> QED
  BY <1>1, <1>2, <1>3, <1>4, <1>5
  DEF Ocpp, HandleBootNotification, StartTransactionFails, SaveStation, MeterValuesFail,
      IgnoreStatusNotification, SaveStatus
\* A stop and a soft stop hold documents that agree.
LEMMA StopAgrees ==
  ASSUME TypeOK, SnapshotsAgree, DocumentsKeep, NEW w \in {"ocpp", "soft"}, Stop(w)
  PROVE  HandlerAgrees(w, h[w])' /\ OnlyMoves(w)
<1> DEFINE s == h[w]
           Goal == HandlerAgrees(w, h[w])' /\ OnlyMoves(w)
           Stops(pc) == [pc : {pc}, tx : TransactionIDs, st : Station,
                         doc : Transaction \cup {NoTransaction},
                         given : Transaction \cup {NoTransaction}]
<1>0. s \in Handler /\ HandlerAgrees(w, s) /\ w \in Workers
  BY WorkerNames DEF TypeOK, SnapshotsAgree
<1>1. ASSUME Done(w) PROVE Goal
  BY <1>0, <1>1, IdleAgrees
<1>2. CASE GetTransactionFromStopTransaction(w)
  <2> DEFINE doc == transactions[s.tx]
             st == ClearConnector(s.st, doc.connector)
             r == [s EXCEPT !.pc = "stopStation", !.doc = doc, !.st = st]
  <2>1. s \in Stops("stop") /\ s.pc = "stop" /\ s.tx \in TransactionIDs /\ UNCHANGED transactions
    BY <1>0, <1>2, HandlerShape DEF GetTransactionFromStopTransaction, Is
  <2>2. Known(s.tx)
    BY <1>0, <2>1, HandledIsStored
  <2>3. Agrees(s.tx, doc) /\ (w = "soft" => Agrees(s.tx, s.given))
    BY <1>0, <2>1, <2>2 DEF TypeOK, Known, Agrees, HandlerAgrees
  <2>4. Become(w, r)
    BY <1>2 DEF GetTransactionFromStopTransaction
  <2> HIDE DEF st
  <2>5. h'[w] = r /\ OnlyMoves(w)
    BY <1>0, <2>4, BecomeMoves
  <2> QED BY <2>1, <2>2, <2>3, <2>5 DEF HandlerAgrees, HoldsDocument, Agrees, Known
<1>3. CASE SaveStoppedStation(w)
  <2> DEFINE r == [s EXCEPT !.pc = "stopTx"]
  <2>1. s \in Stops("stopStation") /\ s.pc = "stopStation" /\ UNCHANGED transactions
    BY <1>0, <1>3, HandlerShape DEF SaveStoppedStation, Is
  <2>2. Agrees(s.tx, s.doc) /\ (w = "soft" => Agrees(s.tx, s.given))
    BY <1>0, <2>1 DEF HandlerAgrees, HoldsDocument
  <2>3. Become(w, r)
    BY <1>3 DEF SaveStoppedStation
  <2>4. h'[w] = r /\ OnlyMoves(w)
    BY <1>0, <2>3, BecomeMoves
  <2> QED BY <2>1, <2>2, <2>4 DEF HandlerAgrees, HoldsDocument, Agrees, Known
<1> QED
  BY <1>1, <1>2, <1>3
  DEF Stop, StopTransactionFails, StopSessionFails, AnswerInvalid, SaveStoppedTransaction

\* So do the callers of a soft stop.
LEMMA SoftAgrees ==
  ASSUME TypeOK, SnapshotsAgree, DocumentsKeep, Soft \/ SaveConnectors
  PROVE  HandlerAgrees("soft", h["soft"])' /\ OnlyMoves("soft")
<1>0. "soft" \in Workers
  BY WorkerNames
<1>1. ASSUME NEW t \in TransactionIDs, SoftStop(t)
      PROVE  HandlerAgrees("soft", h["soft"])' /\ OnlyMoves("soft")
  <2>1. /\ h'["soft"] = [pc |-> "stop", tx |-> t, st |-> station, doc |-> NoTransaction,
                         given |-> transactions[t]]
        /\ OnlyMoves("soft") /\ Known(t) /\ UNCHANGED transactions
    BY <1>0, <1>1, BecomeMoves DEF SoftStop, Known
  <2>2. Agrees(t, transactions[t])
    BY <2>1 DEF TypeOK, Known, Agrees
  <2> QED BY <2>1, <2>2 DEF HandlerAgrees, HoldsDocument, Agrees, Known
<1>2. ASSUME NEW t \in TransactionIDs, SoftClear(t)
      PROVE  HandlerAgrees("soft", h["soft"])' /\ OnlyMoves("soft")
  <2> DEFINE st == ClearConnector(station, transactions[t].connector)
  <2>1. /\ h'["soft"] = [pc |-> "clear", tx |-> t, st |-> st]
        /\ OnlyMoves("soft") /\ Known(t) /\ UNCHANGED transactions
    BY <1>0, <1>2, BecomeMoves DEF SoftClear, Known
  <2> HIDE DEF st
  <2> QED BY <2>1 DEF HandlerAgrees, HoldsDocument, Known
<1>3. CASE SaveConnectors
  BY <1>0, <1>3, IdleAgrees DEF SaveConnectors
<1> QED BY <1>1, <1>2, <1>3 DEF Soft

\* finalizeTransaction only turns an active billing into a pending one.
LEMMA FinalizeAgrees ==
  ASSUME TypeOK, SnapshotsAgree, DocumentsKeep, NEW w \in {"ocpp", "end"}, Finalize(w)
  PROVE  HandlerAgrees(w, h[w])' /\ OnlyMoves(w)
<1> DEFINE f == h[w]
           Goal == HandlerAgrees(w, h[w])' /\ OnlyMoves(w)
<1>0. f \in Handler /\ HandlerAgrees(w, f) /\ w \in Workers
  BY WorkerNames DEF TypeOK, SnapshotsAgree
<1>1. ASSUME f.pc \in {"finalize", "saveFinal"}
      PROVE  /\ f \in [pc : {f.pc}, tx : TransactionIDs, st : Station, connector : Connectors,
                       status : Statuses, doc : Transaction]
             /\ f.tx \in TransactionIDs /\ f.doc \in Transaction /\ f.st \in Station
             /\ f.connector \in Connectors /\ f.st.connectors[f.connector] # NoConnector
             /\ Known(f.tx) /\ Agrees(f.tx, f.doc)
             /\ transactions'[f.tx] # NoTransaction
  <2>1. f \in [pc : {f.pc}, tx : TransactionIDs, st : Station, connector : Connectors,
               status : Statuses, doc : Transaction]
    BY <1>0, <1>1, HandlerShape
  <2>2. Known(f.tx) /\ transactions'[f.tx] # NoTransaction
    BY <1>0, <1>1, <2>1, HandledIsStored DEF DocumentsKeep, Known
  <2> QED BY <1>0, <1>1, <2>1, <2>2 DEF HandlerAgrees, HoldsDocument
<1>2. ASSUME f.pc \in {"finalize", "saveFinal"}, NEW st, st.connectors[f.connector] # NoConnector,
             Become(w, AfterFinalize(w, st))
      PROVE  Goal
  <2>1. CASE w = "ocpp"
    <3>1. h'[w] = [f EXCEPT !.pc = "saveStatus", !.st = st] /\ OnlyMoves(w)
      BY <1>0, <1>2, <2>1, BecomeMoves DEF AfterFinalize
    <3> QED BY <1>1, <1>2, <3>1 DEF HandlerAgrees, HoldsDocument, Known
  <2>2. CASE w # "ocpp"
    BY <1>0, <1>2, <2>2, IdleAgrees DEF AfterFinalize, Done
  <2> QED BY <2>1, <2>2
<1>3. CASE FinalizeTransaction(w)
  <2> DEFINE b == IF EndBills(f.doc.billing) THEN "PENDING" ELSE f.doc.billing
             doc == [f.doc EXCEPT !.extra = TRUE, !.billing = b]
             r == [f EXCEPT !.pc = "saveFinal", !.doc.extra = TRUE, !.doc.billing = b]
  <2>1. f.pc = "finalize" /\ UNCHANGED transactions /\ Become(w, r)
    BY <1>3 DEF FinalizeTransaction, Is
  <2>2. b \in BillingStatus /\ (b = "off" <=> f.doc.billing = "off")
    BY <1>1, <2>1 DEF EndBills, Transaction, BillingStatus
  <2> HIDE DEF b
  <2>3. Agrees(f.tx, doc)
    BY <1>1, <2>1, <2>2 DEF Agrees, Transaction
  <2>4. r = [f EXCEPT !.pc = "saveFinal", !.doc = doc]
    BY <1>1, <2>1
  <2> HIDE DEF r, doc
  <2>5. h'[w] = [f EXCEPT !.pc = "saveFinal", !.doc = doc] /\ OnlyMoves(w)
    BY <1>0, <2>1, <2>4, BecomeMoves
  <2> QED BY <1>1, <2>1, <2>3, <2>5 DEF HandlerAgrees, HoldsDocument, Agrees, Known
<1>4. CASE FinalizeTransactionFails(w)
  BY <1>1, <1>2, <1>4 DEF FinalizeTransactionFails, Is
<1>5. CASE SaveFinalized(w)
  <2>1. f.pc = "saveFinal" /\ Become(w, AfterFinalize(w, ClearConnector(f.st, f.connector)))
    BY <1>5 DEF SaveFinalized, Is
  <2>2. ClearConnector(f.st, f.connector).connectors[f.connector] # NoConnector
    BY <1>1, <2>1, ClearKeepsConnectors
  <2> QED BY <1>2, <2>1, <2>2
<1> QED BY <1>3, <1>4, <1>5 DEF Finalize
\* The tasks hold documents that agree, and never one without billing.
LEMMA TasksAgrees ==
  ASSUME TypeOK, SnapshotsAgree, DocumentsKeep, Tasks
  PROVE  \E w \in Workers : HandlerAgrees(w, h[w])' /\ OnlyMoves(w)
<1>0. /\ h["end"] \in Handler /\ "end" \in Workers
      /\ h["bill"] \in Handler /\ "bill" \in Workers
      /\ HandlerAgrees("bill", h["bill"])
  BY WorkerNames DEF TypeOK, SnapshotsAgree
<1>1. ASSUME NEW w \in Workers, Done(w) PROVE HandlerAgrees(w, h[w])' /\ OnlyMoves(w)
  BY <1>1, IdleAgrees
<1>2. ASSUME NEW t \in TransactionIDs, EndTask(t)
      PROVE  HandlerAgrees("end", h["end"])' /\ OnlyMoves("end")
  <2>1. Known(t) /\ UNCHANGED transactions
    BY <1>2 DEF EndTask, SnapshotsAgree, TasksAgree
  <2>2. ASSUME Become("end", [pc |-> "trigger", tx |-> t])
        PROVE  HandlerAgrees("end", h["end"])' /\ OnlyMoves("end")
    <3>1. h'["end"] = [pc |-> "trigger", tx |-> t] /\ OnlyMoves("end")
      BY <1>0, <2>2, BecomeMoves
    <3> QED BY <2>1, <3>1 DEF HandlerAgrees, HoldsDocument, Known
  <2> QED BY <1>0, <1>1, <1>2, <2>2 DEF EndTask
<1>3. ASSUME TriggerEndTransaction PROVE HandlerAgrees("end", h["end"])' /\ OnlyMoves("end")
  <2> DEFINE t == h["end"].tx
             c == transactions[t].connector
             k == station.connectors[c]
             r == [pc |-> "finalize", tx |-> t, st |-> station, connector |-> c,
                   status |-> k.status, doc |-> transactions[t]]
  <2>1. t \in TransactionIDs /\ h["end"].pc = "trigger" /\ UNCHANGED transactions
    BY <1>0, <1>3, HandlerShape DEF TriggerEndTransaction, Is
  <2>2. Known(t) /\ Agrees(t, transactions[t])
    BY <1>0, <2>1, HandledIsStored DEF Agrees
  <2>3. ASSUME k # NoConnector, Become("end", r)
        PROVE  HandlerAgrees("end", h["end"])' /\ OnlyMoves("end")
    <3>1. h'["end"] = r /\ OnlyMoves("end")
      BY <1>0, <2>3, BecomeMoves
    <3> QED BY <2>1, <2>2, <2>3, <3>1 DEF HandlerAgrees, HoldsDocument, Agrees, Known
  <2>4. Done("end") \/ (k # NoConnector /\ Become("end", r))
    BY <1>3 DEF TriggerEndTransaction
  <2> QED BY <1>0, <1>1, <2>3, <2>4
<1>4. ASSUME NEW t \in TransactionIDs, BillTask(t)
      PROVE  HandlerAgrees("bill", h["bill"])' /\ OnlyMoves("bill")
  <2>1. Known(t) /\ UNCHANGED transactions
    BY <1>4 DEF BillTask, SnapshotsAgree, TasksAgree
  <2>2. Agrees(t, transactions[t])
    BY <2>1 DEF Agrees, Known, TypeOK
  <2>3. ASSUME transactions[t].billing = "PENDING",
               Become("bill", [pc |-> "bill", tx |-> t, doc |-> transactions[t]])
        PROVE  HandlerAgrees("bill", h["bill"])' /\ OnlyMoves("bill")
    <3>1. /\ h'["bill"] = [pc |-> "bill", tx |-> t, doc |-> transactions[t]]
          /\ OnlyMoves("bill")
      BY <1>0, <2>3, BecomeMoves
    <3> QED BY <2>1, <2>2, <2>3, <3>1 DEF HandlerAgrees, HoldsDocument, Agrees, Known
  <2> QED BY <1>0, <1>1, <1>4, <2>3 DEF BillTask
<1>5. ASSUME NEW result \in {"BILLED", "FAILED"}, BillTransaction(result)
      PROVE  HandlerAgrees("bill", h["bill"])' /\ OnlyMoves("bill")
  <2> DEFINE b == h["bill"]
             doc == [b.doc EXCEPT !.billing = result]
             r == [b EXCEPT !.pc = "saveBilling", !.doc.billing = result]
  <2>1. /\ b \in [pc : {"bill"}, tx : TransactionIDs, doc : Transaction]
        /\ b.tx \in TransactionIDs /\ b.pc = "bill" /\ UNCHANGED transactions
        /\ Become("bill", r)
    BY <1>0, <1>5, HandlerShape DEF BillTransaction, Is
  <2>2. Known(b.tx) /\ Agrees(b.tx, b.doc) /\ b.doc.billing # "off"
    BY <1>0, <2>1, HandledIsStored DEF HandlerAgrees, HoldsDocument
  <2>3. Agrees(b.tx, doc) /\ doc.billing # "off"
    BY <2>2 DEF Agrees, Transaction, BillingStatus
  <2>4. r = [b EXCEPT !.pc = "saveBilling", !.doc = doc]
    BY <2>1
  <2> HIDE DEF r, doc
  <2>5. h'["bill"] = [b EXCEPT !.pc = "saveBilling", !.doc = doc] /\ OnlyMoves("bill")
    BY <1>0, <2>1, <2>4, BecomeMoves
  <2> QED BY <2>1, <2>2, <2>3, <2>5 DEF HandlerAgrees, HoldsDocument, Agrees, Known
<1>6. ASSUME SaveBillingData PROVE HandlerAgrees("bill", h["bill"])' /\ OnlyMoves("bill")
  BY <1>0, <1>1, <1>6 DEF SaveBillingData
<1> QED BY <1>0, <1>2, <1>3, <1>4, <1>5, <1>6 DEF Tasks

\* The tasks that wait are about stored transactions.
LEMMA WaitingKept ==
  ASSUME TypeOK, SnapshotsAgree, DocumentsKeep, [Next]_vars
  PROVE  TasksAgree'
<1>1. UNCHANGED <<endTasks, billTasks>> => TasksAgree'
  BY TasksKept
<1>2. CASE UNCHANGED vars \/ Request \/ Ocpp \/ Soft \/ SaveConnectors
  BY <1>1, <1>2
  DEF vars, tasks, Request, ReceiveBootNotification, ReceiveStartTransaction, ReceiveStatusNotification,
      ReceiveMeterValues, ReceiveStopTransaction, Receive, Ocpp, HandleBootNotification,
      StartTransactionFails, StartTransaction, SaveStation, GetTransactionFromMeterValues,
      SaveMeterValues, MeterValuesFail, IgnoreStatusNotification, ProcessConnector, SaveStatus,
      Soft, SoftStop, SoftClear, SaveConnectors
<1>3. ASSUME NEW w \in {"ocpp", "soft"}, Stop(w) PROVE TasksAgree'
  <2>1. CASE SaveStoppedTransaction(w)
    <3>1. h[w].tx \in TransactionIDs /\ Known(h[w].tx)
      BY <2>1, HandlerShape, HandledIsStored, WorkerNames DEF SaveStoppedTransaction, Is, TypeOK
    <3>2. endTasks' \subseteq endTasks \cup {h[w].tx} /\ billTasks' = billTasks
      BY <2>1 DEF SaveStoppedTransaction
    <3> QED BY <3>1, <3>2, TasksKept
  <2> QED
    BY <1>1, <1>3, <2>1
    DEF Stop, GetTransactionFromStopTransaction, StopTransactionFails, SaveStoppedStation,
        StopSessionFails, tasks
<1>4. ASSUME NEW w \in {"ocpp", "end"}, Finalize(w) PROVE TasksAgree'
  <2>1. CASE FinalizeTransaction(w)
    <3>1. h[w].tx \in TransactionIDs /\ Known(h[w].tx)
      BY <2>1, HandlerShape, HandledIsStored, WorkerNames DEF FinalizeTransaction, Is, TypeOK
    <3>2. /\ endTasks' = endTasks
          /\ \A t \in TransactionIDs : billTasks'[t] > 0 => billTasks[t] > 0 \/ t = h[w].tx
      BY <2>1, <3>1 DEF FinalizeTransaction, TypeOK
    <3> QED BY <3>1, <3>2, TasksKept
  <2> QED BY <1>1, <1>4, <2>1 DEF Finalize, FinalizeTransactionFails, SaveFinalized, tasks
<1>5. CASE Tasks
  <2>1. ASSUME NEW t \in TransactionIDs, EndTask(t) PROVE TasksAgree'
    BY <2>1, TasksKept DEF EndTask
  <2>2. ASSUME NEW t \in TransactionIDs, BillTask(t) PROVE TasksAgree'
    <3>1. /\ endTasks' = endTasks
          /\ \A u \in TransactionIDs : billTasks'[u] > 0 => billTasks[u] > 0
      BY <2>2 DEF BillTask, TypeOK
    <3> QED BY <3>1, TasksKept
  <2> QED
    BY <1>1, <1>5, <2>1, <2>2 DEF Tasks, TriggerEndTransaction, BillTransaction, SaveBillingData, tasks
<1> QED BY <1>2, <1>3, <1>4, <1>5 DEF Next, Server

\* In every step one worker moves, to a handler that agrees, or none does.
LEMMA SnapshotsPreserved == TypeOK /\ SnapshotsAgree /\ [Next]_vars => SnapshotsAgree'
<1> SUFFICES ASSUME TypeOK, SnapshotsAgree, [Next]_vars PROVE SnapshotsAgree'
  OBVIOUS
<1>1. DocumentsKeep /\ TasksAgree'
  BY KeepDocuments, WaitingKept
<1>2. CASE UNCHANGED vars
  <2>1. h'["ocpp"] = h["ocpp"] /\ OnlyMoves("ocpp")
    BY <1>2 DEF vars, OnlyMoves
  <2> QED BY <1>1, <2>1, HandlersKept, WorkerNames DEF SnapshotsAgree
<1>3. CASE Next
  <2>1. \E w \in Workers : HandlerAgrees(w, h[w])' /\ OnlyMoves(w)
    BY <1>1, <1>3, RequestAgrees, OcppAgrees, StopAgrees, SoftAgrees, FinalizeAgrees, TasksAgrees,
       WorkerNames
    DEF Next, Server
  <2> QED BY <1>1, <2>1, HandlersKept DEF SnapshotsAgree
<1> QED BY <1>2, <1>3

-----------------------------------------------------------------------------
(* Theorems about all sessions. *)

Inv == TypeOK /\ SnapshotsAgree

LEMMA InitInv == Init => Inv
<1> SUFFICES ASSUME Init PROVE Inv
  OBVIOUS
<1>1. \A w \in Workers : h[w] = Idle
  BY DEF Init
<1>2. TypeOK
  BY <1>1, WorkerNames DEF Init, TypeOK, Station, Handler, Idle
<1>3. SnapshotsAgree
  BY <1>1 DEF Init, SnapshotsAgree, TasksAgree, HandlerAgrees, HoldsDocument, Idle
<1> QED BY <1>2, <1>3 DEF Inv

LEMMA AlwaysInv == Spec => []Inv
<1>1. Inv /\ [Next]_vars => Inv'
  BY TypePreserved, SnapshotsPreserved DEF Inv
<1> QED BY InitInv, <1>1, PTL DEF Spec

(***************************************************************************)
(* A session that started without billing is never given to billing: no    *)
(* handler, soft stop or task changes the decision of StartTransaction,    *)
(* although they all save whole documents they read long before.           *)
(***************************************************************************)
THEOREM FreeSessionsStayFree == Spec => BillingOffIsFinal
<1>1. Inv /\ [Next]_vars =>
        [\A t \in TransactionIDs :
           Known(t) /\ transactions[t].billing = "off" => transactions'[t].billing = "off"]_vars
  BY KeepDocuments DEF Inv, DocumentsKeep
<1> QED BY AlwaysInv, <1>1, PTL DEF Spec, BillingOffIsFinal
-----------------------------------------------------------------------------
(* Stopped sessions. *)

\* A session is finalized from a document that is stopped and updated from one
\* that is open.  Until a soft stop, the stored documents say the same.
StopsOf(r) ==
  /\ r.pc \in {"finalize", "saveFinal"} => r.doc.stop
  /\ r.pc = "saveTx" => ~ r.doc.stop
  /\ r.pc = "boot" => count.boots > 0
  /\ count.soft = 0 =>
       /\ r.pc \in {"saveTx", "stopStation", "stopTx"} => ~ transactions[r.tx].stop
       /\ r.pc \in {"finalize", "saveFinal"} => transactions[r.tx].stop

StopsAgree ==
  /\ StopsOf(h["ocpp"]) /\ StopsOf(h["end"])
  /\ count.soft = 0 => h["soft"].pc = "idle"

\* Until a soft stop, only the request of the station stops a session, and
\* nothing opens it again.
StopsKeep ==
  \A t \in TransactionIDs : Known(t) =>
    /\ transactions[t].stop => transactions'[t].stop
    /\ transactions'[t].stop /\ ~ transactions[t].stop =>
         h["ocpp"].pc = "stopTx" /\ h["ocpp"].tx = t /\ h'["ocpp"].pc = "idle"

\* The bounds are only used, never given back.
LEMMA CountsGrow ==
  ASSUME TypeOK, [Next]_vars
  PROVE  /\ count'.soft >= count.soft /\ count'.boots >= count.boots
         /\ count'.roaming >= count.roaming
         /\ Soft \/ count'.soft = count.soft
<1>1. UNCHANGED count => count'.soft = count.soft /\ count'.boots >= count.boots
                          /\ count'.soft >= count.soft /\ count'.roaming >= count.roaming
  BY DEF TypeOK
<1>2. ASSUME NEW what, Use(what)
      PROVE  /\ count'.soft >= count.soft /\ count'.boots >= count.boots
             /\ count'.roaming >= count.roaming
             /\ "soft" \notin what => count'.soft = count.soft
  BY <1>2 DEF TypeOK, Use
<1>3. CASE Request
  <2>1. Use({"requests", "boots"}) \/ Use({"requests"})
    BY <1>3
    DEF Request, ReceiveBootNotification, ReceiveStartTransaction, ReceiveStatusNotification,
        ReceiveMeterValues, ReceiveStopTransaction, Receive
  <2> QED BY <1>2, <2>1
<1>4. CASE Soft
  BY <1>2, <1>4 DEF Soft, SoftStop, SoftClear
<1>5. CASE Server
  <2>1. CASE \E w \in {"ocpp", "soft"} : Stop(w)
    <3>1. UNCHANGED count \/ Use({"roaming"})
      BY <2>1
      DEF Stop, GetTransactionFromStopTransaction, StopTransactionFails, SaveStoppedStation,
          StopSessionFails, SaveStoppedTransaction
    <3> QED BY <1>1, <1>2, <3>1
  <2>2. CASE \E w \in {"ocpp", "end"} : Finalize(w)
    BY <1>1, <1>2, <2>2 DEF Finalize, FinalizeTransaction, FinalizeTransactionFails, SaveFinalized
  <2>3. CASE Ocpp \/ SaveConnectors \/ Tasks
    BY <1>1, <2>3
    DEF Ocpp, HandleBootNotification, StartTransactionFails, StartTransaction, SaveStation,
        GetTransactionFromMeterValues, SaveMeterValues, MeterValuesFail, IgnoreStatusNotification,
        ProcessConnector, SaveStatus, SaveConnectors, Tasks, EndTask, TriggerEndTransaction,
        BillTask, BillTransaction, SaveBillingData
  <2> QED BY <1>5, <2>1, <2>2, <2>3 DEF Server
<1>6. CASE UNCHANGED vars
  BY <1>1, <1>6 DEF vars
<1> QED BY <1>3, <1>4, <1>5, <1>6 DEF Next

LEMMA SoftIsCounted ==
  ASSUME TypeOK, Soft
  PROVE  count'.soft > 0
  BY UseType DEF Soft, SoftStop, SoftClear, TypeOK

LEMMA KeepStops ==
  ASSUME TypeOK, SnapshotsAgree, StopsAgree, [Next]_vars, count'.soft = 0
  PROVE  StopsKeep
<1>1. UNCHANGED transactions => StopsKeep
  BY DEF StopsKeep
<1>2. count.soft = 0
  BY CountsGrow DEF TypeOK
<1>3. h["soft"].pc = "idle"
  BY <1>2 DEF StopsAgree, StopsOf
<1>4. ~ Soft
  BY SoftIsCounted
<1>5. CASE UNCHANGED vars \/ Request \/ SaveConnectors
  BY <1>1, <1>5
  DEF vars, Request, ReceiveBootNotification, ReceiveStartTransaction, ReceiveStatusNotification,
      ReceiveMeterValues, ReceiveStopTransaction, Receive, SaveConnectors
<1>6. CASE Ocpp
  <2> DEFINE o == h["ocpp"]
  <2>0. o \in Handler /\ HandlerAgrees("ocpp", o)
    BY WorkerNames DEF TypeOK, SnapshotsAgree
  <2>1. ASSUME NEW b \in {"off", "active"}, StartTransaction(b) PROVE StopsKeep
    <3> DEFINE t == FindAvailableID
    <3>1. o.pc = "start" /\ \E doc : SaveTransaction(t, doc)
      BY <2>1 DEF StartTransaction, Is
    <3>2. t \in TransactionIDs /\ ~ Known(t)
      BY <2>0, <3>1, AvailableIDIsUnknown DEF HandlerAgrees
    <3> HIDE DEF t
    <3>3. \A u \in TransactionIDs \ {t} : transactions'[u] = transactions[u]
      BY <3>1 DEF SaveTransaction, TypeOK
    <3> QED BY <3>2, <3>3 DEF StopsKeep
  <2>2. CASE SaveMeterValues
    <3>1. o.pc = "saveTx" /\ o.tx \in TransactionIDs /\ SaveTransaction(o.tx, o.doc)
      BY <2>0, <2>2, HandlerShape DEF SaveMeterValues, Is
    <3>2. ~ o.doc.stop /\ ~ transactions[o.tx].stop
      BY <1>2, <3>1 DEF StopsAgree, StopsOf
    <3> QED BY <3>1, <3>2 DEF SaveTransaction, TypeOK, StopsKeep
  <2> QED
    BY <1>1, <1>6, <2>1, <2>2
    DEF Ocpp, HandleBootNotification, StartTransactionFails, SaveStation,
        GetTransactionFromMeterValues, MeterValuesFail, IgnoreStatusNotification,
        ProcessConnector, SaveStatus
<1>7. ASSUME NEW w \in {"ocpp", "soft"}, Stop(w) PROVE StopsKeep
  <2>1. w = "ocpp"
    BY <1>3, <1>7
    DEF Stop, GetTransactionFromStopTransaction, StopTransactionFails, SaveStoppedStation,
        StopSessionFails, SaveStoppedTransaction, Is
  <2>2. h[w] \in Handler /\ w \in Workers
    BY WorkerNames DEF TypeOK
  <2>3. CASE SaveStoppedTransaction(w)
    <3>1. h[w].pc = "stopTx" /\ h[w].tx \in TransactionIDs
      BY <2>2, <2>3, HandlerShape DEF SaveStoppedTransaction, Is
    <3>2. HandlerAgrees(w, h[w])
      BY <2>2 DEF SnapshotsAgree
    <3>3. h[w].doc \in Transaction
      BY <3>1, <3>2 DEF HandlerAgrees, HoldsDocument, Agrees
    <3>4. PICK b \in StopBilling(h[w].doc) :
            SaveTransaction(h[w].tx,
              [h[w].doc EXCEPT !.stop = TRUE, !.extra = (w = "soft"), !.billing = b])
      BY <2>3 DEF SaveStoppedTransaction
    <3> DEFINE doc == [h[w].doc EXCEPT !.stop = TRUE, !.extra = (w = "soft"), !.billing = b]
    <3>5. doc.stop /\ SaveTransaction(h[w].tx, doc)
      BY <3>3, <3>4 DEF Transaction
    <3> HIDE DEF doc
    <3>6. h'[w].pc = "idle"
      BY <2>2, <2>3 DEF SaveStoppedTransaction, Done, Become, TypeOK, Idle
    <3> QED BY <2>1, <3>1, <3>5, <3>6 DEF SaveTransaction, TypeOK, StopsKeep
  <2> QED
    BY <1>1, <1>7, <2>1, <2>3
    DEF Stop, GetTransactionFromStopTransaction, StopTransactionFails, SaveStoppedStation,
        StopSessionFails, AnswerInvalid
<1>8. ASSUME NEW w \in {"ocpp", "end"}, Finalize(w) PROVE StopsKeep
  <2>1. CASE SaveFinalized(w)
    <3>1. h[w].pc = "saveFinal" /\ h[w].tx \in TransactionIDs /\ SaveTransaction(h[w].tx, h[w].doc)
      BY <2>1, HandlerShape, WorkerNames DEF SaveFinalized, Is, TypeOK
    <3>2. h[w].doc.stop /\ transactions[h[w].tx].stop
      BY <1>2, <3>1 DEF StopsAgree, StopsOf
    <3> QED BY <3>1, <3>2 DEF SaveTransaction, TypeOK, StopsKeep
  <2> QED BY <1>1, <1>8, <2>1 DEF Finalize, FinalizeTransaction, FinalizeTransactionFails
<1>9. CASE Tasks
  <2>1. CASE SaveBillingData
    BY <2>1 DEF SaveBillingData, TypeOK, StopsKeep, Known, Transaction
  <2> QED
    BY <1>1, <1>9, <2>1 DEF Tasks, EndTask, TriggerEndTransaction, BillTask, BillTransaction
<1> QED BY <1>4, <1>5, <1>6, <1>7, <1>8, <1>9 DEF Next, Server
\* The worker that does not move.
LEMMA StopsOfKept ==
  ASSUME TypeOK, SnapshotsAgree, StopsAgree, [Next]_vars,
         NEW w \in {"ocpp", "end"}, h'[w] = h[w]
  PROVE  StopsOf(h[w])'
<1>1. StopsOf(h[w]) /\ w \in Workers /\ h[w] \in Handler
  BY WorkerNames DEF StopsAgree, TypeOK
<1>2. count'.boots >= count.boots /\ count'.soft >= count.soft
  BY CountsGrow
<1>3. count'.boots \in Nat /\ count.boots \in Nat /\ count'.soft \in Nat /\ count.soft \in Nat
  BY TypePreserved DEF TypeOK
<1>4. ASSUME h[w].pc \in {"saveTx", "stopStation", "stopTx", "finalize", "saveFinal"}
      PROVE  h[w].tx \in TransactionIDs /\ Known(h[w].tx)
  BY <1>1, <1>4, HandlerShape, HandledIsStored
<1>5. ASSUME count'.soft = 0
      PROVE  /\ h[w].pc \in {"saveTx", "stopStation", "stopTx"} => ~ transactions'[h[w].tx].stop
             /\ h[w].pc \in {"finalize", "saveFinal"} => transactions'[h[w].tx].stop
  <2>1. StopsKeep /\ count.soft = 0
    BY <1>2, <1>3, <1>5, KeepStops
  <2>2. w = "end" => h[w].pc \notin {"saveTx", "stopStation", "stopTx"}
    BY DEF TypeOK
  <2> QED BY <1>1, <1>4, <2>1, <2>2 DEF StopsOf, StopsKeep
<1> QED BY <1>1, <1>2, <1>3, <1>5 DEF StopsOf

\* finalizeTransaction, for a status notification or the END task.
LEMMA FinalizeStops ==
  ASSUME TypeOK, NEW w \in {"ocpp", "end"}, StopsOf(h[w]), Finalize(w)
  PROVE  StopsOf(h[w])'
<1> DEFINE f == h[w]
<1>0. f \in Handler /\ w \in Workers
  BY WorkerNames DEF TypeOK
<1>1. f.pc \in {"finalize", "saveFinal"}
  BY DEF Finalize, FinalizeTransaction, FinalizeTransactionFails, SaveFinalized, Is
<1>2. f \in [pc : {f.pc}, tx : TransactionIDs, st : Station, connector : Connectors,
             status : Statuses, doc : Transaction]
  BY <1>0, <1>1, HandlerShape
<1>3. ASSUME NEW st, Become(w, AfterFinalize(w, st)) PROVE StopsOf(h[w])'
  <2>1. h'[w] = AfterFinalize(w, st)
    BY <1>0, <1>3, BecomeMoves
  <2>2. h'[w].pc \in {"saveStatus", "idle"}
    BY <1>2, <2>1 DEF AfterFinalize, Idle
  <2> QED BY <2>2 DEF StopsOf
<1>4. CASE FinalizeTransaction(w)
  <2> DEFINE b == IF EndBills(f.doc.billing) THEN "PENDING" ELSE f.doc.billing
             doc == [f.doc EXCEPT !.extra = TRUE, !.billing = b]
             r == [f EXCEPT !.pc = "saveFinal", !.doc.extra = TRUE, !.doc.billing = b]
  <2>1. f.pc = "finalize" /\ UNCHANGED <<transactions, count>> /\ Become(w, r)
    BY <1>4 DEF FinalizeTransaction, Is
  <2> HIDE DEF b
  <2>2. r = [f EXCEPT !.pc = "saveFinal", !.doc = doc] /\ f.doc \in Transaction
    BY <1>2
  <2>3. doc.stop = f.doc.stop
    BY <2>2 DEF Transaction
  <2> HIDE DEF r, doc
  <2>4. h'[w] = [f EXCEPT !.pc = "saveFinal", !.doc = doc]
    BY <1>0, <2>1, <2>2, BecomeMoves
  <2> QED BY <1>2, <2>1, <2>3, <2>4 DEF StopsOf
<1> QED BY <1>3, <1>4 DEF Finalize, FinalizeTransactionFails, SaveFinalized

\* The request of the station.
LEMMA OcppStops ==
  ASSUME TypeOK, SnapshotsAgree, StopsAgree,
         Request \/ Ocpp \/ Stop("ocpp") \/ Finalize("ocpp")
  PROVE  StopsOf(h["ocpp"])'
<1> DEFINE o == h["ocpp"]
<1>0. o \in Handler /\ "ocpp" \in Workers /\ StopsOf(o)
  BY WorkerNames DEF TypeOK, StopsAgree
<1>1. ASSUME Done("ocpp") PROVE StopsOf(h["ocpp"])'
  BY <1>0, <1>1, BecomeMoves DEF Done, Idle, StopsOf
<1>2. CASE Request
  <2>1. ASSUME NEW kinds \in SUBSET {"requests", "boots"}, NEW r, Receive(kinds, r),
               r.pc \in {"start", "status", "meter", "stop"}
        PROVE  StopsOf(h["ocpp"])'
    BY <1>0, <2>1, BecomeMoves DEF Receive, StopsOf
  <2>2. CASE ReceiveBootNotification
    <3>1. count'.boots > 0
      BY <2>2, UseType DEF ReceiveBootNotification, Receive
    <3>2. h'["ocpp"] = [pc |-> "boot", tx |-> 0, st |-> station]
      BY <1>0, <2>2, BecomeMoves DEF ReceiveBootNotification, Receive
    <3> QED BY <3>1, <3>2 DEF StopsOf
  <2> QED
    BY <1>2, <2>1, <2>2
    DEF Request, ReceiveStartTransaction, ReceiveStatusNotification, ReceiveMeterValues,
        ReceiveStopTransaction
<1>3. CASE Ocpp
  <2>1. ASSUME NEW r, Become("ocpp", r), r.pc \in {"saveStation", "saveStatus"}
        PROVE  StopsOf(h["ocpp"])'
    BY <1>0, <2>1, BecomeMoves DEF StopsOf
  <2>2. CASE GetTransactionFromMeterValues
    <3> DEFINE r == [pc |-> "saveTx", tx |-> o.tx, st |-> o.st, doc |-> transactions[o.tx]]
    <3>1. ASSUME Become("ocpp", r), ~ transactions[o.tx].stop, UNCHANGED transactions
          PROVE  StopsOf(h["ocpp"])'
      <4>1. h'["ocpp"] = r
        BY <1>0, <3>1, BecomeMoves
      <4> QED BY <3>1, <4>1 DEF StopsOf
    <3> QED BY <1>1, <2>2, <3>1 DEF GetTransactionFromMeterValues
  <2>3. CASE ProcessConnector
    <3> DEFINE st == GetConnector(o.st, o.connector)
               last == IF o.status \in Free THEN LastTransaction(o.connector) ELSE 0
               f == [pc |-> "finalize", tx |-> last, st |-> st, connector |-> o.connector,
                     status |-> o.status, doc |-> transactions[last]]
               free == IF last # 0 THEN ClearConnector(st, o.connector) ELSE st
               n == [o EXCEPT !.pc = "saveStatus", !.st = free]
    <3>1. o \in [pc : {"status"}, tx : {0}, st : Station, connector : Connectors, status : Statuses]
      BY <1>0, <2>3, HandlerShape DEF ProcessConnector, Is
    <3>2. /\ UNCHANGED transactions
          /\ (transactions[last].stop /\ Become("ocpp", f)) \/ Become("ocpp", n)
      BY <2>3 DEF ProcessConnector
    <3> HIDE DEF st, last, free
    <3>3. n.pc = "saveStatus"
      BY <3>1
    <3>4. ASSUME Become("ocpp", f), transactions[last].stop PROVE StopsOf(h["ocpp"])'
      <4>1. h'["ocpp"] = f
        BY <1>0, <3>4, BecomeMoves
      <4> QED BY <3>2, <3>4, <4>1 DEF StopsOf
    <3> QED BY <2>1, <3>2, <3>3, <3>4
  <2>4. ASSUME NEW b \in {"off", "active"}, StartTransaction(b) PROVE StopsOf(h["ocpp"])'
    BY <2>1, <2>4 DEF StartTransaction
  <2>5. CASE SaveMeterValues
    BY <2>1, <2>5 DEF SaveMeterValues
  <2> QED
    BY <1>1, <1>3, <2>2, <2>3, <2>4, <2>5
    DEF Ocpp, HandleBootNotification, StartTransactionFails, SaveStation, MeterValuesFail,
        IgnoreStatusNotification, SaveStatus
<1>4. CASE Stop("ocpp")
  <2> DEFINE Stops(pc) == [pc : {pc}, tx : TransactionIDs, st : Station,
                           doc : Transaction \cup {NoTransaction},
                           given : Transaction \cup {NoTransaction}]
  <2>1. CASE GetTransactionFromStopTransaction("ocpp")
    <3> DEFINE st == ClearConnector(o.st, transactions[o.tx].connector)
               r == [o EXCEPT !.pc = "stopStation", !.doc = transactions[o.tx], !.st = st]
    <3>1. o \in Stops("stop") /\ Become("ocpp", r) /\ ~ transactions[o.tx].stop /\ UNCHANGED transactions
      BY <1>0, <2>1, HandlerShape DEF GetTransactionFromStopTransaction, Is
    <3> HIDE DEF st
    <3>2. h'["ocpp"] = r
      BY <1>0, <3>1, BecomeMoves
    <3> QED BY <3>1, <3>2 DEF StopsOf
  <2>2. CASE SaveStoppedStation("ocpp")
    <3>1. o \in Stops("stopStation") /\ Become("ocpp", [o EXCEPT !.pc = "stopTx"])
          /\ UNCHANGED <<transactions, count>>
      BY <1>0, <2>2, HandlerShape DEF SaveStoppedStation, Is
    <3>2. h'["ocpp"] = [o EXCEPT !.pc = "stopTx"]
      BY <1>0, <3>1, BecomeMoves
    <3> QED BY <1>0, <3>1, <3>2 DEF StopsOf
  <2> QED
    BY <1>1, <1>4, <2>1, <2>2
    DEF Stop, StopTransactionFails, StopSessionFails, AnswerInvalid, SaveStoppedTransaction
<1>5. CASE Finalize("ocpp")
  BY <1>0, <1>5, FinalizeStops
<1> QED BY <1>2, <1>3, <1>4, <1>5
\* The END task.
LEMMA EndStops ==
  ASSUME TypeOK, SnapshotsAgree, StopsAgree, Finalize("end") \/ Tasks
  PROVE  h'["end"] = h["end"] \/ StopsOf(h["end"])'
<1>0. h["end"] \in Handler /\ "end" \in Workers /\ "bill" \in Workers /\ StopsOf(h["end"])
  BY WorkerNames DEF TypeOK, StopsAgree
<1>1. ASSUME Done("end") PROVE StopsOf(h["end"])'
  BY <1>0, <1>1, BecomeMoves DEF Done, Idle, StopsOf
<1>2. CASE Finalize("end")
  BY <1>0, <1>2, FinalizeStops
<1>3. ASSUME NEW t \in TransactionIDs, EndTask(t) PROVE StopsOf(h["end"])'
  <2>1. ASSUME Become("end", [pc |-> "trigger", tx |-> t]) PROVE StopsOf(h["end"])'
    BY <1>0, <2>1, BecomeMoves DEF StopsOf
  <2> QED BY <1>1, <1>3, <2>1 DEF EndTask
<1>4. CASE TriggerEndTransaction
  <2> DEFINE t == h["end"].tx
             c == transactions[t].connector
             k == station.connectors[c]
             r == [pc |-> "finalize", tx |-> t, st |-> station, connector |-> c,
                   status |-> k.status, doc |-> transactions[t]]
  <2>1. ASSUME Become("end", r), transactions[t].stop, UNCHANGED transactions
        PROVE  StopsOf(h["end"])'
    <3>1. h'["end"] = r
      BY <1>0, <2>1, BecomeMoves
    <3> QED BY <2>1, <3>1 DEF StopsOf
  <2> QED BY <1>1, <1>4, <2>1 DEF TriggerEndTransaction
<1>5. ASSUME NEW r, Become("bill", r) PROVE h'["end"] = h["end"]
  BY <1>0, <1>5 DEF Become, TypeOK
<1> QED
  BY <1>2, <1>3, <1>4, <1>5
  DEF Tasks, BillTask, BillTransaction, SaveBillingData, Done

\* Whose handler a step moves.
LEMMA OnlyOthersMove ==
  ASSUME TypeOK
  PROVE  /\ Request \/ Ocpp \/ Stop("ocpp") \/ Finalize("ocpp") => OnlyMoves("ocpp")
         /\ Soft \/ SaveConnectors \/ Stop("soft") => OnlyMoves("soft")
         /\ Finalize("end") => OnlyMoves("end")
         /\ Tasks => OnlyMoves("end") \/ OnlyMoves("bill")
<1>1. ASSUME NEW w \in Workers, NEW r, Become(w, r) PROVE OnlyMoves(w)
  BY <1>1, BecomeMoves
<1>2. Request \/ Ocpp => \E r : Become("ocpp", r)
  BY DEF Request, ReceiveBootNotification, ReceiveStartTransaction, ReceiveStatusNotification,
         ReceiveMeterValues, ReceiveStopTransaction, Receive, Ocpp, HandleBootNotification,
         StartTransactionFails, StartTransaction, SaveStation, GetTransactionFromMeterValues,
         SaveMeterValues, MeterValuesFail, IgnoreStatusNotification, ProcessConnector, SaveStatus,
         Done
<1>3. ASSUME NEW w, Stop(w) \/ Finalize(w) PROVE \E r : Become(w, r)
  BY <1>3
  DEF Stop, GetTransactionFromStopTransaction, StopTransactionFails, SaveStoppedStation,
      StopSessionFails, SaveStoppedTransaction, AnswerInvalid, Done, Finalize,
      FinalizeTransaction, FinalizeTransactionFails, SaveFinalized
<1>4. Soft \/ SaveConnectors => \E r : Become("soft", r)
  BY DEF Soft, SoftStop, SoftClear, SaveConnectors, Done
<1>5. Tasks => (\E r : Become("end", r)) \/ (\E r : Become("bill", r))
  BY DEF Tasks, EndTask, TriggerEndTransaction, BillTask, BillTransaction, SaveBillingData, Done
<1> QED BY <1>1, <1>2, <1>3, <1>4, <1>5, WorkerNames

\* In every step the worker that moves leaves what StopsAgree says.
LEMMA StopsPreserved ==
  ASSUME TypeOK, SnapshotsAgree, StopsAgree, [Next]_vars
  PROVE  StopsAgree'
<1>1. {"ocpp", "soft", "end", "bill"} \subseteq Workers
  BY WorkerNames
<1>2. StopsOf(h["ocpp"])'
  <2>1. CASE Request \/ Ocpp \/ Stop("ocpp") \/ Finalize("ocpp")
    BY <2>1, OcppStops
  <2>2. CASE UNCHANGED vars
    BY <2>2, StopsOfKept DEF vars
  <2>3. CASE Soft \/ SaveConnectors \/ Stop("soft") \/ Finalize("end") \/ Tasks
    <3>1. h'["ocpp"] = h["ocpp"]
      BY <1>1, <2>3, OnlyOthersMove DEF OnlyMoves
    <3> QED BY <3>1, StopsOfKept
  <2> QED BY <2>1, <2>2, <2>3 DEF Next, Server
<1>3. StopsOf(h["end"])'
  <2>1. CASE Finalize("end") \/ Tasks
    BY <2>1, EndStops, StopsOfKept
  <2>2. CASE UNCHANGED vars
    BY <2>2, StopsOfKept DEF vars
  <2>3. CASE Soft \/ SaveConnectors \/ Stop("soft") \/ Request \/ Ocpp \/ Stop("ocpp") \/ Finalize("ocpp")
    <3>1. h'["end"] = h["end"]
      BY <1>1, <2>3, OnlyOthersMove DEF OnlyMoves
    <3> QED BY <3>1, StopsOfKept
  <2> QED BY <2>1, <2>2, <2>3 DEF Next, Server
<1>4. ASSUME count'.soft = 0 PROVE h'["soft"].pc = "idle"
  <2>1. count.soft = 0 /\ ~ Soft
    BY <1>4, CountsGrow, SoftIsCounted DEF TypeOK
  <2>2. h["soft"].pc = "idle"
    BY <2>1 DEF StopsAgree
  <2>3. ~ Stop("soft") /\ ~ SaveConnectors
    BY <2>2
    DEF Stop, GetTransactionFromStopTransaction, StopTransactionFails, SaveStoppedStation,
        StopSessionFails, SaveStoppedTransaction, SaveConnectors, Is
  <2>4. h'["soft"] = h["soft"]
    BY <1>1, <2>1, <2>3, OnlyOthersMove DEF vars, Next, Server, OnlyMoves
  <2> QED BY <2>2, <2>4
<1> QED BY <1>2, <1>3, <1>4 DEF StopsAgree
-----------------------------------------------------------------------------
(* Connectors. *)

Shows(st) ==
  \A c \in Connectors, place \in {"connectors", "backup"} :
    LET k == st[place][c]
    IN k # NoConnector /\ k.tx # 0 => Known(k.tx) /\ transactions[k.tx].connector = c

OneHomeIn(st) ==
  \A c \in Connectors : st.connectors[c] = NoConnector \/ st.backup[c] = NoConnector

NoBackupIn(st) == \A c \in Connectors : st.backup[c] = NoConnector

ShowsOpen(st) ==
  \A c \in Connectors :
    LET k == st.connectors[c] IN k # NoConnector /\ k.tx # 0 => ~ transactions[k.tx].stop

\* What a snapshot of the station says: until a soft stop a connector is in one
\* place, and until a reboot there is no backup and no stopped session shown.
StationAgrees(st) ==
  /\ Shows(st)
  /\ count.soft = 0 => OneHomeIn(st)
  /\ count.soft = 0 /\ count.boots = 0 => NoBackupIn(st) /\ ShowsOpen(st)

HoldsStation(r) == r.pc \notin {"idle", "trigger", "bill", "saveBilling"}

\* The connector of the session that is being stopped is free.
Freed(st, doc) ==
  LET k == st.connectors[doc.connector] IN k = NoConnector \/ k.tx = 0

StationsAgree ==
  /\ StationAgrees(station)
  /\ \A w \in {"ocpp", "soft"} : HoldsStation(h[w]) => StationAgrees(h[w].st)
  /\ h["ocpp"].pc = "stopStation" => Freed(h["ocpp"].st, h["ocpp"].doc)
  /\ h["ocpp"].pc = "stopTx" /\ count.soft = 0 => Freed(station, h["ocpp"].doc)

\* A session that is stopped now.
StopsNow(t) == Known(t) /\ ~ transactions[t].stop /\ transactions'[t].stop

LEMMA StationFields ==
  ASSUME NEW st \in Station, NEW c \in Connectors
  PROVE  /\ st.connectors[c] # NoConnector =>
              st.connectors[c] \in Connector /\ st.connectors[c].tx \in {0} \cup TransactionIDs
         /\ st.backup[c] # NoConnector =>
              st.backup[c] \in Connector /\ st.backup[c].tx \in {0} \cup TransactionIDs
  BY DEF Station, Connector

\* What a snapshot says stays true, unless a session that it shows is stopped.
LEMMA StationKept ==
  ASSUME TypeOK, SnapshotsAgree, StopsAgree, [Next]_vars, NEW st \in Station, StationAgrees(st),
         count'.soft = 0 /\ count'.boots = 0 =>
           \A c \in Connectors : st.connectors[c] # NoConnector /\ st.connectors[c].tx # 0 =>
             ~ StopsNow(st.connectors[c].tx)
  PROVE  StationAgrees(st)'
<1>1. /\ DocumentsKeep
      /\ count'.soft >= count.soft /\ count'.boots >= count.boots
      /\ count \in [requests : Nat, boots : Nat, soft : Nat, roaming : Nat]
      /\ count' \in [requests : Nat, boots : Nat, soft : Nat, roaming : Nat]
  BY KeepDocuments, CountsGrow, TypePreserved DEF TypeOK
<1>2. Shows(st)'
  BY <1>1, StationFields DEF StationAgrees, Shows, DocumentsKeep, Known
<1>3. count'.soft = 0 => OneHomeIn(st)'
  BY <1>1 DEF StationAgrees, OneHomeIn
<1>4. ASSUME count'.soft = 0, count'.boots = 0 PROVE NoBackupIn(st)' /\ ShowsOpen(st)'
  <2>1. NoBackupIn(st) /\ ShowsOpen(st) /\ Shows(st)
    BY <1>1, <1>4 DEF StationAgrees
  <2>2. ASSUME NEW c \in Connectors, st.connectors[c] # NoConnector, st.connectors[c].tx # 0
        PROVE  ~ transactions'[st.connectors[c].tx].stop
    <3>1. Known(st.connectors[c].tx) /\ ~ transactions[st.connectors[c].tx].stop
      BY <2>1, <2>2 DEF ShowsOpen, Shows
    <3> QED BY <1>4, <2>2, <3>1 DEF StopsNow
  <2> QED BY <2>1, <2>2 DEF NoBackupIn, ShowsOpen
<1> QED BY <1>2, <1>3, <1>4 DEF StationAgrees

\* Operations on a snapshot, in the state that the step leads to.
LEMMA ClearAgrees ==
  ASSUME NEW st \in Station, NEW c \in Connectors, StationAgrees(st)'
  PROVE  StationAgrees(ClearConnector(st, c))' /\ Freed(ClearConnector(st, c), [connector |-> c])
  BY ClearKeepsConnectors DEF StationAgrees, Shows, OneHomeIn, NoBackupIn, ShowsOpen, Freed
LEMMA ShowAgrees ==
  ASSUME NEW st \in Station, NEW c \in Connectors, NEW t \in TransactionIDs, StationAgrees(st)',
         transactions'[t] # NoTransaction, transactions'[t].connector = c, ~ transactions'[t].stop
  PROVE  StationAgrees(ShowTransaction(st, c, t))'
<1>1. CASE st.connectors[c] = NoConnector
  BY <1>1 DEF ShowTransaction
<1>2. CASE st.connectors[c] # NoConnector
  <2>1. /\ [st.connectors[c] EXCEPT !.tx = t] \in Connector
        /\ [st.connectors[c] EXCEPT !.tx = t].tx = t
    BY <1>2 DEF Station, Connector
  <2>2. /\ ShowTransaction(st, c, t).backup = st.backup
        /\ ShowTransaction(st, c, t).connectors =
             [st.connectors EXCEPT ![c] = [st.connectors[c] EXCEPT !.tx = t]]
    BY <1>2 DEF ShowTransaction, Station
  <2>3. st.connectors \in [Connectors -> Connector \cup {NoConnector}]
    BY DEF Station
  <2>4. /\ \A d \in Connectors \ {c} : ShowTransaction(st, c, t).connectors[d] = st.connectors[d]
        /\ ShowTransaction(st, c, t).connectors[c].tx = t
    BY <2>1, <2>2, <2>3
  <2>5. ASSUME NEW shown, shown = ShowTransaction(st, c, t) PROVE StationAgrees(shown)'
    <3>1. Shows(shown)'
      <4>1. Shows(st)'
        BY DEF StationAgrees
      <4>2. ASSUME NEW d \in Connectors, shown.connectors[d] # NoConnector,
                   shown.connectors[d].tx # 0
            PROVE  /\ transactions'[shown.connectors[d].tx] # NoTransaction
                   /\ transactions'[shown.connectors[d].tx].connector = d
        <5>1. CASE d = c
          BY <2>4, <2>5, <5>1
        <5>2. CASE d # c
          <6>1. shown.connectors[d] = st.connectors[d]
            BY <2>4, <2>5, <5>2
          <6> QED BY <4>1, <4>2, <6>1 DEF Shows, Known
        <5> QED BY <5>1, <5>2
      <4>3. shown.backup = st.backup
        BY <2>2, <2>5
      <4> QED BY <4>1, <4>2, <4>3 DEF Shows, Known
    <3>2. count'.soft = 0 => OneHomeIn(shown)'
      BY <1>2, <2>2, <2>4, <2>5 DEF StationAgrees, OneHomeIn
    <3>3. count'.soft = 0 /\ count'.boots = 0 => NoBackupIn(shown)' /\ ShowsOpen(shown)'
      BY <2>2, <2>4, <2>5 DEF StationAgrees, NoBackupIn, ShowsOpen
    <3> QED BY <3>1, <3>2, <3>3 DEF StationAgrees
  <2> QED BY <2>5
<1> QED BY <1>1, <1>2

LEMMA StatusAgrees ==
  ASSUME NEW st \in Station, NEW c \in Connectors, NEW s \in Statuses, StationAgrees(st)',
         st.connectors[c] # NoConnector
  PROVE  StationAgrees([st EXCEPT !.connectors[c].status = s])'
<1> SUFFICES ASSUME NEW saved, saved = [st EXCEPT !.connectors[c].status = s]
             PROVE  StationAgrees(saved)'
  OBVIOUS
<1>1. /\ [st.connectors[c] EXCEPT !.status = s] \in Connector
      /\ [st.connectors[c] EXCEPT !.status = s].tx = st.connectors[c].tx
  BY DEF Station, Connector
<1>2. /\ saved.backup = st.backup
      /\ saved.connectors = [st.connectors EXCEPT ![c] = [st.connectors[c] EXCEPT !.status = s]]
  BY DEF Station
<1>3. st.connectors \in [Connectors -> Connector \cup {NoConnector}]
  BY DEF Station
<1>4. /\ \A d \in Connectors \ {c} : saved.connectors[d] = st.connectors[d]
      /\ saved.connectors[c].tx = st.connectors[c].tx
  BY <1>1, <1>2, <1>3
<1> QED BY <1>2, <1>4 DEF StationAgrees, Shows, OneHomeIn, NoBackupIn, ShowsOpen

LEMMA BackupAgrees ==
  ASSUME NEW st \in Station, StationAgrees(st)', count'.boots > 0
  PROVE  StationAgrees(BackupConnectors(st))'
  BY DEF StationAgrees, Shows, OneHomeIn, BackupConnectors, Station

LEMMA GetAgrees ==
  ASSUME NEW st \in Station, NEW c \in Connectors, StationAgrees(st)'
  PROVE  StationAgrees(GetConnector(st, c))'
<1>1. CASE st.connectors[c] # NoConnector
  BY <1>1 DEF GetConnector
<1>2. CASE st.connectors[c] = NoConnector /\ st.backup[c] # NoConnector
  BY <1>2 DEF GetConnector, Station, StationAgrees, Shows, OneHomeIn, NoBackupIn
<1>3. CASE st.connectors[c] = NoConnector /\ st.backup[c] = NoConnector
  BY <1>3 DEF GetConnector, Station, StationAgrees, Shows, OneHomeIn, NoBackupIn, ShowsOpen
<1> QED BY <1>1, <1>2, <1>3

\* What the stations of the state before a step say in the state after it.
LEMMA OldStations ==
  ASSUME TypeOK, SnapshotsAgree, StopsAgree, StationsAgree, [Next]_vars
  PROVE  /\ \A st : st = station => StationAgrees(st)'
         /\ \A st : /\ st = h["ocpp"].st /\ HoldsStation(h["ocpp"])
                    /\ h["ocpp"].pc # "stopTx" \/ h'["ocpp"].pc # "idle"
                    => StationAgrees(st)'
         /\ \A st : st = h["soft"].st /\ HoldsStation(h["soft"]) => StationAgrees(st)'
<1>0. count'.soft >= count.soft /\ count.soft \in Nat /\ count'.soft \in Nat
  BY CountsGrow, TypePreserved DEF TypeOK
<1>1. ASSUME count'.soft = 0, NEW t \in TransactionIDs, StopsNow(t)
      PROVE  h["ocpp"].pc = "stopTx" /\ h["ocpp"].tx = t /\ h'["ocpp"].pc = "idle"
  BY <1>1, KeepStops DEF StopsNow, StopsKeep
<1>2. ASSUME NEW st, st = station PROVE StationAgrees(st)'
  <2>1. st \in Station /\ StationAgrees(st)
    BY <1>2 DEF TypeOK, StationsAgree
  <2>2. ASSUME count'.soft = 0, NEW c \in Connectors, st.connectors[c] # NoConnector,
               st.connectors[c].tx # 0, StopsNow(st.connectors[c].tx)
        PROVE  FALSE
    <3> DEFINE t == st.connectors[c].tx
    <3>1. t \in TransactionIDs /\ transactions[t].connector = c
      BY <2>1, <2>2, StationFields DEF StationAgrees, Shows
    <3>2. h["ocpp"].pc = "stopTx" /\ h["ocpp"].tx = t
      BY <1>1, <2>2, <3>1
    <3>3. HandlerAgrees("ocpp", h["ocpp"])
      BY WorkerNames DEF SnapshotsAgree
    <3>4. h["ocpp"].doc.connector = c
      BY <3>1, <3>2, <3>3 DEF HandlerAgrees, HoldsDocument, Agrees
    <3>5. Freed(station, h["ocpp"].doc)
      BY <1>0, <2>2, <3>2 DEF StationsAgree
    <3> QED BY <1>2, <2>2, <3>4, <3>5 DEF Freed
  <2> QED BY <2>1, <2>2, StationKept
<1>3. ASSUME NEW st, st = h["ocpp"].st, HoldsStation(h["ocpp"]),
             h["ocpp"].pc # "stopTx" \/ h'["ocpp"].pc # "idle"
      PROVE  StationAgrees(st)'
  <2>1. h["ocpp"] \in Handler
    BY WorkerNames DEF TypeOK
  <2>2. st \in Station
    BY <1>3, <2>1 DEF HoldsStation, Handler, Idle
  <2>3. StationAgrees(st)
    BY <1>3 DEF StationsAgree
  <2>4. ASSUME NEW c \in Connectors, st.connectors[c] # NoConnector, st.connectors[c].tx # 0
        PROVE  st.connectors[c].tx \in TransactionIDs
    BY <2>2, <2>4, StationFields
  <2> QED BY <1>1, <1>3, <2>2, <2>3, <2>4, StationKept
<1>4. ASSUME NEW st, st = h["soft"].st, HoldsStation(h["soft"]) PROVE StationAgrees(st)'
  <2>1. h["soft"] \in Handler
    BY WorkerNames DEF TypeOK
  <2>2. st \in Station
    BY <1>4, <2>1 DEF HoldsStation, Handler, Idle
  <2>3. StationAgrees(st)
    BY <1>4 DEF StationsAgree
  <2>4. count'.soft # 0
    BY <1>0, <1>4 DEF StopsAgree, HoldsStation
  <2> QED BY <2>2, <2>3, <2>4, StationKept
<1> QED BY <1>2, <1>3, <1>4

\* The station document and the snapshots of the next state are what the
\* step computed.
LEMMA StationMoves ==
  ASSUME NEW st, StationAgrees(st)'
  PROVE  /\ station' = st => StationAgrees(station)'
         /\ \A w \in {"ocpp", "soft"} : h'[w].st = st => StationAgrees(h[w].st)'
  BY DEF StationAgrees, Shows, OneHomeIn, NoBackupIn, ShowsOpen

\* What StationsAgree says of the request of the station.
RequestAgreesStation ==
  /\ HoldsStation(h["ocpp"]) => StationAgrees(h["ocpp"].st)
  /\ h["ocpp"].pc = "stopStation" => Freed(h["ocpp"].st, h["ocpp"].doc)
  /\ h["ocpp"].pc = "stopTx" /\ count.soft = 0 => Freed(station, h["ocpp"].doc)

\* A step that stores st, or leaves the station, and whose request holds st.
LEMMA RequestMoves ==
  ASSUME NEW st, StationAgrees(st)',
         HoldsStation(h["ocpp"])' => h'["ocpp"].st = st,
         h'["ocpp"].pc \notin {"stopStation", "stopTx"}
  PROVE  RequestAgreesStation'
  BY StationMoves DEF RequestAgreesStation

\* StartTransaction, MeterValues, StatusNotification, BootNotification.
LEMMA OcppStations ==
  ASSUME TypeOK, SnapshotsAgree, StopsAgree, StationsAgree, Request \/ Ocpp
  PROVE  StationAgrees(station)' /\ RequestAgreesStation'
<1> DEFINE o == h["ocpp"]
<1>0. /\ o \in Handler /\ "ocpp" \in Workers /\ [Next]_vars
      /\ HandlerAgrees("ocpp", o) /\ StopsOf(o)
  BY WorkerNames DEF TypeOK, SnapshotsAgree, StopsAgree, Next, Server
<1>1. PICK here : here = station
  OBVIOUS
<1>2. StationAgrees(here)' /\ here \in Station
  BY <1>0, <1>1, OldStations DEF TypeOK
<1>3. UNCHANGED station => StationAgrees(station)'
  BY <1>1, <1>2, StationMoves
<1>4. ASSUME Done("ocpp") PROVE RequestAgreesStation'
  <2>1. h'["ocpp"].pc = "idle"
    BY <1>0, <1>4, BecomeMoves DEF Done, Idle
  <2> QED BY <2>1 DEF RequestAgreesStation, HoldsStation
<1>5. ASSUME NEW r, Become("ocpp", r), r.pc \notin {"stopStation", "stopTx"}, StationAgrees(r.st)'
      PROVE  RequestAgreesStation'
  <2>1. h'["ocpp"] = r
    BY <1>0, <1>5, BecomeMoves
  <2> QED BY <1>5, <2>1, RequestMoves
<1>6. CASE Request
  <2>1. ASSUME NEW kinds, NEW r, Receive(kinds, r), r.st = station,
               r.pc \in {"boot", "start", "status", "meter", "stop"}
        PROVE  StationAgrees(station)' /\ RequestAgreesStation'
    <3>1. Become("ocpp", r) /\ UNCHANGED station
      BY <2>1 DEF Receive
    <3>2. h'["ocpp"] = r
      BY <1>0, <3>1, BecomeMoves
    <3> QED BY <1>1, <1>2, <1>3, <2>1, <3>1, <3>2, RequestMoves
  <2>2. CASE ReceiveBootNotification
    BY <2>1, <2>2 DEF ReceiveBootNotification
  <2>3. ASSUME NEW c \in Connectors, ReceiveStartTransaction(c)
        PROVE  StationAgrees(station)' /\ RequestAgreesStation'
    BY <2>1, <2>3 DEF ReceiveStartTransaction
  <2>4. ASSUME NEW c \in Connectors, NEW s \in Statuses, ReceiveStatusNotification(c, s)
        PROVE  StationAgrees(station)' /\ RequestAgreesStation'
    BY <2>1, <2>4 DEF ReceiveStatusNotification
  <2>5. ASSUME NEW t \in TransactionIDs, ReceiveMeterValues(t) \/ ReceiveStopTransaction(t)
        PROVE  StationAgrees(station)' /\ RequestAgreesStation'
    BY <2>1, <2>5 DEF ReceiveMeterValues, ReceiveStopTransaction
  <2> QED BY <1>6, <2>2, <2>3, <2>4, <2>5 DEF Request
<1>7. CASE Ocpp /\ o.pc # "idle"
  <2>1. PICK st : st = o.st
    OBVIOUS
  <2>2. o.pc # "stopTx" /\ HoldsStation(o)
    BY <1>7
    DEF Ocpp, HandleBootNotification, StartTransactionFails, StartTransaction, SaveStation,
        GetTransactionFromMeterValues, SaveMeterValues, MeterValuesFail,
        IgnoreStatusNotification, ProcessConnector, SaveStatus, Is, HoldsStation
  <2>3. st \in Station
    BY <1>0, <2>1, <2>2, HandlerShape DEF HoldsStation, Handler, Idle
  <2>4. StationAgrees(st)'
    BY <1>0, <2>1, <2>2, OldStations
  <2>5. CASE HandleBootNotification
    <3>1. station' = BackupConnectors(st) /\ Done("ocpp") /\ o.pc = "boot" /\ count' = count
      BY <2>1, <2>5 DEF HandleBootNotification, Is
    <3>2. count'.boots > 0
      BY <1>0, <3>1 DEF StopsOf
    <3>3. StationAgrees(BackupConnectors(st))'
      BY <2>3, <2>4, <3>2, BackupAgrees
    <3>4. PICK saved : saved = BackupConnectors(st) /\ StationAgrees(saved)'
      BY <3>3
    <3> QED BY <1>4, <3>1, <3>4, StationMoves
  <2>6. CASE StartTransactionFails \/ MeterValuesFail \/ IgnoreStatusNotification
    BY <1>3, <1>4, <2>6 DEF StartTransactionFails, MeterValuesFail, IgnoreStatusNotification
  <2>7. ASSUME NEW b \in {"off", "active"}, StartTransaction(b)
        PROVE  StationAgrees(station)' /\ RequestAgreesStation'
    <3>1. PICK c : c = o.connector
      OBVIOUS
    <3>2. PICK t : t = FindAvailableID
      OBVIOUS
    <3>3. c \in Connectors /\ o.pc = "start"
      BY <1>0, <2>7, <3>1, HandlerShape DEF StartTransaction, Is
    <3>4. t \in TransactionIDs
      BY <1>0, <3>2, <3>3, AvailableIDIsUnknown DEF HandlerAgrees
    <3> DEFINE doc == [connector |-> c, stop |-> FALSE, extra |-> FALSE, billing |-> b]
    <3>5. /\ SaveTransaction(t, doc) /\ UNCHANGED station
          /\ Become("ocpp", [pc |-> "saveStation", tx |-> t, st |-> ShowTransaction(st, c, t)])
      BY <2>1, <2>7, <3>1, <3>2 DEF StartTransaction
    <3>6. doc \in Transaction
      BY <3>3 DEF Transaction, BillingStatus
    <3>7. transactions'[t] = doc
      BY <3>4, <3>5 DEF SaveTransaction, TypeOK
    <3>8. StationAgrees(ShowTransaction(st, c, t))'
      BY <2>3, <2>4, <3>3, <3>4, <3>6, <3>7, ShowAgrees, MissingAssumption
    <3>9. PICK shown : shown = ShowTransaction(st, c, t) /\ StationAgrees(shown)'
      BY <3>8
    <3> QED BY <1>3, <1>5, <3>5, <3>9
  <2>8. CASE SaveStation
    BY <1>4, <2>1, <2>4, <2>8, StationMoves DEF SaveStation
  <2>9. CASE GetTransactionFromMeterValues
    <3>1. UNCHANGED station
      BY <2>9 DEF GetTransactionFromMeterValues
    <3>2. \/ Done("ocpp")
          \/ Become("ocpp", [pc |-> "saveTx", tx |-> o.tx, st |-> st, doc |-> transactions[o.tx]])
      BY <2>1, <2>9 DEF GetTransactionFromMeterValues
    <3> QED BY <1>3, <1>4, <1>5, <2>4, <3>1, <3>2
  <2>10. CASE SaveMeterValues
    <3>1. PICK c, t, doc : c = o.doc.connector /\ t = o.tx /\ doc = o.doc
      OBVIOUS
    <3>2. c \in Connectors /\ t \in TransactionIDs /\ doc \in Transaction /\ ~ doc.stop
      BY <1>0, <2>10, <3>1, HandlerShape DEF SaveMeterValues, Is, StopsOf, Transaction
    <3>3. /\ SaveTransaction(t, doc) /\ UNCHANGED station
          /\ Become("ocpp", [pc |-> "saveStation", tx |-> t, st |-> ShowTransaction(st, c, t)])
      BY <2>1, <2>10, <3>1 DEF SaveMeterValues
    <3>4. transactions'[t] = doc
      BY <3>2, <3>3 DEF SaveTransaction, TypeOK
    <3>5. StationAgrees(ShowTransaction(st, c, t))'
      BY <2>3, <2>4, <3>1, <3>2, <3>4, ShowAgrees, MissingAssumption
    <3>6. PICK shown : shown = ShowTransaction(st, c, t) /\ StationAgrees(shown)'
      BY <3>5
    <3> QED BY <1>3, <1>5, <3>3, <3>6
  <2>11. CASE ProcessConnector
    <3>1. PICK c : c = o.connector
      OBVIOUS
    <3> DEFINE last == IF o.status \in Free THEN LastTransaction(c) ELSE 0
               found == GetConnector(st, c)
               f == [pc |-> "finalize", tx |-> last, st |-> found, connector |-> c,
                     status |-> o.status, doc |-> transactions[last]]
               free == IF last # 0 THEN ClearConnector(found, c) ELSE found
               n == [o EXCEPT !.pc = "saveStatus", !.st = free]
    <3>2. /\ o \in [pc : {"status"}, tx : {0}, st : Station, connector : Connectors,
                    status : Statuses]
          /\ c \in Connectors
      BY <1>0, <2>11, <3>1, HandlerShape DEF ProcessConnector, Is
    <3>3. UNCHANGED station /\ (Become("ocpp", f) \/ Become("ocpp", n))
      BY <2>1, <2>11, <3>1 DEF ProcessConnector
    <3>4. StationAgrees(GetConnector(st, c))' /\ GetConnector(st, c) \in Station
      BY <2>3, <2>4, <3>2, GetAgrees, StationOperations
    <3>5. PICK got : got = found /\ StationAgrees(got)' /\ got \in Station
      BY <3>4
    <3>6. StationAgrees(ClearConnector(got, c))'
      BY <3>2, <3>5, ClearAgrees
    <3>7. PICK cleared : cleared = ClearConnector(got, c) /\ StationAgrees(cleared)'
      BY <3>6
    <3>8. free = got \/ free = cleared
      BY <3>5, <3>7
    <3> HIDE DEF last, found, free
    <3>9. n.pc = "saveStatus" /\ n.st = free
      BY <3>2
    <3>10. ASSUME NEW r, Become("ocpp", r), r.pc \in {"finalize", "saveStatus"},
                  r.st \in {got, cleared}
           PROVE  RequestAgreesStation'
      BY <1>5, <3>5, <3>7, <3>10
    <3> QED BY <1>3, <3>3, <3>5, <3>8, <3>9, <3>10
  <2>12. CASE SaveStatus
    <3>1. PICK c, s : c = o.connector /\ s = o.status
      OBVIOUS
    <3>2. c \in Connectors /\ s \in Statuses /\ st.connectors[c] # NoConnector
      BY <1>0, <2>1, <2>12, <3>1, HandlerShape DEF SaveStatus, Is, HandlerAgrees
    <3>3. station' = [st EXCEPT !.connectors[c].status = s] /\ Done("ocpp")
      BY <2>1, <2>12, <3>1 DEF SaveStatus
    <3>4. StationAgrees([st EXCEPT !.connectors[c].status = s])'
      BY <2>3, <2>4, <3>2, StatusAgrees
    <3>5. PICK saved : saved = [st EXCEPT !.connectors[c].status = s] /\ StationAgrees(saved)'
      BY <3>4
    <3> QED BY <1>4, <3>3, <3>5, StationMoves
  <2> QED BY <1>7, <2>5, <2>6, <2>7, <2>8, <2>9, <2>10, <2>11, <2>12 DEF Ocpp
<1>8. CASE Ocpp /\ o.pc = "idle"
  BY <1>8
  DEF Ocpp, HandleBootNotification, StartTransactionFails, StartTransaction, SaveStation,
      GetTransactionFromMeterValues, SaveMeterValues, MeterValuesFail,
      IgnoreStatusNotification, ProcessConnector, SaveStatus, Is
<1> QED BY <1>6, <1>7, <1>8

\* StopTransaction and the end of a session, of the station's own requests.
LEMMA StopStations ==
  ASSUME TypeOK, SnapshotsAgree, StopsAgree, StationsAgree, Stop("ocpp") \/ Finalize("ocpp")
  PROVE  StationAgrees(station)' /\ RequestAgreesStation'
<1> DEFINE o == h["ocpp"]
<1>0. /\ o \in Handler /\ "ocpp" \in Workers /\ [Next]_vars
      /\ HandlerAgrees("ocpp", o) /\ StopsOf(o)
  BY WorkerNames DEF TypeOK, SnapshotsAgree, StopsAgree, Next, Server
<1>1. PICK here : here = station
  OBVIOUS
<1>2. StationAgrees(here)' /\ here \in Station
  BY <1>0, <1>1, OldStations DEF TypeOK
<1>3. UNCHANGED station => StationAgrees(station)'
  BY <1>1, <1>2, StationMoves
<1>4. ASSUME Done("ocpp") PROVE RequestAgreesStation'
  <2>1. h'["ocpp"].pc = "idle"
    BY <1>0, <1>4, BecomeMoves DEF Done, Idle
  <2> QED BY <2>1 DEF RequestAgreesStation, HoldsStation
<1>5. ASSUME NEW r, Become("ocpp", r), r.pc \notin {"stopStation", "stopTx"},
             r.pc = "idle" \/ StationAgrees(r.st)'
      PROVE  RequestAgreesStation'
  <2>1. h'["ocpp"] = r
    BY <1>0, <1>5, BecomeMoves
  <2> QED BY <1>5, <2>1, RequestMoves DEF RequestAgreesStation, HoldsStation
<1>6. CASE GetTransactionFromStopTransaction("ocpp") \/ SaveStoppedStation("ocpp")
  <2>1. o.pc \in {"stop", "stopStation"} /\ UNCHANGED <<transactions, count>>
    BY <1>6 DEF GetTransactionFromStopTransaction, SaveStoppedStation, Is
  <2>2. o \in [pc : {o.pc}, tx : TransactionIDs, st : Station,
               doc : Transaction \cup {NoTransaction}, given : Transaction \cup {NoTransaction}]
    BY <1>0, <2>1, HandlerShape
  <2>3. PICK st : st = o.st
    OBVIOUS
  <2>4. st \in Station /\ StationAgrees(st)'
    BY <1>0, <2>1, <2>2, <2>3, OldStations DEF HoldsStation
  <2>5. CASE GetTransactionFromStopTransaction("ocpp")
    <3>1. PICK doc, c : doc = transactions[o.tx] /\ c = doc.connector
      OBVIOUS
    <3>2. doc \in Transaction /\ c \in Connectors
      <4>1. doc \in Transaction
        BY <1>0, <2>1, <2>2, <3>1, HandledIsStored
      <4> QED BY <3>1, <4>1 DEF Transaction
    <3>3. StationAgrees(ClearConnector(st, c))' /\ Freed(ClearConnector(st, c), [connector |-> c])
      BY <2>4, <3>2, ClearAgrees
    <3>4. PICK free : free = ClearConnector(st, c) /\ StationAgrees(free)'
                      /\ Freed(free, [connector |-> c])
      BY <3>3
    <3>5. /\ Become("ocpp", [o EXCEPT !.pc = "stopStation", !.doc = doc, !.st = free])
          /\ UNCHANGED station
      BY <2>3, <2>5, <3>1, <3>4 DEF GetTransactionFromStopTransaction
    <3>6. h'["ocpp"] = [o EXCEPT !.pc = "stopStation", !.doc = doc, !.st = free]
      BY <1>0, <3>5, BecomeMoves
    <3>7. h'["ocpp"].pc = "stopStation" /\ h'["ocpp"].st = free /\ h'["ocpp"].doc = doc
      BY <2>2, <3>6
    <3>8. Freed(h["ocpp"].st, h["ocpp"].doc)'
      BY <3>1, <3>4, <3>7 DEF Freed
    <3>9. StationAgrees(h["ocpp"].st)'
      BY <3>4, <3>7, StationMoves
    <3> QED BY <1>3, <3>5, <3>7, <3>8, <3>9 DEF RequestAgreesStation
  <2>6. CASE SaveStoppedStation("ocpp")
    <3>1. o.pc = "stopStation" /\ station' = st /\ Become("ocpp", [o EXCEPT !.pc = "stopTx"])
      BY <2>3, <2>6 DEF SaveStoppedStation, Is
    <3>2. h'["ocpp"] = [o EXCEPT !.pc = "stopTx"]
      BY <1>0, <3>1, BecomeMoves
    <3>3. h'["ocpp"].pc = "stopTx" /\ h'["ocpp"].st = st /\ h'["ocpp"].doc = o.doc
      BY <2>2, <2>3, <3>2
    <3>4. Freed(st, o.doc)
      BY <2>3, <3>1 DEF StationsAgree
    <3>5. Freed(station, h["ocpp"].doc)'
      BY <3>1, <3>3, <3>4 DEF Freed
    <3> QED BY <2>4, <3>1, <3>3, <3>5, StationMoves DEF RequestAgreesStation
  <2> QED BY <1>6, <2>5, <2>6
<1>7. CASE StopTransactionFails("ocpp") \/ StopSessionFails("ocpp") \/ SaveStoppedTransaction("ocpp")
  BY <1>3, <1>4, <1>7
  DEF StopTransactionFails, StopSessionFails, SaveStoppedTransaction, AnswerInvalid
<1>8. CASE Finalize("ocpp")
  <2>1. o.pc \in {"finalize", "saveFinal"} /\ UNCHANGED station
    BY <1>8 DEF Finalize, FinalizeTransaction, FinalizeTransactionFails, SaveFinalized, Is
  <2>2. o \in [pc : {o.pc}, tx : TransactionIDs, st : Station, connector : Connectors,
               status : Statuses, doc : Transaction]
    BY <1>0, <2>1, HandlerShape
  <2>3. PICK st, c : st = o.st /\ c = o.connector
    OBVIOUS
  <2>4. st \in Station /\ c \in Connectors /\ StationAgrees(st)'
    BY <1>0, <2>1, <2>2, <2>3, OldStations DEF HoldsStation
  <2>5. CASE FinalizeTransaction("ocpp")
    <3> DEFINE b == IF EndBills(o.doc.billing) THEN "PENDING" ELSE o.doc.billing
               r == [o EXCEPT !.pc = "saveFinal", !.doc.extra = TRUE, !.doc.billing = b]
    <3>1. Become("ocpp", r)
      BY <2>5 DEF FinalizeTransaction
    <3> HIDE DEF b
    <3>2. r.pc = "saveFinal" /\ r.st = st
      BY <2>2, <2>3
    <3> HIDE DEF r
    <3> QED BY <1>3, <1>5, <2>1, <2>4, <3>1, <3>2
  <2>6. ASSUME NEW after, StationAgrees(after)', Become("ocpp", AfterFinalize("ocpp", after))
        PROVE  RequestAgreesStation'
    <3> DEFINE r == [o EXCEPT !.pc = "saveStatus", !.st = after]
    <3>1. Become("ocpp", r) /\ r.pc = "saveStatus" /\ r.st = after
      BY <2>2, <2>6 DEF AfterFinalize
    <3> HIDE DEF r
    <3> QED BY <1>5, <2>6, <3>1
  <2>7. CASE FinalizeTransactionFails("ocpp")
    BY <1>3, <2>1, <2>3, <2>4, <2>6, <2>7 DEF FinalizeTransactionFails
  <2>8. CASE SaveFinalized("ocpp")
    <3>1. StationAgrees(ClearConnector(st, c))'
      BY <2>4, ClearAgrees
    <3>2. PICK after : after = ClearConnector(st, c) /\ StationAgrees(after)'
      BY <3>1
    <3> QED BY <1>3, <2>1, <2>3, <2>6, <2>8, <3>2 DEF SaveFinalized
  <2> QED BY <1>8, <2>5, <2>7, <2>8 DEF Finalize
<1> QED BY <1>6, <1>7, <1>8 DEF Stop

\* A soft stop. Only what its connectors show matters: it is counted.
LEMMA SoftStations ==
  ASSUME TypeOK, SnapshotsAgree, StopsAgree, StationsAgree, Soft \/ SaveConnectors \/ Stop("soft")
  PROVE  /\ StationAgrees(station)'
         /\ HoldsStation(h["soft"])' => StationAgrees(h["soft"].st)'
<1> DEFINE s == h["soft"]
<1>0. /\ s \in Handler /\ "soft" \in Workers /\ [Next]_vars /\ TypeOK'
      /\ HandlerAgrees("soft", s)
  BY WorkerNames, TypePreserved DEF TypeOK, SnapshotsAgree, Next, Server
<1>1. PICK here : here = station
  OBVIOUS
<1>2. StationAgrees(here)' /\ here \in Station
  BY <1>0, <1>1, OldStations DEF TypeOK
<1>3. UNCHANGED station => StationAgrees(station)'
  BY <1>1, <1>2, StationMoves
<1>4. ASSUME Done("soft") PROVE ~ HoldsStation(h["soft"])'
  <2>1. h'["soft"].pc = "idle"
    BY <1>0, <1>4, BecomeMoves DEF Done, Idle
  <2> QED BY <2>1 DEF HoldsStation
<1>5. ASSUME NEW r, Become("soft", r), StationAgrees(r.st)' PROVE StationAgrees(h["soft"].st)'
  <2>1. h'["soft"] = r
    BY <1>0, <1>5, BecomeMoves
  <2> QED BY <1>5, <2>1, StationMoves
<1>6. CASE Soft
  <2>1. ASSUME NEW t \in TransactionIDs, SoftStop(t)
        PROVE  UNCHANGED station /\ StationAgrees(h["soft"].st)'
    <3>1. /\ UNCHANGED station
          /\ Become("soft", [pc |-> "stop", tx |-> t, st |-> here, doc |-> NoTransaction,
                             given |-> transactions[t]])
      BY <1>1, <2>1 DEF SoftStop
    <3> QED BY <1>2, <1>5, <3>1
  <2>2. ASSUME NEW t \in TransactionIDs, SoftClear(t)
        PROVE  UNCHANGED station /\ StationAgrees(h["soft"].st)'
    <3>1. PICK c : c = transactions[t].connector
      OBVIOUS
    <3>2. c \in Connectors
      <4>1. transactions[t] \in Transaction
        BY <2>2 DEF SoftClear, TypeOK
      <4> QED BY <3>1, <4>1 DEF Transaction
    <3>3. StationAgrees(ClearConnector(here, c))'
      BY <1>2, <3>2, ClearAgrees
    <3>4. PICK free : free = ClearConnector(here, c) /\ StationAgrees(free)'
      BY <3>3
    <3>5. UNCHANGED station /\ Become("soft", [pc |-> "clear", tx |-> t, st |-> free])
      BY <1>1, <2>2, <3>1, <3>4 DEF SoftClear
    <3> QED BY <1>5, <3>4, <3>5
  <2> QED BY <1>3, <1>6, <2>1, <2>2 DEF Soft
<1>7. CASE s.pc # "idle" /\ (SaveConnectors \/ Stop("soft"))
  <2>1. PICK st : st = s.st
    OBVIOUS
  <2>2. s.pc \in {"stop", "stopStation", "stopTx", "clear"} /\ HoldsStation(s)
    BY <1>7 DEF TypeOK, HoldsStation
  <2>3. st \in Station
    BY <1>0, <2>1, <2>2 DEF Handler, Idle
  <2>4. StationAgrees(st)'
    BY <1>0, <2>1, <2>2, OldStations
  <2>5. count'.soft # 0
    <3>1. count.soft # 0
      BY <2>2 DEF StopsAgree
    <3> QED BY <1>0, <3>1, CountsGrow DEF TypeOK
  <2>6. CASE SaveConnectors
    <3>1. station' = [here EXCEPT !.connectors = st.connectors] /\ Done("soft")
      BY <1>1, <2>1, <2>6 DEF SaveConnectors
    <3>2. PICK saved : saved = [here EXCEPT !.connectors = st.connectors]
      OBVIOUS
    <3>3. saved.connectors = st.connectors /\ saved.backup = here.backup
      BY <1>2, <3>2 DEF Station
    <3>4. StationAgrees(saved)'
      BY <1>2, <2>4, <2>5, <3>3 DEF StationAgrees, Shows
    <3> QED BY <1>4, <3>1, <3>2, <3>4, StationMoves
  <2>7. CASE GetTransactionFromStopTransaction("soft")
    <3>1. PICK doc, c : doc = transactions[s.tx] /\ c = doc.connector
      OBVIOUS
    <3>2. s.pc = "stop"
      BY <2>7 DEF GetTransactionFromStopTransaction, Is
    <3>3. s \in [pc : {"stop"}, tx : TransactionIDs, st : Station,
                 doc : Transaction \cup {NoTransaction}, given : Transaction \cup {NoTransaction}]
      BY <1>0, <3>2, HandlerShape
    <3>4. c \in Connectors
      <4>1. doc \in Transaction
        BY <1>0, <3>1, <3>2, <3>3, HandledIsStored
      <4> QED BY <3>1, <4>1 DEF Transaction
    <3>5. StationAgrees(ClearConnector(st, c))'
      BY <2>3, <2>4, <3>4, ClearAgrees
    <3>6. PICK free : free = ClearConnector(st, c) /\ StationAgrees(free)'
      BY <3>5
    <3> DEFINE r == [s EXCEPT !.pc = "stopStation", !.doc = doc, !.st = free]
    <3>7. Become("soft", r) /\ UNCHANGED station
      BY <2>1, <2>7, <3>1, <3>6 DEF GetTransactionFromStopTransaction
    <3>8. r.st = free
      BY <3>3
    <3> HIDE DEF r
    <3> QED BY <1>3, <1>5, <3>6, <3>7, <3>8
  <2>8. CASE SaveStoppedStation("soft")
    <3>1. s.pc = "stopStation"
      BY <2>8 DEF SaveStoppedStation, Is
    <3>2. s \in [pc : {"stopStation"}, tx : TransactionIDs, st : Station,
                 doc : Transaction \cup {NoTransaction}, given : Transaction \cup {NoTransaction}]
      BY <1>0, <3>1, HandlerShape
    <3> DEFINE r == [s EXCEPT !.pc = "stopTx"]
    <3>3. Become("soft", r) /\ station' = st
      BY <2>1, <2>8 DEF SaveStoppedStation
    <3>4. r.st = st
      BY <2>1, <3>2
    <3> HIDE DEF r
    <3> QED BY <1>5, <2>4, <3>3, <3>4, StationMoves
  <2>9. CASE StopTransactionFails("soft") \/ StopSessionFails("soft") \/ SaveStoppedTransaction("soft")
    BY <1>3, <1>4, <2>9
    DEF StopTransactionFails, StopSessionFails, SaveStoppedTransaction, AnswerInvalid
  <2> QED BY <1>7, <2>6, <2>7, <2>8, <2>9 DEF Stop
<1>8. ~ ((SaveConnectors \/ Stop("soft")) /\ s.pc = "idle")
  BY DEF SaveConnectors, Stop, GetTransactionFromStopTransaction, StopTransactionFails,
         SaveStoppedStation, StopSessionFails, SaveStoppedTransaction, Is
<1> QED BY <1>6, <1>7, <1>8

\* In every step the station and the snapshots keep what StationsAgree says.
LEMMA StationsPreserved ==
  ASSUME TypeOK, SnapshotsAgree, StopsAgree, StationsAgree, [Next]_vars
  PROVE  StationsAgree'
<1>0. {"ocpp", "soft", "end", "bill"} \subseteq Workers /\ TypeOK'
  BY WorkerNames, TypePreserved
<1>1. StationsAgree' <=> /\ StationAgrees(station)' /\ RequestAgreesStation'
                         /\ HoldsStation(h["soft"])' => StationAgrees(h["soft"].st)'
  BY DEF StationsAgree, RequestAgreesStation
<1>2. ASSUME h'["soft"] = h["soft"]
      PROVE  HoldsStation(h["soft"])' => StationAgrees(h["soft"].st)'
  <2>1. PICK st : st = h["soft"].st
    OBVIOUS
  <2>2. HoldsStation(h["soft"]) => StationAgrees(st)'
    BY <2>1, OldStations
  <2> QED BY <1>2, <2>1, <2>2, StationMoves DEF HoldsStation
<1>3. ASSUME h'["ocpp"] = h["ocpp"], station' = station \/ count'.soft # 0
      PROVE  RequestAgreesStation'
  <2>1. PICK st : st = h["ocpp"].st
    OBVIOUS
  <2>2. HoldsStation(h["ocpp"]) => StationAgrees(st)'
    BY <1>3, <2>1, OldStations DEF HoldsStation
  <2>3. HoldsStation(h["ocpp"])' => StationAgrees(h["ocpp"].st)'
    BY <1>3, <2>1, <2>2, StationMoves DEF HoldsStation
  <2>4. h'["ocpp"].pc = "stopStation" => Freed(h["ocpp"].st, h["ocpp"].doc)'
    BY <1>3 DEF StationsAgree, Freed
  <2>5. count'.soft = 0 => count.soft = 0
    BY <1>0, CountsGrow DEF TypeOK
  <2>6. h'["ocpp"].pc = "stopTx" /\ count'.soft = 0 => Freed(station, h["ocpp"].doc)'
    BY <1>3, <2>5 DEF StationsAgree, Freed
  <2> QED BY <2>3, <2>4, <2>6 DEF RequestAgreesStation
<1>4. CASE Request \/ Ocpp \/ Stop("ocpp") \/ Finalize("ocpp")
  <2>1. h'["soft"] = h["soft"]
    BY <1>0, <1>4, OnlyOthersMove DEF OnlyMoves
  <2> QED BY <1>1, <1>2, <1>4, <2>1, OcppStations, StopStations
<1>5. CASE Soft \/ SaveConnectors \/ Stop("soft")
  <2>1. h'["ocpp"] = h["ocpp"]
    BY <1>0, <1>5, OnlyOthersMove DEF OnlyMoves
  <2>2. count'.soft # 0
    <3>1. CASE Soft
      BY <1>0, <3>1, SoftIsCounted DEF TypeOK
    <3>2. CASE SaveConnectors \/ Stop("soft")
      <4>1. h["soft"].pc # "idle"
        BY <3>2
        DEF SaveConnectors, Stop, GetTransactionFromStopTransaction, StopTransactionFails,
            SaveStoppedStation, StopSessionFails, SaveStoppedTransaction, Is
      <4> QED BY <1>0, <4>1, CountsGrow DEF TypeOK, StopsAgree
    <3> QED BY <1>5, <3>1, <3>2
  <2> QED BY <1>1, <1>3, <1>5, <2>1, <2>2, SoftStations
<1>6. CASE Finalize("end") \/ Tasks \/ UNCHANGED vars
  <2>1. h'["ocpp"] = h["ocpp"] /\ h'["soft"] = h["soft"]
    BY <1>0, <1>6, OnlyOthersMove DEF OnlyMoves, vars
  <2>2. station' = station
    BY <1>6
    DEF Finalize, FinalizeTransaction, FinalizeTransactionFails, SaveFinalized, Tasks, EndTask,
        TriggerEndTransaction, BillTask, BillTransaction, SaveBillingData, vars
  <2>3. PICK here : here = station
    OBVIOUS
  <2>4. StationAgrees(station)'
    BY <2>2, <2>3, OldStations, StationMoves
  <2> QED BY <1>1, <1>2, <1>3, <2>1, <2>2, <2>4
<1> QED BY <1>4, <1>5, <1>6 DEF Next, Server

-----------------------------------------------------------------------------
(* Extra inactivity. *)

Computed(t) == transactions[t].stop /\ transactions[t].extra

\* More charges than refused CDRs: the last one is stored with its session,
\* or is about to be, by the status notification that computed it.
ExtraOf(t) ==
  /\ inactivity[t] <= 1 + count.roaming
  /\ inactivity[t] > count.roaming =>
       /\ Known(t)
       /\ Computed(t) \/ (h["ocpp"].pc = "saveFinal" /\ h["ocpp"].tx = t)

\* The request of the station stores or computes from a document whose extra
\* inactivity is not charged yet.
RequestExtra ==
  LET o == h["ocpp"] IN
  /\ o.pc \in {"saveTx", "stopStation", "stopTx"} => inactivity[o.tx] <= count.roaming
  /\ o.pc = "finalize" /\ ~ o.doc.extra => inactivity[o.tx] <= count.roaming
  /\ o.pc = "saveFinal" => o.doc.extra

\* The END task repeats the status of the connector, so it charges nothing.
EndExtra ==
  LET e == h["end"] IN
  /\ e.pc = "finalize" => e.st.connectors[e.connector].status = e.status
  /\ e.pc = "saveFinal" => e.doc.extra

ExtraAgrees == (\A t \in TransactionIDs : ExtraOf(t)) /\ RequestExtra /\ EndExtra

\* A charged session stays stopped and computed in the step.
ExtraKeeps ==
  \A t \in TransactionIDs :
    inactivity[t] > count.roaming /\ Known(t) /\ Computed(t) => Computed(t)'

\* Only a status notification charges, and only once more.
LEMMA OnlyRequestCharges ==
  ASSUME TypeOK, ExtraAgrees, [Next]_vars
  PROVE  \/ inactivity' = inactivity
         \/ /\ h["ocpp"].pc = "finalize" /\ ~ h["ocpp"].doc.extra
            /\ inactivity' = [inactivity EXCEPT ![h["ocpp"].tx] = @ + 1]
            /\ \/ FinalizeTransaction("ocpp")
               \/ FinalizeTransactionFails("ocpp") /\ count'.roaming = count.roaming + 1
<1>1. CASE UNCHANGED vars \/ Request \/ Soft \/ SaveConnectors
  BY <1>1
  DEF vars, history, Request, ReceiveBootNotification, ReceiveStartTransaction,
      ReceiveStatusNotification, ReceiveMeterValues, ReceiveStopTransaction, Receive, Soft,
      SoftStop, SoftClear, SaveConnectors
<1>2. CASE Ocpp
  BY <1>2
  DEF history, Ocpp, HandleBootNotification, StartTransactionFails, StartTransaction, SaveStation,
      GetTransactionFromMeterValues, SaveMeterValues, MeterValuesFail, IgnoreStatusNotification,
      ProcessConnector, SaveStatus
<1>3. ASSUME NEW w \in {"ocpp", "soft"}, Stop(w) PROVE inactivity' = inactivity
  BY <1>3
  DEF history, Stop, GetTransactionFromStopTransaction, StopTransactionFails, SaveStoppedStation,
      StopSessionFails, SaveStoppedTransaction
<1>4. CASE Tasks
  BY <1>4 DEF history, Tasks, EndTask, TriggerEndTransaction, BillTask, BillTransaction,
              SaveBillingData
<1>5. CASE SaveFinalized("ocpp") \/ SaveFinalized("end")
  BY <1>5 DEF SaveFinalized, history
<1>6. CASE FinalizeTransaction("ocpp")
  BY <1>6 DEF FinalizeTransaction, PriceInactivity, ComputesInactivity, Is
<1>7. CASE FinalizeTransactionFails("ocpp")
  <2>1. count'.roaming = count.roaming + 1
    BY <1>7, UseType DEF FinalizeTransactionFails
  <2> QED BY <1>7, <2>1 DEF FinalizeTransactionFails, PriceInactivity, ComputesInactivity, Is
<1>8. CASE FinalizeTransaction("end") \/ FinalizeTransactionFails("end")
  <2>1. ~ ComputesInactivity(h["end"])
    BY <1>8 DEF FinalizeTransaction, FinalizeTransactionFails, Is, ExtraAgrees, EndExtra,
                ComputesInactivity, CountsInactivity
  <2> QED BY <1>8, <2>1 DEF FinalizeTransaction, FinalizeTransactionFails, PriceInactivity
<1> QED BY <1>1, <1>2, <1>3, <1>4, <1>5, <1>6, <1>7, <1>8 DEF Next, Server, Finalize

\* Whoever stores a charged session stores it stopped and computed: the
\* updates and the stops of the station do not hold one, a soft stop always
\* stores a computed document.
LEMMA KeepExtra ==
  ASSUME TypeOK, SnapshotsAgree, StopsAgree, ExtraAgrees, [Next]_vars
  PROVE  ExtraKeeps
<1>1. UNCHANGED transactions => ExtraKeeps
  BY DEF ExtraKeeps, Computed
<1>2. ASSUME NEW t \in TransactionIDs, NEW doc, SaveTransaction(t, doc),
             (doc.stop /\ doc.extra) \/ inactivity[t] <= count.roaming \/ ~ Known(t)
      PROVE  ExtraKeeps
  <2>1. \A u \in TransactionIDs : transactions'[u] = IF u = t THEN doc ELSE transactions[u]
    BY <1>2 DEF SaveTransaction, TypeOK
  <2>2. inactivity[t] \in Nat /\ count.roaming \in Nat
    BY DEF TypeOK
  <2> QED BY <1>2, <2>1, <2>2 DEF ExtraKeeps, Computed
<1>3. \A w \in Workers : h[w] \in Handler /\ HandlerAgrees(w, h[w])
  BY DEF TypeOK, SnapshotsAgree
<1>4. "ocpp" \in Workers /\ "soft" \in Workers /\ "end" \in Workers /\ "bill" \in Workers
  BY WorkerNames
<1>5. CASE UNCHANGED vars \/ Request \/ Soft \/ SaveConnectors
  BY <1>1, <1>5
  DEF vars, Request, ReceiveBootNotification, ReceiveStartTransaction, ReceiveStatusNotification,
      ReceiveMeterValues, ReceiveStopTransaction, Receive, Soft, SoftStop, SoftClear, SaveConnectors
<1>6. CASE Ocpp
  <2> DEFINE o == h["ocpp"]
  <2>1. ASSUME NEW b \in {"off", "active"}, StartTransaction(b) PROVE ExtraKeeps
    <3> DEFINE t == FindAvailableID
    <3>1. o.pc = "start" /\ \E doc : SaveTransaction(t, doc)
      BY <2>1 DEF StartTransaction, Is
    <3>2. t \in TransactionIDs /\ ~ Known(t)
      BY <1>3, <1>4, <3>1, AvailableIDIsUnknown DEF HandlerAgrees
    <3> HIDE DEF t
    <3> QED BY <1>2, <3>1, <3>2
  <2>2. CASE SaveMeterValues
    <3>1. o.pc = "saveTx" /\ o.tx \in TransactionIDs /\ SaveTransaction(o.tx, o.doc)
      BY <1>3, <1>4, <2>2, HandlerShape DEF SaveMeterValues, Is
    <3> QED BY <1>2, <3>1 DEF ExtraAgrees, RequestExtra
  <2> QED
    BY <1>1, <1>6, <2>1, <2>2
    DEF Ocpp, HandleBootNotification, StartTransactionFails, SaveStation,
        GetTransactionFromMeterValues, MeterValuesFail, IgnoreStatusNotification,
        ProcessConnector, SaveStatus
<1>7. ASSUME NEW w \in {"ocpp", "soft"}, Stop(w) PROVE ExtraKeeps
  <2> DEFINE s == h[w]
  <2>1. ASSUME s.pc \in {"stop", "stopTx"}
        PROVE  s \in [pc : {s.pc}, tx : TransactionIDs, st : Station,
                      doc : Transaction \cup {NoTransaction},
                      given : Transaction \cup {NoTransaction}]
    BY <1>3, <1>4, <2>1, HandlerShape
  <2>2. ASSUME s.pc \in {"stop", "stopTx"}, AnswerInvalid(w) PROVE ExtraKeeps
    <3>1. CASE w = "soft"
      <4>1. s.given \in Transaction /\ s.tx \in TransactionIDs
        BY <1>3, <1>4, <2>1, <2>2, <3>1 DEF HandlerAgrees, Agrees
      <4> DEFINE doc == [s.given EXCEPT !.stop = TRUE, !.extra = TRUE]
      <4>2. doc.stop /\ doc.extra /\ SaveTransaction(s.tx, doc)
        BY <2>2, <3>1, <4>1 DEF AnswerInvalid, Transaction
      <4> HIDE DEF doc
      <4> QED BY <1>2, <4>1, <4>2
    <3> QED BY <1>1, <2>2, <3>1 DEF AnswerInvalid
  <2>3. CASE SaveStoppedTransaction(w)
    <3>1. s.pc = "stopTx" /\ s.tx \in TransactionIDs /\ s.doc \in Transaction
      BY <1>3, <1>4, <2>1, <2>3 DEF SaveStoppedTransaction, Is, HandlerAgrees, HoldsDocument, Agrees
    <3>2. PICK b \in StopBilling(s.doc) :
            SaveTransaction(s.tx, [s.doc EXCEPT !.stop = TRUE, !.extra = (w = "soft"), !.billing = b])
      BY <2>3 DEF SaveStoppedTransaction
    <3> DEFINE doc == [s.doc EXCEPT !.stop = TRUE, !.extra = (w = "soft"), !.billing = b]
    <3>3. doc.stop /\ (w = "soft" => doc.extra) /\ SaveTransaction(s.tx, doc)
      BY <3>1, <3>2 DEF Transaction
    <3> HIDE DEF doc
    <3>4. w = "ocpp" => inactivity[s.tx] <= count.roaming
      BY <3>1 DEF ExtraAgrees, RequestExtra
    <3> QED BY <1>2, <3>1, <3>3, <3>4
  <2>4. CASE StopTransactionFails(w) \/ StopSessionFails(w)
    BY <2>2, <2>4 DEF StopTransactionFails, StopSessionFails, Is
  <2>5. CASE GetTransactionFromStopTransaction(w) \/ SaveStoppedStation(w)
    BY <1>1, <2>5 DEF GetTransactionFromStopTransaction, SaveStoppedStation
  <2> QED BY <1>7, <2>3, <2>4, <2>5 DEF Stop
<1>8. ASSUME NEW w \in {"ocpp", "end"}, Finalize(w) PROVE ExtraKeeps
  <2>1. CASE SaveFinalized(w)
    <3>1. h[w].pc = "saveFinal" /\ h[w].tx \in TransactionIDs /\ SaveTransaction(h[w].tx, h[w].doc)
      BY <1>3, <1>4, <2>1, HandlerShape DEF SaveFinalized, Is
    <3>2. h[w].doc.stop /\ h[w].doc.extra
      BY <3>1 DEF StopsAgree, StopsOf, ExtraAgrees, RequestExtra, EndExtra
    <3> QED BY <1>2, <3>1, <3>2
  <2> QED BY <1>1, <1>8, <2>1 DEF Finalize, FinalizeTransaction, FinalizeTransactionFails
<1>9. CASE Tasks
  <2>1. CASE SaveBillingData
    <3>1. \A t \in TransactionIDs : Known(t) => transactions[t] \in Transaction
      BY DEF TypeOK, Known
    <3> QED BY <2>1, <3>1 DEF SaveBillingData, TypeOK, ExtraKeeps, Computed, Transaction
  <2> QED
    BY <1>1, <1>9, <2>1 DEF Tasks, EndTask, TriggerEndTransaction, BillTask, BillTransaction
<1> QED BY <1>5, <1>6, <1>7, <1>8, <1>9 DEF Next, Server

\* The charges of each session.
LEMMA ExtraOfPreserved ==
  ASSUME TypeOK, SnapshotsAgree, StopsAgree, ExtraAgrees, [Next]_vars, NEW t \in TransactionIDs
  PROVE  ExtraOf(t)'
<1> DEFINE o == h["ocpp"]
<1>1. /\ TypeOK' /\ ExtraKeeps /\ DocumentsKeep /\ count'.roaming >= count.roaming
      /\ "ocpp" \in Workers /\ o \in Handler
  BY TypePreserved, KeepExtra, KeepDocuments, CountsGrow, WorkerNames DEF TypeOK
<1>2. /\ inactivity[t] \in Nat /\ inactivity'[t] \in Nat
      /\ count.roaming \in Nat /\ count'.roaming \in Nat
  BY <1>1 DEF TypeOK
<1>3. ExtraOf(t)
  BY DEF ExtraAgrees
<1>4. ASSUME inactivity'[t] = inactivity[t] PROVE ExtraOf(t)'
  <2>1. ASSUME inactivity[t] > count.roaming
        PROVE  Known(t)' /\ (Computed(t)' \/ (h'["ocpp"].pc = "saveFinal" /\ h'["ocpp"].tx = t))
    <3>1. Known(t) /\ Known(t)'
      BY <1>1, <1>3, <2>1 DEF ExtraOf, DocumentsKeep
    <3>2. CASE Computed(t)
      BY <1>1, <2>1, <3>1, <3>2 DEF ExtraKeeps
    <3>3. CASE o.pc = "saveFinal" /\ o.tx = t
      <4>1. CASE h'["ocpp"] = o
        BY <3>1, <3>3, <4>1
      <4>2. CASE SaveFinalized("ocpp")
        <5>1. o.doc.stop /\ o.doc.extra
          BY <3>3 DEF StopsAgree, StopsOf, ExtraAgrees, RequestExtra
        <5>2. transactions'[t] = o.doc
          BY <3>3, <4>2 DEF SaveFinalized, SaveTransaction, TypeOK
        <5> QED BY <3>1, <5>1, <5>2 DEF Computed
      <4>3. ASSUME h'["ocpp"] # o PROVE SaveFinalized("ocpp")
        <5>1. Request \/ Ocpp \/ Stop("ocpp") \/ Finalize("ocpp")
          BY <4>3, OnlyOthersMove, WorkerNames DEF Next, Server, vars, OnlyMoves
        <5>2. ~ Request
          BY <3>3
          DEF Request, ReceiveBootNotification, ReceiveStartTransaction,
              ReceiveStatusNotification, ReceiveMeterValues, ReceiveStopTransaction, Receive, Is
        <5>3. ~ Ocpp
          BY <3>3
          DEF Ocpp, HandleBootNotification, StartTransactionFails, StartTransaction, SaveStation,
              GetTransactionFromMeterValues, SaveMeterValues, MeterValuesFail,
              IgnoreStatusNotification, ProcessConnector, SaveStatus, Is
        <5>4. ~ Stop("ocpp")
          BY <3>3
          DEF Stop, GetTransactionFromStopTransaction, StopTransactionFails, SaveStoppedStation,
              StopSessionFails, SaveStoppedTransaction, Is
        <5> QED BY <3>3, <5>1, <5>2, <5>3, <5>4
             DEF Finalize, FinalizeTransaction, FinalizeTransactionFails, Is
      <4> QED BY <4>1, <4>2, <4>3
    <3> QED BY <1>3, <2>1, <3>2, <3>3 DEF ExtraOf
  <2> QED BY <1>1, <1>2, <1>3, <1>4, <2>1 DEF ExtraOf
<1>5. ASSUME o.pc = "finalize", o.tx = t, ~ o.doc.extra, inactivity'[t] = inactivity[t] + 1,
             \/ FinalizeTransaction("ocpp")
             \/ FinalizeTransactionFails("ocpp") /\ count'.roaming = count.roaming + 1
      PROVE  ExtraOf(t)'
  <2>1. inactivity[t] <= count.roaming
    BY <1>5 DEF ExtraAgrees, RequestExtra
  <2>2. Known(t)'
    BY <1>1, <1>5, HandledIsStored DEF DocumentsKeep
  <2>3. CASE FinalizeTransaction("ocpp")
    <3> DEFINE b == IF EndBills(o.doc.billing) THEN "PENDING" ELSE o.doc.billing
               r == [o EXCEPT !.pc = "saveFinal", !.doc.extra = TRUE, !.doc.billing = b]
    <3>1. Become("ocpp", r)
      BY <2>3 DEF FinalizeTransaction
    <3> HIDE DEF b
    <3>2. r.pc = "saveFinal" /\ r.tx = o.tx
      BY <1>1, <1>5, HandlerShape
    <3> HIDE DEF r
    <3>3. h'["ocpp"].pc = "saveFinal" /\ h'["ocpp"].tx = t
      BY <1>1, <1>5, <3>1, <3>2, BecomeMoves
    <3> QED BY <1>1, <1>2, <1>5, <2>1, <2>2, <3>3 DEF ExtraOf
  <2>4. CASE count'.roaming = count.roaming + 1
    BY <1>2, <1>5, <2>1, <2>4 DEF ExtraOf
  <2> QED BY <1>5, <2>3, <2>4
<1>6. CASE inactivity' = inactivity
  BY <1>4, <1>6
<1>7. CASE inactivity' # inactivity
  <2>1. /\ o.pc = "finalize" /\ ~ o.doc.extra
        /\ inactivity' = [inactivity EXCEPT ![o.tx] = @ + 1]
        /\ \/ FinalizeTransaction("ocpp")
           \/ FinalizeTransactionFails("ocpp") /\ count'.roaming = count.roaming + 1
    BY <1>7, OnlyRequestCharges
  <2>2. inactivity'[t] = IF t = o.tx THEN inactivity[t] + 1 ELSE inactivity[t]
    BY <2>1 DEF TypeOK
  <2> QED BY <1>4, <1>5, <2>1, <2>2
<1> QED BY <1>6, <1>7

\* An open session, or one that is not computed, is not charged.
LEMMA NotComputed ==
  ASSUME TypeOK, ExtraAgrees, NEW t \in TransactionIDs, ~ Computed(t),
         h["ocpp"].pc # "saveFinal"
  PROVE  inactivity[t] <= count.roaming
<1>1. ExtraOf(t) /\ inactivity[t] \in Nat /\ count.roaming \in Nat
  BY DEF ExtraAgrees, TypeOK
<1> QED BY <1>1 DEF ExtraOf

\* The request of the station.
LEMMA RequestExtraPreserved ==
  ASSUME TypeOK, SnapshotsAgree, StopsAgree, ExtraAgrees, [Next]_vars
  PROVE  RequestExtra'
<1> DEFINE o == h["ocpp"]
<1>0. /\ o \in Handler /\ "ocpp" \in Workers /\ TypeOK' /\ count'.roaming >= count.roaming
      /\ count.roaming \in Nat /\ count'.roaming \in Nat
  BY WorkerNames, TypePreserved, CountsGrow DEF TypeOK
<1>1. ASSUME h'["ocpp"].pc \notin {"saveTx", "stopStation", "stopTx", "finalize", "saveFinal"}
      PROVE  RequestExtra'
  BY <1>1 DEF RequestExtra
<1>2. ASSUME NEW r, Become("ocpp", r),
             r.pc \notin {"saveTx", "stopStation", "stopTx", "finalize", "saveFinal"}
      PROVE  RequestExtra'
  BY <1>0, <1>1, <1>2, BecomeMoves
<1>3. ASSUME Done("ocpp") PROVE RequestExtra'
  BY <1>2, <1>3 DEF Done, Idle
<1>4. ASSUME NEW r, Become("ocpp", r), r.pc \in {"saveTx", "stopStation", "stopTx", "finalize"},
             r.tx \in TransactionIDs, inactivity[r.tx] <= count.roaming,
             UNCHANGED <<inactivity, count>>
      PROVE  RequestExtra'
  <2>1. h'["ocpp"] = r
    BY <1>0, <1>4, BecomeMoves
  <2> QED BY <1>4, <2>1 DEF RequestExtra
<1>5. CASE Request
  BY <1>2, <1>5
  DEF Request, ReceiveBootNotification, ReceiveStartTransaction, ReceiveStatusNotification,
      ReceiveMeterValues, ReceiveStopTransaction, Receive
<1>6. CASE Ocpp
  <2>1. ASSUME NEW b, StartTransaction(b) PROVE RequestExtra'
    BY <1>2, <2>1 DEF StartTransaction
  <2>2. CASE GetTransactionFromMeterValues
    <3> DEFINE r == [pc |-> "saveTx", tx |-> o.tx, st |-> o.st, doc |-> transactions[o.tx]]
    <3>1. o.pc = "meter" /\ o.tx \in TransactionIDs /\ UNCHANGED <<inactivity, count>>
      BY <1>0, <2>2, HandlerShape DEF GetTransactionFromMeterValues, Is, history
    <3>2. ASSUME ~ transactions[o.tx].stop, Become("ocpp", r) PROVE RequestExtra'
      <4>1. inactivity[o.tx] <= count.roaming
        BY <3>1, <3>2, NotComputed DEF Computed
      <4> QED BY <1>4, <3>1, <3>2, <4>1
    <3> QED BY <1>3, <2>2, <3>2 DEF GetTransactionFromMeterValues
  <2>3. CASE SaveMeterValues
    BY <1>2, <2>3 DEF SaveMeterValues
  <2>4. CASE ProcessConnector
    <3> DEFINE st == GetConnector(o.st, o.connector)
               last == IF o.status \in Free THEN LastTransaction(o.connector) ELSE 0
               f == [pc |-> "finalize", tx |-> last, st |-> st, connector |-> o.connector,
                     status |-> o.status, doc |-> transactions[last]]
               free == IF last # 0 THEN ClearConnector(st, o.connector) ELSE st
               n == [o EXCEPT !.pc = "saveStatus", !.st = free]
    <3>1. o \in [pc : {"status"}, tx : {0}, st : Station, connector : Connectors, status : Statuses]
      BY <1>0, <2>4, HandlerShape DEF ProcessConnector, Is
    <3>2. /\ UNCHANGED <<inactivity, count>>
          /\ (last # 0 /\ Become("ocpp", f)) \/ Become("ocpp", n)
      BY <2>4 DEF ProcessConnector, history
    <3>3. last # 0 => last \in TransactionIDs
      BY <3>1, LastTransactionIsStored
    <3> HIDE DEF st, last, free
    <3>4. n.pc = "saveStatus"
      BY <3>1
    <3>5. ASSUME last # 0, Become("ocpp", f) PROVE RequestExtra'
      <4>1. transactions[last].extra \/ inactivity[last] <= count.roaming
        BY <3>1, <3>3, <3>5, NotComputed DEF Computed
      <4>2. h'["ocpp"] = f
        BY <1>0, <3>5, BecomeMoves
      <4> QED BY <3>2, <4>1, <4>2 DEF RequestExtra
    <3> QED BY <1>2, <3>2, <3>4, <3>5
  <2> QED
    BY <1>2, <1>3, <1>6, <2>1, <2>2, <2>3, <2>4
    DEF Ocpp, HandleBootNotification, StartTransactionFails, SaveStation, MeterValuesFail,
        IgnoreStatusNotification, SaveStatus
<1>7. CASE Stop("ocpp")
  <2>1. ASSUME o.pc \in {"stop", "stopStation"}
        PROVE  o \in [pc : {o.pc}, tx : TransactionIDs, st : Station,
                      doc : Transaction \cup {NoTransaction},
                      given : Transaction \cup {NoTransaction}]
    BY <1>0, <2>1, HandlerShape
  <2>2. CASE GetTransactionFromStopTransaction("ocpp")
    <3> DEFINE st == ClearConnector(o.st, transactions[o.tx].connector)
               r == [o EXCEPT !.pc = "stopStation", !.doc = transactions[o.tx], !.st = st]
    <3>1. /\ o.pc = "stop" /\ Become("ocpp", r) /\ ~ transactions[o.tx].stop
          /\ UNCHANGED <<inactivity, count>>
      BY <2>2 DEF GetTransactionFromStopTransaction, Is, history
    <3> HIDE DEF st
    <3>2. r.pc = "stopStation" /\ r.tx = o.tx /\ o.tx \in TransactionIDs
      BY <2>1, <3>1
    <3> HIDE DEF r
    <3>3. inactivity[o.tx] <= count.roaming
      BY <3>1, <3>2, NotComputed DEF Computed
    <3> QED BY <1>4, <3>1, <3>2, <3>3
  <2>3. CASE SaveStoppedStation("ocpp")
    <3> DEFINE r == [o EXCEPT !.pc = "stopTx"]
    <3>1. o.pc = "stopStation" /\ Become("ocpp", r) /\ UNCHANGED <<inactivity, count>>
      BY <2>3 DEF SaveStoppedStation, Is, history
    <3>2. r.pc = "stopTx" /\ r.tx = o.tx /\ o.tx \in TransactionIDs
      BY <2>1, <3>1
    <3> HIDE DEF r
    <3>3. inactivity[o.tx] <= count.roaming
      BY <3>1 DEF ExtraAgrees, RequestExtra
    <3> QED BY <1>4, <3>1, <3>2, <3>3
  <2> QED
    BY <1>3, <1>7, <2>2, <2>3
    DEF Stop, StopTransactionFails, StopSessionFails, SaveStoppedTransaction, AnswerInvalid
<1>8. CASE Finalize("ocpp")
  <2>1. ASSUME o.pc \in {"finalize", "saveFinal"}
        PROVE  o \in [pc : {o.pc}, tx : TransactionIDs, st : Station, connector : Connectors,
                      status : Statuses, doc : Transaction]
    BY <1>0, <2>1, HandlerShape
  <2>2. CASE FinalizeTransaction("ocpp")
    <3> DEFINE b == IF EndBills(o.doc.billing) THEN "PENDING" ELSE o.doc.billing
               r == [o EXCEPT !.pc = "saveFinal", !.doc.extra = TRUE, !.doc.billing = b]
    <3>1. o.pc = "finalize" /\ Become("ocpp", r)
      BY <2>2 DEF FinalizeTransaction, Is
    <3> HIDE DEF b
    <3>2. r.pc = "saveFinal" /\ r.doc.extra
      BY <2>1, <3>1 DEF Transaction
    <3> HIDE DEF r
    <3>3. h'["ocpp"].pc = "saveFinal" /\ h'["ocpp"].doc.extra
      BY <1>0, <3>1, <3>2, BecomeMoves
    <3> QED BY <3>3 DEF RequestExtra
  <2>3. ASSUME NEW st, Become("ocpp", AfterFinalize("ocpp", st)), o.pc \in {"finalize", "saveFinal"}
        PROVE  RequestExtra'
    <3> DEFINE r == [o EXCEPT !.pc = "saveStatus", !.st = st]
    <3>1. Become("ocpp", r) /\ r.pc = "saveStatus"
      BY <2>1, <2>3 DEF AfterFinalize
    <3> HIDE DEF r
    <3> QED BY <1>2, <3>1
  <2> QED BY <1>8, <2>2, <2>3 DEF Finalize, FinalizeTransactionFails, SaveFinalized, Is
<1>9. CASE Soft \/ SaveConnectors \/ Stop("soft") \/ Finalize("end") \/ Tasks \/ UNCHANGED vars
  <2>1. h'["ocpp"] = o
    BY <1>0, <1>9, OnlyOthersMove, WorkerNames DEF OnlyMoves, vars
  <2>2. inactivity' = inactivity
    <3>1. ASSUME inactivity' # inactivity PROVE h'["ocpp"] # o
      <4>1. /\ o.pc = "finalize"
            /\ FinalizeTransaction("ocpp") \/ FinalizeTransactionFails("ocpp")
        BY <3>1, OnlyRequestCharges
      <4>2. o \in [pc : {"finalize"}, tx : TransactionIDs, st : Station, connector : Connectors,
                   status : Statuses, doc : Transaction]
        BY <1>0, <4>1, HandlerShape
      <4> DEFINE b == IF EndBills(o.doc.billing) THEN "PENDING" ELSE o.doc.billing
                 r == [o EXCEPT !.pc = "saveFinal", !.doc.extra = TRUE, !.doc.billing = b]
                 n == [o EXCEPT !.pc = "saveStatus", !.st = o.st]
      <4>3. Become("ocpp", r) \/ Become("ocpp", n)
        BY <4>1 DEF FinalizeTransaction, FinalizeTransactionFails, AfterFinalize
      <4> HIDE DEF b
      <4>4. r.pc = "saveFinal" /\ n.pc = "saveStatus"
        BY <4>2
      <4> HIDE DEF r, n
      <4> QED BY <1>0, <4>1, <4>3, <4>4, BecomeMoves
    <3> QED BY <2>1, <3>1
  <2>3. ASSUME o.pc \in {"saveTx", "stopStation", "stopTx", "finalize"} PROVE o.tx \in TransactionIDs
    BY <1>0, <2>3, HandlerShape
  <2>4. \A t \in TransactionIDs : inactivity[t] \in Nat
    BY DEF TypeOK
  <2> QED BY <1>0, <2>1, <2>2, <2>3, <2>4 DEF ExtraAgrees, RequestExtra
<1> QED BY <1>5, <1>6, <1>7, <1>8, <1>9 DEF Next, Server

\* The END task.
LEMMA EndExtraPreserved ==
  ASSUME TypeOK, ExtraAgrees, [Next]_vars
  PROVE  EndExtra'
<1> DEFINE e == h["end"]
<1>0. e \in Handler /\ "end" \in Workers /\ "bill" \in Workers
  BY WorkerNames DEF TypeOK
<1>1. ASSUME h'["end"] = e PROVE EndExtra'
  BY <1>1 DEF ExtraAgrees, EndExtra
<1>2. ASSUME Done("end") PROVE EndExtra'
  <2>1. h'["end"].pc = "idle"
    BY <1>0, <1>2, BecomeMoves DEF Done, Idle
  <2> QED BY <2>1 DEF EndExtra
<1>3. CASE Finalize("end")
  <2>1. CASE FinalizeTransaction("end")
    <3> DEFINE b == IF EndBills(e.doc.billing) THEN "PENDING" ELSE e.doc.billing
               r == [e EXCEPT !.pc = "saveFinal", !.doc.extra = TRUE, !.doc.billing = b]
    <3>1. e.pc = "finalize" /\ Become("end", r)
      BY <2>1 DEF FinalizeTransaction, Is
    <3>2. e \in [pc : {"finalize"}, tx : TransactionIDs, st : Station, connector : Connectors,
                 status : Statuses, doc : Transaction]
      BY <1>0, <3>1, HandlerShape
    <3> HIDE DEF b
    <3>3. r.pc = "saveFinal" /\ r.doc.extra
      BY <3>2 DEF Transaction
    <3> HIDE DEF r
    <3>4. h'["end"].pc = "saveFinal" /\ h'["end"].doc.extra
      BY <1>0, <3>1, <3>3, BecomeMoves
    <3> QED BY <3>4 DEF EndExtra
  <2> QED
    BY <1>2, <1>3, <2>1
    DEF Finalize, FinalizeTransactionFails, SaveFinalized, AfterFinalize, Done
<1>4. ASSUME NEW t \in TransactionIDs, EndTask(t) PROVE EndExtra'
  <2>1. ASSUME Become("end", [pc |-> "trigger", tx |-> t]) PROVE EndExtra'
    BY <1>0, <2>1, BecomeMoves DEF EndExtra
  <2> QED BY <1>2, <1>4, <2>1 DEF EndTask
<1>5. CASE TriggerEndTransaction
  <2> DEFINE t == e.tx
             c == transactions[t].connector
             r == [pc |-> "finalize", tx |-> t, st |-> station, connector |-> c,
                   status |-> station.connectors[c].status, doc |-> transactions[t]]
  <2>1. ASSUME Become("end", r) PROVE EndExtra'
    <3>1. h'["end"] = r
      BY <1>0, <2>1, BecomeMoves
    <3> QED BY <3>1 DEF EndExtra
  <2> QED BY <1>2, <1>5, <2>1 DEF TriggerEndTransaction
<1>6. ASSUME NEW t \in TransactionIDs, BillTask(t) PROVE EndExtra'
  <2>1. \E r : Become("bill", r)
    BY <1>6 DEF BillTask, Done
  <2> QED BY <1>0, <1>1, <2>1, BecomeMoves DEF OnlyMoves
<1>7. CASE (\E r \in {"BILLED", "FAILED"} : BillTransaction(r)) \/ SaveBillingData
  <2>1. \E r : Become("bill", r)
    BY <1>7 DEF BillTransaction, SaveBillingData, Done
  <2> QED BY <1>0, <1>1, <2>1, BecomeMoves DEF OnlyMoves
<1>8. CASE Request \/ Ocpp \/ Stop("ocpp") \/ Finalize("ocpp") \/ Soft \/ SaveConnectors
           \/ Stop("soft") \/ UNCHANGED vars
  BY <1>0, <1>1, <1>8, OnlyOthersMove DEF OnlyMoves, vars
<1> QED BY <1>3, <1>4, <1>5, <1>6, <1>7, <1>8 DEF Next, Server, Tasks

-----------------------------------------------------------------------------
(* Theorems about stops, connectors and extra inactivity. *)

StrongInv == Inv /\ StopsAgree /\ StationsAgree /\ ExtraAgrees

LEMMA InitStrongInv == Init => StrongInv
<1> SUFFICES ASSUME Init PROVE StrongInv
  OBVIOUS
<1>1. h["ocpp"] = Idle /\ h["soft"] = Idle /\ h["end"] = Idle
  BY WorkerNames DEF Init
<1>2. StopsAgree
  BY <1>1 DEF StopsAgree, StopsOf, Idle
<1>3. StationsAgree
  BY <1>1 DEF Init, StationsAgree, StationAgrees, Shows, OneHomeIn, NoBackupIn, ShowsOpen,
              HoldsStation, Idle
<1>4. ExtraAgrees
  BY <1>1 DEF Init, ExtraAgrees, ExtraOf, RequestExtra, EndExtra, Idle
<1> QED BY <1>2, <1>3, <1>4, InitInv DEF StrongInv

LEMMA StrongInvPreserved == StrongInv /\ [Next]_vars => StrongInv'
<1> SUFFICES ASSUME Inv, StopsAgree, StationsAgree, ExtraAgrees, [Next]_vars PROVE StrongInv'
  BY DEF StrongInv
<1>1. Inv'
  BY TypePreserved, SnapshotsPreserved DEF Inv
<1>2. StopsAgree' /\ StationsAgree'
  BY StopsPreserved, StationsPreserved DEF Inv
<1>3. ExtraAgrees'
  BY ExtraOfPreserved, RequestExtraPreserved, EndExtraPreserved DEF Inv, ExtraAgrees
<1> QED BY <1>1, <1>2, <1>3 DEF StrongInv

LEMMA AlwaysStrongInv == Spec => []StrongInv
  BY InitStrongInv, StrongInvPreserved, PTL DEF Spec

(***************************************************************************)
(* Whatever reboots, stops, soft stops and tasks interleave, a connector   *)
(* and its backup only show sessions that are stored and run on it; and    *)
(* until the first soft stop a connector is in one of the two places.      *)
(***************************************************************************)
THEOREM ConnectorsAgreeUntilSoftStop ==
  Spec => [](ShowsStoredTransaction /\ (count.soft = 0 => ConnectorsAgree))
<1>1. StrongInv => ShowsStoredTransaction /\ (count.soft = 0 => ConnectorsAgree)
  BY DEF StrongInv, StationsAgree, StationAgrees, Shows, OneHomeIn, ShowsStoredTransaction,
         ConnectorsAgree, OneHome
<1> QED BY AlwaysStrongInv, <1>1, PTL

(***************************************************************************)
(* Until the first reboot or soft stop, no connector shows a stopped       *)
(* session when the request that stopped it is handled.                    *)
(***************************************************************************)
THEOREM StopFreesConnector == Spec => [](count.soft = 0 => FreedUnlessRebooted)
<1>1. StrongInv => (count.soft = 0 => FreedUnlessRebooted)
  BY DEF StrongInv, StationsAgree, StationAgrees, ShowsOpen, FreedUnlessRebooted, ShownStopped
<1> QED BY AlwaysStrongInv, <1>1, PTL

(***************************************************************************)
(* The extra inactivity of a session is charged once, plus once for each   *)
(* CDR that a roaming partner refused: no race of the status notification, *)
(* the END task and the soft stops charges it again.                       *)
(***************************************************************************)
THEOREM InactivityIsChargedOnce == Spec => []ExtraInactivityPerFailure
<1>1. StrongInv => ExtraInactivityPerFailure
  BY DEF StrongInv, ExtraAgrees, ExtraOf, ExtraInactivityPerFailure
<1> QED BY AlwaysStrongInv, <1>1, PTL

(***************************************************************************)
(* Without soft stops a stopped session is never opened again: the only    *)
(* documents that are put back were read by the request that is handled.   *)
(***************************************************************************)
THEOREM StoppedForever == ASSUME MaxSoftStops = 0 PROVE Spec => StoppedStaysStopped
<1> DEFINE NoSoft == count.soft = 0
           Stays == \A t \in TransactionIDs : Known(t) /\ transactions[t].stop => transactions'[t].stop
<1>1. Init => NoSoft
  BY DEF Init
<1>2. StrongInv /\ NoSoft /\ [Next]_vars => NoSoft'
  <2> SUFFICES ASSUME StrongInv, NoSoft, [Next]_vars PROVE NoSoft'
    OBVIOUS
  <2>1. ~ Use({"soft"})
    <3>1. Bound["soft"] = 0 /\ count["soft"] = 0
      BY DEF Bound
    <3> QED BY <3>1 DEF Use
  <2>2. ~ Soft
    BY <2>1 DEF Soft, SoftStop, SoftClear
  <2> QED BY <2>2, CountsGrow DEF StrongInv, Inv
<1>3. StrongInv /\ NoSoft /\ [Next]_vars => Stays
  <2> SUFFICES ASSUME StrongInv, NoSoft, [Next]_vars PROVE Stays
    OBVIOUS
  <2>1. StopsKeep
    BY <1>2, KeepStops DEF StrongInv, Inv
  <2> QED BY <2>1 DEF StopsKeep
<1>4. Stays => [\A t \in TransactionIDs :
                  Known(t) /\ transactions[t].stop => transactions'[t].stop]_vars
  OBVIOUS
<1> HIDE DEF NoSoft, Stays
<1>5. Spec => [][Stays]_vars
  BY <1>1, <1>2, <1>3, AlwaysStrongInv, PTL DEF Spec
<1> QED BY <1>5, <1>4, PTL DEF StoppedStaysStopped, Stays
=============================================================================
