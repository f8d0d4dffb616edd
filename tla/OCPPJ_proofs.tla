---------------------------- MODULE OCPPJ_proofs ----------------------------
(***************************************************************************)
(* Proofs about the OCPP-J connections of a server (WSConnection), for any *)
(* sets of message IDs (equal, overlapping or disjoint, finite or not) and *)
(* any bound on their use, and about the server that keeps them            *)
(* (JsonOCPPServer), for any number of sockets and messages and any number *)
(* of trials and pings.                                                    *)
(***************************************************************************)
EXTENDS WSConnection, JsonOCPPServer, TLAPS

-----------------------------------------------------------------------------
(* The connection. *)

(***************************************************************************)
(* What the two callbacks of sendMessage do to a connection that satisfies *)
(* the invariant: nothing but ending the promise they were made for.       *)
(***************************************************************************)
LEMMA CallbackEffect ==
  ASSUME WSTypeOK, PendingIffTimer, NoLeak, PendingIsReachable,
         NEW c \in CallIDs, NEW o \in Settled, Callback(c, o)
  PROVE  /\ promise' \in [CallIDs -> {"unsent", "pending"} \cup Settled]
         /\ ocppRequests' \in SUBSET CallIDs
         /\ requestTimeout' \in SUBSET CallIDs
         /\ PendingIffTimer' /\ NoLeak' /\ PendingIsReachable'
<1>1. CASE promise[c] = "pending"
  BY <1>1 DEF Callback, WSTypeOK, PendingIffTimer, NoLeak, PendingIsReachable, Settled
<1>2. CASE promise[c] # "pending"
  BY <1>2 DEF Callback, callVars, WSTypeOK, PendingIffTimer, NoLeak, PendingIsReachable
<1> QED BY <1>1, <1>2

(***************************************************************************)
(* Every variable keeps its type, and the four parts of Safety hold, in    *)
(* every reachable state of the connection.                                *)
(***************************************************************************)
THEOREM ConnectionSafety == WSSpec => [](WSTypeOK /\ Safety)
<1> DEFINE Inv == WSTypeOK /\ Safety
<1>1. WSInit => Inv
  <2> SUFFICES ASSUME WSInit PROVE Inv
    OBVIOUS
  <2>1. WSTypeOK
    BY DEF WSInit, WSTypeOK
  <2>2. PendingIffTimer /\ NoLeak /\ PendingIsReachable
    BY DEF WSInit, PendingIffTimer, NoLeak, PendingIsReachable
  <2>3. AnsweredOnce
    BY DEF WSInit, AnsweredOnce
  <2> QED BY <2>1, <2>2, <2>3 DEF Safety
<1>2. Inv /\ [WSNext]_wsVars => Inv'
  <2> SUFFICES ASSUME Inv, [WSNext]_wsVars PROVE Inv'
    OBVIOUS
  <2> USE DEF Safety
  <2>1. ASSUME NEW c \in CallIDs, SendCall(c) PROVE Inv'
    <3>1. WSTypeOK'
      BY <2>1 DEF SendCall, WSTypeOK, peerVars
    <3>2. PendingIffTimer' /\ NoLeak' /\ PendingIsReachable'
      BY <2>1 DEF SendCall, WSTypeOK, PendingIffTimer, NoLeak, PendingIsReachable
    <3>3. AnsweredOnce'
      BY <2>1 DEF SendCall, peerVars, AnsweredOnce
    <3> QED BY <3>1, <3>2, <3>3
  <2>2. ASSUME NEW c \in CallIDs, NEW o \in Settled, ReceiveAnswer(c, o) PROVE Inv'
    <3>1. CASE c \in ocppRequests
      <4>1. Callback(c, o)
        BY <2>2, <3>1 DEF ReceiveAnswer
      <4>2. WSTypeOK' /\ AnsweredOnce'
        BY <2>2, <4>1, CallbackEffect DEF ReceiveAnswer, peerVars, WSTypeOK, AnsweredOnce
      <4> QED BY <4>1, <4>2, CallbackEffect
    <3>2. CASE c \notin ocppRequests
      BY <2>2, <3>2 DEF ReceiveAnswer, callVars, peerVars, WSTypeOK, PendingIffTimer,
                        NoLeak, PendingIsReachable, AnsweredOnce
    <3> QED BY <3>1, <3>2
  <2>3. ASSUME NEW c \in CallIDs, Timeout(c) PROVE Inv'
    <3>1. Callback(c, "rejected") /\ "rejected" \in Settled
      BY <2>3 DEF Timeout, Settled
    <3>2. WSTypeOK' /\ AnsweredOnce'
      BY <2>3, <3>1, CallbackEffect DEF Timeout, peerVars, WSTypeOK, AnsweredOnce
    <3> QED BY <3>1, <3>2, CallbackEffect
  <2>4. ASSUME NEW m \in PeerIDs, ReceiveCall(m) PROVE Inv'
    <3>1. WSTypeOK'
      BY <2>4 DEF ReceiveCall, callVars, WSTypeOK
    <3>2. PendingIffTimer' /\ NoLeak' /\ PendingIsReachable'
      BY <2>4 DEF ReceiveCall, callVars, PendingIffTimer, NoLeak, PendingIsReachable
    <3>3. AnsweredOnce'
      BY <2>4 DEF ReceiveCall, WSTypeOK, AnsweredOnce
    <3> QED BY <3>1, <3>2, <3>3
  <2>5. ASSUME NEW m \in PeerIDs, HandleRequestReturns(m) PROVE Inv'
    <3>1. WSTypeOK'
      BY <2>5 DEF HandleRequestReturns, SendReply, WSTypeOK
    <3>2. PendingIffTimer' /\ NoLeak' /\ PendingIsReachable'
      BY <2>5 DEF HandleRequestReturns, SendReply, PendingIffTimer, NoLeak, PendingIsReachable
    <3>3. AnsweredOnce'
      BY <2>5 DEF HandleRequestReturns, WSTypeOK, AnsweredOnce
    <3> QED BY <3>1, <3>2, <3>3
  <2>6. ASSUME NEW m \in PeerIDs, HandleRequestThrows(m) PROVE Inv'
    <3>1. WSTypeOK'
      BY <2>6 DEF HandleRequestThrows, SendReply, WSTypeOK
    <3>2. PendingIffTimer' /\ NoLeak' /\ PendingIsReachable'
      BY <2>6 DEF HandleRequestThrows, SendReply, PendingIffTimer, NoLeak, PendingIsReachable
    <3>3. AnsweredOnce'
      BY <2>6 DEF HandleRequestThrows, WSTypeOK, AnsweredOnce
    <3> QED BY <3>1, <3>2, <3>3
  <2>7. CASE Close
    BY <2>7 DEF Close, callVars, peerVars, WSTypeOK, PendingIffTimer, NoLeak,
                PendingIsReachable, AnsweredOnce
  <2>8. CASE UNCHANGED wsVars
    BY <2>8 DEF wsVars, WSTypeOK, PendingIffTimer, NoLeak, PendingIsReachable, AnsweredOnce
  <2> QED
    BY <2>1, <2>2, <2>3, <2>4, <2>5, <2>6, <2>7, <2>8
    DEF WSNext, CallStep, PeerStep, ReceiveCallResult, ReceiveCallError, Settled
<1> QED BY <1>1, <1>2, PTL DEF WSSpec

(***************************************************************************)
(* The no-stranded-request invariant on its own: whatever IDs the peer     *)
(* uses, a promise is pending exactly while its timer is armed.            *)
(***************************************************************************)
THEOREM NoStrandedRequest == WSSpec => []PendingIffTimer
<1>1. WSTypeOK /\ Safety => PendingIffTimer
  BY DEF Safety
<1> QED BY <1>1, ConnectionSafety, PTL

(***************************************************************************)
(* The answer of a pending request finds it in _ocppRequests, whatever     *)
(* requests, answers, timeouts and closings interleave, unless the peer    *)
(* may use its message ID for a request of its own.                        *)
(***************************************************************************)
THEOREM PendingCanBeAnswered == WSSpec => []PendingIsReachable
<1>1. WSTypeOK /\ Safety => PendingIsReachable
  BY DEF Safety
<1> QED BY <1>1, ConnectionSafety, PTL

(***************************************************************************)
(* handleMessage answers every request of the peer exactly once, with a    *)
(* result or an error, for any peer: one that repeats a message ID or uses *)
(* an ID of the server included.                                           *)
(***************************************************************************)
THEOREM PeerIsAnsweredOnce == WSSpec => []AnsweredOnce
<1>1. WSTypeOK /\ Safety => AnsweredOnce
  BY DEF Safety
<1> QED BY <1>1, ConnectionSafety, PTL

(***************************************************************************)
(* The safety half of the refinement: seen through its promises, every     *)
(* step of a connection is a step of the request/reply service, so an      *)
(* outcome, once known, is never replaced.                                 *)
(***************************************************************************)
THEOREM ImplementsRequestReply == WSSpec => RR!RRSafety
<1>1. WSInit => RR!RRInit
  BY DEF WSInit, RR!RRInit
<1>2. WSTypeOK /\ [WSNext]_wsVars => [RR!RRNext]_promise
  <2> SUFFICES ASSUME WSTypeOK, [WSNext]_wsVars, ~ UNCHANGED promise PROVE RR!RRNext
    OBVIOUS
  <2> USE DEF RR!RRNext
  <2>1. ASSUME NEW c \in CallIDs, SendCall(c) PROVE RR!RRNext
    BY <2>1 DEF SendCall, RR!Issue
  <2>2. ASSUME NEW c \in CallIDs, NEW o \in Settled, Callback(c, o) PROVE RR!RRNext
    BY <2>2 DEF Callback, callVars, Settled, RR!Settle, RR!Settled
  <2>3. ASSUME NEW c \in CallIDs, NEW o \in Settled, ReceiveAnswer(c, o) PROVE RR!RRNext
    BY <2>2, <2>3 DEF ReceiveAnswer, callVars
  <2>4. ASSUME NEW c \in CallIDs, Timeout(c) PROVE RR!RRNext
    BY <2>2, <2>4 DEF Timeout, Settled
  <2>5. ASSUME NEW m \in PeerIDs, PeerStep(m) PROVE FALSE
    BY <2>5 DEF PeerStep, ReceiveCall, HandleRequestReturns, HandleRequestThrows,
                SendReply, callVars
  <2>6. ~ Close /\ ~ UNCHANGED wsVars
    BY DEF Close, callVars, wsVars
  <2> QED
    BY <2>1, <2>3, <2>4, <2>5, <2>6
    DEF WSNext, CallStep, ReceiveCallResult, ReceiveCallError, Settled
<1> QED BY <1>1, <1>2, ConnectionSafety, PTL DEF WSSpec, RR!RRSafety

-----------------------------------------------------------------------------
(* The server. *)

(***************************************************************************)
(* What is known when a connection is removed from the cache: its close    *)
(* event is pending, or another task has closed it.                        *)
(***************************************************************************)
RemovedIsClosed ==
  /\ removing \subseteq closed
  /\ \A k \in Tasks : pc[k] = "remove" => victim[k] \in closed

\* An onOpen that ends with an exception has not set wsConnection before.
StoredIsOver == \A s \in stored : pc[s] = "over"

\* Where a task is bounds its trials and tells which sockets it refers to.
TasksAreTyped ==
  /\ \A k \in Tasks : /\ pc[k] \in {"new", "wait"} => trials[k] < MaxTrials
                      /\ pc[k] \in {"ping", "close", "remove"} => victim[k] \in Sockets
  /\ \A m \in Messages : pc[m] # "new" => on[m] \in Sockets
  /\ \A m \in answers : pc[m] \notin {"new", "wait", "granted"}

TypeInv == TypeOK /\ TasksAreTyped
Inv == TypeInv /\ NoStuckLock /\ RemovedIsClosed /\ StoredIsOver

LEMMA InitInv == Init => Inv
<1> SUFFICES ASSUME Init PROVE Inv
  OBVIOUS
<1>1. locked \in BOOLEAN /\ forced \in BOOLEAN
  BY Zenon DEF Init
<1>2. TypeOK /\ TasksAreTyped
  BY <1>1, ServerAssumption DEF Init, TypeOK, TasksAreTyped, Tasks
<1>3. NoStuckLock /\ RemovedIsClosed /\ StoredIsOver
  BY DEF Init, NoStuckLock, RemovedIsClosed, StoredIsOver, Tasks
<1> QED
  BY <1>2, <1>3 DEF Inv, TypeInv

-----------------------------------------------------------------------------
\* The lock and its history are Booleans after every step.
LEMMA BooleansPreserved ==
  TypeOK /\ [Next]_vars => locked' \in BOOLEAN /\ forced' \in BOOLEAN
<1> DEFINE Goal == locked' \in BOOLEAN /\ forced' \in BOOLEAN
<1> SUFFICES ASSUME TypeOK, [Next]_vars PROVE Goal
  OBVIOUS
<1> USE DEF lock
<1>0. locked \in BOOLEAN /\ forced \in BOOLEAN
  BY DEF TypeOK
<1>1. ASSUME NEW k \in Tasks, WaitForWSLockToRelease(k) PROVE Goal
  BY Zenon, <1>0, <1>1 DEF WaitForWSLockToRelease
<1>2. ASSUME NEW k \in Tasks, TakeLock(k) PROVE Goal
  BY Zenon, <1>0, <1>2 DEF TakeLock, Entry
<1>3. ASSUME NEW k \in Tasks, CloseVictim(k) PROVE Goal
  BY Zenon, <1>0, <1>3 DEF CloseVictim, CloseWS
<1>4. ASSUME NEW k \in Tasks, RemoveVictim(k) PROVE Goal
  BY Zenon, <1>0, <1>4 DEF RemoveVictim, RemoveWSConnection
<1>5. ASSUME NEW s \in Sockets, Open(s) PROVE Goal
  BY Zenon, <1>0, <1>5 DEF Open, Acquire, Entry
<1>6. ASSUME NEW s \in Sockets, Opening(s) PROVE Goal
  <2>1. CASE InitializeFails(s)
    BY Zenon, <1>0, <2>1 DEF InitializeFails, CloseWS, RemoveWSConnection, Release
  <2>2. CASE ClosedWhileInitializing(s)
    BY Zenon, <1>0, <2>2 DEF ClosedWhileInitializing, Release
  <2>3. CASE CheckIdentical(s)
    BY Zenon, <1>0, <2>3 DEF CheckIdentical
  <2>4. CASE SetOpened(s)
    BY Zenon, <1>0, <2>4 DEF SetOpened
  <2>5. CASE Attach(s)
    BY Zenon, <1>0, <2>5 DEF Attach, Release
  <2> QED
    BY <1>6, <2>1, <2>2, <2>3, <2>4, <2>5 DEF Opening
<1>7. ASSUME NEW s \in Sockets, CloseEvent(s) PROVE Goal
  BY Zenon, <1>0, <1>7 DEF CloseEvent, CloseWS
<1>8. ASSUME NEW s \in Sockets, RemoveClosed(s) PROVE Goal
  BY Zenon, <1>0, <1>8 DEF RemoveClosed, RemoveWSConnection
<1>9. ASSUME NEW m \in Messages, NEW s \in Sockets, NEW isAnswer \in BOOLEAN,
             ReceiveMessage(m, s, isAnswer)
      PROVE  Goal
  BY Zenon, <1>0, <1>9 DEF ReceiveMessage, Acquire, Entry
<1>10. ASSUME NEW m \in Messages, Processing(m) PROVE Goal
  <2>1. CASE DropMessage(m)
    BY Zenon, <1>0, <2>1 DEF DropMessage, Release
  <2>2. CASE CheckWSConnection(m)
    BY Zenon, <1>0, <2>2 DEF CheckWSConnection
  <2>3. CASE PingExisting(m)
    BY Zenon, <1>0, <2>3 DEF PingExisting, PingFails, OneMoreFailure, RemoveWSConnection
  <2>4. CASE SetFromMessage(m)
    BY Zenon, <1>0, <2>4 DEF SetFromMessage, Release
  <2>5. CASE Deliver(m)
    BY Zenon, <1>0, <2>5 DEF Deliver
  <2> QED
    BY <1>10, <2>1, <2>2, <2>3, <2>4, <2>5 DEF Processing
<1>11. ASSUME NEW m \in Messages, Handled(m) PROVE Goal
  BY Zenon, <1>0, <1>11 DEF Handled, Release
<1>12. CASE Cleanup
  BY Zenon, <1>0, <1>12 DEF Cleanup, PingFails, OneMoreFailure, RemoveWSConnection
<1>13. CASE UNCHANGED vars
  BY Zenon, <1>0, <1>13 DEF vars
<1> QED
  BY <1>1, <1>2, <1>3, <1>4, <1>5, <1>6, <1>7, <1>8, <1>9, <1>10, <1>11, <1>12, <1>13
     DEF Next, Wait, Closing

-----------------------------------------------------------------------------
\* Every step keeps the other variables in their types.
LEMMA TypePreserved == TypeInv /\ [Next]_vars => TypeInv'
<1> SUFFICES ASSUME TypeInv, [Next]_vars PROVE TypeInv'
  OBVIOUS
<1>0. locked' \in BOOLEAN /\ forced' \in BOOLEAN
  BY BooleansPreserved DEF TypeInv
<1> USE <1>0, ServerAssumption
    DEF TypeInv, TypeOK, TasksAreTyped, Tasks, Goto, message, lock, wrapper
<1>1. ASSUME NEW k \in Tasks, WaitForWSLockToRelease(k) PROVE TypeInv'
  BY <1>1 DEF WaitForWSLockToRelease
<1>2. ASSUME NEW k \in Tasks, TakeLock(k) PROVE TypeInv'
  BY <1>2 DEF TakeLock, Entry
<1>3. ASSUME NEW k \in Tasks, CloseVictim(k) PROVE TypeInv'
  BY <1>3 DEF CloseVictim, CloseWS
<1>4. ASSUME NEW k \in Tasks, RemoveVictim(k) PROVE TypeInv'
  BY <1>4 DEF RemoveVictim, RemoveWSConnection
<1>5. ASSUME NEW s \in Sockets, Open(s) PROVE TypeInv'
  BY <1>5 DEF Open, Acquire, Entry
<1>6. ASSUME NEW s \in Sockets, Opening(s) PROVE TypeInv'
  <2>1. CASE InitializeFails(s)
    BY <2>1 DEF InitializeFails, CloseWS, RemoveWSConnection, Release
  <2>2. CASE ClosedWhileInitializing(s)
    BY <2>2 DEF ClosedWhileInitializing, Release
  <2>3. CASE CheckIdentical(s)
    BY <2>3 DEF CheckIdentical
  <2>4. CASE SetOpened(s)
    BY <2>4 DEF SetOpened
  <2>5. CASE Attach(s)
    BY <2>5 DEF Attach, Release
  <2> QED
    BY <1>6, <2>1, <2>2, <2>3, <2>4, <2>5 DEF Opening
<1>7. ASSUME NEW s \in Sockets, CloseEvent(s) PROVE TypeInv'
  BY <1>7 DEF CloseEvent, CloseWS
<1>8. ASSUME NEW s \in Sockets, RemoveClosed(s) PROVE TypeInv'
  BY <1>8 DEF RemoveClosed, RemoveWSConnection
<1>9. ASSUME NEW m \in Messages, NEW s \in Sockets, NEW isAnswer \in BOOLEAN,
             ReceiveMessage(m, s, isAnswer)
      PROVE  TypeInv'
  BY <1>9 DEF ReceiveMessage, Acquire, Entry
<1>10. ASSUME NEW m \in Messages, Processing(m) PROVE TypeInv'
  <2>1. CASE DropMessage(m)
    BY <2>1 DEF DropMessage, Release
  <2>2. CASE CheckWSConnection(m)
    BY <2>2 DEF CheckWSConnection
  <2>3. CASE PingExisting(m)
    BY <2>3 DEF PingExisting, PingFails, OneMoreFailure, RemoveWSConnection
  <2>4. CASE SetFromMessage(m)
    <3>1. CASE m \in had
      BY <2>4, <3>1 DEF SetFromMessage
    <3>2. CASE m \notin had
      BY <2>4, <3>2 DEF SetFromMessage, Release
    <3> QED BY <3>1, <3>2
  <2>5. CASE Deliver(m)
    BY <2>5 DEF Deliver
  <2> QED
    BY <1>10, <2>1, <2>2, <2>3, <2>4, <2>5 DEF Processing
<1>11. ASSUME NEW m \in Messages, Handled(m) PROVE TypeInv'
  BY <1>11 DEF Handled, Release
<1>12. CASE Cleanup
  BY <1>12 DEF Cleanup, PingFails, OneMoreFailure, RemoveWSConnection
<1>13. CASE UNCHANGED vars
  BY <1>13 DEF vars
<1> QED
  BY <1>1, <1>2, <1>3, <1>4, <1>5, <1>6, <1>7, <1>8, <1>9, <1>10, <1>11, <1>12, <1>13
     DEF Next, Wait, Closing

-----------------------------------------------------------------------------
(***************************************************************************)
(* Every step preserves the invariant.  A step that takes the lock enters  *)
(* the tasks Inside, and one that leaves them deletes the lock.            *)
(***************************************************************************)
LEMMA SafetyPreserved == Inv /\ [Next]_vars => (NoStuckLock /\ RemovedIsClosed /\ StoredIsOver)'
<1> DEFINE Goal == (NoStuckLock /\ RemovedIsClosed /\ StoredIsOver)'
<1> SUFFICES ASSUME Inv, [Next]_vars PROVE Goal
  OBVIOUS
<1> USE ServerAssumption
    DEF Inv, TypeInv, TypeOK, TasksAreTyped, NoStuckLock, Inside, RemovedIsClosed, StoredIsOver, Tasks,
        Goto, message, lock, wrapper
<1>1. ASSUME NEW k \in Tasks, WaitForWSLockToRelease(k) PROVE Goal
  BY <1>1 DEF WaitForWSLockToRelease
<1>2. ASSUME NEW k \in Tasks, TakeLock(k) PROVE Goal
  BY <1>2 DEF TakeLock, Entry
<1>3. ASSUME NEW k \in Tasks, CloseVictim(k) PROVE Goal
  BY <1>3 DEF CloseVictim, CloseWS
<1>4. ASSUME NEW k \in Tasks, RemoveVictim(k) PROVE Goal
  BY <1>4 DEF RemoveVictim, RemoveWSConnection
<1>5. ASSUME NEW s \in Sockets, Open(s) PROVE Goal
  BY <1>5 DEF Open, Acquire, Entry
<1>6. ASSUME NEW s \in Sockets, Opening(s) PROVE Goal
  <2>1. CASE InitializeFails(s)
    BY <2>1 DEF InitializeFails, CloseWS, RemoveWSConnection, Release
  <2>2. CASE ClosedWhileInitializing(s)
    BY <2>2 DEF ClosedWhileInitializing, Release
  <2>3. CASE CheckIdentical(s)
    BY <2>3 DEF CheckIdentical
  <2>4. CASE SetOpened(s)
    BY <2>4 DEF SetOpened
  <2>5. CASE Attach(s)
    BY <2>5 DEF Attach, Release
  <2> QED
    BY <1>6, <2>1, <2>2, <2>3, <2>4, <2>5 DEF Opening
<1>7. ASSUME NEW s \in Sockets, CloseEvent(s) PROVE Goal
  BY <1>7 DEF CloseEvent, CloseWS
<1>8. ASSUME NEW s \in Sockets, RemoveClosed(s) PROVE Goal
  BY <1>8 DEF RemoveClosed, RemoveWSConnection
<1>9. ASSUME NEW m \in Messages, NEW s \in Sockets, NEW isAnswer \in BOOLEAN,
             ReceiveMessage(m, s, isAnswer)
      PROVE  Goal
  <2>1. CASE isAnswer
    BY <1>9, <2>1 DEF ReceiveMessage
  <2>2. CASE ~ isAnswer
    BY <1>9, <2>2 DEF ReceiveMessage, Acquire, Entry
  <2> QED BY <2>1, <2>2
<1>10. ASSUME NEW m \in Messages, Processing(m) PROVE Goal
  <2>1. CASE DropMessage(m)
    BY <2>1 DEF DropMessage, Release
  <2>2. CASE CheckWSConnection(m)
    BY <2>2 DEF CheckWSConnection
  <2>3. CASE PingExisting(m)
    BY <2>3 DEF PingExisting, PingFails, OneMoreFailure, RemoveWSConnection
  <2>4. CASE SetFromMessage(m)
    <3>1. CASE m \in had
      BY <2>4, <3>1 DEF SetFromMessage
    <3>2. CASE m \notin had
      <4>1. /\ Goto(m, "over") /\ Release(m) /\ on' = on /\ answers' = answers
            /\ victim' = victim /\ closed' = closed /\ stored' = stored /\ removing' = removing
        BY <2>4, <3>2 DEF SetFromMessage
      <4>2. (RemovedIsClosed /\ StoredIsOver)'
        BY <4>1
      <4>3. CASE m \in answers
        BY <4>1, <4>2, <4>3 DEF Release
      <4>4. CASE m \notin answers
        BY <4>1, <4>2, <4>4 DEF Release
      <4> QED BY <4>3, <4>4
    <3> QED BY <3>1, <3>2
  <2>5. CASE Deliver(m)
    BY <2>5 DEF Deliver
  <2> QED
    BY <1>10, <2>1, <2>2, <2>3, <2>4, <2>5 DEF Processing
<1>11. ASSUME NEW m \in Messages, Handled(m) PROVE Goal
  BY <1>11 DEF Handled, Release
<1>12. CASE Cleanup
  BY <1>12 DEF Cleanup, PingFails, OneMoreFailure, RemoveWSConnection
<1>13. CASE UNCHANGED vars
  BY <1>13 DEF vars
<1> QED
  BY <1>1, <1>2, <1>3, <1>4, <1>5, <1>6, <1>7, <1>8, <1>9, <1>10, <1>11, <1>12, <1>13
     DEF Next, Wait, Closing

-----------------------------------------------------------------------------
\* The inductive invariant holds in every reachable state.
LEMMA AlwaysInv == Spec => []Inv
<1>1. Inv /\ [Next]_vars => Inv'
  BY TypePreserved, SafetyPreserved DEF Inv
<1> QED
  BY InitInv, <1>1, PTL DEF Spec

(***************************************************************************)
(* The lock of runningWSRequestsMessages is never left behind: whenever it *)
(* is set, a task of onOpen or onMessage that deletes it in its finally is *)
(* at work, although any task may overwrite or delete the lock of another. *)
(***************************************************************************)
THEOREM LockIsNeverStuck == Spec => [](TypeOK /\ NoStuckLock)
<1>1. Inv => TypeOK /\ NoStuckLock
  BY DEF Inv, TypeInv
<1> QED
  BY AlwaysInv, <1>1, PTL

(***************************************************************************)
(* removeWSWrapper, called from close events, failed openings, duplicate   *)
(* connections and pings, only empties the cache of a closed socket.       *)
(***************************************************************************)
THEOREM CacheSafety == Spec => OnlyClosedRemoved
<1>1. ASSUME Inv, [Next]_vars, cache # None, cache' = None PROVE cache \in closed
  <2> USE <1>1, ServerAssumption
      DEF Inv, TypeInv, TypeOK, TasksAreTyped, RemovedIsClosed, StoredIsOver, Tasks,
          RemoveWSConnection
  <2>1. ASSUME NEW k \in Tasks, RemoveVictim(k) PROVE cache \in closed
    BY <2>1 DEF RemoveVictim
  <2>2. ASSUME NEW s \in Sockets, InitializeFails(s) PROVE cache \in closed
    BY <2>2 DEF InitializeFails
  <2>3. ASSUME NEW s \in Sockets, RemoveClosed(s) PROVE cache \in closed
    BY <2>3 DEF RemoveClosed
  <2>4. ASSUME NEW m \in Messages, PingExisting(m) PROVE cache \in closed
    BY <2>4 DEF PingExisting, PingFails
  <2>5. ASSUME NEW m \in Messages, SetFromMessage(m) PROVE cache \in closed
    BY <2>5 DEF SetFromMessage
  <2>6. CASE Cleanup
    BY <2>6 DEF Cleanup
  <2>7. ASSUME NEW s \in Sockets, SetOpened(s) PROVE cache \in closed
    BY <2>7 DEF SetOpened
  <2>8. ASSUME NEW k \in Tasks, Wait(k) \/ CloseVictim(k) PROVE cache' = cache
    BY <2>8 DEF Wait, WaitForWSLockToRelease, TakeLock, CloseVictim
  <2>9. ASSUME NEW s \in Sockets,
               \/ Open(s) \/ ClosedWhileInitializing(s) \/ CheckIdentical(s) \/ Attach(s)
               \/ CloseEvent(s)
        PROVE  cache' = cache
    BY <2>9 DEF Open, ClosedWhileInitializing, CheckIdentical, Attach, CloseEvent
  <2>10. ASSUME NEW m \in Messages, NEW s \in Sockets, NEW isAnswer \in BOOLEAN,
                ReceiveMessage(m, s, isAnswer)
         PROVE  cache' = cache
    BY <2>10 DEF ReceiveMessage
  <2>11. ASSUME NEW m \in Messages,
                DropMessage(m) \/ CheckWSConnection(m) \/ Deliver(m) \/ Handled(m)
         PROVE  cache' = cache
    BY <2>11 DEF DropMessage, CheckWSConnection, Deliver, Handled
  <2>12. CASE UNCHANGED vars
    BY <2>12 DEF vars
  <2> QED
    BY <2>1, <2>2, <2>3, <2>4, <2>5, <2>6, <2>7, <2>8, <2>9, <2>10, <2>11, <2>12
       DEF Next, Opening, Closing, Processing
<1>2. Inv /\ [Next]_vars => [cache # None /\ cache' = None => cache \in closed]_vars
  BY <1>1
<1> QED
  BY AlwaysInv, <1>2, PTL DEF Spec, OnlyClosedRemoved
=============================================================================
