--------------------------- MODULE JsonOCPPServer ---------------------------
(***************************************************************************)
(* The WebSocket server of the charging stations                           *)
(* (server/ocpp/json/JsonOCPPServer.ts), seen from one station: its        *)
(* sockets have the same URL and the same key in the cache of connections. *)
(*                                                                         *)
(* Every onOpen and onMessage is a task of its own.  A task runs until its *)
(* next await (logging is awaited too) and the tasks interleave there; the *)
(* per-URL `lock' of runningWSRequestsMessages is meant to keep requests   *)
(* and openings apart.  What a delivered message does is WSConnection and  *)
(* OCPPService.                                                            *)
(***************************************************************************)
EXTENDS Naturals

CONSTANTS
  Sockets,    \* the sockets the station opens, each with its own GUID
  Messages,   \* the messages the station sends
  MaxTrials,  \* maxNumberOfTrials of waitForWSLockToRelease
  MaxPings,   \* WS_MAX_NBR_OF_FAILED_PINGS
  None        \* no socket

ASSUME ServerAssumption ==
  /\ MaxTrials \in Nat \ {0}
  /\ MaxPings \in Nat \ {0}
  /\ None \notin Sockets
  /\ Sockets \cap Messages = {}

\* The task of onOpen is named by its socket, that of onMessage by its message.
Tasks == Sockets \cup Messages

VARIABLES
  pc,        \* where each task is
  on,        \* the socket of each message
  answers,   \* messages that are answers: the lock ignores them
  had,       \* messages that found a wsConnection on their socket
  victim,    \* the socket a task has pinged and is going to close
  trials,    \* numberOfTrials of each waiting task
  locked,    \* runningWSRequestsMessages[url]
  closed,    \* WSWrapper.closed
  stored,    \* sockets whose WSWrapper.wsConnection is set
  cache,     \* the socket jsonWSConnections refers to
  failed,    \* nbrPingFailed
  removing,  \* sockets whose close event is being logged
  forced     \* history: a task stopped waiting for the lock

vars == <<pc, on, answers, had, victim, trials, locked, closed, stored, cache,
          failed, removing, forced>>

message == <<on, answers, had>>
lock    == <<locked, trials, forced>>
wrapper == <<closed, stored, removing>>

Init ==
  /\ pc = [k \in Tasks |-> "new"]
  /\ on = [m \in Messages |-> None]
  /\ answers = {}
  /\ had = {}
  /\ victim = [k \in Tasks |-> None]
  /\ trials = [k \in Tasks |-> 0]
  /\ locked = FALSE
  /\ closed = {}
  /\ stored = {}
  /\ cache = None
  /\ failed = [s \in Sockets |-> 0]
  /\ removing = {}
  /\ forced = FALSE

Goto(k, to) == pc' = [pc EXCEPT ![k] = to]

-----------------------------------------------------------------------------
(* acquireLockForWSRequest and releaseLockForWSMessageRequest *)

\* The first step of a task that has the lock.
Entry(k) == IF k \in Sockets THEN "init" ELSE "check"

\* A task starts: it takes the lock, or waits for it.
Acquire(k) ==
  IF locked
  THEN Goto(k, "wait") /\ UNCHANGED lock
  ELSE Goto(k, Entry(k)) /\ locked' = TRUE /\ UNCHANGED <<trials, forced>>

\* The loop of waitForWSLockToRelease without a limit on the trials.
WaitForever(k) ==
  /\ pc[k] = "wait"
  /\ ~ locked
  /\ Goto(k, "granted")
  /\ UNCHANGED <<message, victim, lock, wrapper, cache, failed>>

(***************************************************************************)
(* The loop of waitForWSLockToRelease after a sleep: the lock is free, or  *)
(* there were too many trials.  Either way a log is awaited before the     *)
(* lock is taken.                                                          *)
(***************************************************************************)
WaitForWSLockToRelease(k) ==
  /\ pc[k] = "wait"
  /\ trials' = [trials EXCEPT ![k] = @ + 1]
  /\ Goto(k, IF ~ locked \/ trials[k] + 1 >= MaxTrials THEN "granted" ELSE "wait")
  /\ forced' = (forced \/ (locked /\ trials[k] + 1 >= MaxTrials))
  /\ UNCHANGED <<message, victim, locked, wrapper, cache, failed>>

\* acquireLockForWSRequest goes on: the lock is set, whoever has it.
TakeLock(k) ==
  /\ pc[k] = "granted"
  /\ locked' = TRUE
  /\ trials' = [trials EXCEPT ![k] = 0]
  /\ Goto(k, Entry(k))
  /\ UNCHANGED <<message, victim, forced, wrapper, cache, failed>>

\* The finally of onOpen and onMessage: the flag is deleted, whoever set it.
Release(k) ==
  /\ locked' = IF k \in answers THEN locked ELSE FALSE
  /\ UNCHANGED <<trials, forced>>

-----------------------------------------------------------------------------
(* The cache of connections *)

\* removeWSConnection by key, without the comparison of the GUIDs.
RemoveAny(s) == IF s \in stored THEN None ELSE cache

\* removeWSWrapper: the cache after the removal of the connection of s.
RemoveWSConnection(s) == IF s \in stored /\ cache = s THEN None ELSE cache

\* closeWebSocket up to its log; ws.end makes the close event follow.
CloseWS(s) ==
  /\ closed' = closed \cup {s}
  /\ removing' = IF s \in closed THEN removing ELSE removing \cup {s}

\* nbrPingFailed is only compared with its limit, and stops there.
OneMoreFailure(s) ==
  failed' = [failed EXCEPT ![s] = IF @ < MaxPings THEN @ + 1 ELSE @]

\* pingWebSocket that leaves the closing to the close event.
PingOnly(s) ==
  /\ OneMoreFailure(s)
  /\ UNCHANGED cache

\* pingWebSocket fails exactly on a closed socket; the last failure closes it
\* and removes it from the cache.
PingFails(s) ==
  /\ OneMoreFailure(s)
  /\ cache' = IF failed[s] + 1 >= MaxPings THEN RemoveWSConnection(s) ELSE cache

-----------------------------------------------------------------------------
(* onOpen *)

Open(s) ==
  /\ pc[s] = "new"
  /\ Acquire(s)
  /\ UNCHANGED <<message, victim, wrapper, cache, failed>>

\* initialize rejects the tenant, the token or the station: the exception
\* closes the socket.
InitializeFails(s) ==
  /\ pc[s] = "init"
  /\ Goto(s, "over")
  /\ CloseWS(s)
  /\ cache' = RemoveWSConnection(s)
  /\ Release(s)
  /\ UNCHANGED <<message, victim, stored, failed>>

\* A failed initialization that leaves without the finally.
InitializeKeepsLock(s) ==
  /\ pc[s] = "init"
  /\ s \in closed
  /\ Goto(s, "over")
  /\ UNCHANGED <<message, victim, lock, wrapper, cache, failed>>

\* The socket was closed during initialize: nothing is stored.
ClosedWhileInitializing(s) ==
  /\ pc[s] = "init"
  /\ s \in closed
  /\ Goto(s, "over")
  /\ Release(s)
  /\ UNCHANGED <<message, victim, wrapper, cache, failed>>

\* initialize ends, `closed' is tested, and checkAndCloseIdenticalOpenedWSConnection
\* pings the connection it finds.
CheckIdentical(s) ==
  /\ pc[s] = "init"
  /\ s \notin closed
  /\ IF cache # None /\ cache \notin closed
     THEN /\ Goto(s, "close")
          /\ victim' = [victim EXCEPT ![s] = cache]
          /\ failed' = [failed EXCEPT ![cache] = 0]
     ELSE Goto(s, "set") /\ UNCHANGED <<victim, failed>>
  /\ UNCHANGED <<message, lock, wrapper, cache>>

\* closeWebSocket of the connection that is replaced, up to its log ...
CloseVictim(k) ==
  /\ pc[k] = "close"
  /\ CloseWS(victim[k])
  /\ Goto(k, "remove")
  /\ UNCHANGED <<message, victim, lock, stored, cache, failed>>

\* ... and after it.
RemoveVictim(k) ==
  /\ pc[k] = "remove"
  /\ cache' = RemoveWSConnection(victim[k])
  /\ victim' = [victim EXCEPT ![k] = None]
  /\ Goto(k, "set")
  /\ UNCHANGED <<message, lock, wrapper, failed>>

\* setWSConnection, after more logs and without another look at `closed' ...
SetOpened(s) ==
  /\ pc[s] = "set"
  /\ cache' = s
  /\ Goto(s, "attach")
  /\ UNCHANGED <<message, victim, lock, wrapper, failed>>

\* ... and after its own log: wsWrapper.wsConnection is set last.
Attach(s) ==
  /\ pc[s] = "attach"
  /\ stored' = stored \cup {s}
  /\ Goto(s, "over")
  /\ Release(s)
  /\ UNCHANGED <<message, victim, closed, removing, cache, failed>>

-----------------------------------------------------------------------------
(* onMessage *)

\* A request waits for the lock, an answer does not.
ReceiveMessage(m, s, isAnswer) ==
  /\ pc[m] = "new"
  /\ pc[s] # "new" /\ s \notin closed
  /\ on' = [on EXCEPT ![m] = s]
  /\ IF isAnswer
     THEN /\ answers' = answers \cup {m}
          /\ Goto(m, "check")
          /\ UNCHANGED lock
     ELSE Acquire(m) /\ UNCHANGED answers
  /\ UNCHANGED <<had, victim, wrapper, cache, failed>>

\* A message can be handed over if its socket has a connection and, for a
\* request, is not closed.
Deliverable(m) == on[m] \in stored /\ (m \in answers \/ on[m] \notin closed)

\* The message is dropped: its socket is closed or has no connection yet.
DropMessage(m) ==
  /\ \/ pc[m] = "check" /\ on[m] \in closed
     \/ pc[m] = "deliver" /\ ~ Deliverable(m)
  /\ Goto(m, "over")
  /\ Release(m)
  /\ UNCHANGED <<message, victim, wrapper, cache, failed>>

\* wsWrapper.key is known once initialize has ended.
HasKey(s) == pc[s] \notin {"new", "wait", "granted", "init"}

(***************************************************************************)
(* checkWSConnectionFromOnMessage compares its socket with the cache: the  *)
(* same one, none (it is added again), or another one (that is pinged).    *)
(***************************************************************************)
CheckWSConnection(m) ==
  LET found == IF HasKey(on[m]) THEN cache ELSE None
      other == found \notin {None, on[m]}
  IN
  /\ pc[m] = "check"
  /\ on[m] \notin closed
  /\ had' = IF on[m] \in stored THEN had \cup {m} ELSE had
  /\ Goto(m, IF other THEN "ping" ELSE IF found = None THEN "set" ELSE "deliver")
  /\ victim' = [victim EXCEPT ![m] = IF other THEN found ELSE None]
  /\ UNCHANGED <<on, answers, lock, wrapper, cache, failed>>

\* The other connection answers the ping and will be closed, or it does not.
PingExisting(m) ==
  /\ pc[m] = "ping"
  /\ IF victim[m] \in closed
     THEN /\ Goto(m, "set")
          /\ PingFails(victim[m])
          /\ victim' = [victim EXCEPT ![m] = None]
     ELSE /\ Goto(m, "close")
          /\ failed' = [failed EXCEPT ![victim[m]] = 0]
          /\ UNCHANGED <<cache, victim>>
  /\ UNCHANGED <<message, lock, wrapper>>

\* setWSConnection from onMessage; without a wsConnection it throws.
SetFromMessage(m) ==
  /\ pc[m] = "set"
  /\ IF m \in had
     THEN Goto(m, "deliver") /\ cache' = on[m] /\ UNCHANGED lock
     ELSE Goto(m, "over") /\ Release(m) /\ UNCHANGED cache
  /\ UNCHANGED <<message, victim, wrapper, failed>>

\* receivedMessage is awaited; a request is not handed over on a closed socket.
Deliver(m) ==
  /\ pc[m] = "deliver"
  /\ Deliverable(m)
  /\ Goto(m, "handling")
  /\ UNCHANGED <<message, victim, lock, wrapper, cache, failed>>

Handled(m) ==
  /\ pc[m] = "handling"
  /\ Goto(m, "over")
  /\ Release(m)
  /\ UNCHANGED <<message, victim, wrapper, cache, failed>>

-----------------------------------------------------------------------------
(* The close event, and the job that pings the connections *)

\* The station, the network or the idle timeout closes a socket.
CloseEvent(s) ==
  /\ pc[s] # "new" /\ s \notin closed
  /\ CloseWS(s)
  /\ UNCHANGED <<pc, message, victim, lock, stored, cache, failed>>

\* The rest of the close event, after its log.
RemoveClosed(s) ==
  /\ s \in removing
  /\ removing' = removing \ {s}
  /\ cache' = RemoveWSConnection(s)
  /\ UNCHANGED <<pc, message, victim, lock, closed, stored, failed>>

\* checkAndCleanupWebSockets: the cached connection is pinged.
Cleanup ==
  /\ cache # None
  /\ IF cache \in closed
     THEN PingFails(cache)
     ELSE failed' = [failed EXCEPT ![cache] = 0] /\ UNCHANGED cache
  /\ UNCHANGED <<pc, message, victim, lock, wrapper>>

-----------------------------------------------------------------------------
Wait(k) == WaitForWSLockToRelease(k) \/ TakeLock(k)

Opening(s) ==
  \/ InitializeFails(s) \/ ClosedWhileInitializing(s) \/ CheckIdentical(s)
  \/ SetOpened(s) \/ Attach(s)

Closing(k) == CloseVictim(k) \/ RemoveVictim(k)

Processing(m) ==
  \/ DropMessage(m) \/ CheckWSConnection(m) \/ PingExisting(m) \/ SetFromMessage(m)
  \/ Deliver(m)

Next ==
  \/ \E k \in Tasks : Wait(k) \/ Closing(k)
  \/ \E s \in Sockets : Open(s) \/ Opening(s) \/ CloseEvent(s) \/ RemoveClosed(s)
  \/ \E m \in Messages, s \in Sockets, isAnswer \in BOOLEAN : ReceiveMessage(m, s, isAnswer)
  \/ \E m \in Messages : Processing(m) \/ Handled(m)
  \/ Cleanup

(***************************************************************************)
(* Sleeps and logs end, initialize answers and the ping job is repeated.   *)
(* Nothing is assumed of Handled: a handler may call a service that hangs. *)
(***************************************************************************)
Fairness ==
  /\ WF_vars(Cleanup)
  /\ \A k \in Tasks : WF_vars(Wait(k)) /\ WF_vars(Closing(k))
  /\ \A s \in Sockets : WF_vars(Opening(s)) /\ WF_vars(RemoveClosed(s))
  /\ \A m \in Messages : WF_vars(Processing(m))

Spec == Init /\ [][Next]_vars /\ Fairness

-----------------------------------------------------------------------------
(* Properties. *)

TypeOK ==
  /\ pc \in [Tasks -> {"new", "wait", "granted", "init", "check", "ping", "close", "remove",
                       "set", "attach", "deliver", "handling", "over"}]
  /\ on \in [Messages -> Sockets \cup {None}]
  /\ answers \in SUBSET Messages
  /\ had \in SUBSET Messages
  /\ victim \in [Tasks -> Sockets \cup {None}]
  /\ trials \in [Tasks -> 0 .. MaxTrials]
  /\ locked \in BOOLEAN
  /\ closed \in SUBSET Sockets
  /\ stored \in SUBSET Sockets
  /\ cache \in Sockets \cup {None}
  /\ failed \in [Sockets -> 0 .. MaxPings]
  /\ removing \in SUBSET Sockets
  /\ forced \in BOOLEAN

\* Tasks between the taking and the release of the lock.
Inside ==
  {k \in Tasks \ answers : pc[k] \notin {"new", "wait", "granted", "over"}}

(***************************************************************************)
(* The lock is never left behind: when it is set, a task that will delete  *)
(* it is at work, on every path through errors and closed sockets.         *)
(***************************************************************************)
NoStuckLock == locked => Inside # {}

(***************************************************************************)
(* A connection leaves the cache only after its own socket was closed: the *)
(* late close event of an old socket does not disconnect the new one.      *)
(***************************************************************************)
OnlyClosedRemoved ==
  [][cache # None /\ cache' = None => cache \in closed]_vars

\* A closed connection does not stay in the cache: the close event or the
\* ping job removes it.
ClosedLeavesCache ==
  \A s \in Sockets : cache = s /\ s \in closed ~> cache # s

\* Nobody waits for the lock for ever, even if a handler never ends.
WaitersProceed == \A k \in Tasks : pc[k] = "wait" ~> pc[k] # "wait"

-----------------------------------------------------------------------------
(* What comments of the code say, and the code does not do. *)

(***************************************************************************)
(* `Lock incoming WS messages': unless the lock had to be forced, the      *)
(* requests of a station are handled one at a time.                        *)
(***************************************************************************)
OneRequestAtATime ==
  ~ forced =>
    \A m, n \in Messages \ answers : pc[m] = "handling" /\ pc[n] = "handling" => m = n
=============================================================================
