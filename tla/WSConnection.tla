---------------------------- MODULE WSConnection ----------------------------
(***************************************************************************)
(* One OCPP-J connection (server/ocpp/json/web-socket/WSConnection.ts):    *)
(* the requests the server sends to its peer and the requests it answers.  *)
(*                                                                         *)
(* Both directions share the Record `ocppRequests', indexed by message ID. *)
(* The server draws the IDs of its own requests (CallIDs, UUIDs); the peer *)
(* chooses the IDs of the ones it sends (PeerIDs).  Nothing in the code    *)
(* keeps the two apart, so the module does not either: theorems and        *)
(* invariants say where they need it.                                      *)
(*                                                                         *)
(* The executor of sendMessage, and the part of receivedMessage around its *)
(* callbacks, contain no await: each is one action.                        *)
(***************************************************************************)
EXTENDS Naturals

CONSTANTS
  CallIDs,        \* message IDs of the requests sent by the server
  PeerIDs,        \* message IDs of the requests sent by the peer
  MaxReceived     \* bound: how often the peer uses one message ID

ASSUME MaxReceivedAssumption == MaxReceived \in Nat

VARIABLES
  promise,        \* state of the promise sendMessage returned for each call
  ocppRequests,   \* IDs with an entry [responseCallback, rejectCallback, ..]
  requestTimeout, \* calls whose setTimeout is armed
  wsClosed,       \* WSWrapper.closed
  handling,       \* peer requests whose handleRequest is being awaited
  received,       \* how many requests arrived, per message ID
  results,        \* how many of them were answered by sendResponse
  errors          \* how many of them were answered by sendError

wsVars == <<promise, ocppRequests, requestTimeout, wsClosed, handling, received,
            results, errors>>

callVars == <<promise, ocppRequests, requestTimeout>>
peerVars == <<handling, received, results, errors>>

Settled == {"resolved", "rejected"}

WSTypeOK ==
  /\ promise \in [CallIDs -> {"unsent", "pending"} \cup Settled]
  /\ ocppRequests \in SUBSET CallIDs
  /\ requestTimeout \in SUBSET CallIDs
  /\ wsClosed \in BOOLEAN
  /\ handling \in [PeerIDs -> Nat]
  /\ received \in [PeerIDs -> Nat]
  /\ results \in [PeerIDs -> Nat]
  /\ errors \in [PeerIDs -> Nat]

WSInit ==
  /\ promise = [c \in CallIDs |-> "unsent"]
  /\ ocppRequests = {}
  /\ requestTimeout = {}
  /\ wsClosed = FALSE
  /\ handling = [m \in PeerIDs |-> 0]
  /\ received = [m \in PeerIDs |-> 0]
  /\ results = [m \in PeerIDs |-> 0]
  /\ errors = [m \in PeerIDs |-> 0]

-----------------------------------------------------------------------------
(* Requests of the server. *)

\* sendMessage whose executor throws when the socket is closed, after the
\* entry is stored and before the timer is armed.
SendCallNoTimer(c) ==
  /\ promise[c] = "unsent"
  /\ promise' = [promise EXCEPT ![c] = "pending"]
  /\ ocppRequests' = ocppRequests \cup {c}
  /\ requestTimeout' = IF wsClosed THEN requestTimeout ELSE requestTimeout \cup {c}
  /\ UNCHANGED <<wsClosed, peerVars>>

\* sendMessage that replaces the Record of a connection used again.
SendCallForgets(c) ==
  /\ promise[c] = "unsent"
  /\ promise' = [promise EXCEPT ![c] = "pending"]
  /\ ocppRequests' = {c}
  /\ requestTimeout' = requestTimeout \cup {c}
  /\ UNCHANGED <<wsClosed, peerVars>>

(***************************************************************************)
(* sendMessage with CALL_MESSAGE.  The entry is stored before the send and *)
(* the timer is armed after it; a send that fails or throws (closed        *)
(* socket, back pressure) is only logged, so `wsClosed' is no guard.       *)
(***************************************************************************)
SendCall(c) ==
  /\ promise[c] = "unsent"
  /\ promise' = [promise EXCEPT ![c] = "pending"]
  /\ ocppRequests' = ocppRequests \cup {c}
  /\ requestTimeout' = requestTimeout \cup {c}
  /\ UNCHANGED <<wsClosed, peerVars>>

(***************************************************************************)
(* responseCallback / rejectCallback: the first of them clears the timer,  *)
(* deletes the entry and settles the promise; `messageProcessed' makes the *)
(* others return at once.                                                  *)
(***************************************************************************)
Callback(c, outcome) ==
  IF promise[c] = "pending"
  THEN /\ promise' = [promise EXCEPT ![c] = outcome]
       /\ ocppRequests' = ocppRequests \ {c}
       /\ requestTimeout' = requestTimeout \ {c}
  ELSE UNCHANGED callVars

\* receivedMessage that settles a request it does not know (any more).
ReceiveLateAnswer(c, outcome) ==
  /\ promise[c] # "unsent"
  /\ promise' = [promise EXCEPT ![c] = outcome]
  /\ ocppRequests' = ocppRequests \ {c}
  /\ requestTimeout' = requestTimeout \ {c}
  /\ UNCHANGED <<wsClosed, peerVars>>

(***************************************************************************)
(* receivedMessage with CALL_RESULT_MESSAGE or CALL_ERROR_MESSAGE.  The    *)
(* peer may answer late, twice, or with an ID that is not (any more) in    *)
(* ocppRequests: `Unknown OCPP Request' is logged and nothing changes.     *)
(* onMessage tests that the socket is open and may then await a log: an    *)
(* answer that passed the test is handed over even if the socket closes.   *)
(***************************************************************************)
ReceiveAnswer(c, outcome) ==
  /\ promise[c] # "unsent"
  /\ IF c \in ocppRequests THEN Callback(c, outcome) ELSE UNCHANGED callVars
  /\ UNCHANGED <<wsClosed, peerVars>>

ReceiveCallResult(c) == ReceiveAnswer(c, "resolved")
ReceiveCallError(c)  == ReceiveAnswer(c, "rejected")

\* The timer of a request fires: rejectCallback('Timeout after ...').
Timeout(c) ==
  /\ c \in requestTimeout
  /\ Callback(c, "rejected")
  /\ UNCHANGED <<wsClosed, peerVars>>

-----------------------------------------------------------------------------
(* Requests of the peer. *)

\* receivedMessage with CALL_MESSAGE, up to the await of handleRequest;
\* onMessage drops a request of a socket that is already closed.
ReceiveCall(m) ==
  /\ ~wsClosed
  /\ received[m] < MaxReceived
  /\ received' = [received EXCEPT ![m] = @ + 1]
  /\ handling' = [handling EXCEPT ![m] = @ + 1]
  /\ UNCHANGED <<wsClosed, results, errors, callVars>>

(***************************************************************************)
(* sendMessage with CALL_RESULT_MESSAGE or CALL_ERROR_MESSAGE: the message *)
(* is sent and its own responseCallback runs, whose delete of              *)
(* ocppRequests[messageID] is keyed by the peer's ID.                      *)
(***************************************************************************)
SendReply(m) ==
  /\ ocppRequests' = ocppRequests \ {m}
  /\ UNCHANGED <<promise, requestTimeout>>

\* sendResponse inside the try, whose failed send is answered by sendError.
ReturnsThenThrows(m) ==
  /\ handling[m] > 0
  /\ handling' = [handling EXCEPT ![m] = @ - 1]
  /\ results' = [results EXCEPT ![m] = @ + 1]
  /\ errors' = IF wsClosed THEN [errors EXCEPT ![m] = @ + 1] ELSE errors
  /\ SendReply(m)
  /\ UNCHANGED <<wsClosed, received>>

\* handleRequest returned: sendResponse is outside the inner try, so no
\* sendError can follow it.
HandleRequestReturns(m) ==
  /\ handling[m] > 0
  /\ handling' = [handling EXCEPT ![m] = @ - 1]
  /\ results' = [results EXCEPT ![m] = @ + 1]
  /\ SendReply(m)
  /\ UNCHANGED <<wsClosed, received, errors>>

\* handleRequest threw: sendError, then the error is rethrown and logged.
HandleRequestThrows(m) ==
  /\ handling[m] > 0
  /\ handling' = [handling EXCEPT ![m] = @ - 1]
  /\ errors' = [errors EXCEPT ![m] = @ + 1]
  /\ SendReply(m)
  /\ UNCHANGED <<wsClosed, received, results>>

\* WSWrapper.close, or the close event of the socket: pending requests are
\* left to their timers.
Close ==
  /\ ~wsClosed
  /\ wsClosed' = TRUE
  /\ UNCHANGED <<callVars, peerVars>>

-----------------------------------------------------------------------------
CallStep(c) ==
  SendCall(c) \/ ReceiveCallResult(c) \/ ReceiveCallError(c) \/ Timeout(c)

PeerStep(m) ==
  ReceiveCall(m) \/ HandleRequestReturns(m) \/ HandleRequestThrows(m)

WSNext ==
  \/ \E c \in CallIDs : CallStep(c)
  \/ \E m \in PeerIDs : PeerStep(m)
  \/ Close

(***************************************************************************)
(* setTimeout fires, and an awaited handler ends: the only fairness.       *)
(* Nobody promises that the peer answers.                                  *)
(***************************************************************************)
WSFairness ==
  /\ \A c \in CallIDs : WF_wsVars(Timeout(c))
  /\ \A m \in PeerIDs : WF_wsVars(HandleRequestReturns(m) \/ HandleRequestThrows(m))

WSSpec == WSInit /\ [][WSNext]_wsVars /\ WSFairness

-----------------------------------------------------------------------------
(* Properties. *)

(***************************************************************************)
(* No request is stranded: a promise that is still pending has a timer     *)
(* that will end it, and no timer outlives its promise.  It holds whatever *)
(* IDs the peer uses.                                                      *)
(***************************************************************************)
PendingIffTimer == \A c \in CallIDs : promise[c] = "pending" <=> c \in requestTimeout

(***************************************************************************)
(* ocppRequests does not leak: an entry belongs to a pending promise, so   *)
(* a late answer finds nothing to settle a second time.                    *)
(***************************************************************************)
NoLeak == \A c \in ocppRequests : promise[c] = "pending"

(***************************************************************************)
(* The answer of a pending request can reach its caller, unless the peer   *)
(* has sent a request with the same message ID (which deletes the entry).  *)
(***************************************************************************)
PendingIsReachable ==
  \A c \in CallIDs \ PeerIDs : promise[c] = "pending" => c \in ocppRequests

\* Every request of the peer is answered exactly once: never both with a
\* result and with an error, and unanswered only while it is handled.
AnsweredOnce ==
  \A m \in PeerIDs : received[m] = handling[m] + results[m] + errors[m]

\* The four together: the inductive invariant of the connection.
Safety == PendingIffTimer /\ NoLeak /\ PendingIsReachable /\ AnsweredOnce

\* The abstract service, seen by the callers of sendMessage.
RR == INSTANCE RequestReply WITH Requests <- CallIDs, outcome <- promise

(***************************************************************************)
(* sendMessage keeps the promise it makes its callers: one outcome, never  *)
(* changed by a late or repeated answer, and always an outcome in the end, *)
(* even when the socket is closed or the peer stays silent.                *)
(***************************************************************************)
RefinesRequestReply == RR!RRSpec
=============================================================================
