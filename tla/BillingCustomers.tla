-------------------------- MODULE BillingCustomers --------------------------
(***************************************************************************)
(* One user as a customer of Stripe and the cards of that customer         *)
(* (StripeBillingIntegration, BillingService, UserService).                *)
(*                                                                         *)
(* Workers are REST requests; they interleave between their calls and take *)
(* no common lock (only a forced synchronization takes one, which the      *)
(* others do not).  Each works on the user it read at first, and           *)
(* customers.create has no idempotency key.                                *)
(***************************************************************************)
EXTENDS Naturals

CONSTANTS
  Workers,       \* REST requests that run at the same time
  Cards,         \* payment methods of the user
  MaxCustomers,  \* bound: customers Stripe creates
  MaxRequests,   \* bound: requests
  None

Customers == 1 .. MaxCustomers

VARIABLES
  user,       \* users: billingData.customerID, None without
  gone,       \* the user is deleted
  customers,  \* Stripe: the live customers created for the user
  created,    \* Stripe: number of customers created
  default,    \* Stripe: default payment method of a customer
  attachedTo, \* Stripe: the customer a card is attached to
  work,       \* the requests
  requests,   \* how many requests started
  saved,      \* history: a setup of a card succeeded
  raced       \* history: a request created a customer although the user had one by then,
              \* or a card was made default, or a customer deleted, behind its back

vars == <<user, gone, customers, created, default, attachedTo, work, requests, saved, raced>>

stripe == <<customers, created, default, attachedTo>>

Idle == [pc |-> "idle", op |-> "none"]

Init ==
  /\ user = None /\ gone = FALSE
  /\ customers = {} /\ created = 0
  /\ default = [c \in Customers |-> None]
  /\ attachedTo = [k \in Cards |-> None]
  /\ work = [w \in Workers |-> Idle]
  /\ requests = 0
  /\ saved = FALSE /\ raced = FALSE

Become(w, state) == work' = [work EXCEPT ![w] = state]

Exists(c) == c # None /\ c \in customers

-----------------------------------------------------------------------------
\* A request reads the user; card None asks for a setup intent only.
Begin(w, state) ==
  /\ work[w] = Idle /\ requests < MaxRequests /\ ~gone
  /\ requests' = requests + 1
  /\ Become(w, state)
  /\ UNCHANGED <<user, gone, stripe, saved, raced>>

\* handleBillingSetupPaymentMethod, setupPaymentMethod
SetupPaymentMethod(w, card) ==
  Begin(w, [pc |-> IF user = None THEN "sync" ELSE "attach",
            op |-> "setup", card |-> card, read |-> user, customer |-> user])

\* handleCreateUser, handleUpdateUser: syncUserAndUpdateBillingData
SyncUserAndUpdateBillingData(w) ==
  Begin(w, [pc |-> "sync", op |-> "update", card |-> None, read |-> user, customer |-> user])

\* handleForceSynchronizeUser: one at a time (acquireBillingSyncUsersLock).
ForceSynchronizeUser(w) ==
  /\ \A v \in Workers : work[v].op # "force"
  /\ Begin(w, [pc |-> "force", op |-> "force", card |-> None, read |-> user, customer |-> user])

\* handleBillingDeletePaymentMethod: a user without a customer is refused.
DeletePaymentMethod(w, card) ==
  /\ user # None
  /\ Begin(w, [pc |-> "checkDefault", op |-> "delete", card |-> card, read |-> user, customer |-> user])

\* handleDeleteUser: the customer of Stripe is kept
\* (BILLING_PREVENT_CUSTOMER_DELETION).
DeleteUser ==
  /\ ~gone
  /\ gone' = TRUE /\ user' = None
  /\ UNCHANGED <<stripe, work, requests, saved, raced>>

\* Somebody deletes the customer in the dashboard of Stripe.
CustomerDeleted ==
  /\ Exists(user)
  /\ customers' = customers \ {user}
  /\ default' = [default EXCEPT ![user] = None]
  /\ attachedTo' = [k \in Cards |-> IF attachedTo[k] = user THEN None ELSE attachedTo[k]]
  /\ saved' = FALSE
  /\ raced' = (raced \/ \E w \in Workers : work[w] # Idle)
  /\ UNCHANGED <<user, gone, created, work, requests>>

-----------------------------------------------------------------------------
workRest == <<default, attachedTo, requests, saved>>

\* updateUser on the user that was given: without a customer it throws, and
\* synchronizeUser answers null: a setup then ends with an error, an update
\* of the user does not mind.
UpdateUser(w) ==
  IF work[w].read = None \/ ~Exists(work[w].read) \/ work[w].op # "setup" THEN Become(w, Idle)
  ELSE Become(w, [work[w] EXCEPT !.pc = "attach", !.customer = work[w].read])

\* createBillingUser, first part: customers.create.  It throws when the user
\* that was given has a customer, unless forced.
CreateCustomer(w) ==
  /\ created < MaxCustomers
  /\ created' = created + 1
  /\ customers' = customers \cup {created + 1}
  /\ Become(w, [work[w] EXCEPT !.pc = "saveCustomer", !.customer = created + 1])

\* _synchronizeUser: isUserSynchronized reads the user again.
SynchronizeUser(w) ==
  /\ work[w].pc = "sync"
  /\ \/ /\ user # None
        /\ UpdateUser(w)
        /\ UNCHANGED <<customers, created>>
     \/ /\ user = None /\ work[w].read = None
        /\ CreateCustomer(w)
     \/ /\ user = None /\ work[w].read # None
        /\ Become(w, Idle)
        /\ UNCHANGED <<customers, created>>
  /\ UNCHANGED <<user, gone, raced, workRest>>

\* _synchronizeUser in force mode: getUser reads the user again when it was
\* given none; a customer Stripe does not know is repaired by a new one.
ForceSync(w) ==
  LET c == IF work[w].read = None THEN user ELSE work[w].read IN
  /\ work[w].pc = "force"
  /\ \/ /\ Exists(c)
        /\ Become(w, Idle)
        /\ UNCHANGED <<customers, created>>
     \/ /\ ~Exists(c)
        /\ CreateCustomer(w)
  /\ UNCHANGED <<user, gone, raced, workRest>>

\* createBillingUser, second part: saveUserBillingData.  A user that has
\* been deleted meanwhile is not found by findOneAndUpdate.
SaveUserBillingData(w) ==
  /\ work[w].pc = "saveCustomer"
  /\ user' = IF gone THEN user ELSE work[w].customer
  /\ raced' = (raced \/ user # work[w].read \/ gone)
  /\ Become(w, IF work[w].op = "setup" THEN [work[w] EXCEPT !.pc = "attach"] ELSE Idle)
  /\ UNCHANGED <<gone, stripe, requests, saved>>

\* attachPaymentMethod, first call; a setup intent ends here.
AttachPaymentMethod(w) ==
  /\ work[w].pc = "attach"
  /\ LET k == work[w].card
         c == work[w].customer
         attached == k # None /\ Exists(c) /\ attachedTo[k] \in {None, c}
     IN  /\ attachedTo' = IF attached THEN [attachedTo EXCEPT ![k] = c] ELSE attachedTo
         /\ Become(w, IF attached THEN [work[w] EXCEPT !.pc = "default"] ELSE Idle)
  /\ UNCHANGED <<user, gone, customers, created, default, requests, saved, raced>>

\* attachPaymentMethod, last call: the new card becomes the default one.  A
\* card that is not attached to the customer is refused.
SetDefault(w) ==
  /\ work[w].pc = "default"
  /\ LET k == work[w].card
         c == work[w].customer
         accepted == Exists(c) /\ attachedTo[k] = c
         behind == \E v \in Workers : work[v].pc = "detach" /\ work[v].card = k
     IN  /\ default' = IF accepted THEN [default EXCEPT ![c] = k] ELSE default
         /\ saved' = (saved \/ accepted)
         /\ raced' = (raced \/ behind)
  /\ Become(w, Idle)
  /\ UNCHANGED <<user, gone, customers, created, attachedTo, requests>>

\* detachStripePaymentMethod without its check.
CheckNothing(w) ==
  /\ work[w].pc = "checkDefault"
  /\ Become(w, [work[w] EXCEPT !.pc = "detach"])
  /\ UNCHANGED <<user, gone, stripe, requests, saved, raced>>

\* detachStripePaymentMethod: the default card of the customer is kept.
CheckDefault(w) ==
  /\ work[w].pc = "checkDefault"
  /\ Become(w, IF Exists(work[w].customer) /\ default[work[w].customer] # work[w].card
               THEN [work[w] EXCEPT !.pc = "detach"] ELSE Idle)
  /\ UNCHANGED <<user, gone, stripe, requests, saved, raced>>

\* Stripe forgets a default card that is detached.
DetachPaymentMethod(w) ==
  /\ work[w].pc = "detach"
  /\ LET k == work[w].card IN
     /\ attachedTo' = [attachedTo EXCEPT ![k] = None]
     /\ default' = [c \in Customers |-> IF default[c] = k THEN None ELSE default[c]]
  /\ Become(w, Idle)
  /\ UNCHANGED <<user, gone, customers, created, requests, saved, raced>>

\* A call of Stripe fails or the server stops: the request ends there.
RequestFails(w) ==
  /\ work[w] # Idle
  /\ Become(w, Idle)
  /\ raced' = (raced \/ work[w].pc = "saveCustomer")
  /\ UNCHANGED <<user, gone, stripe, requests, saved>>

Next ==
  \/ DeleteUser \/ CustomerDeleted
  \/ \E w \in Workers :
       \/ \E card \in Cards \cup {None} : SetupPaymentMethod(w, card)
       \/ \E card \in Cards : DeletePaymentMethod(w, card)
       \/ SyncUserAndUpdateBillingData(w) \/ ForceSynchronizeUser(w)
       \/ SynchronizeUser(w) \/ ForceSync(w) \/ SaveUserBillingData(w)
       \/ AttachPaymentMethod(w) \/ SetDefault(w)
       \/ CheckDefault(w) \/ DetachPaymentMethod(w) \/ RequestFails(w)

Spec == Init /\ [][Next]_vars

-----------------------------------------------------------------------------
\* What a request holds between its calls: the user as it was read and the
\* customer it works on.
Work ==
  {Idle} \cup
  [pc : {"sync", "force", "saveCustomer", "attach", "default", "checkDefault", "detach"},
   op : {"setup", "update", "force", "delete"}, card : Cards \cup {None},
   read : Customers \cup {None}, customer : Customers \cup {None}]

TypeOK ==
  /\ user \in Customers \cup {None}
  /\ created \in Nat /\ created <= MaxCustomers
  /\ customers \subseteq 1 .. created
  /\ default \in [Customers -> Cards \cup {None}]
  /\ attachedTo \in [Cards -> Customers \cup {None}]
  /\ work \in [Workers -> Work]
  /\ gone \in BOOLEAN /\ saved \in BOOLEAN /\ raced \in BOOLEAN

\* Stripe has no second live customer for the user, unless two requests
\* synchronized the user at the same time or one stopped before it saved the
\* new customer (createBillingUser).
OneCustomer ==
  (\A c, d \in customers : c = d) \/ raced \/ \E w \in Workers : work[w].pc = "saveCustomer"

\* Once the setup of a card has succeeded, the customer the user refers to
\* has a default card: the next session can be paid
\* (precheckStartTransactionPrerequisites), whatever cards are deleted and
\* customers repaired, unless requests raced.
PaymentMethodStays ==
  saved /\ ~gone /\ ~raced => Exists(user) /\ default[user] # None

\* The user has one customer, which can pay once a card was set up.
CustomerCanPay == TypeOK /\ OneCustomer /\ PaymentMethodStays

=============================================================================
