---------------------------- MODULE Notifications ----------------------------
(***************************************************************************)
(* The notifications to users and administrators.  NotificationHandler     *)
(* asks, channel by channel, whether the notification was already sent,    *)
(* saves it and sends it; NotificationHelper, which took over the          *)
(* notifications of a session, asks once for all channels and keeps its    *)
(* own records, which the database deletes after a day.  Callers do not    *)
(* wait for a notification, so several run at the same time.               *)
(***************************************************************************)
EXTENDS Naturals, Sequences, FiniteSets

CONSTANTS Notifiers,         \* calls that run in a behaviour
          Abouts,            \* users, stations and sessions notified about
          Admins,            \* administrators of the tenant
          Interval,          \* how long a notification counts, in ticks
          Day,               \* how long a record of the helper is kept
          MaxClock           \* bound on the time

ASSUME PeriodsAssumption == Interval \in Nat /\ Day \in Nat

VARIABLES clock,
          topic,             \* the action the calls of a behaviour share
          wants,             \* users who switched the notifications on
          saved,             \* the collection notifications
          raw,               \* the collection rawnotifications
          calls,             \* the calls of NotificationHandler and NotificationHelper
          up,                \* the services that accept messages
          sent,              \* what these services accepted
          overlaps           \* pairs of calls that ran at the same time

nVars == <<clock, topic, wants, saved, raw, calls, up, sent, overlaps>>

(***************************************************************************)
(* A kind of notification: the action it is saved with, the function of    *)
(* the tasks that sends it, its recipients, how it is looked up ("id": by  *)
(* its identifier, "name": by the name of the action, "interval": by the   *)
(* action and a period, "raw": by the helper), whether only notifications  *)
(* about the same object count (one), when the preference of a user is     *)
(* looked at, and the identifier it is saved with: one that belongs to the *)
(* object, a fresh one, or the time.                                       *)
(***************************************************************************)
Kind(name, task, to, by, one, pref, id) ==
    [name |-> name, task |-> task, to |-> to, by |-> by, one |-> one, pref |-> pref, id |-> id]

OnceToUser(name, task) == Kind(name, task, "user", "id", TRUE, "before", "object")
PlainToUser(name, task) == Kind(name, task, "user", "none", TRUE, "none", "fresh")
PlainToAdmins(name, task) == Kind(name, task, "admins", "none", FALSE, "query", "fresh")
RarelyToAdmins(name, task, one, pref, id) == Kind(name, task, "admins", "interval", one, pref, id)
NamedToAdmins(name, task) == Kind(name, task, "admins", "name", FALSE, "each", "time")

SendEndOfCharge == OnceToUser("EndOfCharge", "sendEndOfCharge")
SendOptimalChargeReached == OnceToUser("OptimalChargeReached", "sendOptimalChargeReached")
SendEndOfTransaction == OnceToUser("EndOfSession", "sendEndOfSession")
SendEndOfSignedTransaction == OnceToUser("EndOfSession", "sendEndOfSignedSession")
SendRequestPassword == PlainToUser("RequestPassword", "sendRequestPassword")
SendUserAccountStatusChanged ==
    Kind("UserAccountStatusChanged", "sendUserAccountStatusChanged", "user", "none", TRUE, "before", "fresh")
SendNewRegisteredUser == PlainToUser("NewRegisteredUser", "sendNewRegisteredUser")
\* It goes on to sendAdminAccountVerification.
SendAccountVerification == PlainToUser("UserAccountVerification", "sendAccountVerificationNotification")
SendAdminAccountVerification == PlainToAdmins("AdminAccountVerification", "sendAdminAccountVerificationNotification")
SendVerificationEmail == Kind("VerifyEmail", "sendVerificationEmail", "user", "interval", TRUE, "none", "fresh")
SendVerificationEmailUserImport == PlainToUser("VerifyEmail", "sendVerificationEmailUserImport")
SendChargingStationStatusError ==
    RarelyToAdmins("ChargingStationStatusError", "sendChargingStationStatusError", TRUE, "query", "fresh")
SendChargingStationRegistered == PlainToAdmins("ChargingStationRegistered", "sendChargingStationRegistered")
SendUnknownUserBadged == PlainToAdmins("UnknownUserBadged", "sendUnknownUserBadged")
SendTransactionStarted == OnceToUser("SessionStarted", "sendSessionStarted")
SendOCPIPatchStatusesError ==
    RarelyToAdmins("PatchEvseStatusError", "sendOCPIPatchChargingStationsStatusesError", FALSE, "query", "time")
SendOICPPatchStatusesError ==
    RarelyToAdmins("PatchEvseStatusError", "sendOICPPatchChargingStationsStatusesError", FALSE, "query", "time")
SendOICPPatchError ==
    RarelyToAdmins("PatchEvseError", "sendOICPPatchChargingStationsError", FALSE, "query", "time")
SendUserAccountInactivity ==
    Kind("UserAccountInactivity", "sendUserAccountInactivity", "user", "interval", TRUE, "none", "time")
SendPreparingTransactionNotStarted ==
    Kind("PreparingSessionNotStarted", "sendPreparingSessionNotStarted", "user", "interval", TRUE, "before", "time")
SendOfflineChargingStations ==
    RarelyToAdmins("OfflineChargingStations", "sendOfflineChargingStations", FALSE, "each", "time")
SendBillingSynchronizationFailed == NamedToAdmins("BillingUserSynchronizationFailed", "sendBillingSynchronizationFailed")
SendBillingInvoicesSynchronizationFailed ==
    NamedToAdmins("BillingInvoiceSynchronizationFailed", "sendBillingInvoiceSynchronizationFailed")
SendBillingPeriodicOperationFailed == NamedToAdmins("BillingPeriodicOperationFailed", "sendBillingPeriodicOperationFailed")
SendCarsSynchronizationFailed ==
    RarelyToAdmins("CarCatalogSynchronizationFailed", "sendCarCatalogSynchronizationFailed", FALSE, "each", "time")
SendComputeAndApplyChargingProfilesFailed ==
    RarelyToAdmins("ComputeAndApplyFailed", "sendComputeAndApplyChargingProfilesFailed", TRUE, "each", "time")
SendEndUserErrorNotification ==
    Kind("EndUserReportError", "sendEndUserErrorNotification", "admins", "none", FALSE, "each", "time")
SendTransactionNotStarted == OnceToUser("SessionNotStarted", "sendSessionNotStarted")
SendBillingNewInvoiceNotification == OnceToUser("BillingNewInvoice", "sendBillingNewInvoice")
SendBillingAccountCreationLink == PlainToUser("BillingAccountCreate", "sendBillingAccountCreationLink")
SendBillingAccountActivationNotification == PlainToUser("BillingAccountActivate", "sendBillingAccountActivationNotification")

\* NotificationHelper looks at the preference before its timer is set.
Helper(name, task, to, by) == Kind(name, task, to, by, TRUE, "before", "none")
NotifyStartTransaction == Helper("SessionStarted", "sendSessionStarted", "user", "none")
NotifyEndOfCharge == Helper("EndOfCharge", "sendEndOfCharge", "user", "raw")
NotifyOptimalChargeReached == Helper("OptimalChargeReached", "sendOptimalChargeReached", "user", "raw")
NotifyStopTransaction == Helper("EndOfSession", "sendEndOfSession", "user", "raw")
NotifySignedSession == Helper("EndOfSession", "sendEndOfSignedSession", "user", "none")
NotifyChargingStationRegistered == Helper("ChargingStationRegistered", "sendChargingStationRegistered", "admins", "none")

HandlerKinds == {SendEndOfCharge, SendOptimalChargeReached, SendEndOfTransaction, SendEndOfSignedTransaction,
    SendRequestPassword, SendUserAccountStatusChanged, SendNewRegisteredUser, SendAccountVerification,
    SendAdminAccountVerification, SendVerificationEmail, SendVerificationEmailUserImport,
    SendChargingStationStatusError, SendChargingStationRegistered, SendUnknownUserBadged, SendTransactionStarted,
    SendOCPIPatchStatusesError, SendOICPPatchStatusesError, SendOICPPatchError, SendUserAccountInactivity,
    SendPreparingTransactionNotStarted, SendOfflineChargingStations, SendBillingSynchronizationFailed,
    SendBillingInvoicesSynchronizationFailed, SendBillingPeriodicOperationFailed, SendCarsSynchronizationFailed,
    SendComputeAndApplyChargingProfilesFailed, SendEndUserErrorNotification, SendTransactionNotStarted,
    SendBillingNewInvoiceNotification, SendBillingAccountCreationLink, SendBillingAccountActivationNotification}

HelperKinds == {NotifyStartTransaction, NotifyEndOfCharge, NotifyOptimalChargeReached, NotifyStopTransaction,
    NotifySignedSession, NotifyChargingStationRegistered}

Kinds == HandlerKinds \cup HelperKinds

\* What the email task sends.
EmailsOfSessions == {"sendNewRegisteredUser", "sendRequestPassword", "sendOptimalChargeReached", "sendEndOfCharge",
    "sendEndOfSession", "sendEndOfSignedSession", "sendChargingStationStatusError", "sendChargingStationRegistered",
    "sendUserAccountStatusChanged", "sendUnknownUserBadged", "sendSessionStarted", "sendVerificationEmail",
    "sendVerificationEmailUserImport", "sendOCPIPatchChargingStationsStatusesError",
    "sendOICPPatchChargingStationsStatusesError", "sendOICPPatchChargingStationsError", "sendUserAccountInactivity",
    "sendPreparingSessionNotStarted", "sendSessionNotStarted"}
EmailsOfOperations == {"sendOfflineChargingStations", "sendBillingSynchronizationFailed",
    "sendBillingInvoiceSynchronizationFailed", "sendBillingPeriodicOperationFailed", "sendBillingAccountCreationLink",
    "sendBillingAccountActivationNotification", "sendBillingNewInvoice", "sendCarCatalogSynchronizationFailed",
    "sendComputeAndApplyChargingProfilesFailed", "sendEndUserErrorNotification", "sendAccountVerificationNotification",
    "sendAdminAccountVerificationNotification", "sendUserCreatePassword"}

\* What the push task sends; the other functions of it do nothing.
PushesOfSessions == {"sendUserAccountInactivity", "sendPreparingSessionNotStarted", "sendSessionNotStarted",
    "sendOfflineChargingStations", "sendOptimalChargeReached", "sendEndOfCharge", "sendEndOfSession"}
PushesOfStations == {"sendEndUserErrorNotification", "sendChargingStationStatusError",
    "sendChargingStationRegistered", "sendUserAccountStatusChanged", "sendUnknownUserBadged", "sendSessionStarted"}
PushesOfFailures == {"sendOCPIPatchChargingStationsStatusesError", "sendOICPPatchChargingStationsStatusesError",
    "sendOICPPatchChargingStationsError", "sendBillingSynchronizationFailed",
    "sendBillingInvoiceSynchronizationFailed", "sendBillingPeriodicOperationFailed"}
PushesOfAccounts == {"sendBillingAccountCreationLink", "sendBillingAccountActivationNotification",
    "sendComputeAndApplyChargingProfilesFailed", "sendBillingNewInvoice", "sendAccountVerificationNotification"}

Channels == <<"email", "push">>

-----------------------------------------------------------------------------
Idle == [st |-> "idle"]

Init ==
    /\ clock = 0
    /\ topic \in {k.name : k \in Kinds}
    /\ wants = {CHOOSE a \in Abouts : TRUE, CHOOSE a \in Admins : TRUE}
    /\ up \in {{"alternativeApp"}, {"smtp", "defaultApp"}}
    /\ saved = {} /\ raw = {} /\ sent = {} /\ overlaps = {}
    /\ calls = [n \in Notifiers |-> Idle]

Active(n) == calls[n].st \notin {"idle", "done"}

\* getAdminUsers with a key reads those who want the notification; without
\* one, whether an administrator wants it is asked before each send.
GetAdminUsers(kind) == IF kind.pref = "query" THEN Admins \cap wants ELSE Admins

Recipients(call) ==
    IF call.kind.to = "user" THEN {call.about}
    ELSE {a \in GetAdminUsers(call.kind) : call.kind.pref \in {"each", "before"} => a \in wants}

\* The preference of a user is asked for after the lookup and before the save.
Refused(call) == call.kind.pref = "before" /\ call.kind.to = "user" /\ call.about \notin wants

Start(n) ==
    /\ calls[n].st = "idle"
    /\ \E kind \in {k \in Kinds : k.name = topic} \cup {SendEndUserErrorNotification}, about \in Abouts :
       LET call == [st |-> IF kind \in HelperKinds THEN "timer" ELSE "lookup", kind |-> kind,
                    about |-> about, channel |-> 1, at |-> 0, ids |-> {}]
           silent == \/ kind.to = "admins" /\ kind \in HandlerKinds /\ GetAdminUsers(kind) = {}
                     \/ kind \in HelperKinds /\ Refused(call)
       IN  /\ calls' = [calls EXCEPT ![n] = IF silent THEN [call EXCEPT !.st = "done"] ELSE call]
           /\ overlaps' = IF silent THEN overlaps
                          ELSE overlaps \cup {{n, m} : m \in {m \in Notifiers : Active(m)}}
    /\ UNCHANGED <<up, clock, topic, wants, saved, raw, sent>>

HasNotifiedSource(call) ==
    \E s \in saved : /\ s.channel = Channels[call.channel] /\ s.name = call.kind.name
                     /\ call.kind.one => s.about = call.about
                     /\ s.at + Interval >= clock

HasNotifiedSourceByID(call, id) ==
    \E s \in saved : s.channel = Channels[call.channel] /\ s.id = id

ObjectID(call) == <<"object", call.kind.task, call.about>>

HasBeenNotified(call) ==
    \/ call.kind.by = "id" /\ HasNotifiedSourceByID(call, ObjectID(call))
    \/ call.kind.by = "name" /\ HasNotifiedSourceByID(call, <<"name", call.kind.name>>)
    \/ call.kind.by = "interval" /\ HasNotifiedSource(call)

NextChannel(call) ==
    IF call.channel = Len(Channels) THEN [call EXCEPT !.st = "done"]
    ELSE [call EXCEPT !.st = "lookup", !.channel = @ + 1]

Lookup(n) ==
    /\ calls[n].st = "lookup"
    /\ calls' = [calls EXCEPT ![n] = IF HasBeenNotified(@) \/ Refused(@) THEN NextChannel(@)
                                     ELSE [@ EXCEPT !.st = "save"]]
    /\ UNCHANGED <<up, clock, topic, wants, saved, raw, sent, overlaps>>

\* A collection that takes a second notification with the same identifier.
InsertAnyway(record) == saved' = saved \cup {record}

\* insertOne with the hash of the identifier and the channel as _id.
InsertOne(record) ==
    /\ ~\E s \in saved : s.id = record.id /\ s.channel = record.channel
    /\ saved' = saved \cup {record}

\* Two calls of the same millisecond have the same time.  An insert that
\* fails ends the channel.
SaveNotification(n) ==
    /\ calls[n].st = "save"
    /\ LET call == calls[n]
       IN  \E ms \in {0, 1} :
           LET id == CASE call.kind.id = "object" -> ObjectID(call)
                       [] call.kind.id = "fresh" -> <<"fresh", n>>
                       [] call.kind.id = "time" -> <<"time", clock, ms>>
               record == [id |-> id, channel |-> Channels[call.channel], name |-> call.kind.name,
                          about |-> IF call.kind.one THEN call.about ELSE "none", at |-> clock, by |-> n]
           IN  /\ call.kind.id = "time" \/ ms = 0
               /\ \/ /\ InsertOne(record)
                     /\ calls' = [calls EXCEPT ![n] = [call EXCEPT !.st = "send", !.at = clock, !.ids = @ \cup {id}]]
                  \/ /\ \E s \in saved : s.id = id /\ s.channel = record.channel
                     /\ calls' = [calls EXCEPT ![n] = [NextChannel(call) EXCEPT !.ids = @ \cup {id}]]
                     /\ UNCHANGED saved
    /\ UNCHANGED <<up, clock, topic, wants, raw, sent, overlaps>>

-----------------------------------------------------------------------------
\* The tasks.  An error is logged and not thrown, so nothing is sent again.
SendEmail(task) == "smtp" \in up /\ task \in EmailsOfSessions \cup EmailsOfOperations

\* The app of the tenant when it has one (here it has none).
GetFirebaseAppsFromTenant == {"defaultApp", "alternativeApp"}

\* The apps are tried until one of them accepts the message.
SendRemotePushNotificationToUser(task) ==
    /\ task \in PushesOfSessions \cup PushesOfStations \cup PushesOfFailures \cup PushesOfAccounts
    /\ GetFirebaseAppsFromTenant \cap up # {}

Delivers(channel, task) ==
    IF channel = "email" THEN SendEmail(task) ELSE SendRemotePushNotificationToUser(task)

Sending(n, channels) ==
    sent' = sent \cup {[by |-> n, kind |-> calls[n].kind, about |-> calls[n].about, channel |-> c, to |-> a,
                        at |-> calls[n].at]
                       : c \in {c \in channels : Delivers(c, calls[n].kind.task)}, a \in Recipients(calls[n])}

SendThrough(n) ==
    /\ calls[n].st = "send"
    /\ Sending(n, {Channels[calls[n].channel]})
    /\ calls' = [calls EXCEPT ![n] = NextChannel(@)]
    /\ UNCHANGED <<up, clock, topic, wants, saved, raw, overlaps>>

-----------------------------------------------------------------------------
(***************************************************************************)
(* NotificationHelper                                                      *)
(***************************************************************************)
\* The timer of half a second fires.  getRawNotification returns a record
\* when there is exactly one.
CheckNotificationAlreadySent(n) ==
    /\ calls[n].st = "timer"
    /\ LET found == {x \in raw : x.name = calls[n].kind.name /\ x.about = calls[n].about}
       IN  calls' = [calls EXCEPT ![n] =
               [@ EXCEPT !.at = clock,
                         !.st = CASE calls[n].kind.by = "none" -> "notify"
                                  [] calls[n].kind.by = "raw" /\ Cardinality(found) = 1 -> "done"
                                  [] OTHER -> "saveRaw"]]
    /\ UNCHANGED <<up, clock, topic, wants, saved, raw, sent, overlaps>>

\* A failing lookup or save is logged, and the notification goes out all the same.
SaveRawNotification(n) ==
    /\ calls[n].st = "saveRaw"
    /\ \/ /\ raw' = raw \cup {[name |-> calls[n].kind.name, about |-> calls[n].about, at |-> clock, by |-> n]}
          /\ calls' = [calls EXCEPT ![n] = [@ EXCEPT !.st = "notify"]]
       \/ /\ calls' = [calls EXCEPT ![n] = [@ EXCEPT !.st = "notify", !.ids = {<<"unsaved">>}]]
          /\ UNCHANGED raw
    /\ UNCHANGED <<up, clock, topic, wants, saved, sent, overlaps>>

NotifySingleUser(n) ==
    /\ calls[n].st = "notify"
    /\ Sending(n, {"email", "push"})
    /\ calls' = [calls EXCEPT ![n] = [@ EXCEPT !.st = "done"]]
    /\ UNCHANGED <<up, clock, topic, wants, saved, raw, overlaps>>

\* Time passes; the database deletes the records of the helper that are older
\* than a day.
Tick ==
    /\ clock < MaxClock
    /\ clock' = clock + 1
    /\ raw' = {x \in raw : x.at + Day >= clock'}
    /\ UNCHANGED <<up, topic, wants, saved, calls, sent, overlaps>>

Next ==
    \/ Tick
    \/ \E n \in Notifiers :
         \/ Start(n) \/ Lookup(n) \/ SaveNotification(n) \/ SendThrough(n)
         \/ CheckNotificationAlreadySent(n) \/ SaveRawNotification(n) \/ NotifySingleUser(n)

Spec == Init /\ [][Next]_nVars

-----------------------------------------------------------------------------
SameNotification(d, e) ==
    /\ d.by # e.by /\ d.kind = e.kind /\ d.channel = e.channel /\ d.to = e.to
    /\ d.kind.one => d.about = e.about

Distance(d, e) == IF d.at > e.at THEN d.at - e.at ELSE e.at - d.at

\* A notification that has an identifier of its own goes once to a user on a
\* channel, however many calls run at the same time: the insert with that
\* identifier comes before the send.  One looked up by a period goes twice
\* within that period only from two calls that overlapped, and one of the
\* helper only after such calls, after a failed save, or a day later.
NotifiedOnce ==
    \A d, e \in sent : SameNotification(d, e) =>
        /\ d.kind.by # "id"
        /\ d.kind.by = "interval" => Distance(d, e) > Interval \/ {d.by, e.by} \in overlaps
        /\ d.kind.by = "raw" =>
             \/ Distance(d, e) > Day
             \/ \E o \in overlaps : \A n \in o : calls[n].kind = d.kind /\ calls[n].about = d.about
             \/ <<"unsaved">> \in calls[d.by].ids \cup calls[e.by].ids

Tried(n, c) == \E d \in sent : d.by = n /\ d.channel = Channels[c]

\* A call that is through with a channel has sent the notification there to
\* everybody who wants it, or another call saved one of the same action (or of
\* the same millisecond) before and sends it: none is held back by a
\* notification that nobody sends.
NotSilenced ==
    \A n \in Notifiers, c \in DOMAIN Channels :
        ( /\ calls[n].st # "idle" /\ calls[n].kind \in HandlerKinds
          /\ Delivers(Channels[c], calls[n].kind.task)
          /\ calls[n].st = "done" \/ calls[n].channel > c
          /\ ~Refused(calls[n]) /\ Recipients(calls[n]) # {} )
        => \/ Tried(n, c)
           \/ \E s \in saved : /\ s.by # n /\ s.channel = Channels[c]
                               /\ s.name = calls[n].kind.name \/ s.id \in calls[n].ids
                               /\ \/ Tried(s.by, c)
                                  \/ calls[s.by].channel = c /\ calls[s.by].st = "send"
                                  \/ Recipients(calls[s.by]) = {}
                                  \/ ~Delivers(Channels[c], calls[s.by].kind.task)
=============================================================================
