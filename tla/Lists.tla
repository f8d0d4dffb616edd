-------------------------------- MODULE Lists --------------------------------
(***************************************************************************)
(* The list requests of the REST API and the CSV export.  A handler has    *)
(* the entity and the action it checks, the list of the storage it calls   *)
(* and the parameters a client may give; it asks the authorizations for    *)
(* filters and lets them replace the parameters of the client              *)
(* (...authorizations.filters comes last).  Each page is two reads, the    *)
(* count and the documents, and other requests write in between.  A        *)
(* component that is not active refuses the request before this model.     *)
(***************************************************************************)
EXTENDS AuthorizationService, StorageQueries, TLC

CONSTANTS Limit,             \* page size of a list
          Ceil,              \* DB_RECORD_COUNT_CEIL
          ExportPageSize,    \* EXPORT_PAGE_SIZE
          Documents,         \* number of stored documents
          MaxWrites          \* bound on the writes of other requests

\* A page of an export is never shorter than a count that is known
\* (EXPORT_PAGE_SIZE and DB_RECORD_COUNT_CEIL).
ASSUME PagesAssumption ==
    /\ Limit \in Nat \ {0} /\ Ceil \in Nat /\ ExportPageSize \in Nat /\ Documents \in Nat
    /\ Ceil <= ExportPageSize

VARIABLES store,             \* the documents, in the order of their identifiers
          request,           \* the request being handled
          writes

vars == <<store, request, writes>>

Handler(entity, action, query, keys) ==
    [entity |-> entity, action |-> action, query |-> query, keys |-> keys, spread |-> TRUE]

HandleGetUsers == Handler("User", "List", GetUsers,
    {"issuer", "siteIDs", "userIDs", "roles", "statuses", "technical", "freeAccess", "excludeSiteID"})
HandleGetUsersInError == Handler("User", "InError", GetUsersInError, {"roles", "errorTypes"})
HandleGetSitesOfUser == Handler("UserSite", "List", GetUserSites, {"userIDs"})
HandleGetTags == Handler("Tag", "List", GetTags, {"issuer", "active", "userIDs"})
HandleGetCarCatalogs == Handler("CarCatalog", "List", GetCarCatalogs, {"carMaker"})
HandleGetCarMakers == Handler("CarCatalog", "List", GetCarMakers, {})
HandleGetCars == Handler("Car", "List", GetCars, {"carMakers", "userIDs"})
HandleGetUsersOfSite == Handler("SiteUser", "List", GetSiteUsers, {"siteIDs"})
HandleGetSites == Handler("Site", "List", GetSites,
    {"userID", "issuer", "companyIDs", "siteIDs", "excludeSitesOfUserID"})
HandleGetSiteAreas == Handler("SiteArea", "List", GetSiteAreas,
    {"issuer", "excludeSiteAreaIDs", "siteIDs", "companyIDs"})
HandleGetCompanies == Handler("Company", "List", GetCompanies, {"issuer"})
HandleGetAssets == Handler("Asset", "List", GetAssets,
    {"issuer", "siteAreaIDs", "siteIDs", "withNoSiteArea", "dynamicOnly"})
HandleGetAssetsInError == Handler("Asset", "InError", GetAssetsInError,
    {"issuer", "siteAreaIDs", "siteIDs", "errorType"})
HandleGetRegistrationTokens == Handler("RegistrationToken", "List", GetRegistrationTokens, {"siteAreaIDs"})
HandleGetLogs == Handler("Logging", "List", GetLogs, {"startDateTime", "endDateTime", "userIDs", "siteIDs",
    "chargingStationIDs", "hosts", "levels", "sources", "actions"})
HandleGetChargingProfiles == Handler("ChargingProfile", "List", GetChargingProfiles,
    {"chargingStationIDs", "connectorID", "siteIDs"})
HandleGetChargingStationsInError == Handler("ChargingStation", "InError", GetChargingStationsInError,
    {"siteIDs", "siteAreaIDs", "errorType"})
HandleGetChargingStations == Handler("ChargingStation", "List", GetChargingStations,
    {"withNoSiteArea", "chargingStationIDs", "connectorStatuses", "connectorTypes", "issuer", "siteIDs",
     "siteAreaIDs", "companyIDs", "includeDeleted", "public"})

TransactionKeys == {"status", "chargingStationIDs", "issuer", "userIDs", "tagIDs", "siteIDs", "siteAreaIDs",
    "startDateTime", "endDateTime", "refundStatus", "minimalPrice", "reportIDs", "connectorIDs",
    "inactivityStatus"}
HandleGetTransactions(action) == Handler("Transaction", action, GetTransactions, TransactionKeys)
HandleGetRefundReports == Handler("Transaction", "GetRefundReport", GetRefundReports, {"siteIDs", "siteAreaIDs"})
HandleGetTransactionsInError == Handler("Transaction", "InError", GetTransactionsInError,
    {"startDateTime", "endDateTime", "chargingStationIDs", "siteAreaIDs", "siteIDs", "userIDs", "connectorIDs"})
HandleGetPricingDefinitions == Handler("PricingDefinition", "List", GetPricingDefinitions, {"entityID"})
HandleGetInvoices == Handler("Invoice", "List", GetInvoices,
    {"userIDs", "invoiceStatus", "startDateTime", "endDateTime"})
HandleBillingGetAccounts == [Handler("BillingAccount", "List", GetAccounts, {"IDs", "userIDs", "status"})
    EXCEPT !.spread = FALSE]
HandleBillingGetTransfers == [Handler("BillingTransfer", "List", GetTransfers,
    {"IDs", "accountIDs", "transferExternalIDs", "status"}) EXCEPT !.spread = FALSE]
HandleGetOcpiEndpoints == [Handler("OcpiEndpoint", "List", GetOcpiEndpoints, {}) EXCEPT !.spread = FALSE]
HandleGetSettings == Handler("Setting", "List", GetSettings, {"identifier"})
HandleGetChargingStationTemplates == Handler("ChargingStationTemplate", "List", GetChargingStationTemplates, {})

\* buildFilter adds a period and the finished sessions.
StatisticKeys == {"startDateTime", "endDateTime", "siteIDs", "siteAreaIDs", "chargeBoxIDs", "userIDs"}
HandleGetChargingStationStatistics == Handler("Statistic", "Read", GetChargingStationStats, StatisticKeys)
HandleGetUserStatistics == Handler("Statistic", "Read", GetUserStats, StatisticKeys)

\* Lists that only services and tasks of the server read: no filters.
Internal(query, keys) == Handler("Internal", "List", query, keys)

InternalLists == <<Internal(GetImportedUsers, {"status"}), Internal(GetImportedTags, {"status"}),
    Internal(GetCarCatalogImages, {"carCatalogID"}), Internal(SiteAreasByStations, {"chargingStationConnectorStatuses"}),
    Internal(GetActiveTransaction, {"chargeBoxID", "connectorId"}),
    Internal(GetLastTransaction, {"chargeBoxID", "connectorId"}),
    Internal(GetNotStartedTransactions, {"authorizeStart", "authorizeEnd"}),
    Internal(GetOicpEndpoints, {"localToken", "role"}), Internal(GetTenants, {"tenantName", "tenantSubdomain"}),
    Internal(GetSubscriptionPlans, {"slug", "onlyActive"}), Internal(GetTenantSubscriptions, {"tenantID", "status"}),
    Internal(GetAsyncTasks, {"status"}), Internal(GetNotifications, {"dateFrom", "userID", "channel", "sourceId"}),
    Internal(GetRawNotifications, {"dateFrom", "discriminator"}),
    Internal(GetAuthorizes, {"dateFrom", "chargeBoxID", "tagID"}),
    Internal(GetStatusNotifications, {"dateFrom", "chargeBoxID", "connectorId"}),
    Internal(GetLastStatusNotifications, {"dateBefore", "chargeBoxID", "status"}),
    Internal(GetBootNotifications, {"chargeBoxID"}), Internal(GetMeterValues, {"transactionId"}),
    Internal(GetConnections, {"userId", "connectorId"}),
    Internal(GetAssetConsumptions, {"assetID", "startDateTime"}),
    Internal(GetSiteAreaConsumptions, {"siteAreaIDs", "endDateTime"}),
    Internal(GetSiteAreaChargingStationConsumptions, {"siteAreaID", "startDateTime"}),
    Internal(GetTransactionConsumptions, {"transactionId"})>>

\* A request keeps the number of its handler.
HandlerSeq == <<HandleGetUsers, HandleGetUsersInError, HandleGetSitesOfUser, HandleGetTags, HandleGetCarCatalogs,
    HandleGetCarMakers, HandleGetCars, HandleGetUsersOfSite, HandleGetSites, HandleGetSiteAreas, HandleGetCompanies,
    HandleGetAssets, HandleGetAssetsInError, HandleGetRegistrationTokens, HandleGetLogs,
    HandleGetChargingProfiles, HandleGetChargingStationsInError, HandleGetChargingStations,
    HandleGetRefundReports, HandleGetTransactionsInError, HandleGetPricingDefinitions, HandleGetInvoices,
    HandleBillingGetAccounts, HandleBillingGetTransfers, HandleGetOcpiEndpoints, HandleGetSettings,
    HandleGetChargingStationTemplates, HandleGetChargingStationStatistics, HandleGetUserStatistics,
    HandleGetTransactions("List"), HandleGetTransactions("GetChargingStationTransactions"),
    HandleGetTransactions("GetActiveTransaction"), HandleGetTransactions("GetCompletedTransaction"),
    HandleGetTransactions("GetRefundableTransaction")>> \o InternalLists

Ids == DOMAIN HandlerSeq

Exported == {HandleGetLogs, HandleGetTags, HandleGetUsers, HandleGetChargingStations,
             HandleGetTransactions("GetCompletedTransaction"),
             HandleGetTransactions("GetRefundableTransaction")}

-----------------------------------------------------------------------------
(***************************************************************************)
(* The user is "a", his tag is "a", and so is his site; a user who is both *)
(* site admin and site owner owns site "b".                                *)
(***************************************************************************)
Users == {[groups |-> <<"admin">>, own |-> {}, owner |-> {}],
          [groups |-> <<"basic">>, own |-> {}, owner |-> {}],
          [groups |-> <<"demo">>, own |-> {}, owner |-> {}],
          [groups |-> <<"siteAdmin">>, own |-> {"a"}, owner |-> {}],
          [groups |-> <<"siteOwner">>, own |-> {}, owner |-> {"a"}],
          [groups |-> <<"siteAdmin", "siteOwner">>, own |-> {"a"}, owner |-> {"b"}]}

RightsOf(u) == [self |-> "a", tags |-> {"a"}, assigned |-> {"a"} \cup u.owner, admin |-> u.own, owner |-> u.owner]

FilterNames(context) == {PositiveName(context.filters[i]) : i \in DOMAIN context.filters}

\* canPerformAction for every list and kind of user.
Can ==
    LET can(h, u) == IF h.entity = "Internal"
                     THEN [authorized |-> u.groups = <<"admin">>, context |-> [filters |-> <<>>, asserts |-> <<>>]]
                     ELSE CanPerformAction(u.groups, h.entity, h.action)
    IN  [n \in Ids, u \in Users |-> can(HandlerSeq[n], u)]

\* The properties of authorizations.filters that the filters of a grant set.
SiteKeys(names, org) ==
    (IF "SitesAdminOrOwner" \in names
        \/ (org /\ names \cap {"SitesAdmin", "SitesOwner", "AssignedSites"} # {}) THEN {"siteIDs"} ELSE {})
    \cup (IF org /\ "SitesAdminUsers" \in names THEN {"siteAdminIDs"} ELSE {})
    \cup (IF org /\ "SitesOwnerUsers" \in names THEN {"siteOwnerIDs"} ELSE {})

UserKeys(names) ==
    (IF "OwnUser" \in names THEN {"userIDs"} ELSE {})
    \cup (IF names \cap {"SitesAdminUsers", "SitesOwnerUsers"} # {} THEN {"ownerID"} ELSE {})
    \cup (IF "AssignedSitesCompanies" \in names THEN {"companyIDs"} ELSE {})
    \cup (IF "LocalIssuer" \in names THEN {"issuer"} ELSE {})

AuthorizationFilters(names, result, org) ==
    [k \in SiteKeys(names, org) \cup UserKeys(names) |->
        CASE k = "siteIDs" -> result.sites
          [] k \in {"siteAdminIDs", "siteOwnerIDs"} -> result.userSites
          [] k \in {"userIDs", "ownerID"} -> result.users
          [] k = "companyIDs" -> result.companies
          [] k = "issuer" -> {"a"}]

\* The identifiers of the request the filters look at.
Asked(h, given) ==
    LET name(k) == CASE k = "siteIDs" -> "SiteID" [] k = "userIDs" -> "UserID" [] k = "companyIDs" -> "CompanyID"
        keys == {"siteIDs", "userIDs", "companyIDs"} \cap DOMAIN given
    IN  IF h.action = "InError" /\ h.entity = "Transaction" THEN <<>>
        ELSE [id \in {name(k) : k \in keys} |-> given[CHOOSE k \in keys : name(k) = id]]

\* A handler that spreads the filters before the parameters.
FiltersFirst(h, u, org, given, filters) == IF h.spread THEN given @@ filters ELSE given

\* getTransactionsInError takes the sites of the administrator himself, and
\* buildFilter forgets the sites when a user looks at his own sessions.
ListParams(h, u, org, given, filters) ==
    LET params == IF h.spread THEN filters @@ given ELSE given
        ownSites == u.own \cup u.owner
    IN  CASE h = HandleGetTransactionsInError /\ org /\ u.groups \notin {<<"admin">>, <<"demo">>} ->
               filters @@ [k \in {"siteIDs"} |-> IF "siteIDs" \in DOMAIN given THEN given["siteIDs"] \cap ownSites
                                                 ELSE ownSites] @@ given
          [] h.entity = "Statistic" /\ "siteIDs" \notin DOMAIN given
             /\ "userIDs" \in DOMAIN params /\ params["userIDs"] = {"a"} ->
               [k \in {"siteIDs"} |-> {}] @@ params
          [] OTHER -> params

-----------------------------------------------------------------------------
Values == {"a", "b"}
AuthKeys == {"siteIDs", "userIDs", "companyIDs"}

\* The parameters a client gives: none, one, or one of any kind next to one
\* the filters look at.
Parameters(h) ==
    LET auth == h.keys \cap AuthKeys
    IN  {<<>>} \cup UNION {[{k} -> {{"a"}, {"b"}, {"a", "b"}}] : k \in auth}
        \cup {(k :> {"b"}) : k \in h.keys \ auth}
        \cup {(k :> {"b"}) @@ (l :> {"a", "b"}) : k \in h.keys \ auth, l \in auth}

\* The fields that hold the site and the user of a document.
SiteField(entity) ==
    CASE entity = "Site" -> "_id"
      [] entity \in {"User", "Tag", "Car", "UserSite", "SiteUser", "ChargingProfile"} -> "site"
      [] OTHER -> "siteID"

UserField(entity) == IF entity = "User" THEN "_id" ELSE "userID"

\* The fields a request looks at, and those its user's rights are about.
Looked(h, params, names) ==
    FieldsOf({h.query[i] : i \in {j \in DOMAIN h.query : h.query[j].key \in DOMAIN params}})
    \cup (IF names = {} THEN {} ELSE {SiteField(h.entity), UserField(h.entity)})
    \cup (IF "AssignedSitesCompanies" \in names THEN {"_id"} ELSE {})
    \cup (IF "LocalIssuer" \in names THEN {"issuer"} ELSE {})

\* A document that passes what the list always demands.
Plain(h, params, names) ==
    [f \in Looked(h, params, names) \cup FieldsOf({h.query[i] : i \in {j \in DOMAIN h.query : h.query[j].key = ""}}) |->
        IF \E i \in DOMAIN h.query : /\ h.query[i].key = "" /\ h.query[i].op = "absent"
                                     /\ f \in h.query[i].fields
        THEN None ELSE "a"]

Idle == [st |-> "idle"]

Init ==
    /\ store = <<>>
    /\ request = Idle
    /\ writes = 0

\* A handler validates a request.
Ask ==
    /\ request.st = "idle"
    /\ \E n \in Ids, u \in Users, org \in BOOLEAN :
          /\ Can[n, u].authorized
          /\ request' = [st |-> "asked", n |-> n, u |-> u, org |-> org]
    /\ UNCHANGED <<store, writes>>

\* One of the documents stored has any contents that tell the parameters
\* apart.
StartList(h, names, params, export) ==
    /\ \E v \in [Looked(h, params, names) -> Values \cup {None}] :
         store' = [i \in 1..Documents |->
                     [id |-> i, doc |-> IF i = 2 THEN v @@ Plain(h, params, names) ELSE Plain(h, params, names)]]
    /\ request' = [st |-> "count", n |-> request.n, u |-> request.u, org |-> request.org, params |-> params,
                   export |-> export, count |-> 0, skip |-> 0, shown |-> <<>>, disturbed |-> FALSE]

\* A handler asks for the filters of its user; without the right it sends an
\* empty result.
AuthorizeList(h, context) ==
    LET u == request.u
        names == FilterNames(context)
    IN  \E given \in Parameters(h), export \in (IF h \in Exported THEN BOOLEAN ELSE {FALSE}) :
        LET result == Decide(context, Asked(h, given), RightsOf(u), request.org, FALSE, {})
            filters == AuthorizationFilters(names, result, request.org)
        IN  IF result.authorized
            THEN StartList(h, names, ListParams(h, u, request.org, given, filters), export)
            ELSE request' = [st |-> "denied"] /\ UNCHANGED store

Authorize ==
    /\ request.st = "asked"
    /\ AuthorizeList(HandlerSeq[request.n], Can[request.n, request.u].context)
    /\ UNCHANGED writes

\* The documents that match, in the order of the storage.
Matching ==
    LET built == Built(HandlerSeq[request.n].query, request.params)
    IN  {i \in DOMAIN store : Passes(built, request.params, store[i].doc)}

Found ==
    LET matching == Matching
        upTo[n \in 0..Len(store)] ==
            IF n = 0 THEN <<>>
            ELSE IF n \in matching THEN Append(upTo[n - 1], store[n]) ELSE upTo[n - 1]
    IN  upTo[Len(store)]

\* The first read of a page.  The export passes the request that was already
\* validated, so its OnlyRecordCount is not seen and the count is capped.
Count ==
    /\ request.st = "count"
    /\ request' = [request EXCEPT !.st = "page", !.count = CountFromDatabase(Len(Found), Ceil)]
    /\ UNCHANGED <<store, writes>>

\* A client goes on until he has the count, or a page that is not full.
ReadPage ==
    /\ request.st = "page" /\ ~request.export
    /\ LET page == Page(Found, request.skip, Limit)
           last == IF request.count >= 0 THEN request.skip + Limit >= request.count ELSE Len(page) < Limit
       IN  request' = [request EXCEPT !.shown = @ \o page, !.skip = @ + Limit,
                                      !.st = IF last THEN "done" ELSE "count"]
    /\ UNCHANGED <<store, writes>>

\* One turn of the loop of exportToCSV: the new Skip is written to the query,
\* but the page is read with the request validated before.
ExportPage ==
    /\ request.st = "page" /\ request.export
    /\ request' = [request EXCEPT !.shown = @ \o Page(Found, 0, ExportPageSize),
                                  !.skip = @ + ExportPageSize,
                                  !.st = IF request.skip + ExportPageSize < request.count
                                         THEN "page" ELSE "done"]
    /\ UNCHANGED <<store, writes>>

\* Another request deletes a document, or gives it other contents.
Write ==
    /\ writes < MaxWrites
    /\ request.st \in {"count", "page"}
    /\ \E i \in DOMAIN store :
          \/ store' = RemoveAt(store, i)
          \/ \E j \in DOMAIN store : store' = [store EXCEPT ![i].doc = store[j].doc]
    /\ store' # store
    /\ writes' = writes + 1
    /\ request' = [request EXCEPT !.disturbed = TRUE]

Next == Ask \/ Authorize \/ Count \/ ReadPage \/ ExportPage \/ Write

Spec == Init /\ [][Next]_vars

-----------------------------------------------------------------------------
(***************************************************************************)
(* What a user may see of an entity, whatever the lists do.                *)
(***************************************************************************)
Allowed(name, h, u, org, doc) ==
    LET own == CASE name \in {"SitesAdmin", "SitesAdminUsers"} -> u.own
                 [] name \in {"SitesOwner", "SitesOwnerUsers"} -> u.owner
                 [] name = "SitesAdminOrOwner" -> u.own \cup u.owner
                 [] name = "AssignedSites" -> {"a"} \cup u.owner
                 [] OTHER -> {}
    IN  CASE name \in {"SitesAdmin", "SitesOwner", "AssignedSites"} ->
               ~org \/ doc[SiteField(h.entity)] \in own \/ (h.entity = "Statistic" /\ doc[UserField(h.entity)] = "a")
          [] name = "SitesAdminOrOwner" -> doc[SiteField(h.entity)] \in own
          [] name = "OwnUser" -> doc[UserField(h.entity)] = "a"
          [] name \in {"SitesAdminUsers", "SitesOwnerUsers"} ->
               doc[UserField(h.entity)] = "a" \/ (org /\ doc[SiteField(h.entity)] \in own)
          [] name = "AssignedSitesCompanies" -> doc["_id"] \in {"a"} \cup u.owner
          [] name = "LocalIssuer" /\ (\E i \in DOMAIN h.query : h.query[i].key = "issuer") -> doc["issuer"] = "a"
          [] OTHER -> TRUE

\* Lists that do not narrow down to the filters: the reports of refunds have
\* no parameter for a site admin and join the others by $or.
Unfiltered == {HandleGetRefundReports}

\* Every document a list or an export reads for a user lies within the sites,
\* users, companies and issuer of the filters of his grant, whatever the
\* client asks for and whoever writes between the count and the page.
ListShowsOnlyAllowed ==
    (request.st \in {"count", "page", "done"} /\ HandlerSeq[request.n] \notin Unfiltered) =>
        \A i \in DOMAIN request.shown :
           \A name \in FilterNames(Can[request.n, request.u].context) :
              Allowed(name, HandlerSeq[request.n], request.u, request.org, request.shown[i].doc)

\* Unless somebody writes in between, the pages of a list add up to the
\* documents that match, each once and in order, whether the count is known
\* or capped at the ceiling; an export repeats none.
PagesAgree ==
    (request.st = "done" /\ ~request.disturbed) =>
        IF request.export THEN IsInjective(request.shown)
        ELSE request.shown = Found

\* An export holds every document that matches.
ExportIsComplete ==
    (request.st = "done" /\ ~request.disturbed /\ request.export) => request.shown = Found
=============================================================================
