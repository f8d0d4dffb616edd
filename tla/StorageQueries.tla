---------------------------- MODULE StorageQueries ----------------------------
(***************************************************************************)
(* The list functions of the Mongo storage.  A list is the sequence of the *)
(* assignments it makes to its filters, in the order of the code: each has *)
(* the parameter that triggers it, the slot of the filter object it writes *)
(* (a later assignment to the same slot replaces an earlier one), the      *)
(* fields of the document it looks at and the test.  A parameter is a set  *)
(* of values, a flag the set {"a"}; a field of a document has one value,   *)
(* or None.  Search texts, coordinates and the joined documents that are   *)
(* only shown are left out: they can only take documents away.             *)
(***************************************************************************)
EXTENDS Naturals, Sequences, FiniteSets, SequencesExt

None == "none"

Test(key, slot, fields, op) ==
    [key |-> key, slot |-> slot, fields |-> fields, op |-> op, unless |-> ""]

\* if (!Utils.isEmptyArray(params.key)) filters.field = { $in: params.key }
In(key, field) == Test(key, <<field>>, {field}, "in")
\* if (params.key) filters.field = { $in: params.key }: an empty array is kept
All(key, field) == Test(key, <<field>>, {field}, "all")
AnyIn(key, fields) == Test(key, <<"$or">>, fields, "in")
NotIn(key, field) == Test(key, <<field>>, {field}, "nin")
\* a $match stage of its own, which no other assignment replaces
Stage(test) == [test EXCEPT !.slot = <<@[1], test.key>>]
Absent(key, field) == Test(key, <<field>>, {field}, "absent")
Present(key, field) == Test(key, <<field>>, {field}, "present")
From(key, field) == Test(key, <<field, "$gte">>, {field}, "from")
To(key, field) == Test(key, <<field, "$lte">>, {field}, "to")
\* one alternative of ownerMatch.$or
OrIn(key, field) == Test(key, <<"owner", key>>, {field}, "orin")
OrAll(key, field) == Test(key, <<"owner", key>>, {field}, "orall")
\* { $exists: params.key }
Exists(key, field) == Test(key, <<field>>, {field}, "exists")
\* set whatever the parameters are
Always(field, op) == Test("", <<field>>, {field}, op)
\* not when key is given
Unless(key, test) == [test EXCEPT !.unless = key]
Period(field) == <<From("startDateTime", field), To("endDateTime", field)>>
NotDeleted == Always("deleted", "absent")

GetUsers == <<In("userIDs", "_id"), In("issuer", "issuer"), In("email", "email"),
    In("passwordResetHash", "passwordResetHash"), In("roles", "role"),
    In("billingUserID", "billingData"), In("statuses", "status"),
    In("notificationsActive", "notificationsActive"), In("technical", "technical"),
    In("freeAccess", "freeAccess"), To("noLoginSince", "eulaAcceptedOn"),
    Test("noLoginSince", <<"role">>, {"role"}, "first"),
    Present("withTestBillingData", "billingData"),
    Stage(All("siteIDs", "site")), Stage(NotIn("excludeSiteID", "site"))>>

GetImportedUsers == <<In("status", "status")>>

GetUsersInError == <<Always("issuer", "present"), All("roles", "role"),
    Stage(In("errorTypes", "error"))>>

GetUserSites == <<In("userIDs", "userID"), In("siteAdmin", "siteAdmin"),
    In("siteOwner", "siteOwner"), Stage(In("siteIDs", "site"))>>

GetImportedTags == <<In("status", "status")>>

GetTags == <<In("tagIDs", "_id"), In("visualIDs", "visualID"), In("userIDs", "userID"),
    In("defaultTag", "default"), In("issuer", "issuer"), Present("withUsersOnly", "userID"),
    In("active", "active"), From("dateFrom", "changed"), To("dateTo", "changed"),
    Stage(In("siteIDs", "site"))>>

GetCarCatalogs == <<Stage(In("carCatalogIDs", "_id")), Stage(All("carMaker", "vehicleMake"))>>
GetCarCatalogImages == <<In("carCatalogID", "_id")>>
GetCarMakers == <<>>

GetCars == <<In("licensePlate", "licensePlate"), In("vin", "vin"), In("type", "type"),
    In("carIDs", "_id"), In("userIDs", "userID"), In("defaultCar", "default"),
    Stage(In("siteIDs", "site")), In("carMakers", "vehicleMake")>>

GetSiteUsers == <<Stage(In("siteIDs", "site")), Stage(In("siteOwnerOnly", "siteOwner")),
    NotDeleted>>

GetSites == <<In("name", "name"), In("siteIDs", "_id"), In("companyIDs", "companyID"),
    In("issuer", "issuer"), In("public", "public"),
    In("withAutoUserAssignment", "autoUserSiteAssignment"),
    In("userID", "siteusers"), NotIn("excludeSitesOfUserID", "siteusers")>>

GetSiteAreas == <<In("siteAreaIDs", "_id"), NotIn("excludeSiteAreaIDs", "_id"),
    In("parentSiteAreaIDs", "parentSiteAreaID"), In("siteIDs", "siteID"),
    In("companyIDs", "companyID"), In("issuer", "issuer"), In("smartCharging", "smartCharging"),
    In("ocpiLocationID", "ocpiData"), In("name", "name"),
    Stage(Absent("withNoParentSiteArea", "parentSiteAreaID"))>>

SiteAreasByStations == <<Stage(In("chargingStationConnectorStatuses", "chargingStations"))>>

GetCompanies == <<In("companyIDs", "_id"), Stage(In("issuer", "issuer"))>>

GetAssets == <<In("siteAreaIDs", "siteAreaID"), Absent("withNoSiteArea", "siteAreaID"),
    In("issuer", "issuer"), In("siteIDs", "siteID"), In("dynamicOnly", "dynamicAsset"),
    In("assetIDs", "_id")>>

GetAssetsInError == <<In("siteAreaIDs", "siteAreaID"), In("siteIDs", "siteID"),
    In("issuer", "issuer"), Stage(Absent("errorType", "siteAreaID"))>>

GetRegistrationTokens == <<In("tokenIDs", "_id"), In("siteAreaIDs", "siteAreaID"),
    In("siteIDs", "siteID")>>

GetPricingDefinitions == <<In("pricingDefinitionIDs", "_id"), In("entityID", "entityID"),
    In("siteIDs", "siteID"), NotDeleted>>

GetLogs == Period("timestamp") \o <<In("logIDs", "_id"), In("levels", "level"),
    In("sources", "source"), In("type", "type"), In("actions", "action"), In("hosts", "host"),
    In("siteIDs", "siteID"), AnyIn("userIDs", {"userID", "actionOnUserID"}),
    In("chargingStationIDs", "chargingStationID")>>

GetChargingStations1 == <<Unless("includeDeleted", NotDeleted), In("public", "public"),
    In("manualConfiguration", "manualConfiguration"), In("chargingStationIDs", "_id"),
    In("chargingStationSerialNumbers", "chargeBoxSerialNumber"), In("ocpiEvseUid", "ocpiEvses"),
    In("ocpiLocationID", "ocpiLocation"), In("oicpEvseID", "oicpEvses"),
    To("offlineSince", "lastSeen"), In("issuer", "issuer")>>

\* The last three are written to the filters after the $match stage was
\* pushed; it holds the same object, so they count.
GetChargingStations2 == <<Stage(In("connectorStatuses", "connectorStatus")),
    Stage(In("connectorTypes", "connectorType")), In("siteAreaIDs", "siteAreaID"),
    Absent("withNoSiteArea", "siteAreaID"), In("siteIDs", "siteID"), In("companyIDs", "companyID"),
    To("statusChangedBefore", "statusLastChangedOn")>>

GetChargingStations == GetChargingStations1 \o GetChargingStations2

GetChargingStationsInError == <<NotDeleted,
    Always("issuer", "present"), In("siteAreaIDs", "siteAreaID"),
    Stage(In("siteIDs", "siteID")), Stage(In("errorType", "error"))>>

\* With the identifier of a profile the other filters are not built.
GetChargingProfiles == <<In("chargingProfileID", "_id"),
    Unless("chargingProfileID", All("chargingStationIDs", "chargingStationID")),
    Unless("chargingProfileID", In("connectorID", "connectorID")),
    Unless("chargingProfileID", In("profilePurposeType", "purpose")),
    Unless("chargingProfileID", In("transactionId", "transactionId")), Stage(In("siteIDs", "site"))>>

GetTransactions1 == <<OrIn("ownerID", "userID"), OrAll("siteAdminIDs", "siteID"),
    OrAll("siteOwnerIDs", "siteID"), Exists("status", "stop"), In("ocpiSessionID", "ocpiSession"),
    In("ocpiAuthorizationID", "ocpiAuthorization"), In("oicpSessionID", "oicpSession"),
    In("transactionIDs", "_id"), In("issuer", "issuer"), All("userIDs", "userID"),
    All("chargingStationIDs", "chargeBoxID"), All("tagIDs", "tagID"),
    Stage(Present("hasUserID", "userID")), In("connectorIDs", "connectorId")>>

\* The end of a period of OCPI sessions or CDRs replaces its start.
GetTransactions2 == Period("timestamp") \o <<
    Test("ocpiSessionDateFrom", <<"ocpiSessionDate">>, {"ocpiSessionDate"}, "from"),
    Test("ocpiSessionDateTo", <<"ocpiSessionDate">>, {"ocpiSessionDate"}, "to"),
    Present("ocpiSessionChecked", "stop"), Present("ocpiSessionChecked", "ocpiSession"),
    Exists("ocpiSessionChecked", "sessionCheckedOn"),
    Test("ocpiCdrDateFrom", <<"ocpiCdrDate">>, {"ocpiCdrDate"}, "from"),
    Test("ocpiCdrDateTo", <<"ocpiCdrDate">>, {"ocpiCdrDate"}, "to"),
    Present("ocpiCdrChecked", "stop"), Present("ocpiCdrChecked", "ocpiCdr"),
    Exists("ocpiCdrChecked", "cdrCheckedOn"),
    All("inactivityStatus", "inactivityStatus"), All("siteAreaIDs", "siteAreaID"),
    All("siteIDs", "siteID"), In("refundStatus", "refundStatus"), From("minimalPrice", "price"),
    All("reportIDs", "reportId"), Absent("transactionsToStop", "stop")>>

\* Sessions to stop are those their connector no longer shows.
GetTransactions == GetTransactions1 \o GetTransactions2
    \o <<Stage(Absent("transactionsToStop", "stillInProgress"))>>

GetRefundReports == <<Always("stop", "present"), Always("reportId", "present"),
    OrAll("userIDs", "userID"), OrAll("siteIDs", "siteID"), OrAll("siteAreaIDs", "siteAreaID")>>

GetTransactionsInError == <<Always("stop", "present"), In("issuer", "issuer"),
    All("userIDs", "userID"), All("chargingStationIDs", "chargeBoxID")>> \o Period("timestamp")
    \o <<All("siteAreaIDs", "siteAreaID"), All("siteIDs", "siteID"), In("connectorIDs", "connectorId"),
         Stage(In("errorType", "error"))>>

GetActiveTransaction == <<In("chargeBoxID", "chargeBoxID"), In("connectorId", "connectorId"),
    Always("stop", "absent")>>

GetLastTransaction == <<In("chargeBoxID", "chargeBoxID"), In("connectorId", "connectorId")>>

GetNotStartedTransactions == <<From("authorizeStart", "timestamp"), To("authorizeEnd", "timestamp"),
    Always("transaction", "absent")>>

GetInvoices == <<In("invoiceIDs", "_id"), In("userIDs", "userID"), In("billingInvoiceID", "invoiceID"),
    In("liveMode", "liveMode"), In("invoiceStatus", "status")>> \o Period("createdOn")

GetAccounts == <<In("IDs", "_id"), In("accountExternalIDs", "accountExternalID"),
    In("userIDs", "businessOwnerID"), In("status", "status")>>

GetTransfers == <<In("IDs", "_id"), In("status", "status"), In("accountIDs", "accountID"),
    In("transferExternalIDs", "transferExternalID")>>

GetChargingStationStats == Period("timestamp") \o <<In("siteIDs", "siteID"),
    In("siteAreaIDs", "siteAreaID"), In("chargeBoxIDs", "chargeBoxID"), In("userIDs", "userID"),
    Always("stop", "present")>>

GetUserStats == Period("timestamp") \o <<In("siteIDs", "siteID"), In("siteAreaIDs", "siteAreaID"),
    In("chargeBoxIDs", "chargeBoxID"), In("userIDs", "userID"), Always("stop", "present")>>

GetOcpiEndpoints == <<All("ocpiEndpointIDs", "_id"), In("localToken", "localToken"), In("role", "role")>>
GetOicpEndpoints == <<All("oicpEndpointIDs", "_id"), In("localToken", "localToken"), In("role", "role")>>
GetSettings == <<In("settingID", "_id"), In("identifier", "identifier")>>
GetChargingStationTemplates == <<In("IDs", "_id")>>
GetTenants == <<Absent("hideRedirect", "redirectDomain"), In("tenantIDs", "_id"),
    In("tenantName", "name"), In("tenantSubdomain", "subdomain")>>
GetSubscriptionPlans == <<In("planIDs", "_id"), In("slug", "slug"), In("onlyActive", "active")>>
GetTenantSubscriptions == <<In("subscriptionIDs", "_id"), In("tenantID", "tenantID"),
    In("status", "status")>>
GetAsyncTasks == <<In("asyncTaskIDs", "_id"), In("status", "status")>>
GetNotifications == <<From("dateFrom", "timestamp"), In("channel", "channel"),
    In("sourceDescr", "sourceDescr"), In("chargeBoxID", "chargeBoxID"), In("userID", "userID"),
    In("additionalFilters", "data"), In("sourceId", "sourceId")>>
GetRawNotifications == <<From("dateFrom", "timestamp"), In("serverAction", "serverAction"),
    In("discriminator", "discriminator")>>
GetAuthorizes == <<From("dateFrom", "timestamp"), In("chargeBoxID", "chargeBoxID"), In("tagID", "tagID")>>
GetStatusNotifications == <<From("dateFrom", "timestamp"), In("chargeBoxID", "chargeBoxID"),
    In("connectorId", "connectorId"), In("status", "status")>>
GetLastStatusNotifications == <<To("dateBefore", "timestamp"), In("chargeBoxID", "chargeBoxID"),
    In("connectorId", "connectorId"), In("status", "status")>>
GetBootNotifications == <<NotDeleted, In("chargeBoxID", "_id")>>
GetMeterValues == <<In("transactionId", "transactionId")>>
GetConnections == <<In("userId", "userId"), In("connectorId", "connectorId")>>
GetAssetConsumptions == <<In("assetID", "assetID")>> \o Period("startedAt")
GetSiteAreaConsumptions == <<In("siteAreaIDs", "siteAreaID")>> \o Period("startedAt")
GetSiteAreaChargingStationConsumptions == <<In("siteAreaID", "siteAreaID")>> \o Period("endedAt")
    \o <<Always("chargeBoxID", "present")>>
GetTransactionConsumptions == <<In("transactionId", "transactionId")>>

-----------------------------------------------------------------------------
(***************************************************************************)
(* Building the filters from the parameters, and matching a document.      *)
(***************************************************************************)
Rank(v) == CASE v = "a" -> 1 [] v = "b" -> 2 [] OTHER -> 0

Applies(test, p) ==
    /\ test.unless \notin DOMAIN p
    /\ \/ test.key = ""
       \/ test.key \in DOMAIN p /\ (p[test.key] # {} \/ test.op \in {"all", "orall"})

\* The assignments that are left in the filters: the last one per slot.
Built(query, p) ==
    LET applied == {i \in DOMAIN query : Applies(query[i], p)}
    IN  {query[i] : i \in {j \in applied : \A k \in applied : k > j => query[k].slot # query[j].slot}}

Holds(test, p, doc) ==
    LET values == IF test.key = "" THEN {} ELSE p[test.key]
        some(P(_)) == \E f \in test.fields : P(doc[f])
    IN  CASE test.op \in {"in", "all", "orin", "orall"} -> some(LAMBDA v : v \in values)
          [] test.op = "nin" -> some(LAMBDA v : v \notin values)
          [] test.op = "absent" -> some(LAMBDA v : v = None)
          [] test.op = "present" -> some(LAMBDA v : v # None)
          [] test.op = "exists" -> some(LAMBDA v : (v # None) = (values = {"a"}))
          [] test.op = "first" -> some(LAMBDA v : v = "a")
          [] test.op = "from" -> some(LAMBDA v : \E w \in values : Rank(v) >= Rank(w))
          [] test.op = "to" -> some(LAMBDA v : \E w \in values : v # None /\ Rank(v) <= Rank(w))

Passes(built, p, doc) ==
    LET owner == {t \in built : t.op \in {"orin", "orall"}}
    IN  /\ \A t \in built \ owner : Holds(t, p, doc)
        /\ owner # {} => \E t \in owner : Holds(t, p, doc)

Matches(query, p, doc) == Passes(Built(query, p), p, doc)

FieldsOf(tests) == UNION {t.fields : t \in tests}

\* A count that is cut off at the ceiling without a mark.
CountCutOff(n, ceil) == IF n >= ceil THEN ceil ELSE n

\* DB_RECORD_COUNT_CEIL: a count that reaches it is unknown (-1).
CountFromDatabase(n, ceil) == IF n >= ceil THEN 0 - 1 ELSE n

\* $sort on the identifier, $skip, $limit.
Page(ids, skip, limit) ==
    LET last == IF skip + limit < Len(ids) THEN skip + limit ELSE Len(ids)
    IN  SubSeq(ids, skip + 1, last)
=============================================================================
