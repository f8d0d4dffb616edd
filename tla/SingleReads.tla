----------------------------- MODULE SingleReads -----------------------------
(***************************************************************************)
(* The requests for one record, which is read, changed or deleted, and     *)
(* those that assign several.  The rights are asked for with the           *)
(* identifier the client gives (before), their filters go to the getter of *)
(* the storage, which passes on some of them, and the record found is      *)
(* asked about again with its own site, user or company (after).  Reading  *)
(* is allowed without that second question.                                *)
(***************************************************************************)
EXTENDS Lists

\* A getter is a list narrowed down by an identifier, and the filters it
\* passes on to that list.
Getter(query, id, passes) == [query |-> query, id |-> id, passes |-> passes]

GetChargingStation == Getter(GetChargingStations, "chargingStationIDs", {"includeDeleted", "issuer", "siteIDs"})
GetChargingProfile == Getter(GetChargingProfiles, "chargingProfileID", {"siteIDs"})
GetChargingStationTemplate == Getter(GetChargingStationTemplates, "IDs", {})
GetTransaction == Getter(GetTransactions, "transactionIDs", {"userIDs", "siteIDs"})
GetPricingDefinition == Getter(GetPricingDefinitions, "pricingDefinitionIDs", {"siteIDs", "entityID"})
GetRegistrationToken == Getter(GetRegistrationTokens, "tokenIDs", {"siteIDs"})
GetCompany == Getter(GetCompanies, "companyIDs", {"issuer"})
GetUser == Getter(GetUsers, "userIDs", {"siteIDs"})
GetSite == Getter(GetSites, "siteIDs", {"issuer"})
GetAsset == Getter(GetAssets, "assetIDs", {"siteIDs", "issuer"})
GetLog == Getter(GetLogs, "logIDs", {"siteIDs"})
GetSiteArea == Getter(GetSiteAreas, "siteAreaIDs", {"siteIDs", "issuer"})
GetCar == Getter(GetCars, "carIDs", {"userIDs", "type"})
GetCarCatalog == Getter(GetCarCatalogs, "carCatalogIDs", {})
GetSetting == Getter(GetSettings, "settingID", {})
GetSettingByIdentifier == Getter(GetSettings, "identifier", {})
GetOcpiEndpoint == Getter(GetOcpiEndpoints, "ocpiEndpointIDs", {})
GetInvoice == Getter(GetInvoices, "invoiceIDs", {"userIDs"})
GetTransfer == Getter(GetTransfers, "IDs", {})
GetTag == Getter(GetTags, "tagIDs", {"userIDs", "active", "siteIDs", "issuer"})
GetTagByVisualID == Getter(GetTags, "visualIDs", {"userIDs", "issuer"})
GetAccountByID == Getter(GetAccounts, "IDs", {})

-----------------------------------------------------------------------------
One(entity, getter, before, after) ==
    [entity |-> entity, shows |-> entity, action |-> "", query |-> getter.query, id |-> getter.id,
     passes |-> getter.passes, before |-> before, after |-> after, always |-> {"Read"}, many |-> FALSE]

CheckAndGetChargingStation == One("ChargingStation", GetChargingStation, {}, {"SiteID"})
\* The template found is not asked about again.
CheckAndGetChargingStationTemplate ==
    [One("ChargingStationTemplate", GetChargingStationTemplate, {}, {}) EXCEPT !.always = {"Read", "Update", "Delete"}]
CheckAndGetChargingProfile == One("ChargingProfile", GetChargingProfile, {}, {"SiteID"})
CheckAndGetTransaction == One("Transaction", GetTransaction, {}, {"SiteID", "UserID"})
CheckAndGetPricingDefinition == [One("PricingDefinition", GetPricingDefinition, {}, {"CompanyID"}) EXCEPT !.always = {}]
CheckAndGetRegistrationToken == One("RegistrationToken", GetRegistrationToken, {}, {})
CheckAndGetCompany == One("Company", GetCompany, {"CompanyID"}, {"CompanyID"})
CheckAndGetUser == One("User", GetUser, {"UserID"}, {"UserID"})
CheckAndGetSite == One("Site", GetSite, {"SiteID"}, {"SiteID"})
CheckAndGetAsset == One("Asset", GetAsset, {}, {})
CheckAndGetLog == One("Logging", GetLog, {}, {})
CheckAndGetSiteArea == One("SiteArea", GetSiteArea, {}, {"SiteID"})
CheckAndGetCar == One("Car", GetCar, {}, {})
CheckAndGetCarCatalog == One("CarCatalog", GetCarCatalog, {}, {})
CheckAndGetSetting == One("Setting", GetSetting, {}, {})
CheckAndGetBillingSetting == One("Setting", GetSettingByIdentifier, {}, {})
CheckAndGetOCPIEndpoint == One("OcpiEndpoint", GetOcpiEndpoint, {}, {})
CheckAndGetInvoice == One("Invoice", GetInvoice, {}, {"UserID"})
CheckAndGetTransfer == One("BillingTransfer", GetTransfer, {}, {"UserID"})
CheckAndGetTag == One("Tag", GetTag, {}, {})
CheckAndGetTagByVisualID == One("Tag", GetTagByVisualID, {}, {})
CheckAndGetBillingAccount == One("BillingAccount", GetAccountByID, {}, {})

\* Assignments read all their records at once and want every one of them;
\* the filters go to the list as they are.
Many(entity, shows, action, query, id) ==
    [entity |-> entity, shows |-> shows, action |-> action, query |-> query, id |-> id,
     passes |-> {"siteIDs", "userIDs", "issuer", "companyIDs"}, before |-> {}, after |-> {},
     always |-> {action}, many |-> TRUE]

CheckAndGetUserSites(action) == Many("UserSite", "Site", action, GetSites, "siteIDs")
CheckAndGetSiteUsers(action) == Many("SiteUser", "User", action, GetUsers, "userIDs")
CheckSiteAreaAssets == Many("Asset", "Asset", "List", GetAssets, "assetIDs")
CheckSiteAreaChargingStations == Many("ChargingStation", "ChargingStation", "List", GetChargingStations, "chargingStationIDs")

Singles == {CheckAndGetChargingStation, CheckAndGetChargingStationTemplate, CheckAndGetChargingProfile,
    CheckAndGetTransaction, CheckAndGetPricingDefinition, CheckAndGetRegistrationToken, CheckAndGetCompany,
    CheckAndGetUser, CheckAndGetSite, CheckAndGetAsset, CheckAndGetLog, CheckAndGetSiteArea, CheckAndGetCar,
    CheckAndGetCarCatalog, CheckAndGetSetting, CheckAndGetBillingSetting, CheckAndGetOCPIEndpoint,
    CheckAndGetInvoice, CheckAndGetTransfer, CheckAndGetTag, CheckAndGetTagByVisualID, CheckAndGetBillingAccount}

Reads == {[h EXCEPT !.action = action] : h \in Singles, action \in {"Read", "Update", "Delete", "Download"}}
    \cup {CheckAndGetUserSites(action) : action \in {"AssignSitesToUser", "UnassignSitesFromUser"}}
    \cup {CheckAndGetSiteUsers(action) : action \in {"AssignUsersToSite", "UnassignUsersFromSite"}}
    \cup {CheckSiteAreaAssets, CheckSiteAreaChargingStations}

GrantOf == [h \in Reads, u \in Users |-> CanPerformAction(u.groups, h.entity, h.action)]

-----------------------------------------------------------------------------
\* The identifiers of a record the second question is about.
IdentifiersOf(h, doc) ==
    [id \in h.after |-> CASE id = "SiteID" -> {doc[SiteField(h.entity)]}
                          [] id = "UserID" -> {doc[UserField(h.entity)]}
                          [] id = "CompanyID" -> {doc["_id"]}]

\* A second question that is never asked.
NoSecondQuestion(h, u, org, doc) == TRUE

\* The asserts about the record are taken to hold.
CanPerform(h, u, org, doc) ==
    h.action \in h.always
    \/ LET facts == IF "issuer" \in DOMAIN doc /\ doc["issuer"] # "a" THEN {} ELSE {"issuer"}
       IN  ProcessDynamicFilters(GrantOf[h, u].context.filters, IdentifiersOf(h, doc), RightsOf(u), org, TRUE, facts).authorized

\* What goes to the getter: the identifiers, and the filters it passes on.
OneParams(h, ids, filters) ==
    LET passed == [k \in DOMAIN filters \cap h.passes |-> filters[k]]
        asked == h.id :> ids
    IN  IF h.many THEN passed @@ asked ELSE asked @@ passed

\* The record stored under an identifier has any contents.  When several are
\* asked for, the others may be seen.
StartOne(h, u, org, ids, names, params) ==
    LET shown == [h EXCEPT !.entity = h.shows]
        fields == (Looked(shown, params, names) \cup {SiteField(h.shows), UserField(h.shows)}) \ {"_id"}
        plain == Plain(shown, params, names)
        idField == IF h.id \in {"visualIDs", "identifier"} THEN {"_id", "visualID", "identifier"} ELSE {"_id"}
    IN  /\ \E v \in [fields -> Values \cup {None}], x \in ids :
             LET doc(y) == [f \in idField |-> y] @@ (IF y = x THEN v @@ plain ELSE plain)
             IN  store' = [i \in 1..Cardinality(ids) |->
                             [id |-> i, doc |-> doc(IF Cardinality(ids) = 1 THEN x ELSE <<"a", "b">>[i])]]
        /\ request' = [st |-> "one", h |-> h, u |-> u, org |-> org, params |-> params, ids |-> ids, shown |-> <<>>]

\* The rights are asked for with the identifiers of the request.
AuthorizeOne(h, u, org, ids, context) ==
    LET names == FilterNames(context)
        result == Decide(context, [i \in h.before |-> ids], RightsOf(u), org, FALSE, {})
    IN  IF result.authorized
        THEN StartOne(h, u, org, ids, names, OneParams(h, ids, AuthorizationFilters(names, result, org)))
        ELSE request' = [st |-> "denied"] /\ UNCHANGED store

AskOne ==
    /\ request.st = "idle"
    /\ \E h \in Reads, u \in Users, org \in BOOLEAN, ids \in {{"a"}, {"b"}, {"a", "b"}} :
         /\ GrantOf[h, u].authorized
         /\ h.many \/ Cardinality(ids) = 1
         /\ AuthorizeOne(h, u, org, ids, GrantOf[h, u].context)
    /\ UNCHANGED writes

\* The record is read and asked about again.  For an assignment those found
\* are narrowed down to the identifiers asked for.
GetOne ==
    /\ request.st = "one"
    /\ LET h == request.h
           found == SelectSeq(store, LAMBDA d : /\ Matches(h.query, request.params, d.doc)
                                                /\ h.many => d.doc["_id"] \in request.ids)
           complete == Len(found) = Cardinality(request.ids)
       IN  request' = IF complete /\ \A i \in DOMAIN found : CanPerform(h, request.u, request.org, found[i].doc)
                      THEN [request EXCEPT !.st = "got", !.shown = found]
                      ELSE [st |-> "denied"]
    /\ UNCHANGED <<store, writes>>

OneNext == AskOne \/ GetOne

-----------------------------------------------------------------------------
\* Filters of a read that neither the getter nor a question looks at: getUser
\* takes no issuer, getCar and getTagByVisualID no sites, getTransaction no
\* sites of administrators and owners.
Lost(h) ==
    CASE h.entity = "User" /\ h.action = "Read" -> {"LocalIssuer"}
      [] h.entity = "Car" \/ h.id = "visualIDs" -> {"SitesAdmin"}
      [] h.entity = "Transaction" /\ h.action = "Read" -> {"SitesAdminUsers", "SitesOwnerUsers"}
      [] OTHER -> {}

\* A record that is read, changed, deleted or assigned lies within the sites,
\* users, companies and issuer of the filters of the grant, although only the
\* filters the getter passes on and the second question can tell.
ReadShowsOnlyAllowed ==
    request.st = "got" =>
        LET filters == GrantOf[request.h, request.u].context.filters
            allows(filter, doc) == Allowed(PositiveName(filter), [request.h EXCEPT !.entity = request.h.shows],
                                           request.u, request.org, doc) # IsNegated(filter)
        IN  \A i \in DOMAIN request.shown, f \in DOMAIN filters :
               filters[f] \notin Lost(request.h) => allows(filters[f], request.shown[i].doc)
=============================================================================
