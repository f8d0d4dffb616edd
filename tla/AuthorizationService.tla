------------------------- MODULE AuthorizationService -------------------------
(***************************************************************************)
(* The checks of the REST services and how one is decided.  A check has an *)
(* entity, its actions, the sets of identifiers of the request that the    *)
(* filters may see (ids) and whether the stored entity is passed (data).   *)
(* The first tables are the checks of AuthorizationService, the second     *)
(* ones those of Authorizations, which look at the static grants only.     *)
(***************************************************************************)
EXTENDS AuthorizationsDefinition, FiniteSets, SequencesExt

IDs == {"SiteID", "UserID", "CompanyID", "TagIDs"}

NoID == {{}}

AnyID == SUBSET IDs

Maybe(id) == {{}, {id}}

SiteAndMaybeUser == {{"SiteID"}, {"SiteID", "UserID"}}

TransactionIDs == {{}, {"UserID"}, {"SiteID", "UserID", "CompanyID"}}

\* The actions of a check that passes on the action of its caller.
AnyAction == {"any"}

Check(entity, actions, ids, data) ==
    [entity |-> entity, actions |-> actions, ids |-> ids, data |-> data, dynamic |-> TRUE]

Static(entity, actions) ==
    [entity |-> entity, actions |-> actions, ids |-> NoID, data |-> FALSE, dynamic |-> FALSE]

SiteChecks == {
    Check("Site", AnyAction, Maybe("SiteID"), TRUE),
    Check("Logging", AnyAction, NoID, TRUE),
    Check("Site", {"Create"}, NoID, FALSE),
    Check("Company", {"List"}, NoID, FALSE),
    Check("Site", {"Delete", "Update", "MaintainPricingDefinitions", "AssignUnassignUsers"},
      {{"SiteID"}}, TRUE),
    Check("SiteArea", {"ExportOCPPParams", "GenerateQrCode"}, {{"SiteID"}}, TRUE),
    Check("SiteUser", {"List"}, {{"SiteID"}}, TRUE),
    Check("Logging", {"Export"}, NoID, FALSE),
    Check("Site", {"List"}, AnyID, FALSE),
    Check("Logging", {"List"}, AnyID, FALSE),
    Check("SiteUser", {"List"}, AnyID, FALSE) }

SiteUserChecks == {
    Check("UserSite", {"List", "AssignSitesToUser", "UnassignSitesFromUser"}, AnyID, FALSE),
    Check("SiteUser", {"AssignUsersToSite", "UnassignUsersFromSite"}, AnyID, FALSE),
    Check("UserSite", {"Update"}, NoID, FALSE),
    Check("UserSite", {"AssignSitesToUser", "UnassignSitesFromUser"}, {{"UserID"}}, TRUE),
    Check("SiteUser", {"Update"}, NoID, FALSE),
    Check("SiteUser", {"AssignUsersToSite", "UnassignUsersFromSite"}, {{"UserID"}}, TRUE) }

UserChecks == {
    Check("User", {"InError"}, AnyID, FALSE),
    Check("User", {"Create", "Export", "Import"}, NoID, FALSE),
    Check("Tag", {"List"}, NoID, FALSE),
    Check("Site", {"List"}, NoID, FALSE),
    Check("User", {"Update", "Delete", "AssignUnassignSites", "SynchronizeBillingUser"}, {{"UserID"}},
      TRUE),
    Check("UserSite", {"List"}, {{"UserID"}}, TRUE),
    Check("Tag", {"List"}, {{"UserID"}}, TRUE),
    Check("Transaction", {"GetCompletedTransaction"}, {{"UserID"}}, TRUE),
    Check("User", AnyAction, AnyID, FALSE) }

AssetChecks == {
    Check("Asset", AnyAction, AnyID, FALSE),
    Check("Asset", AnyAction, NoID, TRUE),
    Check("Asset", {"Create"}, NoID, FALSE),
    Check("Site", {"List"}, NoID, FALSE),
    Check("SiteArea", {"List"}, NoID, FALSE),
    Check("Asset", {"Delete", "Update", "CheckConnection", "RetrieveConsumption", "ReadConsumption",
      "CreateConsumption"}, NoID, TRUE) }

UserAndTagChecks == {
    Check("User", AnyAction, Maybe("UserID"), TRUE),
    Check("Tag", {"List"}, AnyID, FALSE),
    Check("Tag", AnyAction, NoID, TRUE),
    Check("Tag", {"Create", "Assign", "Delete", "Import", "Export", "Unassign"}, NoID, FALSE),
    Check("User", {"List"}, NoID, FALSE),
    Check("Source", {"List"}, NoID, FALSE),
    Check("Tag", {"Delete", "Update", "UpdateByVisualID", "Unassign", "Assign"}, NoID, TRUE) }

RegistrationTokenAndTemplateChecks == {
    Check("RegistrationToken", AnyAction, NoID, TRUE),
    Check("RegistrationToken", {"List"}, AnyID, FALSE),
    Check("RegistrationToken", {"Create"}, NoID, FALSE),
    Check("RegistrationToken", {"Delete", "Update", "Revoke"}, NoID, TRUE),
    Check("ChargingStationTemplate", AnyAction, NoID, TRUE),
    Check("ChargingStationTemplate", AnyAction, AnyID, FALSE),
    Check("ChargingStationTemplate", {"Create"}, NoID, FALSE),
    Check("ChargingStationTemplate", {"Delete", "Update"}, NoID, TRUE) }

CompanyAndPricingChecks == {
    Check("Company", {"List"}, AnyID, FALSE),
    Check("Company", {"Create"}, NoID, FALSE),
    Check("Company", {"Delete", "Update"}, {{"CompanyID"}}, TRUE),
    Check("Company", AnyAction, Maybe("CompanyID"), TRUE),
    Check("PricingDefinition", {"List"}, AnyID, FALSE),
    Check("PricingDefinition", {"Create"}, NoID, FALSE),
    Check("PricingDefinition", {"Read", "Delete", "Update"}, {{"CompanyID"}}, TRUE),
    Check("PricingDefinition", AnyAction, NoID, TRUE) }

SiteAreaChecks == {
    Check("SiteArea", AnyAction, NoID, TRUE),
    Check("SiteArea", {"List"}, AnyID, FALSE),
    Check("SiteArea", {"Create"}, NoID, FALSE),
    Check("SiteArea", {"Update", "Delete", "AssignAssets", "UnassignAssets", "ReadAssets",
      "AssignChargingStations", "UnassignChargingStations", "ReadChargingStationsFromSiteArea",
      "ExportOCPPParams", "GenerateQrCode"}, {{"SiteID"}}, TRUE) }

ChargingProfileChecks == {
    Check("ChargingProfile", AnyAction, AnyID, FALSE),
    Check("ChargingStation", {"List"}, NoID, FALSE),
    Check("ChargingProfile", {"Update", "Delete"}, {{"SiteID"}}, TRUE),
    Check("SiteArea", {"Read"}, {{"SiteID"}}, TRUE),
    Check("ChargingProfile", AnyAction, NoID, TRUE) }

ChargingStationChecks == {
    Check("ChargingStation", AnyAction, NoID, TRUE),
    Check("ChargingStation", AnyAction, AnyID, FALSE),
    Check("Company", {"List"}, NoID, FALSE),
    Check("Site", {"List"}, NoID, FALSE),
    Check("SiteArea", {"List"}, NoID, FALSE),
    Check("User", {"List"}, NoID, FALSE),
    Check("ChargingStation", {"Export"}, NoID, FALSE) }

ChargingStationFlags == {
    Check("User", {"List"}, {{"SiteID"}}, TRUE),
    Check("ChargingStation", {"Authorize", "Update", "UpdateOCPPParams", "LimitPower",
      "DeleteChargingProfile", "GetOCPPParams", "UpdateChargingProfile", "GetConnectorQRCode", "Delete",
      "ReserveNow", "Reset", "ClearCache", "GetConfiguration", "ChangeConfiguration",
      "SetChargingProfile", "GetCompositeSchedule", "ClearChargingProfile", "GetDiagnostics",
      "UpdateFirmware", "RemoteStopTransaction", "StopTransaction", "StartTransaction",
      "ChangeAvailability", "RemoteStartTransaction", "UnlockConnector", "DataTransfer",
      "GenerateQrCode", "MaintainPricingDefinitions", "PushTransactionCDR"}, {{"SiteID"}}, TRUE),
    Check("Transaction", {"GetCompletedTransaction"}, {{"SiteID"}}, TRUE),
    Check("Connector", {"RemoteStopTransaction", "RemoteStartTransaction", "ViewUserData"},
      SiteAndMaybeUser, TRUE),
    Check("Transaction", {"Read"}, {{"SiteID", "UserID", "TagIDs"}}, FALSE),
    Check("ChargingStation", {"ViewUserData"}, SiteAndMaybeUser, TRUE) }

BillingChecks == {
    Check("Billing", AnyAction, NoID, TRUE),
    Check("BillingPlatform", AnyAction, NoID, TRUE),
    Check("BillingAccount", AnyAction, NoID, TRUE),
    Check("BillingAccount", {"List"}, AnyID, FALSE),
    Check("BillingTransfer", AnyAction, AnyID, FALSE),
    Check("BillingTransfer", AnyAction, NoID, TRUE),
    Check("Tax", {"List"}, NoID, FALSE),
    Check("Invoice", {"List"}, AnyID, FALSE),
    Check("Invoice", AnyAction, NoID, TRUE),
    Check("User", {"List"}, NoID, FALSE),
    Check("Invoice", {"Download"}, Maybe("UserID"), TRUE),
    Check("BillingAccount", {"List", "Create"}, NoID, FALSE),
    Check("BillingTransfer", {"Download"}, Maybe("UserID"), TRUE) }

PaymentMethodAndSettingChecks == {
    Check("PaymentMethod", {"List", "Create"}, Maybe("UserID"), FALSE),
    Check("PaymentMethod", AnyAction, Maybe("UserID"), TRUE),
    Check("PaymentMethod", {"Delete"}, NoID, TRUE),
    Check("Setting", {"List"}, AnyID, FALSE),
    Check("Setting", AnyAction, NoID, TRUE),
    Check("Setting", {"Create", "Update", "Delete"}, NoID, FALSE),
    Check("Transaction", {"SynchronizeRefundedTransaction"}, NoID, FALSE),
    Check("Billing", {"CheckConnection"}, NoID, FALSE),
    Check("SmartCharging", {"CheckConnection"}, NoID, FALSE),
    Check("Asset", {"CheckConnection"}, NoID, FALSE) }

OCPIEndpointChecks == {
    Check("OcpiEndpoint", AnyAction, AnyID, FALSE),
    Check("OcpiEndpoint", AnyAction, NoID, TRUE),
    Check("OcpiEndpoint", {"Create", "GenerateLocalToken", "Ping", "Update", "Delete", "Register",
      "TriggerJob"}, NoID, FALSE) }

CarChecks == {
    Check("Car", {"List"}, AnyID, FALSE),
    Check("Car", AnyAction, NoID, TRUE),
    Check("Car", {"Create"}, NoID, FALSE),
    Check("User", {"List"}, NoID, FALSE),
    Check("CarCatalog", {"List", "Synchronize"}, NoID, FALSE),
    Check("Car", {"Delete", "Update"}, NoID, TRUE),
    Check("CarCatalog", AnyAction, AnyID, FALSE),
    Check("CarCatalog", AnyAction, NoID, TRUE),
    Check("CarCatalog", {"Delete", "Update"}, NoID, TRUE) }

TransactionChecks == {
    Check("Transaction", AnyAction, AnyID, FALSE),
    Check("Transaction", AnyAction, NoID, TRUE),
    Check("User", {"List"}, NoID, FALSE),
    Check("Site", {"List"}, NoID, FALSE),
    Check("SiteArea", {"List"}, NoID, FALSE),
    Check("ChargingStation", {"List"}, NoID, FALSE),
    Check("Tag", {"List"}, NoID, FALSE),
    Check("Transaction", {"Export", "Delete", "SynchronizeRefundedTransaction", "RefundTransaction"},
      NoID, FALSE),
    Check("Setting", {"Read"}, NoID, FALSE),
    Check("Transaction", {"Delete", "Update", "SynchronizeRefundedTransaction", "GetAdvenirConsumption",
      "RemoteStopTransaction", "RefundTransaction", "PushTransactionCDR", "ExportOcpiCdr",
      "ViewUserData"}, TransactionIDs, TRUE),
    Check("Logging", {"List"}, TransactionIDs, TRUE),
    Check("ChargingStation", {"Read"}, TransactionIDs, TRUE) }

TransactionInErrorChecks == {
    Check("User", {"List"}, NoID, FALSE),
    Check("Site", {"List"}, NoID, FALSE),
    Check("SiteArea", {"List"}, NoID, FALSE),
    Check("ChargingStation", {"List"}, NoID, FALSE),
    Check("Tag", {"List"}, NoID, FALSE),
    Check("Transaction", {"Export", "Delete"}, NoID, FALSE),
    Check("Logging", {"List"}, TransactionIDs, TRUE),
    Check("Transaction", {"ViewUserData"}, TransactionIDs, TRUE),
    Check("Transaction", {"ViewUserData"}, NoID, TRUE) }

ConsumptionAndStatisticChecks == {
    Check("Consumption", AnyAction, AnyID, FALSE),
    Check("SmartCharging", AnyAction, NoID, FALSE),
    Check("Statistic", AnyAction, AnyID, FALSE),
    Check("User", {"List"}, NoID, FALSE),
    Check("ChargingStation", {"List"}, NoID, FALSE),
    Check("Site", {"List"}, NoID, FALSE),
    Check("SiteArea", {"List"}, NoID, FALSE),
    Check("Statistic", {"Export"}, NoID, FALSE) }

StaticChecks1 == {
    Static("Transaction", {"RefundTransaction"}),
    Static("ChargingStation", {"RemoteStartTransaction", "RemoteStopTransaction"}) }

StaticChecks2 == {
    Static("Logging", {"List", "Read"}),
    Static("Transaction", {"List", "InError", "Read", "Update", "Delete"}),
    Static("Report", {"Read"}),
    Static("ChargingStation", {"List", "InError", "Read", "Update", "Delete", "Export"}),
    Static("User", {"List", "InError", "Read", "Create", "Import", "Export", "Update"}),
    Static("Tag", {"List", "Read", "Delete", "Create", "Update", "Import", "Export"}) }

StaticChecks3 == {
    Static("User", {"Delete"}),
    Static("Site", {"List", "Read", "Create", "Update", "Delete"}),
    Static("Setting", {"List", "Read", "Delete", "Create", "Update"}),
    Static("RegistrationToken", {"Create", "Read", "Delete", "Update", "List"}),
    Static("OcpiEndpoint", {"List", "Read", "Delete", "Create", "Update", "Ping", "TriggerJob",
      "Register", "GenerateLocalToken"}),
    Static("OicpEndpoint", {"List", "Read", "Delete", "Create", "Update", "Ping", "TriggerJob",
      "Register"}),
    Static("ChargingProfile", {"List"}) }

StaticChecks4 == {
    Static("ChargingProfile", {"Read"}),
    Static("SiteArea", {"Update"}),
    Static("CarCatalog", {"List", "Synchronize"}),
    Static("Car", {"List", "Update"}),
    Static("Asset", {"List", "InError", "Read", "Create", "Update", "Delete", "CheckConnection",
      "RetrieveConsumption", "ReadConsumption"}),
    Static("Tenant", {"List", "Read", "Create", "Update", "Delete"}),
    Static("Connection", {"Create", "Delete", "Read", "List"}),
    Static("PricingDefinition", {"Read", "Update"}),
    Static("Billing", {"ClearBillingTestData", "CheckConnection"}),
    Static("User", {"SynchronizeBillingUser"}),
    Static("Tax", {"List"}),
    Static("Invoice", {"List", "Read", "Synchronize", "Create", "Download"}),
    Static("BillingTransfer", {"List"}) }

StaticChecks5 == {
    Static("Asset", {"CreateConsumption"}),
    Static("Notification", {"Create"}),
    Static("PaymentMethod", {"Create"}),
    Static("Setting", {"Read", "Update"}) }

\* Every check some service makes.
AllChecks ==
        UNION {SiteChecks, SiteUserChecks, UserChecks, AssetChecks, UserAndTagChecks,
           RegistrationTokenAndTemplateChecks, CompanyAndPricingChecks, SiteAreaChecks,
           ChargingProfileChecks, ChargingStationChecks, ChargingStationFlags,
           BillingChecks, PaymentMethodAndSettingChecks, OCPIEndpointChecks, CarChecks,
           TransactionChecks, TransactionInErrorChecks, ConsumptionAndStatisticChecks,
           StaticChecks1, StaticChecks2, StaticChecks3, StaticChecks4, StaticChecks5}

-----------------------------------------------------------------------------
(***************************************************************************)
(* Deciding a check.  r holds what the data sources load from the storage  *)
(* for the user: the sites he is assigned to, of which he is admin or      *)
(* owner, the companies of his sites and his tags; org says whether the    *)
(* organization component is active.  ask gives the identifiers of the     *)
(* request, each a set of values, and self is the user.  acc is the        *)
(* AuthorizationFilter object the filters write.                           *)
(***************************************************************************)
IsNegated(name) == name \in {"-OwnUser", "-PoolCar"}

PositiveName(name) ==
    CASE name = "-OwnUser" -> "OwnUser"
      [] name = "-PoolCar" -> "PoolCar"
      [] OTHER -> name

Among(ask, id, own) ==
    IF own = {} THEN {} ELSE IF id \in DOMAIN ask THEN ask[id] \cap own ELSE own

SitesFilter(acc, ask, own, org) ==
    IF ~org THEN [acc EXCEPT !.authorized = TRUE]
    ELSE LET sites == Among(ask, "SiteID", own)
         IN  [acc EXCEPT !.sites = sites, !.authorized = @ \/ sites # {}]

CompaniesFilter(acc, ask, own) ==
    LET companies == Among(ask, "CompanyID", own)
    IN  [acc EXCEPT !.companies = companies, !.authorized = @ \/ companies # {}]

OwnUserFilter(acc, ask, r) ==
    LET users == Among(ask, "UserID", {r.self})
        tags  == Among(ask, "TagIDs", r.tags)
        used  == "UserID" \in DOMAIN ask \/ (r.tags # {} /\ "TagIDs" \in DOMAIN ask)
        match == ("UserID" \in DOMAIN ask /\ users # {}) \/ ("TagIDs" \in DOMAIN ask /\ tags # {})
    IN  [acc EXCEPT !.users = users, !.tags = tags, !.authorized = @ \/ match \/ ~used]

SiteUsersFilter(acc, ask, r, own, org) ==
    LET sites == IF org THEN Among(ask, "SiteID", own) ELSE {}
        users == Among(ask, "UserID", {r.self})
        tags  == Among(ask, "TagIDs", r.tags)
        used  == \/ org /\ own # {} /\ "SiteID" \in DOMAIN ask
                 \/ "UserID" \in DOMAIN ask
                 \/ r.tags # {} /\ "TagIDs" \in DOMAIN ask
        match == \/ "SiteID" \in DOMAIN ask /\ sites # {}
                 \/ "UserID" \in DOMAIN ask /\ users # {}
                 \/ "TagIDs" \in DOMAIN ask /\ tags # {}
    IN  [acc EXCEPT !.userSites = sites, !.users = users, !.tags = tags,
                    !.authorized = @ \/ match \/ ~used]

\* An entity without the property issuer counts as one that has it.
LocalIssuerFilter(acc, data, entity) ==
    [acc EXCEPT !.authorized = ~data \/ "issuer" \in entity]

SitesAdminFilter(acc, ask, r, org) == SitesFilter(acc, ask, r.admin, org)
SitesOwnerFilter(acc, ask, r, org) == SitesFilter(acc, ask, r.owner, org)
AssignedSitesFilter(acc, ask, r, org) == SitesFilter(acc, ask, r.assigned, org)
SitesAdminOrOwnerFilter(acc, ask, r) == SitesFilter(acc, ask, r.admin \cup r.owner, TRUE)
SitesAdminUsersFilter(acc, ask, r, org) == SiteUsersFilter(acc, ask, r, r.admin, org)
SitesOwnerUsersFilter(acc, ask, r, org) == SiteUsersFilter(acc, ask, r, r.owner, org)
ExcludeActionFilter(acc) == [acc EXCEPT !.authorized = FALSE]

ProcessFilter(name, acc, ask, r, org, data, entity) ==
    CASE name = "SitesAdmin"             -> SitesAdminFilter(acc, ask, r, org)
      [] name = "SitesOwner"             -> SitesOwnerFilter(acc, ask, r, org)
      [] name = "AssignedSites"          -> AssignedSitesFilter(acc, ask, r, org)
      [] name = "SitesAdminOrOwner"      -> SitesAdminOrOwnerFilter(acc, ask, r)
      [] name = "AssignedSitesCompanies" -> CompaniesFilter(acc, ask, r.assigned)
      [] name = "OwnUser"                -> OwnUserFilter(acc, ask, r)
      [] name = "SitesAdminUsers"        -> SitesAdminUsersFilter(acc, ask, r, org)
      [] name = "SitesOwnerUsers"        -> SitesOwnerUsersFilter(acc, ask, r, org)
      [] name = "LocalIssuer"            -> LocalIssuerFilter(acc, data, entity)
      [] name = "ExcludeAction"          -> ExcludeActionFilter(acc)

NewFilter == [authorized |-> TRUE, sites |-> {}, userSites |-> {}, users |-> {}, tags |-> {},
              companies |-> {}]

\* One filter of a grant, on what the filters before it have left.
ProcessNext(name, acc, ask, r, org, data, entity) ==
    LET run == ProcessFilter(PositiveName(name), [acc EXCEPT !.authorized = FALSE],
                             ask, r, org, data, entity)
    IN  IF ~acc.authorized THEN acc
        ELSE IF IsNegated(name) THEN [run EXCEPT !.authorized = ~@] ELSE run

\* The filters of a grant are processed in their order; the first one that
\* does not authorize ends the processing.
ProcessDynamicFilters(filters, ask, r, org, data, entity) ==
    LET after[n \in 0..Len(filters)] ==
            IF n = 0 THEN NewFilter
            ELSE ProcessNext(filters[n], after[n - 1], ask, r, org, data, entity)
    IN  after[Len(filters)]

\* An assert reads one fact of the stored entity.
ProcessAssert(name, entity) == (PositiveName(name) \in entity) # IsNegated(name)

ProcessDynamicAsserts(asserts, data, entity) ==
    data => \A i \in DOMAIN asserts : ProcessAssert(asserts[i], entity)

\* checkAndGetEntityAuthorizations and canPerformAuthorizationAction, for a
\* grant of the given context.
Decide(context, ask, r, org, data, entity) ==
    LET acc == ProcessDynamicFilters(context.filters, ask, r, org, data, entity)
    IN  [acc EXCEPT !.authorized = @ /\ ProcessDynamicAsserts(context.asserts, data, entity)]
=============================================================================
