----------------------- MODULE AuthorizationsDefinition -----------------------
(***************************************************************************)
(* The static rights of the groups (AUTHORIZATION_DEFINITION): one grant   *)
(* per line, in the order of the file, neighbours with the same entity and *)
(* the same condition joined.  Dyn is a grant with the condition           *)
(* dynamicAuthorizations, whose filters and asserts are evaluated by       *)
(* AuthorizationService; Free has no condition.  The attribute lists and   *)
(* the metadata of the forms are left out: no decision depends on them.    *)
(***************************************************************************)
EXTENDS Naturals, Sequences, SequencesExt

Dyn(resource, actions, filters, asserts) ==
    [resource |-> resource, actions |-> actions, cond |-> TRUE,
     filters |-> filters, asserts |-> asserts]

Free(resource, actions) ==
    [resource |-> resource, actions |-> actions, cond |-> FALSE,
     filters |-> <<>>, asserts |-> <<>>]

SuperAdminGrants == <<
    Dyn("User", {"List"}, <<>>, <<>>),
    Free("ChargingStationTemplate", {"List", "Create", "Read", "Update", "Delete"}),
    Dyn("User", {"Delete"}, <<"-OwnUser", "LocalIssuer">>, <<>>),
    Free("User", {"Read", "Create"}),
    Dyn("User", {"Update"}, <<"LocalIssuer">>, <<>>),
    Free("Logging", {"List", "Export", "Read"}),
    Free("Tenant", {"List", "Create", "Read", "Update", "Delete"}),
    Free("CarCatalog", {"List", "Synchronize", "Read"}),
    Free("Statistic", {"Read", "Export"}) >>

AdminGrants1 == <<
    Free("Tenant", {"Read", "Update"}),
    Dyn("User", {"List", "Export", "Import", "InError"}, <<>>, <<>>),
    Free("User", {"SynchronizeBillingUser"}),
    Dyn("User", {"Delete"}, <<"-OwnUser", "LocalIssuer">>, <<>>),
    Free("User", {"Read", "Create"}),
    Dyn("User", {"Update", "AssignUnassignSites"}, <<"LocalIssuer">>, <<>>),
    Free("Company", {"List"}),
    Free("Tag", {"List", "Import", "Export"}),
    Dyn("Tag", {"Read"}, <<>>, <<>>),
    Dyn("Tag", {"Update", "Delete"}, <<"LocalIssuer">>, <<>>),
    Free("Tag", {"Create"}) >>

AdminGrants2 == <<
    Dyn("ChargingProfile", {"List"}, <<>>, <<>>),
    Free("ChargingProfile", {"Read", "Create", "Update", "Delete"}),
    Free("Company", {"Read"}),
    Dyn("Company", {"Create", "Update", "Delete"}, <<"LocalIssuer">>, <<>>),
    Free("Site", {"List", "Read"}),
    Dyn("Site", {"Create", "Update", "Delete", "ExportOCPPParams", "GenerateQrCode",
      "MaintainPricingDefinitions", "AssignUnassignUsers"}, <<"LocalIssuer">>, <<>>),
    Free("SmartCharging", {"CheckConnection"}),
    Dyn("UserSite", {"AssignSitesToUser", "UnassignSitesFromUser", "Read", "Update", "List"}, <<>>,
      <<>>),
    Dyn("SiteUser", {"AssignUsersToSite", "UnassignUsersFromSite", "Read", "Update", "List"},
      <<"LocalIssuer">>, <<>>),
    Free("SiteArea", {"List", "Read", "ReadChargingStationsFromSiteArea"}) >>

AdminGrants3 == <<
    Dyn("SiteArea", {"Create", "Update", "Delete", "AssignAssets", "UnassignAssets",
      "AssignChargingStations", "UnassignChargingStations", "ExportOCPPParams", "GenerateQrCode",
      "ReadAssets"}, <<"LocalIssuer">>, <<>>),
    Free("ChargingStation", {"List"}),
    Dyn("ChargingStation", {"GetStatusNotification", "GetBootNotification"}, <<>>, <<>>),
    Free("ChargingStation", {"InError"}),
    Dyn("ChargingStation", {"Reset", "ClearCache", "ChangeAvailability", "Update", "Delete",
      "GenerateQrCode", "GetConfiguration", "ChangeConfiguration", "StopTransaction",
      "StartTransaction", "Authorize", "SetChargingProfile", "GetCompositeSchedule",
      "ClearChargingProfile", "GetDiagnostics", "UpdateFirmware", "ExportOCPPParams", "DataTransfer",
      "UpdateOCPPParams", "LimitPower", "DeleteChargingProfile", "GetOCPPParams",
      "UpdateChargingProfile", "GetConnectorQRCode", "MaintainPricingDefinitions"}, <<"LocalIssuer">>,
      <<>>),
    Free("ChargingStation", {"Create", "Read", "RemoteStartTransaction", "RemoteStopTransaction",
      "UnlockConnector", "Export", "ReserveNow"}),
    Dyn("ChargingStation", {"ViewUserData"}, <<>>, <<>>),
    Dyn("Connector", {"StopTransaction", "StartTransaction"}, <<"LocalIssuer">>, <<>>),
    Dyn("Connector", {"RemoteStopTransaction", "RemoteStartTransaction", "ViewUserData"}, <<>>, <<>>),
    Free("Statistic", {"Read", "Export"}) >>

AdminGrants4 == <<
    Dyn("Transaction", {"List", "Read", "GetChargingStationTransactions", "GetActiveTransaction",
      "GetRefundableTransaction", "GetCompletedTransaction", "GetRefundReport"}, <<>>, <<>>),
    Dyn("Transaction", {"RefundTransaction"}, <<"SitesOwner">>, <<>>),
    Dyn("Transaction", {"ExportCompletedTransaction"}, <<>>, <<>>) >>

AdminGrants5 == <<
    Dyn("Transaction", {"ExportOcpiCdr", "GetAdvenirConsumption", "InError"}, <<>>, <<>>),
    Free("Transaction", {"Export", "SynchronizeRefundedTransaction", "Update", "Delete",
      "RemoteStopTransaction"}),
    Dyn("Transaction", {"PushTransactionCDR"}, <<"LocalIssuer">>, <<>>),
    Dyn("Transaction", {"ViewUserData"}, <<>>, <<>>),
    Dyn("Consumption", {"List", "Read", "GetAdvenirConsumption"}, <<>>, <<>>),
    Free("Report", {"Read"}),
    Free("Logging", {"List", "Export", "Read"}),
    Free("Pricing", {"Read", "Update"}),
    Free("PricingDefinition", {"List"}) >>

AdminGrants6 == <<
    Free("PricingDefinition", {"Create", "Read", "Update", "Delete"}),
    Free("Billing", {"CheckConnection", "ClearBillingTestData"}),
    Free("BillingAccount", {"List", "Create", "Read", "Update", "Delete", "BillingAccountOnboard"}),
    Free("BillingTransfer", {"List", "Read", "BillingFinalizeTransfer", "BillingSendTransfer",
      "Download"}),
    Free("Tax", {"List"}),
    Free("Invoice", {"List", "Download", "Read"}),
    Free("Asset", {"Create", "Read", "CheckConnection", "CreateConsumption"}),
    Dyn("Asset", {"ReadConsumption", "RetrieveConsumption"}, <<>>, <<>>),
    Dyn("Asset", {"Update", "Delete"}, <<"LocalIssuer">>, <<>>),
    Free("Asset", {"List", "InError"}),
    Free("Setting", {"List", "Create", "Read", "Update", "Delete"}),
    Free("RegistrationToken", {"List", "Read", "Create", "Update", "Delete", "Revoke"}),
    Free("OcpiEndpoint", {"List", "Read", "Create", "Update", "Delete", "Ping", "GenerateLocalToken",
      "Register", "TriggerJob"}),
    Free("OicpEndpoint", {"List", "Create", "Read", "Update", "Delete", "Ping", "Register",
      "TriggerJob"}),
    Free("Connection", {"List", "Create", "Read", "Delete"}) >>

AdminGrants7 == <<
    Free("CarCatalog", {"List", "Read"}),
    Free("Car", {"Create", "Update", "Delete", "Read"}),
    Dyn("Car", {"List"}, <<>>, <<>>),
    Free("Notification", {"Create"}),
    Free("PaymentMethod", {"List", "Read", "Create", "Delete"}),
    Free("Source", {"List"}) >>

BasicGrants1 == <<
    Dyn("User", {"Read"}, <<"OwnUser">>, <<>>),
    Dyn("User", {"Update"}, <<"OwnUser">>, <<"BasicUser">>),
    Free("Setting", {"Read"}),
    Free("CarCatalog", {"List", "Read"}),
    Dyn("Car", {"List"}, <<"OwnUser">>, <<>>),
    Dyn("Car", {"Create", "Update"}, <<"OwnUser">>, <<"-PoolCar", "OwnUser">>),
    Dyn("Car", {"Read", "Delete"}, <<"OwnUser">>, <<>>),
    Dyn("Company", {"List", "Read"}, <<"AssignedSitesCompanies">>, <<>>),
    Dyn("Invoice", {"List"}, <<"OwnUser">>, <<>>) >>

BasicGrants2 == <<
    Dyn("Invoice", {"Read", "Download"}, <<"OwnUser">>, <<>>),
    Dyn("BillingTransfer", {"Download"}, <<"OwnUser">>, <<>>),
    Dyn("PaymentMethod", {"List", "Read", "Create", "Delete"}, <<"OwnUser">>, <<>>),
    Dyn("Site", {"List", "Read"}, <<"AssignedSites">>, <<>>),
    Dyn("SiteArea", {"List", "Read", "ReadChargingStationsFromSiteArea"}, <<"AssignedSites">>, <<>>) >>

BasicGrants3 == <<
    Dyn("ChargingStation", {"List", "Read", "ReserveNow", "RemoteStartTransaction",
      "RemoteStopTransaction"}, <<"AssignedSites">>, <<>>),
    Dyn("ChargingStation", {"StartTransaction", "StopTransaction", "Authorize", "GetConnectorQRCode"},
      <<"AssignedSites", "LocalIssuer">>, <<>>),
    Dyn("ChargingStation", {"PushTransactionCDR"}, <<"LocalIssuer">>, <<>>),
    Dyn("ChargingStation", {"ViewUserData"}, <<"OwnUser">>, <<>>),
    Dyn("Connector", {"StartTransaction"}, <<"AssignedSites", "LocalIssuer">>, <<>>),
    Dyn("Connector", {"RemoteStopTransaction", "StopTransaction"}, <<"OwnUser">>, <<"OwnUser">>),
    Dyn("Connector", {"ViewUserData"}, <<"OwnUser">>, <<>>),
    Dyn("Connector", {"RemoteStartTransaction"}, <<"AssignedSites">>, <<>>),
    Dyn("Tag", {"List"}, <<"OwnUser">>, <<>>) >>

BasicGrants4 == <<
    Dyn("Tag", {"Read"}, <<"OwnUser">>, <<>>),
    Dyn("Tag", {"Unassign", "UpdateByVisualID"}, <<"OwnUser">>, <<"OwnUser">>),
    Dyn("Tag", {"Assign"}, <<"LocalIssuer">>, <<>>),
    Dyn("Statistic", {"Read", "Export"}, <<"OwnUser">>, <<>>),
    Dyn("Transaction", {"List", "Read", "GetChargingStationTransactions", "GetActiveTransaction"},
      <<"OwnUser">>, <<>>) >>

BasicGrants5 == <<
    Dyn("Transaction", {"GetCompletedTransaction", "GetRefundReport", "ExportCompletedTransaction",
      "GetAdvenirConsumption", "Export", "Update", "RemoteStopTransaction", "ViewUserData"},
      <<"OwnUser">>, <<>>),
    Dyn("Consumption", {"List", "Read", "GetAdvenirConsumption"}, <<>>, <<>>),
    Free("Connection", {"List", "Create"}),
    Dyn("Connection", {"Read", "Delete"}, <<"OwnUser">>, <<>>),
    Free("Notification", {"Create"}) >>

DemoGrants1 == <<
    Dyn("User", {"Read"}, <<"OwnUser">>, <<>>),
    Free("Asset", {"List", "Read"}),
    Dyn("Asset", {"ReadConsumption"}, <<>>, <<>>),
    Free("Setting", {"Read"}),
    Free("CarCatalog", {"List", "Read"}),
    Free("Car", {"Read", "List"}),
    Free("Company", {"List", "Read"}),
    Free("Site", {"List", "Read"}),
    Free("SiteArea", {"List", "Read"}) >>

DemoGrants2 == <<
    Dyn("ChargingStation", {"List", "Read"}, <<"AssignedSites">>, <<>>),
    Free("ChargingStation", {"GetConnectorQRCode"}),
    Dyn("ChargingStation", {"PushTransactionCDR"}, <<"LocalIssuer">>, <<>>),
    Dyn("Statistic", {"Read", "Export"}, <<"AssignedSites">>, <<>>),
    Dyn("Transaction", {"List", "Read", "GetChargingStationTransactions"}, <<"AssignedSites">>, <<>>) >>

DemoGrants3 == <<
    Dyn("Transaction", {"GetActiveTransaction", "GetCompletedTransaction", "GetRefundReport",
      "ExportCompletedTransaction", "Export", "Update"}, <<"AssignedSites">>, <<>>),
    Dyn("Transaction", {"ViewUserData"}, <<"OwnUser">>, <<>>),
    Dyn("Consumption", {"List", "Read"}, <<"OwnUser">>, <<>>) >>

SiteAdminGrants1 == <<
    Dyn("Tag", {"Assign", "Unassign", "UpdateByVisualID"}, <<"ExcludeAction">>, <<>>),
    Dyn("User", {"List", "Read"}, <<"SitesAdmin", "LocalIssuer">>, <<>>),
    Dyn("User", {"Create"}, <<"SitesAdmin">>, <<"BasicUser">>),
    Dyn("User", {"Update"}, <<"SitesAdmin", "LocalIssuer">>, <<"BasicUser">>),
    Free("User", {"SynchronizeBillingUser"}),
    Dyn("User", {"Delete"}, <<"-OwnUser", "SitesAdmin", "LocalIssuer">>, <<"BasicUser">>),
    Dyn("UserSite", {"AssignSitesToUser", "UnassignSitesFromUser", "Read", "Update", "List"},
      <<"SitesAdminOrOwner", "LocalIssuer">>, <<>>),
    Dyn("User", {"AssignUnassignSites"}, <<"SitesAdminOrOwner", "LocalIssuer">>, <<>>),
    Dyn("SiteUser", {"AssignUsersToSite", "UnassignUsersFromSite", "Read", "Update", "List"},
      <<"SitesAdminOrOwner", "LocalIssuer">>, <<>>),
    Dyn("Site", {"AssignUnassignUsers"}, <<"SitesAdminOrOwner", "LocalIssuer">>, <<>>) >>

SiteAdminGrants2 == <<
    Dyn("Site", {"Update", "MaintainPricingDefinitions", "ExportOCPPParams"}, <<"SitesAdmin",
      "LocalIssuer">>, <<>>),
    Dyn("Site", {"List"}, <<"AssignedSites">>, <<>>),
    Dyn("Site", {"Read"}, <<>>, <<>>),
    Free("SiteArea", {"Create"}),
    Dyn("SiteArea", {"Update", "Delete", "UnassignAssets", "UnassignChargingStations",
      "ExportOCPPParams"}, <<"SitesAdmin", "LocalIssuer">>, <<>>),
    Dyn("SiteArea", {"List"}, <<"AssignedSites">>, <<>>),
    Free("SiteArea", {"Read"}),
    Dyn("SiteArea", {"ReadAssets"}, <<"SitesAdmin">>, <<>>),
    Dyn("Asset", {"List", "Read"}, <<"AssignedSites", "LocalIssuer">>, <<>>) >>

SiteAdminGrants3 == <<
    Dyn("Asset", {"ReadConsumption"}, <<"AssignedSites", "LocalIssuer">>, <<>>),
    Dyn("Car", {"List"}, <<"SitesAdmin">>, <<>>),
    Dyn("Car", {"Create"}, <<>>, <<>>),
    Dyn("Car", {"Read", "Update", "Delete"}, <<"SitesAdmin">>, <<>>),
    Dyn("ChargingStation", {"List", "Read"}, <<"AssignedSites">>, <<>>),
    Dyn("ChargingStation", {"Update", "Export", "ExportOCPPParams", "GenerateQrCode",
      "UpdateOCPPParams", "LimitPower", "DeleteChargingProfile", "GetOCPPParams",
      "UpdateChargingProfile", "MaintainPricingDefinitions"}, <<"SitesAdmin", "LocalIssuer">>, <<>>),
    Dyn("ChargingStation", {"Reset", "ClearCache", "Delete", "GetConfiguration", "ChangeConfiguration",
      "SetChargingProfile", "GetCompositeSchedule", "ClearChargingProfile", "GetDiagnostics",
      "UpdateFirmware", "RemoteStopTransaction", "StopTransaction", "ChangeAvailability"},
      <<"SitesAdmin">>, <<>>) >>

SiteAdminGrants4 == <<
    Dyn("ChargingStation", {"PushTransactionCDR"}, <<"LocalIssuer">>, <<>>),
    Dyn("ChargingStation", {"ViewUserData"}, <<"SitesAdminUsers">>, <<>>),
    Dyn("Connector", {"RemoteStopTransaction"}, <<"SitesAdminUsers">>, <<>>),
    Dyn("Connector", {"RemoteStartTransaction"}, <<"AssignedSites">>, <<>>),
    Dyn("Connector", {"StopTransaction", "StartTransaction"}, <<"AssignedSites", "LocalIssuer">>, <<>>),
    Dyn("Connector", {"ViewUserData"}, <<"SitesAdminUsers">>, <<>>),
    Dyn("ChargingProfile", {"List", "Create", "Update", "Delete", "Read"}, <<"SitesAdmin">>, <<>>),
    Dyn("Statistic", {"Read", "Export"}, <<"SitesAdmin">>, <<>>),
    Dyn("Transaction", {"List"}, <<"SitesAdminUsers">>, <<>>) >>

SiteAdminGrants5 == <<
    Dyn("Transaction", {"Read", "GetChargingStationTransactions", "GetActiveTransaction",
      "GetCompletedTransaction", "GetRefundReport", "ExportCompletedTransaction"},
      <<"SitesAdminUsers">>, <<>>),
    Dyn("Transaction", {"ExportOcpiCdr"}, <<>>, <<>>),
    Dyn("Transaction", {"GetAdvenirConsumption", "Update", "Export", "RemoteStopTransaction"},
      <<"SitesAdminUsers">>, <<>>) >>

SiteAdminGrants6 == <<
    Dyn("Transaction", {"PushTransactionCDR"}, <<"SitesAdminUsers", "LocalIssuer">>, <<>>),
    Dyn("Transaction", {"ViewUserData"}, <<"SitesAdminUsers">>, <<>>),
    Dyn("Consumption", {"List", "Read", "GetAdvenirConsumption"}, <<>>, <<>>),
    Free("Report", {"Read"}),
    Dyn("Logging", {"List", "Export", "Read"}, <<"SitesAdmin">>, <<>>),
    Dyn("RegistrationToken", {"List", "Read"}, <<"SitesAdmin">>, <<>>),
    Dyn("RegistrationToken", {"Create", "Update"}, <<"SitesAdmin">>, <<"SiteAreaMandatory">>) >>

SiteAdminGrants7 == <<
    Dyn("RegistrationToken", {"Delete", "Revoke"}, <<"SitesAdmin">>, <<>>),
    Dyn("Tag", {"List", "Export"}, <<"SitesAdmin", "LocalIssuer">>, <<>>),
    Dyn("Tag", {"Create"}, <<>>, <<"UserMandatory">>),
    Dyn("Tag", {"Read", "Delete"}, <<"SitesAdmin", "LocalIssuer">>, <<>>),
    Dyn("Tag", {"Update"}, <<"SitesAdmin", "LocalIssuer">>, <<"UserMandatory">>),
    Dyn("PricingDefinition", {"List", "Create", "Read", "Update", "Delete"}, <<"SitesAdmin">>, <<>>),
    Free("Source", {"List"}) >>

SiteOwnerGrants1 == <<
    Dyn("User", {"List", "Read"}, <<"SitesOwner", "LocalIssuer">>, <<>>),
    Dyn("UserSite", {"Read", "List"}, <<"SitesAdminOrOwner", "LocalIssuer">>, <<>>),
    Dyn("SiteUser", {"Read", "List"}, <<"SitesAdminOrOwner", "LocalIssuer">>, <<>>),
    Dyn("Statistic", {"Read", "Export"}, <<"SitesOwner">>, <<>>),
    Dyn("Transaction", {"Read", "GetChargingStationTransactions", "GetActiveTransaction"},
      <<"SitesOwnerUsers">>, <<>>) >>

SiteOwnerGrants2 == <<
    Dyn("Transaction", {"GetRefundableTransaction"}, <<"SitesOwner">>, <<>>),
    Dyn("Transaction", {"GetCompletedTransaction", "GetRefundReport", "ExportCompletedTransaction"},
      <<"SitesOwnerUsers">>, <<>>),
    Dyn("Transaction", {"GetAdvenirConsumption"}, <<"AssignedSites">>, <<>>),
    Dyn("Transaction", {"Update", "Export", "RefundTransaction", "RemoteStopTransaction",
      "ViewUserData"}, <<"SitesOwnerUsers">>, <<>>),
    Dyn("ChargingStation", {"UpdateChargingProfile", "SetChargingProfile", "ClearChargingProfile",
      "DeleteChargingProfile", "LimitPower", "GetCompositeSchedule"}, <<"SitesOwner">>, <<>>),
    Dyn("ChargingProfile", {"List", "Create", "Update", "Delete"}, <<"SitesOwner">>, <<>>) >>

SiteOwnerGrants3 == <<
    Dyn("ChargingProfile", {"Read"}, <<"SitesOwner">>, <<>>),
    Dyn("SiteArea", {"Update"}, <<"SitesOwner">>, <<>>),
    Dyn("Logging", {"List", "Export", "Read"}, <<"SitesOwner">>, <<>>),
    Dyn("Consumption", {"List", "Read", "GetAdvenirConsumption"}, <<>>, <<>>),
    Free("Report", {"Read"}),
    Dyn("PricingDefinition", {"List"}, <<"SitesOwner", "LocalIssuer">>, <<>>) >>

\* siteAdmin and siteOwner extend basic ($extend).  The access control looks
\* at the grants of the groups of a user first, then at the inherited ones.
Groups == {"superAdmin", "admin", "basic", "demo", "siteAdmin", "siteOwner"}

AdminGrants == AdminGrants1 \o AdminGrants2 \o AdminGrants3 \o AdminGrants4 \o
    AdminGrants5 \o AdminGrants6 \o AdminGrants7
BasicGrants == BasicGrants1 \o BasicGrants2 \o BasicGrants3 \o BasicGrants4 \o BasicGrants5
DemoGrants == DemoGrants1 \o DemoGrants2 \o DemoGrants3
SiteAdminGrants == SiteAdminGrants1 \o SiteAdminGrants2 \o SiteAdminGrants3 \o SiteAdminGrants4 \o
    SiteAdminGrants5 \o SiteAdminGrants6 \o SiteAdminGrants7
SiteOwnerGrants == SiteOwnerGrants1 \o SiteOwnerGrants2 \o SiteOwnerGrants3

GrantsOfGroup(group) ==
    CASE group = "superAdmin" -> SuperAdminGrants
      [] group = "admin" -> AdminGrants
      [] group = "basic" -> BasicGrants
      [] group = "demo" -> DemoGrants
      [] group = "siteAdmin" -> SiteAdminGrants
      [] group = "siteOwner" -> SiteOwnerGrants

\* The library role-acl flattens the groups of a user: his own groups in
\* their order, then what they extend.
FlatGroups(groups) ==
    IF \E i \in DOMAIN groups : groups[i] \in {"siteAdmin", "siteOwner"}
    THEN Append(groups, "basic") ELSE groups

\* The grants of a group that match, by their places in the file.
Granting(group, entity, action) ==
    LET grants == GrantsOfGroup(group)
    IN  {i \in DOMAIN grants : grants[i].resource = entity /\ action \in grants[i].actions}

\* The condition of every grant that matches is called with the same
\* context, and only the first one that has filters sets them.
FirstCondition(flat, granting) ==
    LET conditions == [k \in DOMAIN flat |-> {i \in granting[k] : GrantsOfGroup(flat[k])[i].cond}]
        having == {k \in DOMAIN flat : conditions[k] # {}}
        first == GrantsOfGroup(flat[Min(having)])[Min(conditions[Min(having)])]
    IN  IF having = {} THEN [filters |-> <<>>, asserts |-> <<>>]
        ELSE [filters |-> first.filters, asserts |-> first.asserts]

\* canPerformAction: the result of a check, which the cache of the manager
\* returns again for the same groups, entity and action.
CanPerformAction(groups, entity, action) ==
    LET flat == FlatGroups(groups)
        granting == [k \in DOMAIN flat |-> Granting(flat[k], entity, action)]
    IN  [authorized |-> \E k \in DOMAIN flat : granting[k] # {},
         context |-> FirstCondition(flat, granting)]

\* The actions that some group may perform on an entity.
ActionsOn(entity) ==
    LET allowed(grants) == UNION {grants[i].actions : i \in {n \in DOMAIN grants : grants[n].resource = entity}}
    IN  UNION {allowed(GrantsOfGroup(g)) : g \in Groups}
=============================================================================
