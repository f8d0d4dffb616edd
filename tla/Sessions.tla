------------------------------- MODULE Sessions -------------------------------
(***************************************************************************)
(* Tokens and requests of one user of a tenant.  A login reads the user    *)
(* and the tenant, then builds a token from what it read and from the      *)
(* sites of the user at that moment; a request is let in when the hashes   *)
(* of its token are those of the stored user and tenant, and its check is  *)
(* decided after that with what the data sources load.  Administrators     *)
(* change the user, his sites and the components in between.               *)
(***************************************************************************)
EXTENDS AuthorizationService

CONSTANTS Sites,        \* the sites of the tenant
          MaxChanges    \* bound on the changes by administrators

VARIABLES stored,       \* role and status of the stored user
          rights,       \* his right on each site (UserSite documents)
          org,          \* the organization component is active
          login,        \* what a running login has read
          token,        \* the token the user holds
          call,         \* the request being handled
          changes       \* number of changes so far

sessionVars == <<stored, rights, org, login, token, call, changes>>

Roles == {"A", "B", "D"}
Statuses == {"ACTIVE", "INACTIVE"}
SiteRights == {"none", "assigned", "admin", "owner"}
Self == "self"
IDsAsked(id) == CASE id = "UserID" -> {{Self}, {"other"}}
                  [] id = "TagIDs" -> {{"ownTag"}, {"otherTag"}}
                  [] OTHER -> SUBSET Sites \ {{}}

SitesWith(right) == {s \in Sites : rights[s] = right}

\* What the data sources load: every one of them reads the storage again.
GetAssignedSiteIDs == Sites \ SitesWith("none")
GetSitesAdminSiteIDs == SitesWith("admin")
GetSitesOwnerSiteIDs == SitesWith("owner")
GetUserTagIDs == {"ownTag"}

DataSources == [self |-> Self, tags |-> GetUserTagIDs, assigned |-> GetAssignedSiteIDs,
                admin |-> GetSitesAdminSiteIDs, owner |-> GetSitesOwnerSiteIDs]

GetAuthGroupsFromUser(role, sitesAdmin, sitesOwner) ==
    CASE role = "A" -> <<"admin">>
      [] role = "D" -> <<"demo">>
      [] OTHER -> LET groups == (IF sitesAdmin # {} THEN <<"siteAdmin">> ELSE <<>>)
                                \o (IF sitesOwner # {} THEN <<"siteOwner">> ELSE <<>>)
                  IN  IF groups = <<>> THEN <<"basic">> ELSE groups

\* A hash that leaves the role out.
HashWithoutRole(user) == <<user.status>>

BuildUserHashID(user) == <<user.role, user.status>>

BuildTenantHashID(active) == active

NoToken == [hash |-> <<>>]

BuildUserToken(user, active) ==
    LET admin == IF user.role = "A" THEN {} ELSE SitesWith("admin")
        owner == SitesWith("owner")
    IN  [role |-> user.role, groups |-> GetAuthGroupsFromUser(user.role, admin, owner),
         sitesAdmin |-> admin, sitesOwner |-> owner,
         hash |-> BuildUserHashID(user), tenantHash |-> BuildTenantHashID(active)]

NoCall == [st |-> "idle"]
NoLogin == [st |-> "idle"]

SessionsInit ==
    /\ stored \in [role : Roles, status : {"ACTIVE"}]
    /\ rights \in [Sites -> SiteRights]
    /\ org \in BOOLEAN
    /\ login = NoLogin
    /\ token = NoToken
    /\ call = NoCall
    /\ changes = 0

-----------------------------------------------------------------------------
\* handleLogIn and checkUserLogin with the right password: only an active
\* user goes on.
LogInReads ==
    /\ login.st = "idle"
    /\ stored.status = "ACTIVE"
    /\ login' = [st |-> "read", user |-> stored, org |-> org]
    /\ UNCHANGED <<stored, rights, org, token, call, changes>>

UserLoginSucceeded ==
    /\ login.st = "read"
    /\ token' = BuildUserToken(login.user, login.org)
    /\ login' = NoLogin
    /\ UNCHANGED <<stored, rights, org, call, changes>>

\* checkUserAndTenantValidity, before every request of the API.  The tenant
\* it read goes with the request.
CheckUserAndTenantValidity ==
    /\ call.st = "idle"
    /\ token # NoToken
    /\ stored.status = "ACTIVE"
    /\ token.hash = BuildUserHashID(stored)
    /\ token.tenantHash = BuildTenantHashID(org)
    /\ call' = [st |-> "verified", org |-> org, token |-> token]
    /\ UNCHANGED <<stored, rights, org, login, token, changes>>

\* The identifiers and the facts of the stored entity that the filters and
\* the asserts of a grant read; the others are left out of a question.
NamesIn(seq) == {PositiveName(seq[i]) : i \in DOMAIN seq}

IDsRead(filters) ==
    UNION {CASE name \in {"SitesAdmin", "SitesOwner", "AssignedSites", "SitesAdminOrOwner"} -> {"SiteID"}
             [] name = "AssignedSitesCompanies" -> {"CompanyID"}
             [] name = "OwnUser" -> {"UserID", "TagIDs"}
             [] name \in {"SitesAdminUsers", "SitesOwnerUsers"} -> {"SiteID", "UserID", "TagIDs"}
             [] OTHER -> {} : name \in NamesIn(filters)}

FactsRead(context) ==
    NamesIn(context.asserts) \cup (IF "LocalIssuer" \in NamesIn(context.filters) THEN {"issuer"} ELSE {})

\* The checks a member of the groups may pass, by what decides them.
Questions(groups) ==
    LET can(c, a) == CanPerformAction(groups, c.entity, a)
        actions(c) == IF c.actions = AnyAction THEN ActionsOn(c.entity) ELSE c.actions
    IN  UNION {{[context |-> can(c, a).context, data |-> c.data, dynamic |-> c.dynamic,
                 ids |-> ids \cap IDsRead(can(c, a).context.filters),
                 ownDelete |-> c.entity = "User" /\ a = "Delete"] :
                a \in {b \in actions(c) : can(c, b).authorized}, ids \in c.ids} : c \in AllChecks}

AllGroups == {<<"admin">>, <<"demo">>, <<"basic">>, <<"siteAdmin">>, <<"siteOwner">>,
              <<"siteAdmin", "siteOwner">>}
QuestionsOf == [g \in AllGroups |-> Questions(g)]

AuthorizeRequest(q, ask, entity) ==
    /\ call' = [st |-> "decided", q |-> q, ask |-> ask, org |-> call.org,
                   result |-> IF q.dynamic
                              THEN Decide(q.context, ask, DataSources, call.org, q.data, entity)
                              ELSE NewFilter]
    /\ UNCHANGED <<stored, rights, org, login, token, changes>>

AuthorizeCall ==
    /\ call.st = "verified"
    /\ \E q \in QuestionsOf[call.token.groups] :
          \E ask \in {f \in [q.ids -> UNION {IDsAsked(id) : id \in IDs}] :
                         \A id \in q.ids : f[id] \in IDsAsked(id)} :
             \E entity \in SUBSET FactsRead(q.context) : AuthorizeRequest(q, ask, entity)

EndRequest ==
    /\ call.st = "decided"
    /\ call' = NoCall
    /\ UNCHANGED <<stored, rights, org, login, token, changes>>

\* Administrators: updateUserAdminData, the assignments of sites and the
\* components of the tenant.
ChangeUser ==
    /\ changes < MaxChanges
    /\ \E user \in [role : Roles, status : Statuses] : user # stored /\ stored' = user
    /\ changes' = changes + 1
    /\ UNCHANGED <<rights, org, login, token, call>>

ChangeSite ==
    /\ changes < MaxChanges
    /\ \E s \in Sites, right \in SiteRights :
          rights[s] # right /\ rights' = [rights EXCEPT ![s] = right]
    /\ changes' = changes + 1
    /\ UNCHANGED <<stored, org, login, token, call>>

ChangeComponents ==
    /\ changes < MaxChanges
    /\ org' = ~org
    /\ changes' = changes + 1
    /\ UNCHANGED <<stored, rights, login, token, call>>

SessionsNext ==
    \/ LogInReads \/ UserLoginSucceeded \/ CheckUserAndTenantValidity
    \/ AuthorizeCall \/ EndRequest
    \/ ChangeUser \/ ChangeSite \/ ChangeComponents

SessionsSpec == SessionsInit /\ [][SessionsNext]_sessionVars

-----------------------------------------------------------------------------
\* What the storage says at the moment of the decision about the sites,
\* companies and users that a filter lets through.
OwnOf(name) ==
    CASE name \in {"SitesAdmin", "SitesAdminUsers"} -> DataSources.admin
      [] name \in {"SitesOwner", "SitesOwnerUsers"} -> DataSources.owner
      [] name = "SitesAdminOrOwner" -> DataSources.admin \cup DataSources.owner
      [] name \in {"AssignedSites", "AssignedSitesCompanies"} -> DataSources.assigned
      [] OTHER -> {}

FilterHolds(name, d) ==
    LET result == d.result
        asked(id) == id \in DOMAIN d.ask
        own == OwnOf(name)
    IN  CASE name \in {"SitesAdmin", "SitesOwner", "AssignedSites"} ->
               d.org => (result.sites # {} /\ result.sites \subseteq own
                         /\ (asked("SiteID") => result.sites \subseteq d.ask["SiteID"]))
          [] name = "SitesAdminOrOwner" -> result.sites # {} /\ result.sites \subseteq own
          [] name = "AssignedSitesCompanies" -> result.companies # {} /\ result.companies \subseteq own
          [] name \in {"OwnUser", "SitesAdminUsers", "SitesOwnerUsers"} ->
               /\ result.users \subseteq {Self}
               /\ result.userSites \subseteq own
               /\ asked("UserID") /\ result.users = {} => result.userSites # {} \/ result.tags # {}
          [] name = "-OwnUser" -> asked("UserID") => d.ask["UserID"] # {Self} \/ asked("TagIDs")
          [] OTHER -> TRUE

\* A request is let in with the groups of the role the user has in the
\* storage (SessionHashService.checkUserAndTenantValidity), and a decision
\* lets through only sites, companies and users that the storage gives the
\* user when it is taken, however old his token (processDynamicFilters).
RightsAreStored ==
    [][/\ (call.st = "idle" /\ call'.st = "verified") =>
              \E adminOf, ownerOf \in SUBSET Sites :
                 call'.token.groups = GetAuthGroupsFromUser(stored.role, adminOf, ownerOf)
       /\ (call.st = "verified" /\ call'.st = "decided" /\ call'.result.authorized
           /\ call'.q.dynamic) =>
              \A i \in DOMAIN call'.q.context.filters :
                 FilterHolds(call'.q.context.filters[i], call')]_sessionVars

\* Whatever his groups, nobody passes the check to delete his own account
\* (the negated filter -OwnUser of the grants on User, Delete).
NoOneDeletesHimself ==
    (call.st = "decided" /\ call.q.ownDelete /\ call.q.dynamic
     /\ "UserID" \in DOMAIN call.ask /\ call.ask["UserID"] = {Self})
    => ~call.result.authorized
=============================================================================
