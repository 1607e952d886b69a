-------------------------------- MODULE Tenancy --------------------------------
(***************************************************************************)
(* How a request acts on the rows of its organization (api/deps.py,        *)
(* api/routes.py, platform/rbac.py, platform/tenancy.py): credentials are  *)
(* turned into a principal in a transaction of their own; the route then   *)
(* checks a permission of that principal, loads a row of the principal's   *)
(* organization, changes it, appends an audit record and commits.          *)
(*                                                                         *)
(* Users, projects, integrations and API tokens of several organizations   *)
(* are modelled; scans, findings and policies have modules of their own.   *)
(***************************************************************************)
EXTENDS Transactions, Naturals

CONSTANTS
    Orgs,
    Users,          \* accounts, present or yet to be created
    OrgOf,          \* the organization of each
    Founders,       \* the users the organizations start with
    Objects,        \* ids for projects, integrations and tokens
    ScopeChoices,   \* the scopes a new token may ask for
    Grantable       \* bound: the roles that requests give

ASSUME OrgOfAssumption == OrgOf \in [Users -> Orgs]
ASSUME UsersAssumption == None \notin Users

VARIABLES
    role,           \* the role of each user, None before the account exists
    object,         \* projects, integrations and tokens, by id
    trail,          \* the actor of each organization's latest audit record
    request         \* what each session is doing

tenancyVars == <<role, object, trail, request>>

-----------------------------------------------------------------------------
(***************************************************************************)
(* platform/rbac.py                                                        *)
(***************************************************************************)
ALL_PERMISSIONS == {
    "organization.read", "organization.manage", "project.read", "project.manage",
    "scan.create", "scan.read", "scan.cancel", "finding.read", "finding.manage",
    "sbom.read", "license.read", "policy.read", "policy.manage",
    "integration.read", "integration.manage", "audit.read",
    "user.read", "user.manage", "token.manage"}

VIEWER == {"organization.read", "project.read", "scan.read", "finding.read",
           "sbom.read", "license.read", "policy.read"}
DEVELOPER == VIEWER \cup {"scan.create", "integration.read", "token.manage"}
SECURITY == DEVELOPER \cup {"finding.manage", "audit.read", "user.read", "scan.cancel"}
ADMIN == SECURITY \cup {"organization.manage", "project.manage", "policy.manage",
                        "integration.manage", "user.manage"}

ROLE_PERMISSIONS == [viewer |-> VIEWER, developer |-> DEVELOPER, security |-> SECURITY,
                     admin |-> ADMIN, owner |-> ALL_PERMISSIONS]
ROLE_RANK == [viewer |-> 0, developer |-> 1, security |-> 2, admin |-> 3, owner |-> 4]
ROLES == DOMAIN ROLE_RANK

ASSUME RolesAssumption ==
    Grantable \subseteq ROLES /\ \A u \in DOMAIN Founders : Founders[u] \in ROLES

role_at_least(r, minimum) == ROLE_RANK[r] >= ROLE_RANK[minimum]

\* Principal.permissions: no scopes means everything the role grants.
Permissions(principal) ==
    IF principal.scopes = {} THEN ROLE_PERMISSIONS[principal.role]
    ELSE ROLE_PERMISSIONS[principal.role] \cap principal.scopes

can(principal, permission) == permission \in Permissions(principal)

-----------------------------------------------------------------------------
(***************************************************************************)
(* The routes: the permission they require, the rows they look for and     *)
(* what becomes of the row.  A route that finds nothing answers 404.       *)
(***************************************************************************)
Route(name, permission, kind, from, to) ==
    [name |-> name, permission |-> permission, kind |-> kind, from |-> from, to |-> to]

ProjectRoutes == {
    Route("project.created", "project.manage", "project", "absent", "live"),
    Route("project.archived", "project.manage", "project", "live", "archived"),
    Route("project.archived", "project.manage", "project", "archived", "archived")}
IntegrationRoutes == {
    Route("integration.created", "integration.manage", "integration", "absent", "live"),
    Route("integration.tested", "integration.manage", "integration", "live", "live"),
    Route("integration.deleted", "integration.manage", "integration", "live", "absent")}
TokenRoutes == {
    Route("token.created", "token.manage", "token", "absent", "live"),
    Route("token.revoked", "token.manage", "token", "live", "revoked"),
    Route("token.revoked", "token.manage", "token", "revoked", "revoked")}
Routes == ProjectRoutes \cup IntegrationRoutes \cup TokenRoutes

NoObject == [state |-> "absent", kind |-> "none", org |-> None, user |-> None, scopes |-> {}]
Row == [state : {"live", "archived", "revoked"}, kind : {"project", "integration", "token"},
        org : Orgs, user : Users, scopes : ScopeChoices]
Principal == [user : Users, org : Orgs, role : ROLES, scopes : ScopeChoices \cup {{}}]

NoRequest == [step |-> "none"]
Request ==
    {NoRequest}
    \cup [step : {"authenticated"}, principal : Principal]
    \cup [step : {"route"}, principal : Principal, route : Routes, id : Objects]
    \cup [step : {"user"}, principal : Principal, name : {"user.created", "user.role_changed"},
          user : Users, role : ROLES]

TenancyTypeOK ==
    /\ role \in [Users -> ROLES \cup {None}]
    /\ object \in [Objects -> Row \cup {NoObject}]
    /\ request \in [Sessions -> Request]
    /\ \A o \in Orgs : trail[o] \in Users \cup {None}

TenancyInit ==
    /\ role = [u \in Users |-> IF u \in DOMAIN Founders THEN Founders[u] ELSE None]
    /\ object = [i \in Objects |-> NoObject]
    /\ trail = [o \in Orgs |-> None]
    /\ request = [e \in Sessions |-> NoRequest]

Serve(e, r) == request' = [request EXCEPT ![e] = r]

PrincipalOf(u, scopes) == [user |-> u, org |-> OrgOf[u], role |-> role[u], scopes |-> scopes]

\* A session cookie or login token: get_context only reads.
AuthenticateSession(e, u) ==
    /\ request[e] = NoRequest
    /\ role[u] # None
    /\ Serve(e, [step |-> "authenticated", principal |-> PrincipalOf(u, {})])
    /\ UNCHANGED <<role, object, trail, txnVars>>

\* An API token: get_context also commits last_used_at, before the route runs.
AuthenticateToken(e, i) ==
    /\ request[e] = NoRequest
    /\ object[i].kind = "token" /\ object[i].state = "live"
    /\ Commit(e)
    /\ Serve(e, [step |-> "authenticated",
                 principal |-> PrincipalOf(object[i].user, object[i].scopes)])
    /\ UNCHANGED <<role, object, trail>>

\* Fault: the row is looked up by its id alone.
GetById(principal, i) == object[i] # NoObject

\* get_for_org: a row of another organization does not exist.
GetForOrg(principal, i) == object[i] # NoObject /\ object[i].org = principal.org

\* The route has checked the permission and found its row, or a new id.
LoadObject(e, route, i) ==
    /\ request[e].step = "authenticated"
    /\ LET p == request[e].principal
       IN  /\ can(p, route.permission)
           /\ object[i].state = route.from
           /\ route.from = "absent" \/ (GetForOrg(p, i) /\ object[i].kind = route.kind)
           /\ Serve(e, [step |-> "route", principal |-> p, route |-> route, id |-> i])
    /\ Read(e)
    /\ UNCHANGED <<role, object, trail>>

\* RequestContext.audit, in the transaction of the route.
Audit(p) == trail' = [trail EXCEPT ![p.org] = p.user]

\* The change and its audit record are committed together.  An UPDATE or DELETE
\* of a row that is gone meanwhile raises.
ChangeObject(e, scopes) ==
    /\ request[e].step = "route"
    /\ Commit(e)
    /\ LET p == request[e].principal
           route == request[e].route
           i == request[e].id
       IN  /\ (object[i] = NoObject) = (route.from = "absent")
           /\ object' = [object EXCEPT ![i] =
                IF route.to = "absent" THEN NoObject
                ELSE IF route.from # "absent" THEN [@ EXCEPT !.state = route.to]
                ELSE [state |-> "live", kind |-> route.kind, org |-> p.org, user |-> p.user,
                      scopes |-> scopes]]
           /\ Audit(p)
    /\ Serve(e, NoRequest)
    /\ UNCHANGED role

-----------------------------------------------------------------------------
\* POST /users, for administrators: 409 if the address is taken.
LoadNewUser(e, u, r) ==
    /\ request[e].step = "authenticated"
    /\ LET p == request[e].principal
       IN  /\ role_at_least(p.role, "admin")
           /\ OrgOf[u] = p.org /\ role[u] = None
           /\ Serve(e, [step |-> "user", principal |-> p, name |-> "user.created",
                        user |-> u, role |-> r])
    /\ Read(e)
    /\ UNCHANGED <<role, object, trail>>

\* PATCH /users/{id}/role: only an owner makes an owner, and nobody demotes
\* themselves below admin.
LoadUser(e, u, r) ==
    /\ request[e].step = "authenticated"
    /\ LET p == request[e].principal
       IN  /\ role_at_least(p.role, "admin")
           /\ OrgOf[u] = p.org /\ role[u] # None
           /\ r = "owner" => role_at_least(p.role, "owner")
           /\ u = p.user => role_at_least(r, "admin")
           /\ Serve(e, [step |-> "user", principal |-> p, name |-> "user.role_changed",
                        user |-> u, role |-> r])
    /\ Read(e)
    /\ UNCHANGED <<role, object, trail>>

ChangeUser(e) ==
    /\ request[e].step = "user"
    /\ request[e].name = "user.created" => role[request[e].user] = None
    /\ Commit(e)
    /\ role' = [role EXCEPT ![request[e].user] = request[e].role]
    /\ Audit(request[e].principal)
    /\ Serve(e, NoRequest)
    /\ UNCHANGED object

\* A 401, 403, 404, 409 or 422, a refused write, or the end of a read.
Refuse(e) ==
    /\ request[e] # NoRequest
    /\ Rollback(e)
    /\ Serve(e, NoRequest)
    /\ UNCHANGED <<role, object, trail>>

TenancyNext == \E e \in Sessions :
    \/ \E u \in Users : AuthenticateSession(e, u)
    \/ \E i \in Objects : AuthenticateToken(e, i)
    \/ \E route \in Routes, i \in Objects : LoadObject(e, route, i)
    \/ \E scopes \in ScopeChoices : ChangeObject(e, scopes)
    \/ \E u \in Users, r \in Grantable : LoadNewUser(e, u, r) \/ LoadUser(e, u, r)
    \/ ChangeUser(e)
    \/ Refuse(e)

TenancySpec == TxnInit /\ TenancyInit /\ [][TenancyNext]_<<tenancyVars, txnVars>>

-----------------------------------------------------------------------------
(***************************************************************************)
(* Properties.                                                             *)
(***************************************************************************)
\* The organizations whose rows or users a step changes.
OrgsTouched ==
    {object[i].org : i \in {k \in Objects : object'[k] # object[k] /\ object[k] # NoObject}}
    \cup {object'[i].org : i \in {k \in Objects : object'[k] # object[k] /\ object'[k] # NoObject}}
    \cup {OrgOf[u] : u \in {v \in Users : role'[v] # role[v]}}

\* "A row belonging to another organization is a 404" and "Every mutating route
\* records an audit entry" (api/routes.py), in the same commit: a step changes
\* the rows of at most one organization, and that organization's trail names a
\* member of its own as the actor.
ChangesAreAccountedFor ==
    [][\A o \in OrgsTouched :
          /\ OrgsTouched = {o}
          /\ trail'[o] # None /\ OrgOf[trail'[o]] = o
          /\ \E e \in Sessions : request[e] # request'[e] /\ request[e].principal.org = o
          /\ \A other \in Orgs \ {o} : trail'[other] = trail[other]]_tenancyVars

\* The users of organization o who may administer it.
Administrators(o) ==
    {u \in Users : OrgOf[u] = o /\ role[u] # None /\ role_at_least(role[u], "admin")}

\* "An admin cannot demote themselves below admin (that would lock the
\* organization out of administration)" (docs/API.md:99).
AdminRemains == \A o \in Orgs : Administrators(o) # {}
=============================================================================
