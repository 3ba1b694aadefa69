------------------------------ MODULE Accounts ------------------------------
(***************************************************************************)
(* User accounts (internal/service/auth_service.go, internal/handler/      *)
(* user_handler.go, platform_handler.go, internal/repository/postgres/     *)
(* user_repository.go): a user, its profile and its roles are written by   *)
(* statements of their own; the platform finds or makes a tenant's admin   *)
(* and gives it a password.                                                *)
(***************************************************************************)
EXTENDS Naturals, FiniteSets, Sequences

CONSTANTS
  ByName,           \* the tenants, sorted by name
  DemoHotel,        \* the one a sign-up joins
  Staff,            \* users that people create; each has an address of its own
  DefaultAdmin,     \* for each tenant the user whose address is derived from its slug
  StaffRoles,       \* roles given to staff
  Clerks,           \* concurrent requests
  MaxAccountFaults  \* bound: failing statements

Hotels == {ByName[i] : i \in DOMAIN ByName}
Users == Staff \cup {DefaultAdmin[h] : h \in Hotels}

ASSUME AccountsAssumption ==
  /\ DemoHotel \in Hotels /\ "none" \notin Hotels /\ \A h \in Hotels : DefaultAdmin[h] \notin Staff
  /\ ByName \in Seq(Hotels) /\ \A i, j \in DOMAIN ByName : ByName[i] = ByName[j] => i = j

VARIABLES
  user,        \* users, profiles, user_roles: [hotel, pw, profile, roles]; hotel "none" if there is no row
  older,       \* created_at: pairs of users, the one created first in front
  clerk,       \* a request between its statements
  accountFaults,
  plural       \* history: users given a role beside another one, or changed by two requests at once

accountVars == <<user, older, clerk, accountFaults, plural>>

NoUser == [hotel |-> "none", pw |-> "none", profile |-> FALSE, roles |-> {}]
NoClerk == [at |-> "idle", op |-> "none", h |-> "none", u |-> "none", role |-> "none",
            nth |-> 0, set |-> {}, late |-> FALSE]

AccountsInit ==
  /\ user = [u \in Users |-> NoUser] /\ older = {} /\ clerk = [c \in Clerks |-> NoClerk]
  /\ accountFaults = 0 /\ plural = {}

Exists(u) == user[u].hotel # "none"
ClerkAt(c, op, step) == clerk[c].op = op /\ clerk[c].at = step
ClerkIdle(c) == clerk[c].at = "idle"
Mine(c, step) == [clerk[c] EXCEPT !.at = step]

(* One request moves on; whatever it does to the accounts, the others under way come too late for. *)
Overtakable(d) == clerk[d].op \in {"set role", "reset", "all"}
MoveOn(c, mine) == clerk' = [clerk EXCEPT ![c] = mine]
Overtaken(d) == IF Overtakable(d) THEN [clerk[d] EXCEPT !.late = TRUE] ELSE clerk[d]
Touch(c, mine) == clerk' = [d \in Clerks |-> IF d = c THEN mine ELSE Overtaken(d)]

(* A statement about an existing user may fail; one about a user that is gone does, where it refers to it. *)
AccountFault == accountFaults < MaxAccountFaults /\ accountFaults' = accountFaults + 1
Broken(u) == IF Exists(u) THEN AccountFault ELSE UNCHANGED accountFaults
Works(u) == Exists(u) /\ UNCHANGED accountFaults

Insert(u, row) == user' = [user EXCEPT ![u] = row] /\ older' = older \cup {<<v, u>> : v \in {w \in Users : Exists(w)}}

-----------------------------------------------------------------------------
(* Creation: the user, then the profile, then the role.                    *)

CreateForHotel(c, h, op, role) ==
  /\ ClerkIdle(c)
  /\ \E u \in Staff : /\ ~Exists(u)
                      /\ Insert(u, [NoUser EXCEPT !.hotel = h, !.pw = "other"])
                      /\ Touch(c, [NoClerk EXCEPT !.at = "profile", !.op = op, !.u = u, !.role = role])
  /\ UNCHANGED <<accountFaults, plural>>

(* A step of a creation fails: the request ends, what was written stays. *)
GiveUp(c) ==
  /\ Broken(clerk[c].u) /\ MoveOn(c, NoClerk)
  /\ UNCHANGED <<user, older, plural>>

CreateProfile(c, op) ==
  /\ ClerkAt(c, op, "profile")
  /\ \/ /\ Works(clerk[c].u) /\ user' = [user EXCEPT ![clerk[c].u].profile = TRUE] /\ MoveOn(c, Mine(c, "role"))
        /\ UNCHANGED <<older, plural>>
     \/ GiveUp(c)

Beside(u, role) == role # "guest" /\ user[u].roles \ {"guest", role} # {}
(* ON CONFLICT DO NOTHING. *)
GrantRole(u, role) ==
  /\ user' = [user EXCEPT ![u].roles = @ \cup {role}]
  /\ plural' = IF Beside(u, role) THEN plural \cup {u} ELSE plural

AddRoleStep(c, op, step) ==
  /\ ClerkAt(c, op, step)
  /\ \/ /\ Works(clerk[c].u) /\ GrantRole(clerk[c].u, clerk[c].role) /\ Touch(c, NoClerk)
        /\ UNCHANGED older
     \/ GiveUp(c)

SignUp(c) ==
  \/ CreateForHotel(c, DemoHotel, "sign up", "guest")
  \/ CreateProfile(c, "sign up") \/ AddRoleStep(c, "sign up", "role")

CreateStaffMember(c, h) ==
  \/ \E role \in StaffRoles : CreateForHotel(c, h, "staff", role)
  \/ CreateProfile(c, "staff") \/ AddRoleStep(c, "staff", "role")

-----------------------------------------------------------------------------
(* Users & Roles.  userInTenant comes first, in a statement of its own.    *)

userInTenant(c, u, op, role) ==
  /\ ClerkIdle(c) /\ Exists(u)
  /\ MoveOn(c, [NoClerk EXCEPT !.at = op, !.op = op, !.u = u, !.role = role])
  /\ UNCHANGED <<user, older, accountFaults, plural>>

RemoveGuestRole(c) ==
  /\ ClerkAt(c, "set role", "set role") /\ Touch(c, Mine(c, "replace"))
  /\ user' = [user EXCEPT ![clerk[c].u].roles = @ \ {"guest"}]
RemoveAllRoles(c) ==
  /\ ClerkAt(c, "set role", "set role") /\ Touch(c, Mine(c, "replace"))
  /\ user' = [user EXCEPT ![clerk[c].u].roles = @ \cap {"guest"}]

(* "replaces all non-guest roles with a single new role": a DELETE, then an INSERT. *)
SetRole(c) ==
  \/ \E u \in Users, role \in StaffRoles : userInTenant(c, u, "set role", role)
  \/ RemoveAllRoles(c) /\ UNCHANGED <<older, accountFaults, plural>>
  \/ /\ ClerkAt(c, "set role", "replace")
     /\ \/ /\ Works(clerk[c].u) /\ user' = [user EXCEPT ![clerk[c].u].roles = @ \cup {clerk[c].role}]
           /\ Touch(c, NoClerk)
           /\ plural' = IF clerk[c].late THEN plural \cup {clerk[c].u} ELSE plural
           /\ UNCHANGED older
        \/ GiveUp(c)

AddRole(c) ==
  \/ \E u \in Users, role \in StaffRoles : userInTenant(c, u, "add role", role)
  \/ AddRoleStep(c, "add role", "add role")

(* The last staff role may be taken away as well. *)
RemoveRole(c) ==
  \/ \E u \in Users, role \in StaffRoles : userInTenant(c, u, "remove role", role)
  \/ /\ ClerkAt(c, "remove role", "remove role") /\ Touch(c, NoClerk)
     /\ user' = [user EXCEPT ![clerk[c].u].roles = @ \ {clerk[c].role}]
     /\ UNCHANGED <<older, accountFaults, plural>>

Gone(S) ==
  /\ user' = [u \in Users |-> IF u \in S THEN NoUser ELSE user[u]]
  /\ older' = {p \in older : p[1] \notin S /\ p[2] \notin S}
  /\ plural' = plural \ S
DeleteUser(c) ==
  \/ \E u \in Users : userInTenant(c, u, "delete", "none")
  \/ ClerkAt(c, "delete", "delete") /\ Touch(c, NoClerk) /\ Gone({clerk[c].u}) /\ UNCHANGED accountFaults

SetPassword(u, pw) == user' = [user EXCEPT ![u].pw = IF Exists(u) THEN pw ELSE @]
ResetPassword(c) ==
  \/ \E u \in Users : userInTenant(c, u, "password", "none")
  \/ /\ ClerkAt(c, "password", "password") /\ Touch(c, NoClerk) /\ SetPassword(clerk[c].u, "other")
     /\ UNCHANGED <<older, accountFaults, plural>>

-----------------------------------------------------------------------------
(* The platform and a tenant's admin.                                      *)

RoleRank(u) == IF "hotel_admin" \in user[u].roles THEN 0 ELSE IF "super_admin" \in user[u].roles THEN 1
               ELSE IF "admin" \in user[u].roles THEN 2 ELSE 3
Before(u, v) == RoleRank(u) < RoleRank(v) \/ (RoleRank(u) = RoleRank(v) /\ (u = v \/ <<u, v>> \in older))
AdminsOf(h) == {u \in Users : user[u].hotel = h /\ RoleRank(u) < 3}
(* The tenant's admin, by role and then by age, the first row of the query. *)
findTenantAdminUser(h) == {u \in AdminsOf(h) : \A v \in AdminsOf(h) : Before(u, v)}

(* Look, and create a default admin in one transaction if there is none; its address is unique. *)
ensureTenantAdmin(c, op, next, onFailure) ==
  LET h == clerk[c].h IN
  \/ /\ ClerkAt(c, op, "find")
     /\ IF AdminsOf(h) = {} THEN MoveOn(c, Mine(c, "create"))
        ELSE \E u \in findTenantAdminUser(h) : MoveOn(c, [Mine(c, next) EXCEPT !.u = u])
     /\ UNCHANGED <<user, older, accountFaults, plural>>
  \/ /\ ClerkAt(c, op, "create") /\ ~Exists(DefaultAdmin[h]) /\ UNCHANGED accountFaults
     /\ Insert(DefaultAdmin[h], [hotel |-> h, pw |-> "other", profile |-> TRUE, roles |-> {"hotel_admin"}])
     /\ Touch(c, [Mine(c, next) EXCEPT !.u = DefaultAdmin[h]])
     /\ UNCHANGED plural
  \/ /\ ClerkAt(c, op, "create") /\ Broken(DefaultAdmin[h])
     /\ MoveOn(c, onFailure) /\ UNCHANGED <<user, older, plural>>

Begin(c, op, h) ==
  /\ ClerkIdle(c) /\ MoveOn(c, [NoClerk EXCEPT !.at = "find", !.op = op, !.h = h])
  /\ UNCHANGED <<user, older, accountFaults, plural>>

(* The ticket names the admin; it is exchanged elsewhere. *)
PlatformTenantImpersonate(c) ==
  \/ \E h \in Hotels : Begin(c, "impersonate", h)
  \/ ensureTenantAdmin(c, "impersonate", "ticket", NoClerk)
  \/ ClerkAt(c, "impersonate", "ticket") /\ MoveOn(c, NoClerk) /\ UNCHANGED <<user, older, accountFaults, plural>>

(* The UPDATE is by id, and its count is not looked at. *)
PlatformTenantResetAdminPassword(c) ==
  \/ \E h \in Hotels : Begin(c, "reset", h)
  \/ ensureTenantAdmin(c, "reset", "update", NoClerk)
  \/ /\ ClerkAt(c, "reset", "update") /\ SetPassword(clerk[c].u, "new")
     /\ Touch(c, [NoClerk EXCEPT !.at = "told", !.op = "reset", !.set = {clerk[c].h}, !.late = clerk[c].late])
     /\ UNCHANGED <<older, accountFaults, plural>>
  \/ ClerkAt(c, "reset", "update") /\ AccountFault /\ MoveOn(c, NoClerk) /\ UNCHANGED <<user, older, plural>>

(* Tenant by tenant in the order of their names; one for which there is no admin and none can be made,
   or whose UPDATE fails, is reported and passed over. *)
ThenTenant(c, n, done) ==
  IF n > Len(ByName) THEN [NoClerk EXCEPT !.at = "told", !.op = "all", !.set = done, !.late = clerk[c].late]
  ELSE [clerk[c] EXCEPT !.at = "find", !.op = "all", !.h = ByName[n], !.u = "none", !.nth = n, !.set = done]

SkipsTenantsWithoutAdmin(c) ==
  LET next(done) == ThenTenant(c, clerk[c].nth + 1, done) IN
  \/ /\ ClerkIdle(c) /\ MoveOn(c, ThenTenant(c, 1, {}))
     /\ UNCHANGED <<user, older, accountFaults, plural>>
  \/ /\ ClerkAt(c, "all", "find")
     /\ IF AdminsOf(clerk[c].h) = {} THEN MoveOn(c, next(clerk[c].set \cup {clerk[c].h}))
        ELSE \E u \in findTenantAdminUser(clerk[c].h) : MoveOn(c, [Mine(c, "update") EXCEPT !.u = u])
     /\ UNCHANGED <<user, older, accountFaults, plural>>
  \/ /\ ClerkAt(c, "all", "update") /\ SetPassword(clerk[c].u, "same") /\ Touch(c, next(clerk[c].set \cup {clerk[c].h}))
     /\ UNCHANGED <<older, accountFaults, plural>>
PlatformSetAllAdminPasswords(c) ==
  LET next(done) == ThenTenant(c, clerk[c].nth + 1, done) IN
  \/ /\ ClerkIdle(c) /\ MoveOn(c, ThenTenant(c, 1, {}))
     /\ UNCHANGED <<user, older, accountFaults, plural>>
  \/ ensureTenantAdmin(c, "all", "update", next(clerk[c].set))
  \/ /\ ClerkAt(c, "all", "update") /\ SetPassword(clerk[c].u, "same") /\ Touch(c, next(clerk[c].set \cup {clerk[c].h}))
     /\ UNCHANGED <<older, accountFaults, plural>>
  \/ ClerkAt(c, "all", "update") /\ AccountFault /\ MoveOn(c, next(clerk[c].set)) /\ UNCHANGED <<user, older, plural>>

(* The operator has read the answer. *)
AnswerRead(c) ==
  /\ clerk[c].at = "told" /\ MoveOn(c, NoClerk)
  /\ UNCHANGED <<user, older, accountFaults, plural>>

(* DeletePlatformTenant removes its users; the tenant is created again in the same name. *)
TenantReplaced(h) ==
  /\ Gone({u \in Users : user[u].hotel = h})
  /\ clerk' = [d \in Clerks |-> Overtaken(d)]
  /\ UNCHANGED accountFaults

(* Users & Roles of the hotels. *)
RolesNext ==
  \E c \in Clerks :
    \/ SignUp(c) \/ SetRole(c) \/ AddRole(c) \/ RemoveRole(c) \/ DeleteUser(c)
    \/ \E h \in Hotels : CreateStaffMember(c, h)

(* The platform beside the hotels' own changes of staff and passwords. *)
AdminsNext ==
  \/ \E c \in Clerks :
       \/ CreateStaffMember(c, DemoHotel) \/ ResetPassword(c) \/ PlatformTenantImpersonate(c)
       \/ PlatformTenantResetAdminPassword(c) \/ PlatformSetAllAdminPasswords(c) \/ AnswerRead(c)
  \/ \E h \in Hotels : TenantReplaced(h)

AccountsNext == RolesNext \/ AdminsNext

AccountsSpec == AccountsInit /\ [][AccountsNext]_accountVars

-----------------------------------------------------------------------------
(* "SetRole replaces all non-guest roles with a single new role": a user has two staff roles only when
   one was added to the other, or two requests changed it at the same time. *)
OneStaffRole ==
  \A u \in Users : u \notin plural => Cardinality(user[u].roles \ {"guest"}) <= 1

(* The password the operator is told is the one the tenant's admin has, for one tenant or for all of
   them, unless another request got in between. *)
ToldPasswordWorks ==
  \A c \in Clerks : clerk[c].at = "told" /\ ~clerk[c].late =>
    \A h \in clerk[c].set :
      \E u \in findTenantAdminUser(h) : user[u].pw = IF clerk[c].op = "all" THEN "same" ELSE "new"
=============================================================================
