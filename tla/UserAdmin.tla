----------------------------- MODULE UserAdmin -----------------------------
(***************************************************************************)
(* User administration: inviting a user (POST /api/admin/users) and        *)
(* managing one (manageUserAccess: assign_tenant, assign_role,             *)
(* change_role, revoke_role, repair_provisioning).  Every call uses the    *)
(* service-role client, which row-level security does not restrict; what   *)
(* keeps the rows apart is the code's own checks and the unique index of   *)
(* one active role per user and tenant.                                    *)
(*                                                                         *)
(* Only tenant_admin holds admin:manage_users, so the caller manages its   *)
(* own tenant and the cross-tenant branches are never taken.               *)
(***************************************************************************)
EXTENDS Requests, Integers

CONSTANTS
    Person,   \* users of auth.users, invited or not yet
    Tenant,   \* tenants, each with its administrator
    Grantable \* TENANT_ADMIN_ASSIGNABLE_ROLES

\* NULL is neither a user nor a tenant.
ASSUME AdminAssumption == None \notin Person /\ None \notin Tenant

VARIABLES
    account,  \* auth.users: absent, invited, or confirmed by the user
    profile,  \* users.tenant_id, None when there is no row
    grants,   \* the active rows of user_roles, by user; at orders granted_at
    granted   \* the rows inserted so far

adminRows == <<account, profile, grants, granted>>

PlatformRole == "platform_super_admin"
ManageOp == {"assign_tenant", "assign_role", "change_role", "revoke_role", "repair"}
AdminStage == {"invite_lookup", "invite_upsert", "invite_role", "invite_grant",
               "audit_invited", "check_tenants", "upsert", "find_role", "revoke",
               "audit_revoked", "grant", "audit_assigned", "audit_activated"}

\* on: the person; arg: the administrator's tenant and the requested role; seen:
\* the grant read.
AdminRequest == [pc : {"idle"} \cup AdminStage \cup Ended,
                 op : ManageOp \cup {"invite", None}, on : Person \cup {None},
                 arg : [tenant : Tenant, role : Grantable \cup {PlatformRole, None}]
                       \cup {None},
                 seen : Nat \cup {None}]

Grant == [tenant : Tenant, role : Grantable, at : Nat]

AdminTypeOK ==
    /\ req \in [Request -> AdminRequest]
    /\ trail \subseteq {"invited", "revoked", "assigned", "activated"} \X Request
    /\ crossed \subseteq Request
    /\ account \in [Person -> {"absent", "invited", "confirmed"}]
    /\ profile \in [Person -> Tenant \cup {None}]
    /\ grants \in [Person -> SUBSET Grant]
    /\ granted \in Nat

\* Each person is new, or a confirmed user of one tenant with one role.
AdminInit ==
    /\ account \in [Person -> {"absent", "confirmed"}] /\ granted = 0
    /\ \E t \in Tenant, role \in Grantable :
         /\ profile = [p \in Person |-> IF account[p] = "absent" THEN None ELSE t]
         /\ grants = [p \in Person |-> IF account[p] = "absent" THEN {}
                                       ELSE {[tenant |-> t, role |-> role, at |-> 0]}]
-----------------------------------------------------------------------------
Home(r) == req[r].arg.tenant
Wanted(r) == req[r].arg.role
Who(r) == req[r].on

Held(p, t) == {g \in grants[p] : g.tenant = t}

\* upsertPublicUser, onConflict id: the row moves to the caller's tenant.
Settle(r) == profile' = [profile EXCEPT ![Who(r)] = Home(r)]

\* An insert into user_roles; user_roles_one_active_per_user_tenant refuses a
\* second active row.
Insert(r, next) ==
    IF Held(Who(r), Home(r)) # {}
    THEN Goto(r, "refused") /\ UNCHANGED <<grants, granted>>
    ELSE /\ granted' = granted + 1
         /\ grants' = [grants EXCEPT ![Who(r)] =
                @ \cup {[tenant |-> Home(r), role |-> Wanted(r), at |-> granted + 1]}]
         /\ Goto(r, next)
-----------------------------------------------------------------------------
(* POST /api/admin/users                                                   *)

\* Bug: the role of an invitation is not compared with TENANT_ADMIN_ASSIGNABLE_ROLES.
StartInviteAnyRoleBug(r) ==
    /\ \E p \in Person, t \in Tenant, role \in Grantable \cup {PlatformRole} :
         /\ account[p] # "confirmed"
         /\ Begin(r, "invite", p, [tenant |-> t, role |-> role], None, "invite_lookup")
         /\ account' = [account EXCEPT ![p] = "invited"]
    /\ UNCHANGED <<trail, profile, grants, granted>>

\* The role is checked first; the invitation of a confirmed address fails.
StartInvite(r) ==
    /\ \E p \in Person, t \in Tenant, role \in Grantable \cup {PlatformRole} :
         LET ok == role \in Grantable /\ account[p] # "confirmed" IN
         /\ Begin(r, "invite", p, [tenant |-> t, role |-> role], None,
                  IF ok THEN "invite_lookup" ELSE "refused")
         /\ account' = IF ok THEN [account EXCEPT ![p] = "invited"] ELSE account
    /\ UNCHANGED <<trail, profile, grants, granted>>

\* The user follows the link of the invitation.
Confirm(p) ==
    /\ account[p] = "invited"
    /\ account' = [account EXCEPT ![p] = "confirmed"]
    /\ UNCHANGED <<calls, profile, grants, granted>>

InviteLookup(r) ==
    /\ At(r, "invite_lookup")
    /\ Goto(r, IF profile[Who(r)] \in {None, Home(r)} THEN "invite_upsert" ELSE "refused")
    /\ UNCHANGED <<trail, adminRows>>

InviteUpsert(r) ==
    /\ At(r, "invite_upsert") /\ Settle(r) /\ Goto(r, "invite_role")
    /\ UNCHANGED <<trail, account, grants, granted>>

InviteRole(r) ==
    /\ At(r, "invite_role")
    /\ LET held == Held(Who(r), Home(r)) IN
       Goto(r, IF held = {} THEN "invite_grant"
               ELSE IF \E g \in held : g.role = Wanted(r) THEN "audit_invited"
               ELSE "refused")
    /\ UNCHANGED <<trail, adminRows>>

InviteGrant(r) ==
    /\ At(r, "invite_grant") /\ Insert(r, "audit_invited")
    /\ UNCHANGED <<trail, account, profile>>
-----------------------------------------------------------------------------
(* PATCH /api/admin/users/[userId] : manageUserAccess                      *)

\* ManageUserSchema
RoleArgument(op) == CASE op \in {"assign_tenant", "revoke_role"} -> {None}
                      [] op = "repair" -> Grantable \cup {PlatformRole, None}
                      [] OTHER         -> Grantable \cup {PlatformRole}

\* getAuthUserById and the read of users; ensureTenantScope.
StartManage(r) ==
    /\ \E p \in Person, t \in Tenant, op \in ManageOp : \E role \in RoleArgument(op) :
         Begin(r, op, p, [tenant |-> t, role |-> role], None,
               IF op \in {"assign_tenant", "repair"}
               THEN IF account[p] # "absent" THEN "check_tenants" ELSE "refused"
               ELSE IF profile[p] # t \/ role = PlatformRole THEN "refused"
               ELSE "find_role")
    /\ UNCHANGED <<trail, adminRows>>

\* Bug: the roles in other tenants are not looked at.
CheckTenantsNoCheckBug(r) ==
    /\ At(r, "check_tenants") /\ Goto(r, "upsert")
    /\ UNCHANGED <<trail, adminRows>>

\* ensureNoCrossTenantActiveRole
CheckTenants(r) ==
    /\ At(r, "check_tenants")
    /\ Goto(r, IF \E g \in grants[Who(r)] : g.tenant # Home(r) THEN "refused" ELSE "upsert")
    /\ UNCHANGED <<trail, adminRows>>

\* A repair without a role, or with one it may not assign, is refused only now.
Upsert(r) ==
    /\ At(r, "upsert") /\ Settle(r)
    /\ Goto(r, IF req[r].op = "assign_tenant" THEN "audit_activated"
               ELSE IF Wanted(r) \in Grantable THEN "find_role" ELSE "refused")
    /\ UNCHANGED <<trail, account, grants, granted>>

\* getActiveRoleForTenant, and what each operation makes of it.
FindRole(r) ==
    /\ At(r, "find_role")
    /\ \/ /\ Held(Who(r), Home(r)) = {}
          /\ Goto(r, IF req[r].op \in {"assign_role", "repair"} THEN "grant" ELSE "refused")
       \/ \E g \in Held(Who(r), Home(r)) :
            Keep(r, g.at,
                 CASE req[r].op = "revoke_role" -> "revoke"
                   [] req[r].op = "assign_role" -> "refused"
                   [] req[r].op = "change_role" ->
                        IF g.role = Wanted(r) THEN "done" ELSE "revoke"
                   [] OTHER -> IF g.role = Wanted(r) THEN "audit_activated" ELSE "refused")
    /\ UNCHANGED <<trail, adminRows>>

\* UPDATE user_roles SET revoked_at WHERE id = the row read AND revoked_at IS NULL:
\* no error when the row was revoked in between.
Revoke(r) ==
    /\ At(r, "revoke")
    /\ grants' = [grants EXCEPT ![Who(r)] =
                    {g \in @ : ~(g.tenant = Home(r) /\ g.at = req[r].seen)}]
    /\ Goto(r, "audit_revoked")
    /\ UNCHANGED <<trail, account, profile, granted>>

GrantRole(r) ==
    /\ At(r, "grant") /\ Insert(r, "audit_assigned")
    /\ UNCHANGED <<trail, account, profile>>
-----------------------------------------------------------------------------
AdminAudit(r) ==
    /\ \/ Emit(r, "audit_invited", "invited", "done")
       \/ Emit(r, "audit_revoked", "revoked",
               IF req[r].op = "change_role" THEN "grant" ELSE "done")
       \/ Emit(r, "audit_assigned", "assigned",
               IF req[r].op = "repair" THEN "audit_activated" ELSE "done")
       \/ Emit(r, "audit_activated", "activated", "done")
    /\ UNCHANGED adminRows

AdminNext ==
    \/ \E r \in Request :
         \/ StartInvite(r) \/ InviteLookup(r) \/ InviteUpsert(r) \/ InviteRole(r)
         \/ InviteGrant(r) \/ StartManage(r) \/ CheckTenants(r) \/ Upsert(r)
         \/ FindRole(r) \/ Revoke(r) \/ GrantRole(r) \/ AdminAudit(r)
         \/ Kill(r) /\ UNCHANGED adminRows
    \/ \E p \in Person : Confirm(p)

AdminSpec == RequestsInit /\ AdminInit /\ [][AdminNext]_<<calls, adminRows>>
-----------------------------------------------------------------------------
\* custom_access_token_hook: the latest active grant names tenant and role.
Claims(p) == {g \in grants[p] : \A h \in grants[p] : h.at <= g.at}

\* toProvisioningStatus, as listManagedUsers of the administrator of t shows p.
ListedAs(p, t) ==
    CASE account[p] = "absent"  -> "missing_auth"
      [] profile[p] # t         -> "missing_app_user"
      [] Held(p, t) = {}        -> "missing_role"
      [] OTHER                  -> "complete"

\* A user whom the list of a tenant shows as "complete" signs in to that tenant: the
\* latest active grant, which the token hook reads, agrees with users.tenant_id, which
\* the list reads.  The check for roles elsewhere is a call of its own, so this needs
\* that no two requests worked on the user at once.
CompleteMeansSignedIn ==
    \A p \in Person, t \in Tenant : ListedAs(p, t) = "complete" =>
      \/ \A g \in Claims(p) : g.tenant = t
      \/ \E r \in crossed : Who(r) = p

\* A confirmed user is left without any role only by a revocation, by an invitation
\* that did not get to its grant, or by a change of role that was cut off or overtaken
\* between revoking the old role and granting the new one
\* (admin-users.service.ts:433-470).
RoleLossExplained ==
    \A p \in Person : account[p] = "confirmed" /\ grants[p] = {} =>
      \E r \in Request :
        /\ Who(r) = p
        /\ \/ req[r].op = "revoke_role"
           \/ req[r].op \in {"change_role", "invite"} /\ ~At(r, "done")

\* What the administrators of two tenants do to one user, interleaved at every call
\* and cut off anywhere, leaves no account in a state that nobody's action explains.
ProvisioningExplained == CompleteMeansSignedIn /\ RoleLossExplained
=============================================================================
