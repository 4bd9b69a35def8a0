------------------------------- MODULE Access -------------------------------
(***************************************************************************)
(* A member of staff signs in and moves about the platform while an        *)
(* administrator may change their role.  The role is looked up in three    *)
(* places that age differently: user_roles, the access token, and what the *)
(* browser shows (a page, and around it the sidebar of a layout that a     *)
(* click on a link does not render again).                                 *)
(***************************************************************************)
EXTENDS Naturals

CONSTANT MaxRoleChanges  \* bound: changes of the role in user_roles

ASSUME AccessBound == MaxRoleChanges \in Nat

VARIABLES
    assigned,  \* the active row of user_roles: a role, or "none"
    changes,   \* how often it changed
    factor,    \* a verified TOTP factor exists
    token,     \* the claims user_role and aal of the session cookie
    screen,    \* what the browser shows: page, role it was rendered for, role of the sidebar
    proved     \* history: the second factor was shown since the password

accessRows == <<assigned, changes, factor, token, screen, proved>>

Role == {"platform_super_admin", "tenant_admin", "mlro", "senior_reviewer", "analyst",
         "onboarding_agent", "read_only"}

MFARequiredRoles == {"platform_super_admin", "tenant_admin", "mlro"}

\* The permissions that a page or a route below asks for.
Granted == [
    platform_super_admin |-> {"manage_config", "audit_read", "audit_export"},
    tenant_admin |->
        {"manage_users", "manage_config", "activate_workflow", "read_all", "add_note",
         "approve_standard", "reject", "flag_sar", "assign", "read_edd_data",
         "documents_read", "documents_verify", "resolve_hit", "audit_read", "audit_export",
         "read_aggregate"},
    mlro |->
        {"read_all", "add_note", "approve_standard", "reject", "flag_sar", "assign",
         "read_edd_data", "documents_read", "documents_verify", "resolve_hit", "audit_read",
         "audit_export", "read_aggregate"},
    senior_reviewer |->
        {"read_assigned", "add_note", "approve_standard", "reject", "assign",
         "read_edd_data", "documents_read", "documents_verify", "resolve_hit",
         "read_aggregate"},
    analyst |-> {"read_assigned", "add_note", "documents_read", "documents_verify",
                 "resolve_hit"},
    onboarding_agent |-> {"documents_read"},
    read_only |-> {"read_aggregate"}]

HasPermission(role, permission) == permission \in Granted[role]
-----------------------------------------------------------------------------
(* The pages of the platform, and who gets past their first lines.         *)

AdminPage == {"users", "config", "workflows", "webhooks", "platform"}
PlatformPage == {"dashboard", "cases", "case", "customers", "sar", "report", "reporting",
                 "audit"} \cup AdminPage

CasesPage(role) == HasPermission(role, "read_assigned") \/ HasPermission(role, "read_all")
CaseDetailPage(role) == CasesPage(role)
SARRegisterPage(role) == HasPermission(role, "flag_sar")
SarDetailPage(role) == HasPermission(role, "flag_sar")
ReportingPage(role) == HasPermission(role, "read_aggregate")
AuditPage(role) == HasPermission(role, "audit_read")
UsersPage(role) == HasPermission(role, "manage_users")
AdminConfigPage(role) == HasPermission(role, "manage_config")
AdminWorkflowsPage(role) == HasPermission(role, "activate_workflow") \/ role = "mlro"
AdminWebhooksPage(role) == HasPermission(role, "audit_read")
PlatformAdminPage(role) == role = "platform_super_admin"

\* The dashboard and the list of customers ask for nothing.
Opens(page, role) ==
    CASE page = "cases"     -> CasesPage(role)
      [] page = "case"      -> CaseDetailPage(role)
      [] page = "sar"       -> SARRegisterPage(role)
      [] page = "report"    -> SarDetailPage(role)
      [] page = "reporting" -> ReportingPage(role)
      [] page = "audit"     -> AuditPage(role)
      [] page = "users"     -> UsersPage(role)
      [] page = "config"    -> AdminConfigPage(role)
      [] page = "workflows" -> AdminWorkflowsPage(role)
      [] page = "webhooks"  -> AdminWebhooksPage(role)
      [] page = "platform"  -> PlatformAdminPage(role)
      [] OTHER              -> page \in PlatformPage

SignedIn(t) == t.role # "signed_out"

ForbiddenPath(page, role) ==
    \/ page \in AdminPage /\ role \notin {"tenant_admin", "platform_super_admin"}
    \/ page = "audit" /\ role \notin {"mlro", "tenant_admin", "platform_super_admin"}

\* Bug: the second factor is left to the sign-in form.
MiddlewareBug(page, t) ==
    IF t.role \notin Role THEN "sign_in"
    ELSE IF ForbiddenPath(page, t.role) THEN "forbidden" ELSE "next"

\* proxy.ts, before every page and every route.
Middleware(page, t) ==
    IF t.role \notin Role THEN "sign_in"
    ELSE IF t.role \in MFARequiredRoles /\ ~t.aal2 THEN "mfa_setup"
    ELSE IF ForbiddenPath(page, t.role) THEN "forbidden" ELSE "next"

\* Where a browser with these claims ends up.
Destination(page, t) ==
    IF Middleware(page, t) # "next" THEN Middleware(page, t)
    ELSE IF page \notin PlatformPage THEN "not_found"
    ELSE IF Opens(page, t.role) THEN page ELSE "denied"

Outside == {"sign_in", "code", "mfa_setup", "verify", "complete", "forgot", "reset",
            "forbidden"}

\* A page of the platform carries the sidebar along when a link leads to it.
PlatformLayout(at, role, sidebar) ==
    IF at \in Outside THEN [at |-> at, role |-> "none", sidebar |-> "none"]
    ELSE [at |-> at, role |-> role,
          sidebar |-> IF sidebar = "none" THEN role ELSE sidebar]
-----------------------------------------------------------------------------
(* The links of the sidebar and of the seven dashboards.                   *)

NavItems == [
    dashboard |-> Role,
    cases     |-> {"mlro", "senior_reviewer", "analyst", "tenant_admin"},
    customers |-> {"mlro", "senior_reviewer", "analyst", "tenant_admin"},
    sar       |-> {"tenant_admin", "mlro"},
    reporting |-> {"tenant_admin", "mlro", "senior_reviewer", "read_only"},
    audit     |-> {"mlro", "tenant_admin"},
    users     |-> {"tenant_admin", "platform_super_admin"},
    config    |-> {"tenant_admin", "platform_super_admin"},
    workflows |-> {"tenant_admin", "mlro"},
    webhooks  |-> {"tenant_admin", "mlro", "platform_super_admin"},
    platform  |-> {"platform_super_admin"}]

VisibleItems(role) == {page \in DOMAIN NavItems : role \in NavItems[page]}

PlatformAdminDashboard == {"workflows", "config", "users", "audit"}
TenantAdminDashboard == {"workflows", "config", "users", "cases", "audit"}
MLRODashboard == {"cases", "sar", "audit", "reporting"}
SeniorReviewerDashboard == {"cases", "case"}
AnalystDashboard == {"cases", "customers", "case_documents"}
\* Its list of sessions to resume stays empty: the query sorts by a column the table lacks.
OnboardingAgentDashboard == {}
ReadOnlyDashboard == {"reporting"}

DashboardPage(role) ==
    CASE role = "platform_super_admin" -> PlatformAdminDashboard
      [] role = "tenant_admin"         -> TenantAdminDashboard
      [] role = "mlro"                 -> MLRODashboard
      [] role = "senior_reviewer"      -> SeniorReviewerDashboard
      [] role = "analyst"              -> AnalystDashboard
      [] role = "onboarding_agent"     -> OnboardingAgentDashboard
      [] role = "read_only"            -> ReadOnlyDashboard

Links == VisibleItems(screen.sidebar)
           \cup IF screen.at = "dashboard" THEN DashboardPage(screen.role) ELSE {}
-----------------------------------------------------------------------------
(* The buttons of the pages and the routes behind them.                    *)

CaseControls == [note   |-> "add_note",         decide  |-> "approve_standard",
                 reject |-> "reject",           assign  |-> "assign",
                 flag   |-> "flag_sar",         verify  |-> "documents_verify",
                 edd    |-> "read_edd_data",    resolve |-> "resolve_hit"]

\* What the pages offer to whom.  The note form is shown to everybody who sees the case.
Offered(page, role) ==
    CASE page = "case"      -> {c \in DOMAIN CaseControls :
                                  c = "note" \/ HasPermission(role, CaseControls[c])}
      [] page = "sar"       -> {"draft"}
      [] page = "report"    -> {"save", "submit"}
      [] page = "audit"     -> {c \in {"export"} : HasPermission(role, "audit_export")}
      [] page = "users"     -> {"invite", "change_role"}
      [] page = "config"    -> {c \in {"settings", "branding"} :
                                  HasPermission(role, "manage_config")}
      [] page = "workflows" -> {c \in {"toggle", "clone"} :
                                  HasPermission(role, "activate_workflow")}
                                 \cup {c \in {"acknowledge"} : role = "mlro"}
      [] OTHER              -> {}

\* What the route behind a button asks for: a rejection goes through the approvals route.
AssertPermission == [
    note |-> "add_note", decide |-> "approve_standard", reject |-> "approve_standard",
    assign |-> "assign", flag |-> "flag_sar", verify |-> "documents_read",
    edd |-> "read_edd_data", resolve |-> "resolve_hit", draft |-> "flag_sar",
    save |-> "flag_sar", submit |-> "flag_sar", export |-> "audit_export",
    invite |-> "manage_users", change_role |-> "manage_users",
    settings |-> "manage_config", branding |-> "manage_config",
    toggle |-> "activate_workflow", clone |-> "activate_workflow",
    acknowledge |-> "activate_workflow"]

\* The routes of these pages lie under /api/admin and /api/audit.
SamePath(page) == page \in AdminPage \cup {"audit"}

Accepted(page, control, t) ==
    /\ Middleware(IF SamePath(page) THEN page ELSE "dashboard", t) = "next"
    /\ HasPermission(t.role, AssertPermission[control])
-----------------------------------------------------------------------------
AccessTypeOK ==
    /\ assigned \in Role \cup {"none"} /\ changes \in 0..MaxRoleChanges
    /\ factor \in BOOLEAN /\ proved \in BOOLEAN
    /\ token \in [role : Role \cup {"none", "signed_out"}, aal2 : BOOLEAN]
    /\ screen \in [at : PlatformPage \cup Outside \cup {"denied", "not_found"},
                   role : Role \cup {"none"}, sidebar : Role \cup {"none"}]

Shown(at) == [at |-> at, role |-> "none", sidebar |-> "none"]

AccessInit ==
    /\ assigned \in Role /\ changes = 0
    /\ factor \in BOOLEAN
    /\ token = [role |-> "signed_out", aal2 |-> FALSE]
    /\ screen = Shown("sign_in")
    /\ proved = FALSE

\* An administrator gives another role, revokes the only one, or grants one.
ChangeRole ==
    /\ changes < MaxRoleChanges /\ changes' = changes + 1
    /\ assigned' \in (Role \cup {"none"}) \ {assigned}
    /\ UNCHANGED <<factor, token, screen, proved>>

\* The access token is renewed, with the claims of custom_access_token_hook.
RefreshToken ==
    /\ SignedIn(token)
    /\ token' = [token EXCEPT !.role = assigned]
    /\ UNCHANGED <<assigned, changes, factor, screen, proved>>

\* Loads the page whole, sidebar included.
LoadPage(page, t) == screen' = PlatformLayout(Destination(page, t), t.role, "none")

\* sign-in/page.tsx: handleSignIn.  A wrong password changes nothing.  listFactors may fail.
HandleSignIn ==
    /\ screen.at = "sign_in"
    /\ token' = [role |-> assigned, aal2 |-> FALSE] /\ proved' = FALSE
    /\ IF assigned \in MFARequiredRoles /\ factor
       THEN screen' \in {Shown("code"), Shown("mfa_setup")}
       ELSE \E page \in PlatformPage : LoadPage(page, token')  \* redirectTo
    /\ UNCHANGED <<assigned, changes, factor>>

\* handleMfaVerify: a wrong code changes nothing.
HandleMfaVerify ==
    /\ screen.at = "code" /\ SignedIn(token)
    /\ token' = [role |-> assigned, aal2 |-> TRUE] /\ proved' = TRUE
    /\ \E page \in PlatformPage : LoadPage(page, token')
    /\ UNCHANGED <<assigned, changes, factor>>

BackToSignIn ==
    /\ screen.at = "code"
    /\ token' = [role |-> "signed_out", aal2 |-> FALSE]
    /\ screen' = Shown("sign_in")
    /\ UNCHANGED <<assigned, changes, factor, proved>>

\* mfa-setup/page.tsx: an existing factor is challenged, otherwise one is enrolled.
HandleEnroll ==
    /\ screen.at = "mfa_setup" /\ SignedIn(token)
    /\ screen' = Shown("verify")
    /\ UNCHANGED <<assigned, changes, factor, token, proved>>

\* handleVerify, up to the call of /api/auth/mfa/complete, which refuses whoever has lost
\* the role, or fails: the form stays.
HandleVerify ==
    /\ screen.at = "verify" /\ SignedIn(token)
    /\ factor' = TRUE /\ proved' = TRUE
    /\ token' = [role |-> assigned, aal2 |-> TRUE]
    /\ \/ assigned # "none" /\ screen' \in {Shown("complete"), Shown("sign_in")}
       \/ UNCHANGED screen
    /\ UNCHANGED <<assigned, changes>>

HandleComplete ==
    /\ screen.at = "complete" /\ LoadPage("dashboard", token)
    /\ UNCHANGED <<assigned, changes, factor, token, proved>>

\* A reload, a bookmark or an address typed by hand; the proxy may renew the token first.
VisitPage(page) ==
    /\ \/ UNCHANGED token
       \/ SignedIn(token) /\ token' = [token EXCEPT !.role = assigned]
    /\ LoadPage(page, token')
    /\ UNCHANGED <<assigned, changes, factor, proved>>

\* A click: only the page below the layout is rendered.
FollowLink(page) ==
    /\ page \in Links
    /\ screen' = PlatformLayout(Destination(page, token), token.role, screen.sidebar)
    /\ UNCHANGED <<assigned, changes, factor, token, proved>>

HandleSignOut ==
    /\ screen.sidebar # "none"
    /\ token' = [role |-> "signed_out", aal2 |-> FALSE]
    /\ screen' = Shown("sign_in")
    /\ UNCHANGED <<assigned, changes, factor, proved>>

ForgotPassword ==
    /\ screen.at = "sign_in" /\ screen' = Shown("forgot")
    /\ UNCHANGED <<assigned, changes, factor, token, proved>>

\* auth/callback: the link of the mail signs in, with one factor.  It may have expired.
OpenRecoveryLink ==
    /\ screen.at = "forgot"
    /\ \/ /\ token' = [role |-> assigned, aal2 |-> FALSE] /\ proved' = FALSE
          /\ screen' = Shown("reset")
       \/ screen' = Shown("sign_in") /\ UNCHANGED <<token, proved>>
    /\ UNCHANGED <<assigned, changes, factor>>

\* reset-password/page.tsx: the session of the link stays.
ResetPassword ==
    /\ screen.at = "reset" /\ screen' = Shown("sign_in")
    /\ UNCHANGED <<assigned, changes, factor, token, proved>>

AccessNext ==
    \/ ChangeRole \/ RefreshToken
    \/ HandleSignIn \/ HandleMfaVerify \/ BackToSignIn
    \/ HandleEnroll \/ HandleVerify \/ HandleComplete
    \/ \E page \in PlatformPage : VisitPage(page)
    \/ \E page \in PlatformPage \cup {"case_documents"} : FollowLink(page)
    \/ HandleSignOut \/ ForgotPassword \/ OpenRecoveryLink \/ ResetPassword

AccessSpec == AccessInit /\ [][AccessNext]_accessRows
-----------------------------------------------------------------------------
\* Whatever the way in (password, recovery link, a session from before a promotion), a
\* page or a sidebar of a role that requires MFA is shown only after the second factor.
SecondFactorShown ==
    {screen.role, screen.sidebar} \cap MFARequiredRoles # {} => proved

\* Nothing changed since the page was loaded.
UpToDate == screen.role \in Role /\ token.role = screen.role /\ screen.sidebar = screen.role

\* Links that can never work: the proxy keeps the MLRO out of /admin, the pages of users and
\* workflows ask for permissions the platform admin lacks, one page does not exist.
DeadEnds == {<<"mlro", "workflows">>, <<"mlro", "webhooks">>,
             <<"platform_super_admin", "users">>, <<"platform_super_admin", "workflows">>,
             <<"analyst", "case_documents">>}

\* The proxy, the sidebar, the dashboards and the pages each have a list of their own of
\* who may go where: every other link leads where it says, while the role is current.
LinksLead ==
    UpToDate => \A page \in Links :
                  \/ Destination(page, token) = page
                  \/ <<screen.role, page>> \in DeadEnds

\* A button is shown by the permissions of the page, and served by those of the route.
ButtonsWork ==
    UpToDate => \A control \in Offered(screen.at, screen.role) :
                  Accepted(screen.at, control, token)

AccessSound == SecondFactorShown /\ LinksLead /\ ButtonsWork
=============================================================================
