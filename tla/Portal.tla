------------------------------- MODULE Portal -------------------------------
(***************************************************************************)
(* The portal seen from the browser and from the providers: the wizard of  *)
(* the customer, identity verification, UAE Pass and billing with their    *)
(* callbacks, and the screens of the staff.  As in BackOffice, a behaviour *)
(* takes place in one area; the areas share no row.                        *)
(***************************************************************************)
EXTENDS Wizard, IdentityVerification, Billing, UaePass, CasePage, SarPages, Access,
        Dashboards

VARIABLE where  \* the area of this behaviour

PortalArea == {"wizard", "idv", "billing", "pass", "case", "sar", "access",
               "dashboards"}

portal == <<wizardRows, idvRows, billingRows, passRows, caseRows, sarPageRows,
            accessRows, dashboardRows, where>>

\* What the other areas start with does not matter.
PortalInit ==
    /\ WizardInit /\ IdvInit /\ BillingInit /\ PassInit /\ CasePageInit
    /\ SarPagesInit /\ AccessInit /\ DashboardsInit
    /\ where \in PortalArea
    /\ where # "idv" => grant = CHOOSE g \in Grants : TRUE
    /\ where # "billing" => writable = {}
    /\ where # "pass" => /\ policy = [enabled |-> FALSE, level |-> "SOP3"]
                         /\ \E a \in Attempt : \A c \in Callback : callback[c].of = a
    /\ where # "case" => /\ role = [o \in Officer |-> "mlro"] /\ ~published
                         /\ case.who = Nobody
    /\ where # "access" => assigned = "analyst" /\ ~factor

PortalNext ==
    /\ UNCHANGED where
    /\ \/ where = "wizard" /\ WizardNext
          /\ UNCHANGED <<idvRows, billingRows, passRows, caseRows, sarPageRows,
                         accessRows, dashboardRows>>
       \/ where = "idv" /\ IdvNext
          /\ UNCHANGED <<wizardRows, billingRows, passRows, caseRows, sarPageRows,
                         accessRows, dashboardRows>>
       \/ where = "billing" /\ BillingNext
          /\ UNCHANGED <<wizardRows, idvRows, passRows, caseRows, sarPageRows,
                         accessRows, dashboardRows>>
       \/ where = "pass" /\ PassNext
          /\ UNCHANGED <<wizardRows, idvRows, billingRows, caseRows, sarPageRows,
                         accessRows, dashboardRows>>
       \/ where = "case" /\ CasePageNext
          /\ UNCHANGED <<wizardRows, idvRows, billingRows, passRows, sarPageRows,
                         accessRows, dashboardRows>>
       \/ where = "sar" /\ SarPagesNext
          /\ UNCHANGED <<wizardRows, idvRows, billingRows, passRows, caseRows,
                         accessRows, dashboardRows>>
       \/ where = "access" /\ AccessNext
          /\ UNCHANGED <<wizardRows, idvRows, billingRows, passRows, caseRows,
                         sarPageRows, dashboardRows>>
       \/ where = "dashboards" /\ DashboardsNext
          /\ UNCHANGED <<wizardRows, idvRows, billingRows, passRows, caseRows,
                         sarPageRows, accessRows>>

PortalSpec == PortalInit /\ [][PortalNext]_portal
-----------------------------------------------------------------------------
PortalTypeOK ==
    CASE where = "wizard"     -> WizardTypeOK
      [] where = "idv"        -> IdvTypeOK
      [] where = "billing"    -> BillingTypeOK
      [] where = "pass"       -> PassTypeOK
      [] where = "case"       -> CasePageTypeOK
      [] where = "sar"        -> SarPagesTypeOK
      [] where = "access"     -> AccessTypeOK
      [] where = "dashboards" -> DashboardsTypeOK

\* The providers whose callbacks carry no user: what Sumsub and Nomod reported reaches the
\* tables unless a grant, a missing row or an error answered 200 explains why not.
ProvidersHeard == /\ where = "idv" => VerdictsReachTheSession
                  /\ where = "billing" => PaymentsCount

\* The screens of the staff: the page of a case, the register and the editor of reports, and
\* the way to the pages.
ScreensSound == /\ where = "case" => CasePageSound
                /\ where = "sar" => SarPagesSound
                /\ where = "access" => AccessSound

\* The numbers of the dashboards and of the reporting page.
NumbersExplained == where = "dashboards" => DashboardsSound
=============================================================================
