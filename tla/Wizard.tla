------------------------------- MODULE Wizard -------------------------------
(***************************************************************************)
(* The onboarding wizard in the browser: the pages of app/(onboarding) and *)
(* the forms of components/onboarding, opened in several tabs on one       *)
(* session.  The server does not check that the earlier steps were done,   *)
(* or that documents exist, before it accepts a step: only the guards of   *)
(* the pages and the forms do.                                             *)
(*                                                                         *)
(* A page is rendered on the server from the session as it is then; what   *)
(* is filled in lives in the tab, and is lost when the page is left.  A    *)
(* request that was sent runs to its end even if the tab has moved on.     *)
(***************************************************************************)
EXTENDS FiniteSets

CONSTANT Tab  \* browser tabs

VARIABLES
    tab,       \* per tab: the page and its form, and the request that it sent
    session,   \* onboarding_sessions: customer type, status, completed_steps
    records    \* consent_records, data versions and confirmed documents, by name

wizardRows == <<tab, session, records>>

Page == {"start", "consent", "identity", "business", "idv", "documents", "complete"}

IndividualDocuments == {"passport"}
CorporateDocuments == {"trade_license", "emirates_id_front", "emirates_id_back"}
IsCorporate == session.type = "corporate"
RequiredDocuments == IF IsCorporate THEN CorporateDocuments ELSE IndividualDocuments

DataStep == IF IsCorporate THEN "business-info" ELSE "identity"
Has(step) == step \in session.done
-----------------------------------------------------------------------------
(* What KycIdentitySchema and KybBusinessSchema may refuse, and what the   *)
(* forms show: FormData holds every input, errors come back per field, and *)
(* those of the bank account under "bank_account".                         *)

PersonalErrors == {"full_name", "date_of_birth", "nationality", "country_of_residence"}
DocumentErrors == {"id_type", "id_number", "id_expiry", "id_issuing_country",
                   "emirates_id_number"}
ContactErrors == {"email", "phone", "address_line1", "city", "postal_code", "country"}
ComplianceErrors == {"occupation", "source_of_funds", "purpose_of_relationship"}

BusinessErrors == {"company_name", "trade_license_number", "jurisdiction", "activity_type",
                   "trade_license_issued_at", "trade_license_expires_at",
                   "authorized_rep_name"}

\* Bug: no place for an error of the Emirates ID.
IdentityFormBug == (PersonalErrors \cup DocumentErrors \cup ContactErrors
                      \cup ComplianceErrors) \ {"emirates_id_number"}

\* The fields of the identity form with a place for their error.
IdentityForm == PersonalErrors \cup DocumentErrors \cup ContactErrors \cup ComplianceErrors

OptionalInputs == {"address_line2", "employer", "bank_account"}

Refusable(page) ==
    IF page = "business" THEN BusinessErrors
    ELSE PersonalErrors \cup DocumentErrors \cup ContactErrors \cup ComplianceErrors
           \cup OptionalInputs

ShownErrors(page) == IF page = "business" THEN BusinessErrors ELSE IdentityForm
-----------------------------------------------------------------------------
(* The guards of the pages: where a page sends the browser instead.        *)

Submitted == session.status = "submitted"

ConsentPage == IF Submitted THEN "complete" ELSE "consent"

IdentityPage == IF ~Has("consent") THEN "consent"
                ELSE IF Submitted THEN "complete" ELSE "identity"

BusinessPage == IF ~Has("consent") THEN "consent"
                ELSE IF ~IsCorporate THEN "identity"
                ELSE IF Submitted THEN "complete" ELSE "business"

IDVPage == IF ~Has("consent") THEN "consent"
           ELSE IF ~Has("identity") THEN "identity"
           ELSE IF Submitted THEN "complete" ELSE "idv"

\* Bug: the page does not ask for the step before it.
DocumentsPageUnguardedBug == IF Submitted THEN "complete" ELSE "documents"

DocumentsPage == IF ~Has(DataStep) THEN (IF IsCorporate THEN "business" ELSE "identity")
                 ELSE IF Submitted THEN "complete" ELSE "documents"

Redirect(page) == CASE page = "consent"   -> ConsentPage
                    [] page = "identity"  -> IdentityPage
                    [] page = "business"  -> BusinessPage
                    [] page = "idv"       -> IDVPage
                    [] page = "documents" -> DocumentsPage
                    [] OTHER              -> page

\* The page that is rendered in the end.
Rendered(page) == Redirect(Redirect(Redirect(page)))
-----------------------------------------------------------------------------
Stage == {"none", "create", "record", "check", "reread", "write", "answer"}

TabState == [page : Page, filled : SUBSET (IndividualDocuments \cup CorporateDocuments),
             error : {"none", "api", "field", "optional", "unseen"},
             stage : Stage, step : {"none", "consent", "identity", "business-info",
                                    "documents"},
             seen : SUBSET {"consent", "identity", "business-info", "documents"},
             waiting : BOOLEAN]

WizardTypeOK ==
    /\ tab \in [Tab -> TabState]
    /\ session \in [type : {"none", "individual", "corporate"},
                    status : {"absent", "in_progress", "submitted"},
                    done : SUBSET {"consent", "identity", "business-info", "documents"}]
    /\ records \subseteq {"consent", "identity", "business-info"}
                         \cup IndividualDocuments \cup CorporateDocuments

WizardInit ==
    /\ tab = [t \in Tab |-> [page |-> "start", filled |-> {}, error |-> "none",
                             stage |-> "none", step |-> "none", seen |-> {}, waiting |-> FALSE]]
    /\ session = [type |-> "none", status |-> "absent", done |-> {}]
    /\ records = {}
-----------------------------------------------------------------------------
\* A new page starts with an empty form, whatever was sent before.
Show(t, page) ==
    [tab[t] EXCEPT !.page = Rendered(page), !.filled = {}, !.error = "none",
                   !.waiting = FALSE]

\* A link, the back button, a reload or an address typed by hand.
Open(t, page) ==
    /\ session.status # "absent"
    /\ tab' = [tab EXCEPT ![t] = Show(t, page)]
    /\ UNCHANGED <<session, records>>

Sends(t, page, step, stage) ==
    /\ tab[t].page = page /\ tab[t].stage = "none"
    /\ tab' = [tab EXCEPT ![t].step = step, ![t].stage = stage, ![t].error = "none",
                          ![t].waiting = TRUE]
    /\ UNCHANGED <<session, records>>

To(t, stage) == tab' = [tab EXCEPT ![t].stage = stage]

\* customer-type-selector.tsx: handleContinue
HandleContinue(t) == session.status = "absent" /\ Sends(t, "start", "none", "create")

CreateSession(t) ==
    /\ tab[t].stage = "create"
    /\ session.status = "absent"  \* bound: one session
    /\ \E type \in {"individual", "corporate"} :
         session' = [type |-> type, status |-> "in_progress", done |-> {}]
    /\ To(t, "answer")
    /\ UNCHANGED records

\* consent-form.tsx: the button is enabled once the three consents are ticked.
SubmitConsent(t) == Sends(t, "consent", "consent", "record")

\* identity-form.tsx and business-form.tsx: handleSubmit
SubmitData(t) == \/ Sends(t, "identity", "identity", "record")
                 \/ Sends(t, "business", "business-info", "record")

\* The data is refused with an error per field, of which the form shows some.
RefuseData(t) ==
    /\ tab[t].stage = "record" /\ tab[t].page \in {"identity", "business"} /\ tab[t].waiting
    /\ \E field \in Refusable(tab[t].page) :
         tab' = [tab EXCEPT ![t].stage = "none", ![t].waiting = FALSE,
                   ![t].error = IF field \in ShownErrors(tab[t].page) THEN "field"
                                ELSE IF field \in OptionalInputs THEN "optional"
                                ELSE "unseen"]
    /\ UNCHANGED <<session, records>>

\* POST /api/consent, or PATCH of the data, answered with 2xx.  The call for the step
\* follows only if the page is still there.
Record(t) ==
    /\ tab[t].stage = "record"
    /\ records' = records \cup {tab[t].step}
    /\ To(t, IF tab[t].waiting THEN "check" ELSE "none")
    /\ UNCHANGED session

\* document-upload.tsx: handleFileSelect, up to the confirmation; the answer may get lost.
HandleFileSelect(t, type) ==
    /\ tab[t].page = "documents" /\ type \in RequiredDocuments
    /\ records' = records \cup {type}
    /\ \/ tab' = [tab EXCEPT ![t].filled = @ \cup {type}]
       \/ UNCHANGED tab
    /\ UNCHANGED session

\* The button below an uploaded document: the slot is empty again, the document stays.
Replace(t, type) ==
    /\ tab[t].page = "documents" /\ type \in tab[t].filled
    /\ tab' = [tab EXCEPT ![t].filled = @ \ {type}]
    /\ UNCHANGED <<session, records>>

SubmitDocuments(t) ==
    /\ RequiredDocuments \subseteq tab[t].filled
    /\ Sends(t, "documents", "documents", "check")

\* idv-form.tsx: handleSkip
HandleSkip(t) == tab[t].page = "idv" /\ Open(t, "documents")
-----------------------------------------------------------------------------
(* POST /api/sessions/[id]/steps/[stepId]                                  *)

Steps == {"consent", DataStep, "documents"}

\* An unknown step, or a session that is complete.
Check(t) ==
    /\ tab[t].stage = "check"
    /\ IF tab[t].step \in Steps /\ ~Submitted
       THEN To(t, "reread")
       ELSE tab' = [tab EXCEPT ![t].stage = "none", ![t].waiting = FALSE,
                               ![t].error = IF tab[t].waiting THEN "api" ELSE @]
    /\ UNCHANGED <<session, records>>

Reread(t) ==
    /\ tab[t].stage = "reread"
    /\ tab' = [tab EXCEPT ![t].stage = "write", ![t].seen = session.done]
    /\ UNCHANGED <<session, records>>

\* The whole row is written from what was read.
Write(t) ==
    /\ tab[t].stage = "write"
    /\ session' = [session EXCEPT !.done = tab[t].seen \cup {tab[t].step},
                     !.status = IF tab[t].step = "documents" THEN "submitted"
                                ELSE "in_progress"]
    /\ tab' = [tab EXCEPT ![t].stage = "answer", ![t].seen = {}]
    /\ UNCHANGED records

NextPage(t) == CASE tab[t].step = "none"      -> "consent"
                 [] tab[t].step = "consent"   -> (IF IsCorporate THEN "business"
                                                  ELSE "identity")
                 [] tab[t].step = "documents" -> "complete"
                 [] OTHER                     -> "documents"

\* router.push, if the page that sent the request is still there.
Answer(t) ==
    /\ tab[t].stage = "answer"
    /\ tab' = [tab EXCEPT ![t] =
                 [(IF tab[t].waiting THEN Show(t, NextPage(t)) ELSE tab[t])
                    EXCEPT !.stage = "none", !.waiting = FALSE]]
    /\ UNCHANGED <<session, records>>

\* A 4xx or 5xx answer, or none: whatever was written before stays.
Fail(t) ==
    /\ tab[t].stage # "none"
    /\ tab' = [tab EXCEPT ![t].stage = "none", ![t].waiting = FALSE, ![t].seen = {},
                          ![t].error = IF tab[t].waiting THEN "api" ELSE @]
    /\ UNCHANGED <<session, records>>

WizardNext ==
    \E t \in Tab :
      \/ \E page \in Page \ {"start"} : Open(t, page)
      \/ HandleContinue(t) \/ CreateSession(t)
      \/ SubmitConsent(t) \/ SubmitData(t) \/ RefuseData(t) \/ Record(t)
      \/ \E type \in IndividualDocuments \cup CorporateDocuments :
           HandleFileSelect(t, type) \/ Replace(t, type)
      \/ SubmitDocuments(t) \/ HandleSkip(t)
      \/ Check(t) \/ Reread(t) \/ Write(t) \/ Answer(t) \/ Fail(t)

WizardSpec == WizardInit /\ [][WizardNext]_wizardRows
-----------------------------------------------------------------------------
\* However many tabs, reloads, lost answers and overlapping steps: a session that the
\* wizard submitted has its consent, its data and every required document, although no
\* handler asks for them and an overlapping step may drop a name from completed_steps.
SubmittedWithRecords ==
    Submitted => {"consent", DataStep} \cup RequiredDocuments \subseteq records

\* The redirects of the pages end, in every state of the session.
RedirectsEnd == \A page \in Page : Redirect(Rendered(page)) = Rendered(page)

\* A refused save tells the user which field to mend.  The optional inputs have no place
\* for their error: a bank account that is refused leaves a button that does nothing.
RefusalsShown == \A t \in Tab : tab[t].error # "unseen"

WizardSound == SubmittedWithRecords /\ RedirectsEnd /\ RefusalsShown
=============================================================================
