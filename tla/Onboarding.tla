----------------------------- MODULE Onboarding -----------------------------
(***************************************************************************)
(* Onboarding sessions: initiateSession and submitStep of                  *)
(* modules/onboarding/onboarding.service.ts with the workflow engine, the  *)
(* versioned customer and business data, the risk assessment, the          *)
(* screening job and the review case that finalising a session creates.    *)
(*                                                                         *)
(* A request is one HTTP call.  Every supabase call it awaits is a         *)
(* transaction of its own, so each is an action, any two requests may      *)
(* interleave between them, and a request may end between any two (Abort): *)
(* the function is killed, or a call fails and the handler answers 500.    *)
(* Nothing rolls back what it has written.                                 *)
(*                                                                         *)
(* A session stands for itself and the customer (and business) created     *)
(* with it: initiateSession creates exactly one of each.                   *)
(***************************************************************************)
EXTENDS RiskScoring, Sequences

CONSTANTS
    Session,            \* onboarding sessions
    Corporate,          \* those of a corporate customer
    Opened,             \* sessions initiated, with one data version, at the start
    Recorded,           \* that version's data
    Request,            \* HTTP requests
    Caller,             \* the role of the user who makes each request
    Profile,            \* identity data a customer may submit
    Calls,              \* the handlers each request may call
    Offered,            \* the workflow steps that clients submit, per session
    AssessmentWriters,  \* roles that may insert into risk_assessments
    None                \* no value

Role == {"tenant_admin", "onboarding_agent"}  \* holders of onboarding:write

\* A profile is what the risk engine reads and whether the trimmed full_name is
\* non-empty (KycIdentitySchema only asks for two characters).
ASSUME OnboardingAssumption ==
    /\ Session # {}
    /\ Corporate \subseteq Session /\ Opened \subseteq Session
    /\ Profile \subseteq [input : OnboardingInput, named : BOOLEAN]
    /\ Caller \in [Request -> Role] /\ AssessmentWriters \subseteq Role
    /\ Calls \in [Request -> SUBSET {"initiate", "edit", "step"}]
    /\ None \notin Profile /\ None \notin Request
    /\ Recorded \in [Opened -> Profile \cup {None}]
    /\ \A s \in Opened : Recorded[s] = None <=> s \in Corporate

VARIABLES
    req,          \* the requests: where each one is and its local variables
    session,      \* onboarding_sessions: status, current_step, completed_steps
    customer,     \* customers.status
    business,     \* businesses.status
    pointer,      \* latest_version of the customer (of the business if corporate)
    versions,     \* customer_data_versions (business_data_versions if corporate)
    assessments,  \* risk_assessments of a customer, oldest first
    jobs,         \* screening_jobs, by the request that created each
    opened,       \* cases: the queue of the case each request opened, or "none"
    events,       \* case_events: the requests that recorded case_opened
    trail         \* audit_log: event type and request

data == <<session, customer, business, pointer, versions, assessments, jobs,
          opened, events, trail>>
vars == <<req, session, customer, business, pointer, versions, assessments,
          jobs, opened, events, trail>>
-----------------------------------------------------------------------------
Individual == Session \ Corporate

DataStep(s) == IF s \in Corporate THEN "business-info" ELSE "identity"

Steps(s) == {"consent", DataStep(s), "documents", "complete"}

\* The "next" links of the seeded workflow definitions; "none" is null.
NextStep(s, step) == CASE step = "consent"   -> DataStep(s)
                       [] step = DataStep(s) -> "documents"
                       [] step = "documents" -> "complete"
                       [] OTHER              -> "none"

\* engine.ts: the next step is null or of type "completion".
IsFinal(s, step) == NextStep(s, step) \in {"complete", "none"}

\* Tables whose row-level security turns a statement of some role into an error,
\* with the roles that pass.  A case is inserted with RETURNING, so the policy
\* for reading cases applies to it as well: an onboarding_agent cannot read one.
Writers == [customers |-> {"tenant_admin"}, businesses |-> {"tenant_admin"},
            risk_assessments |-> AssessmentWriters, cases |-> {"tenant_admin"}]

GuardedStage == [mark_customer |-> "customers", mark_business |-> "businesses",
                 insert_assessment |-> "risk_assessments", open_case |-> "cases"]

Initiating == {"create_business", "audit_kyb", "create_session", "audit_initiated"}
Editing    == {"insert_version", "point_version", "audit_edit"}
Finalizing == {"mark_customer", "mark_business", "audit_mark", "load_data",
               "find_assessment", "insert_assessment", "audit_risk", "create_job",
               "audit_screening", "find_case", "open_case", "case_event", "audit_case"}
Stepping   == {"reread", "advance", "audit_step"} \cup Finalizing
Running    == Initiating \cup Editing \cup Stepping
\* 2xx; 409 or a UNIQUE conflict; an RLS error; missing data; killed or 500.
Ended      == {"done", "conflict", "denied", "invalid", "aborted"}

Bands == RiskBands \cup {"none"}

AuditType == {"KYB_INITIATED", "SESSION_INITIATED", "FIELD_CHANGED", "SESSION_COMPLETED",
              "RISK_SCORE_COMPUTED", "SCREENING_INITIATED", "CASE_CREATED",
              "SESSION_STEP_SUBMITTED"}

AllSteps == UNION {Steps(s) : s \in Session}

RequestState == [pc : {"idle"} \cup Running \cup Ended, session : Session,
                 step : AllSteps, seen : SUBSET AllSteps, version : Nat,
                 data : Profile \cup {None}, band : Bands]

TypeOK ==
    /\ req \in [Request -> RequestState]
    /\ session \in [Session -> [status : {"absent", "in_progress", "submitted"},
                                current : AllSteps, done : SUBSET AllSteps]]
    /\ customer \in [Session -> {"none", "pending", "in_progress", "submitted"}]
    /\ business \in [Session -> {"none", "pending", "in_progress", "submitted"}]
    /\ pointer \in [Session -> Nat]
    /\ versions \in [Session -> SUBSET [n : Nat, data : Profile \cup {None},
                                        by : Request \cup {None}]]
    /\ assessments \in [Session -> Seq([band : RiskBands, by : Request])]
    /\ jobs \subseteq Request /\ events \subseteq Request
    /\ opened \in [Request -> Queues \cup {"none"}]
    /\ trail \subseteq AuditType \X Request
-----------------------------------------------------------------------------
Init ==
    /\ req = [r \in Request |->
                [pc |-> "idle", session |-> CHOOSE s \in Session : TRUE,
                 step |-> "consent", seen |-> {},
                 version |-> 0, data |-> None, band |-> "none"]]
    /\ session = [s \in Session |->
                    [status |-> IF s \in Opened THEN "in_progress" ELSE "absent",
                     current |-> "consent", done |-> {}]]
    /\ customer = [s \in Session |-> IF s \in Opened \ Corporate THEN "in_progress"
                                   ELSE IF s \in Opened THEN "pending" ELSE "none"]
    /\ business = [s \in Session |->
                     IF s \in Opened \cap Corporate THEN "in_progress" ELSE "none"]
    /\ pointer = [s \in Session |-> IF s \in Opened THEN 1 ELSE 0]
    /\ versions = [s \in Session |->
         IF s \in Opened THEN {[n |-> 1, data |-> Recorded[s], by |-> None]} ELSE {}]
    /\ assessments = [s \in Session |-> <<>>]
    /\ jobs = {} /\ events = {} /\ trail = {}
    /\ opened = [r \in Request |-> "none"]

\* Steps of one handler.
At(r, stage) == req[r].pc = stage
\* The local variables of a request end with it.
Goto(r, stage) ==
    req' = [req EXCEPT ![r] =
              IF stage \in Ended THEN [@ EXCEPT !.pc = stage, !.version = 0, !.data = None]
              ELSE [@ EXCEPT !.pc = stage]]
May(r, table) == Caller[r] \in Writers[table]

\* audit.emit: an INSERT any authenticated user of the tenant may do.
Emit(r, stage, event, next) ==
    /\ At(r, stage)
    /\ trail' = trail \cup {<<event, r>>}
    /\ Goto(r, next)
    /\ UNCHANGED <<session, customer, business, pointer, versions, assessments,
                   jobs, opened, events>>
-----------------------------------------------------------------------------
(* POST /api/sessions : initiateSession.                                   *)

\* loadDefinition, createCustomer: the ids of a new session are fresh.
StartInitiate(r) ==
    /\ At(r, "idle") /\ "initiate" \in Calls[r]
    /\ \E s \in Session :
         /\ customer[s] = "none"
         /\ customer' = [customer EXCEPT ![s] = "pending"]
         /\ req' = [req EXCEPT ![r].session = s,
                               ![r].pc = IF s \in Corporate THEN "create_business"
                                         ELSE "create_session"]
    /\ UNCHANGED <<session, business, pointer, versions, assessments, jobs,
                   opened, events, trail>>

CreateBusiness(r) ==
    /\ At(r, "create_business")
    /\ business' = [business EXCEPT ![req[r].session] = "pending"]
    /\ Goto(r, "audit_kyb")
    /\ UNCHANGED <<session, customer, pointer, versions, assessments, jobs,
                   opened, events, trail>>

AuditKyb(r) == Emit(r, "audit_kyb", "KYB_INITIATED", "create_session")

CreateSession(r) ==
    /\ At(r, "create_session")
    /\ session' = [session EXCEPT ![req[r].session].status = "in_progress"]
    /\ Goto(r, "audit_initiated")
    /\ UNCHANGED <<customer, business, pointer, versions, assessments, jobs,
                   opened, events, trail>>

AuditInitiated(r) == Emit(r, "audit_initiated", "SESSION_INITIATED", "done")
-----------------------------------------------------------------------------
(* PATCH /api/customers/[id]/data and /api/businesses/[id]/data :          *)
(* appendCustomerData and appendBusinessData.                              *)

\* Read latest_version and compute the next number from it.
ReadVersion(r) ==
    /\ At(r, "idle") /\ "edit" \in Calls[r]
    /\ \E s \in Session, d \in Profile \cup {None} :
         /\ session[s].status # "absent"
         /\ d = None <=> s \in Corporate
         /\ req' = [req EXCEPT ![r].pc = "insert_version", ![r].session = s,
                               ![r].data = d, ![r].version = pointer[s] + 1]
    /\ UNCHANGED data

VersionTaken(r) == \E v \in versions[req[r].session] : v.n = req[r].version

StoreVersion(r) ==
    /\ versions' = [versions EXCEPT ![req[r].session] =
                      @ \cup {[n |-> req[r].version, data |-> req[r].data, by |-> r]}]
    /\ Goto(r, "point_version")
    /\ UNCHANGED <<session, customer, business, pointer, assessments, jobs,
                   opened, events, trail>>

\* Mutant: no UNIQUE (customer_id, version) on the table.
InsertVersionNoUniqueBug(r) == At(r, "insert_version") /\ StoreVersion(r)

\* The INSERT, under UNIQUE (customer_id, version).
InsertVersion(r) == At(r, "insert_version") /\ ~VersionTaken(r) /\ StoreVersion(r)

VersionConflict(r) ==
    /\ At(r, "insert_version") /\ VersionTaken(r)
    /\ Goto(r, "conflict")
    /\ UNCHANGED data

\* Move the pointer and put the record back to in_progress.
PointVersion(r) ==
    /\ At(r, "point_version")
    /\ LET s == req[r].session IN
         /\ May(r, IF s \in Corporate THEN "businesses" ELSE "customers")
         /\ pointer' = [pointer EXCEPT ![s] = req[r].version]
         /\ customer' = IF s \in Corporate THEN customer
                        ELSE [customer EXCEPT ![s] = "in_progress"]
         /\ business' = IF s \in Corporate THEN [business EXCEPT ![s] = "in_progress"]
                        ELSE business
    /\ Goto(r, "audit_edit")
    /\ UNCHANGED <<session, versions, assessments, jobs, opened, events, trail>>

\* The error of that UPDATE is never looked at: refused or failed, the handler
\* goes on and the pointer stays behind.
LosePointer(r) ==
    /\ At(r, "point_version")
    /\ Goto(r, "audit_edit")
    /\ UNCHANGED data

AuditEdit(r) == Emit(r, "audit_edit", "FIELD_CHANGED", "done")
-----------------------------------------------------------------------------
(* POST /api/sessions/[id]/steps/[stepId] : submitStep.                    *)

CallStep(r, s, step) ==
    /\ At(r, "idle") /\ "step" \in Calls[r]
    /\ session[s].status # "absent" /\ step \in Offered[s]

Begin(r, s, step, stage) ==
    /\ req' = [req EXCEPT ![r].session = s, ![r].step = step, ![r].pc = stage]
    /\ UNCHANGED data

\* Mutant: a submitted session is not refused.
StartStepUncheckedBug(r) ==
    \E s \in Session : \E step \in Steps(s) :
        CallStep(r, s, step) /\ Begin(r, s, step, "reread")

\* WorkflowEngine.advance reads the session and refuses a submitted one.  The
\* step is the client's choice: it is not compared with current_step.
StartStep(r) ==
    \E s \in Session : \E step \in Steps(s) :
        /\ CallStep(r, s, step)
        /\ Begin(r, s, step, IF session[s].status = "submitted" THEN "conflict"
                             ELSE "reread")

\* advanceSession reads the session again, for completed_steps only.
Reread(r) ==
    /\ At(r, "reread")
    /\ req' = [req EXCEPT ![r].pc = "advance",
                          ![r].seen = session[req[r].session].done]
    /\ UNCHANGED data

AdvanceTo(r, current, done) ==
    LET s == req[r].session IN
    /\ session' = [session EXCEPT ![s] =
                     [status  |-> IF IsFinal(s, req[r].step) THEN "submitted"
                                  ELSE "in_progress",
                      current |-> current, done |-> done]]
    /\ req' = [req EXCEPT ![r].seen = {},
                          ![r].pc = IF ~IsFinal(s, req[r].step) THEN "audit_step"
                                    ELSE "mark_customer"]
    /\ UNCHANGED <<customer, business, pointer, versions, assessments, jobs,
                   opened, events, trail>>

\* next?.id ?? completed_step
NextCurrent(r) == LET next == NextStep(req[r].session, req[r].step) IN
                  IF next = "none" THEN req[r].step ELSE next

\* Mutants: completed_steps overwritten; the null of the last step stored.
AdvanceNoUnionBug(r) ==
    At(r, "advance") /\ AdvanceTo(r, NextCurrent(r), {req[r].step})

AdvanceNullStepBug(r) ==
    /\ At(r, "advance")
    /\ AdvanceTo(r, NextStep(req[r].session, req[r].step), req[r].seen \cup {req[r].step})

\* The UPDATE: unconditional, from the values read before.
Advance(r) ==
    /\ At(r, "advance")
    /\ AdvanceTo(r, NextCurrent(r), req[r].seen \cup {req[r].step})

\* updateCustomerStatus(..., 'submitted')
MarkCustomer(r) ==
    /\ At(r, "mark_customer") /\ May(r, "customers")
    /\ customer' = [customer EXCEPT ![req[r].session] = "submitted"]
    /\ Goto(r, IF req[r].session \in Corporate THEN "mark_business" ELSE "audit_mark")
    /\ UNCHANGED <<session, business, pointer, versions, assessments, jobs,
                   opened, events, trail>>

\* getBusinessByCustomerId, updateBusinessStatus(..., 'submitted')
MarkBusiness(r) ==
    /\ At(r, "mark_business") /\ May(r, "businesses")
    /\ business' = [business EXCEPT ![req[r].session] = "submitted"]
    /\ Goto(r, "find_case")
    /\ UNCHANGED <<session, customer, pointer, versions, assessments, jobs,
                   opened, events, trail>>

AuditMark(r) == Emit(r, "audit_mark", "SESSION_COMPLETED", "load_data")

\* getLatestCustomerData: the highest version, or an error if there is none.
LoadData(r) ==
    /\ At(r, "load_data")
    /\ LET rows == versions[req[r].session] IN
         IF rows = {} THEN Goto(r, "invalid")
         ELSE \E v \in rows :
                /\ \A w \in rows : w.n <= v.n
                /\ req' = [req EXCEPT ![r].pc = "find_assessment", ![r].data = v.data]
    /\ UNCHANGED data

\* Mutant: an existing assessment ends the finalisation.
FindAssessmentReturnsBug(r) ==
    /\ At(r, "find_assessment")
    /\ LET rows == assessments[req[r].session] IN
         req' = IF rows = <<>> THEN [req EXCEPT ![r].pc = "insert_assessment"]
                ELSE [req EXCEPT ![r].pc = "audit_step", ![r].band = rows[Len(rows)].band]
    /\ UNCHANGED data

\* getLatestAssessment: a previous assessment is used as it is, however old the
\* data it was computed from.
FindAssessment(r) ==
    /\ At(r, "find_assessment")
    /\ LET rows == assessments[req[r].session] IN
         req' = IF rows = <<>> THEN [req EXCEPT ![r].pc = "insert_assessment"]
                ELSE [req EXCEPT ![r].pc = "create_job", ![r].band = rows[Len(rows)].band]
    /\ UNCHANGED data

\* computeRiskScore
InsertAssessment(r) ==
    /\ At(r, "insert_assessment") /\ May(r, "risk_assessments")
    /\ LET band == BandOf(req[r].data.input) IN
         /\ assessments' = [assessments EXCEPT ![req[r].session] =
                              Append(@, [band |-> band, by |-> r])]
         /\ req' = [req EXCEPT ![r].pc = "audit_risk", ![r].band = band]
    /\ UNCHANGED <<session, customer, business, pointer, versions, jobs, opened,
                   events, trail>>

\* Mutant: screening started after the case instead of before it.
AuditRiskSkipsScreeningBug(r) ==
    Emit(r, "audit_risk", "RISK_SCORE_COMPUTED", "find_case")

AuditRisk(r) == Emit(r, "audit_risk", "RISK_SCORE_COMPUTED", "create_job")

\* initiateScreening: the job row, then its audit.  The call to the provider that
\* follows is not awaited and touches none of these tables but screening_jobs'
\* own status.
CreateJob(r) ==
    /\ At(r, "create_job") /\ req[r].data.named
    /\ jobs' = jobs \cup {r}
    /\ Goto(r, "audit_screening")
    /\ UNCHANGED <<session, customer, business, pointer, versions, assessments,
                   opened, events, trail>>

NoName(r) ==
    /\ At(r, "create_job") /\ ~req[r].data.named
    /\ Goto(r, "invalid")
    /\ UNCHANGED data

AuditScreening(r) == Emit(r, "audit_screening", "SCREENING_INITIATED", "find_case")
-----------------------------------------------------------------------------
QueueFor(r) == IF req[r].session \in Corporate THEN "standard"
               ELSE RiskBandToQueue(req[r].band)

CasesOf(s) == {q \in Request : opened[q] # "none" /\ req[q].session = s}

\* Mutant: a case is opened without looking for an earlier one.
FindCaseNoCheckBug(r) ==
    /\ At(r, "find_case")
    /\ Goto(r, IF QueueFor(r) = "none" THEN "audit_step" ELSE "open_case")
    /\ UNCHANGED data

\* riskBandToQueue, then getCaseBySessionId: no case for a low risk, none when
\* there is one already, and an error (maybeSingle) when there are several.
FindCase(r) ==
    /\ At(r, "find_case")
    /\ LET cases == CasesOf(req[r].session) IN
         Goto(r, IF QueueFor(r) = "none" THEN "audit_step"
                 ELSE IF cases = {} THEN "open_case"
                 ELSE IF \E q \in cases : cases = {q} THEN "audit_step"
                 ELSE "invalid")
    /\ UNCHANGED data

\* openCase
OpenCase(r) ==
    /\ At(r, "open_case") /\ May(r, "cases")
    /\ opened' = [opened EXCEPT ![r] = QueueFor(r)]
    /\ Goto(r, "case_event")
    /\ UNCHANGED <<session, customer, business, pointer, versions, assessments,
                   jobs, events, trail>>

RecordCaseEvent(r, next) ==
    /\ At(r, "case_event")
    /\ events' = events \cup {r}
    /\ Goto(r, next)
    /\ UNCHANGED <<session, customer, business, pointer, versions, assessments,
                   jobs, opened, trail>>

\* Mutant: the case is opened without its audit event.
CaseEventNoAuditBug(r) == RecordCaseEvent(r, "audit_step")

CaseEvent(r) == RecordCaseEvent(r, "audit_case")

AuditCase(r) == Emit(r, "audit_case", "CASE_CREATED", "audit_step")

AuditStep(r) == Emit(r, "audit_step", "SESSION_STEP_SUBMITTED", "done")
-----------------------------------------------------------------------------
\* Row-level security refuses the statement: the repository throws, 500.
Deny(r) ==
    /\ \E stage \in DOMAIN GuardedStage :
         At(r, stage) /\ ~May(r, GuardedStage[stage])
    /\ Goto(r, "denied")
    /\ UNCHANGED data

\* The function is killed, or the next call fails for any other reason.
Abort(r) ==
    /\ req[r].pc \in Running
    /\ Goto(r, "aborted")
    /\ UNCHANGED data

InitiateStep(r) == \/ StartInitiate(r) \/ CreateBusiness(r) \/ AuditKyb(r)
                   \/ CreateSession(r) \/ AuditInitiated(r)

EditStep(r) == \/ ReadVersion(r) \/ InsertVersion(r) \/ VersionConflict(r)
               \/ PointVersion(r) \/ LosePointer(r) \/ AuditEdit(r)

SubmitStep(r) == \/ StartStep(r) \/ Reread(r) \/ Advance(r)
                 \/ MarkCustomer(r) \/ MarkBusiness(r) \/ AuditMark(r)
                 \/ LoadData(r) \/ FindAssessment(r) \/ InsertAssessment(r)
                 \/ AuditRisk(r) \/ CreateJob(r) \/ NoName(r) \/ AuditScreening(r)
                 \/ FindCase(r) \/ OpenCase(r) \/ CaseEvent(r) \/ AuditCase(r)
                 \/ AuditStep(r)

Next == \E r \in Request : \/ InitiateStep(r) \/ EditStep(r) \/ SubmitStep(r)
                           \/ Deny(r) \/ Abort(r)

Spec == Init /\ [][Next]_vars
-----------------------------------------------------------------------------
\* The versions of a record are numbered 1, 2, 3, ... with no number missing or
\* used twice, and latest_version is the last number or the one before it,
\* although it is read, used and written back in three transactions.
VersionChain ==
    \A s \in Session :
      /\ \A v \in versions[s] : v.n \in 1..(pointer[s] + 1)
      /\ \A n \in 1..pointer[s] : \E v \in versions[s] : v.n = n
      /\ \A v, w \in versions[s] : v.n = w.n => v = w

\* What finalizeSubmittedSession leaves behind.
Finalized(r) ==
    LET s == req[r].session IN
    IF s \in Corporate THEN CasesOf(s) # {}
    ELSE /\ assessments[s] # <<>> /\ r \in jobs
         /\ req[r].band = "low" \/ CasesOf(s) # {}

\* A request that ended the workflow and was answered 200 left its customer
\* assessed, screened and, unless the risk is low, with a review case: whatever
\* other requests did meanwhile to the session or the data.
FinalizationComplete ==
    \A r \in Request :
      At(r, "done") /\ <<"SESSION_STEP_SUBMITTED", r>> \in trail
        /\ IsFinal(req[r].session, req[r].step) => Finalized(r)

\* A case is never opened out of thin air: an individual's has a screening job
\* started by the same request, and its queue is the one the stored assessment of
\* some recorded version of the customer's data calls for.
CaseIsJustified ==
    \A r \in Request : opened[r] # "none" =>
      LET s == req[r].session IN
      /\ IsFinal(s, req[r].step)
      /\ s \in Corporate => opened[r] = "standard"
      /\ s \notin Corporate =>
           /\ r \in jobs
           /\ \E i \in DOMAIN assessments[s] :
                \E v \in versions[s] :
                  /\ assessments[s][i].band = BandOf(v.data.input)
                  /\ opened[r] = RiskBandToQueue(assessments[s][i].band)

\* The writes of a request that have an audit row of their own, each with it.  The
\* marks on customer, business and session have none: see AuditTrailSound.
Wrote(r) ==
    {<<"FIELD_CHANGED", r>> : v \in {v \in versions[req[r].session] : v.by = r}}
    \cup {<<"RISK_SCORE_COMPUTED", r>> :
            i \in {i \in DOMAIN assessments[req[r].session] :
                     assessments[req[r].session][i].by = r}}
    \cup {<<"SCREENING_INITIATED", q>> : q \in jobs \cap {r}}
    \cup {<<"CASE_CREATED", q>> : q \in {q \in {r} : opened[q] # "none"}}

WriteEvents == {"FIELD_CHANGED", "RISK_SCORE_COMPUTED", "SCREENING_INITIATED",
                "CASE_CREATED"}

Closes(r, s) == req[r].session = s /\ IsFinal(s, req[r].step)

\* What the audit log is worth, which is less than audit.service.ts asks for ("Every
\* data mutation MUST emit an audit event", or else roll back).  No row speaks of a
\* version, assessment, screening job or case that was not written, and a request
\* that was answered has a row for each; one that was cut off, and rolls nothing
\* back, lacks at most one.  That a customer was marked submitted is told by the
\* SESSION_COMPLETED row of a last step, for an individual only: a corporate's and
\* its business's marks have no row.  That a session is submitted is told by the
\* SESSION_STEP_SUBMITTED row, unless the request that closed it is not through,
\* was refused after it closed it, or was cut off.
AuditTrailSound ==
    /\ \A r \in Request :
         /\ \A e \in WriteEvents : <<e, r>> \in trail => <<e, r>> \in Wrote(r)
         /\ req[r].pc \in Ended \ {"aborted"} => Wrote(r) \subseteq trail
         /\ \A e, f \in Wrote(r) \ trail : e = f
    /\ \A s \in Individual : customer[s] = "submitted" =>
         \E r \in Request :
           /\ Closes(r, s)
           /\ \/ <<"SESSION_COMPLETED", r>> \in trail
              \/ req[r].pc \in {"audit_mark", "aborted"}
    /\ \A s \in Session : session[s].status = "submitted" =>
         \E r \in Request :
           /\ Closes(r, s)
           /\ \/ <<"SESSION_STEP_SUBMITTED", r>> \in trail
              \/ req[r].pc \in Finalizing \cup {"audit_step", "denied", "invalid", "aborted"}
=============================================================================
