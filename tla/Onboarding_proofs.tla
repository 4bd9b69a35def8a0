------------------------- MODULE Onboarding_proofs -------------------------
(***************************************************************************)
(* Theorems about Onboarding, for any sessions, requests, callers and      *)
(* profiles: its type invariant, and the chain of data versions.           *)
(***************************************************************************)
EXTENDS Onboarding, SequenceTheorems, TLAPS

Stages == {"idle"} \cup Running \cup Ended

\* Goto keeps the requests well typed, whichever stage it goes to.
LEMMA GotoType ==
    ASSUME TypeOK, NEW r \in Request, NEW stage \in Stages, Goto(r, stage)
    PROVE  req' \in [Request -> RequestState]
<1>1. req \in [Request -> RequestState] /\ req[r] \in RequestState
  BY DEF TypeOK
<1>2. [req[r] EXCEPT !.pc = stage] \in RequestState
  BY <1>1 DEF RequestState, Stages
<1>3. [req[r] EXCEPT !.pc = stage, !.version = 0, !.data = None] \in RequestState
  BY <1>1 DEF RequestState, Stages
<1>4. QED
  BY <1>1, <1>2, <1>3 DEF Goto

\* So does a step that audits.
LEMMA EmitType ==
    ASSUME TypeOK, NEW r \in Request, NEW stage, NEW event \in AuditType,
           NEW next \in Stages, Emit(r, stage, event, next)
    PROVE  TypeOK'
<1>1. req' \in [Request -> RequestState]
  BY GotoType DEF Emit
<1>2. trail' \subseteq AuditType \X Request
  BY DEF TypeOK, Emit
<1>3. QED
  BY <1>1, <1>2 DEF TypeOK, Emit

\* Every stage a handler goes to is a stage.
LEMMA StagesAre ==
    /\ "create_business" \in Stages /\ "audit_kyb" \in Stages
    /\ "create_session" \in Stages /\ "audit_initiated" \in Stages
    /\ "insert_version" \in Stages /\ "point_version" \in Stages
    /\ "audit_edit" \in Stages /\ "reread" \in Stages /\ "advance" \in Stages
    /\ "audit_step" \in Stages /\ "mark_customer" \in Stages
    /\ "mark_business" \in Stages /\ "audit_mark" \in Stages
    /\ "load_data" \in Stages /\ "find_assessment" \in Stages
    /\ "insert_assessment" \in Stages /\ "audit_risk" \in Stages
    /\ "create_job" \in Stages /\ "audit_screening" \in Stages
    /\ "find_case" \in Stages /\ "open_case" \in Stages
    /\ "case_event" \in Stages /\ "audit_case" \in Stages
    /\ Ended \subseteq Stages
  BY DEF Stages, Running, Initiating, Editing, Stepping, Finalizing, Ended
-----------------------------------------------------------------------------
\* The session a request works on.
LEMMA SessionType ==
    ASSUME TypeOK, NEW r \in Request
    PROVE  req[r] \in RequestState /\ req[r].session \in Session
  BY DEF TypeOK, RequestState

\* initiateSession keeps the state well typed.
LEMMA InitiateType ==
    ASSUME TypeOK, NEW r \in Request, InitiateStep(r)
    PROVE  TypeOK'
<1>1. CASE StartInitiate(r)
  <2>1. PICK s \in Session :
          /\ customer' = [customer EXCEPT ![s] = "pending"]
          /\ req' = [req EXCEPT ![r].session = s,
                                ![r].pc = IF s \in Corporate THEN "create_business"
                                          ELSE "create_session"]
    BY <1>1 DEF StartInitiate
  <2>2. [req[r] EXCEPT !.session = s,
                       !.pc = IF s \in Corporate THEN "create_business"
                              ELSE "create_session"] \in RequestState
    BY SessionType, StagesAre DEF RequestState, Stages
  <2>3. req' \in [Request -> RequestState]
    BY <2>1, <2>2 DEF TypeOK
  <2>4. QED
    BY <1>1, <2>1, <2>3 DEF StartInitiate, TypeOK
<1>2. CASE CreateBusiness(r)
  <2>1. req' \in [Request -> RequestState]
    BY <1>2, StagesAre, GotoType DEF CreateBusiness
  <2>2. QED
    BY <1>2, <2>1, SessionType DEF CreateBusiness, TypeOK
<1>3. CASE AuditKyb(r)
  BY <1>3, StagesAre, EmitType DEF AuditKyb, AuditType
<1>4. CASE CreateSession(r)
  <2>1. req' \in [Request -> RequestState]
    BY <1>4, StagesAre, GotoType DEF CreateSession
  <2>2. QED
    BY <1>4, <2>1, SessionType DEF CreateSession, TypeOK
<1>5. CASE AuditInitiated(r)
  BY <1>5, StagesAre, EmitType DEF AuditInitiated, AuditType, Ended
<1>6. QED
  BY <1>1, <1>2, <1>3, <1>4, <1>5 DEF InitiateStep

\* So do the edits of versioned data.
LEMMA EditType ==
    ASSUME TypeOK, NEW r \in Request, EditStep(r)
    PROVE  TypeOK'
<1>1. CASE ReadVersion(r)
  <2>1. PICK s \in Session, d \in Profile \cup {None} :
          req' = [req EXCEPT ![r].pc = "insert_version", ![r].session = s,
                             ![r].data = d, ![r].version = pointer[s] + 1]
    BY <1>1 DEF ReadVersion
  <2>2. pointer[s] + 1 \in Nat
    BY DEF TypeOK
  <2>3. [req[r] EXCEPT !.pc = "insert_version", !.session = s, !.data = d,
                       !.version = pointer[s] + 1] \in RequestState
    BY <2>2, SessionType, StagesAre DEF RequestState, Stages
  <2>4. req' \in [Request -> RequestState]
    BY <2>1, <2>3 DEF TypeOK
  <2>5. QED
    BY <1>1, <2>4 DEF ReadVersion, TypeOK, data
<1>2. CASE InsertVersion(r)
  <2>1. req' \in [Request -> RequestState]
    BY <1>2, StagesAre, GotoType DEF InsertVersion, StoreVersion
  <2>2. [n |-> req[r].version, data |-> req[r].data, by |-> r]
          \in [n : Nat, data : Profile \cup {None}, by : Request \cup {None}]
    BY SessionType DEF RequestState
  <2>3. versions' \in [Session -> SUBSET [n : Nat, data : Profile \cup {None},
                                          by : Request \cup {None}]]
    BY <1>2, <2>2, SessionType DEF InsertVersion, StoreVersion, TypeOK
  <2>4. QED
    BY <1>2, <2>1, <2>3 DEF InsertVersion, StoreVersion, TypeOK
<1>3. CASE VersionConflict(r)
  BY <1>3, StagesAre, GotoType DEF VersionConflict, TypeOK, data, Ended
<1>4. CASE PointVersion(r)
  <2>1. req' \in [Request -> RequestState]
    BY <1>4, StagesAre, GotoType DEF PointVersion
  <2>2. req[r].version \in Nat
    BY SessionType DEF RequestState
  <2>3. QED
    BY <1>4, <2>1, <2>2, SessionType DEF PointVersion, TypeOK
<1>5. CASE LosePointer(r)
  BY <1>5, StagesAre, GotoType DEF LosePointer, TypeOK, data
<1>6. CASE AuditEdit(r)
  BY <1>6, StagesAre, EmitType DEF AuditEdit, AuditType, Ended
<1>7. QED
  BY <1>1, <1>2, <1>3, <1>4, <1>5, <1>6 DEF EditStep

\* The two transactions of advanceSession.
LEMMA AdvanceType ==
    ASSUME TypeOK, NEW r \in Request, StartStep(r) \/ Reread(r) \/ Advance(r)
    PROVE  TypeOK'
<1>1. CASE StartStep(r)
  <2>1. PICK s \in Session : \E step \in Steps(s) :
          Begin(r, s, step, IF session[s].status = "submitted" THEN "conflict" ELSE "reread")
    BY <1>1 DEF StartStep
  <2>2. PICK step \in AllSteps :
          Begin(r, s, step, IF session[s].status = "submitted" THEN "conflict" ELSE "reread")
    BY <2>1 DEF AllSteps
  <2> DEFINE stage == IF session[s].status = "submitted" THEN "conflict" ELSE "reread"
  <2>3. stage \in Stages
    BY StagesAre DEF Ended
  <2> HIDE DEF stage
  <2>4. [req[r] EXCEPT !.session = s, !.step = step, !.pc = stage] \in RequestState
    BY <2>3, SessionType DEF RequestState, Stages
  <2>5. req' = [req EXCEPT ![r].session = s, ![r].step = step, ![r].pc = stage]
    BY <2>2 DEF Begin, stage
  <2>6. req' \in [Request -> RequestState]
    BY <2>4, <2>5 DEF TypeOK
  <2>7. QED
    BY <2>2, <2>6 DEF Begin, TypeOK, data
<1>2. CASE Reread(r)
  <2>1. session[req[r].session].done \in SUBSET AllSteps
    BY SessionType DEF TypeOK
  <2>2. [req[r] EXCEPT !.pc = "advance", !.seen = session[req[r].session].done]
          \in RequestState
    BY <2>1, SessionType, StagesAre DEF RequestState, Stages
  <2>3. req' \in [Request -> RequestState]
    BY <1>2, <2>2 DEF Reread, TypeOK
  <2>4. QED
    BY <1>2, <2>3 DEF Reread, TypeOK, data
<1>3. CASE Advance(r)
  <2> DEFINE s == req[r].session
             current == NextCurrent(r)
             done == req[r].seen \cup {req[r].step}
             final == IsFinal(s, req[r].step)
  <2>1. current \in AllSteps
    <3>1. s \in Session /\ req[r].step \in AllSteps
      BY SessionType DEF RequestState
    <3>2. DataStep(s) \in AllSteps /\ "documents" \in AllSteps /\ "complete" \in AllSteps
      BY <3>1 DEF AllSteps, Steps
    <3>3. NextStep(s, req[r].step) \in AllSteps \cup {"none"}
      BY <3>2 DEF NextStep
    <3>4. QED
      BY <3>1, <3>3 DEF NextCurrent
  <2>2. s \in Session /\ done \subseteq AllSteps
    BY SessionType DEF RequestState
  <2>3. /\ session' = [session EXCEPT ![s] =
                         [status |-> IF final THEN "submitted" ELSE "in_progress",
                          current |-> current, done |-> done]]
        /\ req' = [req EXCEPT ![r].seen = {},
                              ![r].pc = IF ~final THEN "audit_step" ELSE "mark_customer"]
        /\ UNCHANGED <<customer, business, pointer, versions, assessments, jobs,
                       opened, events, trail>>
    BY <1>3 DEF Advance, AdvanceTo
  <2> HIDE DEF s, current, done, final
  <2>4. [req[r] EXCEPT !.seen = {}, !.pc = IF ~final THEN "audit_step" ELSE "mark_customer"]
          \in RequestState
    BY SessionType, StagesAre DEF RequestState, Stages
  <2>5. req' \in [Request -> RequestState]
    BY <2>3, <2>4 DEF TypeOK
  <2>6. session' \in [Session -> [status : {"absent", "in_progress", "submitted"},
                                  current : AllSteps, done : SUBSET AllSteps]]
    BY <2>1, <2>2, <2>3 DEF TypeOK
  <2>7. QED
    BY <2>3, <2>5, <2>6 DEF TypeOK
<1>4. QED
  BY <1>1, <1>2, <1>3

\* finalizeSubmittedSession, up to the screening job.
LEMMA AssessType ==
    ASSUME TypeOK, NEW r \in Request,
           \/ MarkCustomer(r) \/ MarkBusiness(r) \/ AuditMark(r) \/ LoadData(r)
           \/ FindAssessment(r) \/ InsertAssessment(r) \/ AuditRisk(r)
    PROVE  TypeOK'
<1>1. CASE MarkCustomer(r)
  <2>1. req' \in [Request -> RequestState]
    BY <1>1, StagesAre, GotoType DEF MarkCustomer
  <2>2. QED
    BY <1>1, <2>1, SessionType DEF MarkCustomer, TypeOK
<1>2. CASE MarkBusiness(r)
  <2>1. req' \in [Request -> RequestState]
    BY <1>2, StagesAre, GotoType DEF MarkBusiness
  <2>2. QED
    BY <1>2, <2>1, SessionType DEF MarkBusiness, TypeOK
<1>3. CASE AuditMark(r)
  BY <1>3, StagesAre, EmitType DEF AuditMark, AuditType
<1>4. CASE LoadData(r)
  <2>1. req' \in [Request -> RequestState]
    <3>1. CASE versions[req[r].session] = {}
      BY <1>4, <3>1, StagesAre, GotoType DEF LoadData, Ended
    <3>2. CASE versions[req[r].session] # {}
      <4>1. PICK v \in versions[req[r].session] :
              req' = [req EXCEPT ![r].pc = "find_assessment", ![r].data = v.data]
        BY <1>4, <3>2 DEF LoadData
      <4>2. v.data \in Profile \cup {None}
        <5>1. versions[req[r].session] \subseteq [n : Nat, data : Profile \cup {None},
                                                 by : Request \cup {None}]
          BY SessionType DEF TypeOK
        <5>2. v \in [n : Nat, data : Profile \cup {None}, by : Request \cup {None}]
          BY <5>1
        <5>3. QED
          BY <5>2
      <4>3. [req[r] EXCEPT !.pc = "find_assessment", !.data = v.data] \in RequestState
        BY <4>2, SessionType, StagesAre DEF RequestState, Stages
      <4>4. QED
        BY <4>1, <4>3 DEF TypeOK
    <3>3. QED
      BY <3>1, <3>2
  <2>2. QED
    BY <1>4, <2>1 DEF LoadData, TypeOK, data
<1>5. CASE FindAssessment(r)
  <2>1. req' \in [Request -> RequestState]
    <3> DEFINE rows == assessments[req[r].session]
    <3>1. rows \in Seq([band : RiskBands, by : Request])
      BY SessionType DEF TypeOK
    <3>2. CASE rows = <<>>
      <4>1. [req[r] EXCEPT !.pc = "insert_assessment"] \in RequestState
        BY SessionType, StagesAre DEF RequestState, Stages
      <4>2. QED
        BY <1>5, <3>2, <4>1 DEF FindAssessment, TypeOK
    <3>3. CASE rows # <<>>
      <4>1. rows[Len(rows)].band \in Bands
        <5> HIDE DEF rows
        <5>1. Len(rows) \in 1..Len(rows)
          <6>1. Len(rows) \in Nat \ {0}
            BY <3>1, <3>3, EmptySeq
          <6>2. QED
            BY <6>1
        <5>2. rows[Len(rows)] \in [band : RiskBands, by : Request]
          BY <3>1, <5>1, ElementOfSeq
        <5>3. QED
          BY <5>2 DEF Bands
      <4>2. [req[r] EXCEPT !.pc = "create_job", !.band = rows[Len(rows)].band]
              \in RequestState
        BY <4>1, SessionType, StagesAre DEF RequestState, Stages
      <4>3. QED
        BY <1>5, <3>3, <4>2 DEF FindAssessment, TypeOK
    <3>4. QED
      BY <3>2, <3>3
  <2>2. QED
    BY <1>5, <2>1 DEF FindAssessment, TypeOK, data
<1>6. CASE InsertAssessment(r)
  <2> DEFINE band == BandOf(req[r].data.input)
             s == req[r].session
  <2>1. band \in RiskBands
    BY DEF BandOf, DetermineBand, RiskBands
  <2>2. /\ assessments' = [assessments EXCEPT ![s] = Append(@, [band |-> band, by |-> r])]
        /\ req' = [req EXCEPT ![r].pc = "audit_risk", ![r].band = band]
        /\ UNCHANGED <<session, customer, business, pointer, versions, jobs, opened,
                       events, trail>>
    BY <1>6 DEF InsertAssessment
  <2>3. s \in Session
    BY SessionType
  <2> HIDE DEF band, s
  <2>4. [req[r] EXCEPT !.pc = "audit_risk", !.band = band] \in RequestState
    BY <2>1, SessionType, StagesAre DEF RequestState, Stages, Bands
  <2>5. req' \in [Request -> RequestState]
    BY <2>2, <2>4 DEF TypeOK
  <2>6. Append(assessments[s], [band |-> band, by |-> r])
          \in Seq([band : RiskBands, by : Request])
    <3>1. assessments[s] \in Seq([band : RiskBands, by : Request])
      BY <2>3 DEF TypeOK
    <3>2. [band |-> band, by |-> r] \in [band : RiskBands, by : Request]
      BY <2>1
    <3>3. QED
      BY <3>1, <3>2, AppendProperties
  <2>7. assessments' \in [Session -> Seq([band : RiskBands, by : Request])]
    BY <2>2, <2>3, <2>6 DEF TypeOK
  <2>8. QED
    BY <2>2, <2>5, <2>7 DEF TypeOK
<1>7. CASE AuditRisk(r)
  BY <1>7, StagesAre, EmitType DEF AuditRisk, AuditType
<1>8. QED
  BY <1>1, <1>2, <1>3, <1>4, <1>5, <1>6, <1>7

\* Screening, the review case and the last audit.
LEMMA CaseType ==
    ASSUME TypeOK, NEW r \in Request,
           \/ CreateJob(r) \/ NoName(r) \/ AuditScreening(r) \/ FindCase(r)
           \/ OpenCase(r) \/ CaseEvent(r) \/ AuditCase(r) \/ AuditStep(r)
    PROVE  TypeOK'
<1>1. CASE CreateJob(r)
  BY <1>1, StagesAre, GotoType DEF CreateJob, TypeOK
<1>2. CASE NoName(r)
  BY <1>2, StagesAre, GotoType DEF NoName, TypeOK, data, Ended
<1>3. CASE AuditScreening(r)
  BY <1>3, StagesAre, EmitType DEF AuditScreening, AuditType
<1>4. CASE FindCase(r)
  BY <1>4, StagesAre, GotoType DEF FindCase, TypeOK, data, Ended
<1>5. CASE OpenCase(r)
  <2>1. req' \in [Request -> RequestState]
    BY <1>5, StagesAre, GotoType DEF OpenCase
  <2>2. QueueFor(r) \in Queues \cup {"none"}
    BY DEF QueueFor, RiskBandToQueue, Queues
  <2>3. QED
    BY <1>5, <2>1, <2>2 DEF OpenCase, TypeOK
<1>6. CASE CaseEvent(r)
  BY <1>6, StagesAre, GotoType DEF CaseEvent, RecordCaseEvent, TypeOK
<1>7. CASE AuditCase(r)
  BY <1>7, StagesAre, EmitType DEF AuditCase, AuditType
<1>8. CASE AuditStep(r)
  BY <1>8, StagesAre, EmitType DEF AuditStep, AuditType, Ended
<1>9. QED
  BY <1>1, <1>2, <1>3, <1>4, <1>5, <1>6, <1>7, <1>8
-----------------------------------------------------------------------------
\* The initial tables are well typed.
LEMMA InitialType ==
    ASSUME Init PROVE TypeOK
  BY OnboardingAssumption DEF Init, TypeOK, RequestState, AllSteps, Steps, Bands, AuditType,
     Queues

\* Every step of every request keeps the tables and the requests well typed.
LEMMA StepType ==
    ASSUME TypeOK, NEW r \in Request,
           InitiateStep(r) \/ EditStep(r) \/ SubmitStep(r) \/ Deny(r) \/ Abort(r)
    PROVE  TypeOK'
<1>1. CASE InitiateStep(r)
  BY <1>1, InitiateType
<1>2. CASE EditStep(r)
  BY <1>2, EditType
<1>3. CASE SubmitStep(r)
  BY <1>3, AdvanceType, AssessType, CaseType DEF SubmitStep
<1>4. CASE Deny(r)
  BY <1>4, StagesAre, GotoType DEF Deny, TypeOK, data, Ended
<1>5. CASE Abort(r)
  BY <1>5, StagesAre, GotoType DEF Abort, TypeOK, data, Ended
<1>6. QED
  BY <1>1, <1>2, <1>3, <1>4, <1>5

\* The state of the onboarding tables and requests is always well typed: no null
\* current_step is stored, and no assessment or case has an unknown band or queue.
THEOREM TypeCorrect == Spec => []TypeOK
<1>1. Init => TypeOK
  BY InitialType
<1>2. TypeOK /\ [Next]_vars => TypeOK'
  <2>1. TypeOK /\ UNCHANGED vars => TypeOK'
    BY DEF TypeOK, vars
  <2>2. TypeOK /\ Next => TypeOK'
    BY StepType DEF Next
  <2>3. QED
    BY <2>1, <2>2
<1>3. QED
  BY <1>1, <1>2, PTL DEF Spec
-----------------------------------------------------------------------------
(* The chain of versions.  VersionChain is not inductive: it needs to know *)
(* what the requests between the read of latest_version and its write hold *)
(* in their local variables.                                               *)

\* A request about to insert read a latest_version that can only have grown since.
Reading(r) == At(r, "insert_version") =>
                req[r].version \in 1..(pointer[req[r].session] + 1)

\* A request about to move latest_version inserted the version after it.
Pointing(r) == At(r, "point_version") =>
                 /\ req[r].version = pointer[req[r].session] + 1
                 /\ \E v \in versions[req[r].session] : v.n = req[r].version /\ v.by = r

VersionInv == /\ TypeOK /\ VersionChain
              /\ \A r \in Request : Reading(r) /\ Pointing(r)

\* A step that leaves the versions and latest_version alone, and takes no request
\* to a stage of the edit that it was not at with the same locals.
LEMMA Untouched ==
    ASSUME VersionInv, TypeOK', UNCHANGED <<versions, pointer>>,
           \A r \in Request : req'[r].pc \in {"insert_version", "point_version"}
                               => req'[r] = req[r]
    PROVE  VersionInv'
<1>1. VersionChain'
  BY DEF VersionInv, VersionChain
<1>2. ASSUME NEW r \in Request PROVE Reading(r)' /\ Pointing(r)'
  BY DEF VersionInv, Reading, Pointing, At
<1>3. QED
  BY <1>1, <1>2 DEF VersionInv

\* Moving one request to a stage outside the edit is such a step, as far as the
\* requests go.
LEMMA Elsewhere ==
    ASSUME TypeOK, NEW r \in Request, NEW stage, Goto(r, stage),
           stage \notin {"insert_version", "point_version"}
    PROVE  \A q \in Request : req'[q].pc \in {"insert_version", "point_version"}
                               => req'[q] = req[q]
<1>1. req \in [Request -> RequestState]
  BY DEF TypeOK
<1>2. req'[r].pc = stage
  <2>1. req[r] \in RequestState
    BY <1>1
  <2>2. CASE stage \in Ended
    BY <1>1, <2>1, <2>2 DEF Goto, RequestState
  <2>3. CASE stage \notin Ended
    BY <1>1, <2>1, <2>3 DEF Goto, RequestState
  <2>4. QED
    BY <2>2, <2>3
<1>3. ASSUME NEW q \in Request, q # r PROVE req'[q] = req[q]
  BY <1>1, <1>3 DEF Goto
<1>4. QED
  BY <1>2, <1>3

\* What every action but the three that read, insert and point does to the edits.
Outside == /\ UNCHANGED <<versions, pointer>>
           /\ \A q \in Request : req'[q].pc \in {"insert_version", "point_version"}
                                 => req'[q] = req[q]

\* The handlers of initiateSession stay outside the edits.
LEMMA InitiateOutside ==
    ASSUME TypeOK, NEW r \in Request, InitiateStep(r)
    PROVE  Outside
<1>1. CASE StartInitiate(r)
  <2>1. PICK s \in Session :
          req' = [req EXCEPT ![r].session = s,
                             ![r].pc = IF s \in Corporate THEN "create_business"
                                       ELSE "create_session"]
    BY <1>1 DEF StartInitiate
  <2>2. \A q \in Request : q # r => req'[q] = req[q]
    BY <2>1 DEF TypeOK
  <2>3. req'[r].pc \in {"create_business", "create_session"}
    BY <2>1, SessionType DEF TypeOK, RequestState
  <2>4. QED
    BY <1>1, <2>2, <2>3 DEF StartInitiate, Outside
<1>2. CASE CreateBusiness(r)
  BY <1>2, Elsewhere DEF CreateBusiness, Outside
<1>3. CASE AuditKyb(r)
  BY <1>3, Elsewhere DEF AuditKyb, Emit, Outside
<1>4. CASE CreateSession(r)
  BY <1>4, Elsewhere DEF CreateSession, Outside
<1>5. CASE AuditInitiated(r)
  BY <1>5, Elsewhere DEF AuditInitiated, Emit, Outside
<1>6. QED
  BY <1>1, <1>2, <1>3, <1>4, <1>5 DEF InitiateStep

\* So do those of submitStep.
LEMMA SubmitOutside ==
    ASSUME TypeOK, NEW r \in Request, SubmitStep(r)
    PROVE  Outside
<1>1. CASE StartStep(r)
  <2>1. PICK s \in Session : \E step \in Steps(s) :
          Begin(r, s, step, IF session[s].status = "submitted" THEN "conflict" ELSE "reread")
    BY <1>1 DEF StartStep
  <2> DEFINE stage == IF session[s].status = "submitted" THEN "conflict" ELSE "reread"
  <2>2. PICK step : /\ req' = [req EXCEPT ![r].session = s, ![r].step = step, ![r].pc = stage]
                    /\ UNCHANGED data
    BY <2>1 DEF Begin
  <2>3. stage \in {"conflict", "reread"}
    OBVIOUS
  <2> HIDE DEF stage
  <2>4. \A q \in Request : q # r => req'[q] = req[q]
    BY <2>2 DEF TypeOK
  <2>5. req'[r].pc = stage
    BY <2>2, SessionType DEF TypeOK, RequestState
  <2>6. QED
    BY <2>2, <2>3, <2>4, <2>5 DEF data, Outside
<1>2. CASE Reread(r)
  <2>1. req'[r].pc = "advance"
    BY <1>2, SessionType DEF Reread, TypeOK, RequestState
  <2>2. QED
    BY <1>2, <2>1 DEF Reread, data, Outside, TypeOK
<1>3. CASE Advance(r)
  <2> DEFINE final == IsFinal(req[r].session, req[r].step)
  <2>1. /\ req' = [req EXCEPT ![r].seen = {},
                              ![r].pc = IF ~final THEN "audit_step" ELSE "mark_customer"]
        /\ UNCHANGED <<versions, pointer>>
    BY <1>3 DEF Advance, AdvanceTo
  <2> HIDE DEF final
  <2>2. req'[r].pc \in {"audit_step", "mark_customer"}
    BY <2>1, SessionType DEF TypeOK, RequestState
  <2>3. QED
    BY <2>1, <2>2 DEF Outside, TypeOK
<1>4. CASE MarkCustomer(r)
  BY <1>4, Elsewhere DEF MarkCustomer, Outside
<1>5. CASE MarkBusiness(r)
  BY <1>5, Elsewhere DEF MarkBusiness, Outside
<1>6. CASE LoadData(r)
  <2>1. CASE versions[req[r].session] = {}
    BY <1>6, <2>1, Elsewhere DEF LoadData, data, Outside
  <2>2. CASE versions[req[r].session] # {}
    <3>1. PICK v : req' = [req EXCEPT ![r].pc = "find_assessment", ![r].data = v.data]
      BY <1>6, <2>2 DEF LoadData
    <3>2. req'[r].pc = "find_assessment"
      BY <3>1, SessionType DEF TypeOK, RequestState
    <3>3. QED
      BY <1>6, <3>1, <3>2 DEF LoadData, data, Outside, TypeOK
  <2>3. QED
    BY <2>1, <2>2
<1>7. CASE FindAssessment(r)
  <2>1. \A q \in Request : q # r => req'[q] = req[q]
    BY <1>7 DEF FindAssessment, TypeOK
  <2>2. req'[r].pc \in {"insert_assessment", "create_job"}
    BY <1>7, SessionType DEF FindAssessment, TypeOK, RequestState
  <2>3. QED
    BY <1>7, <2>1, <2>2 DEF FindAssessment, data, Outside
<1>8. CASE InsertAssessment(r)
  <2> DEFINE band == BandOf(req[r].data.input)
  <2>1. /\ req' = [req EXCEPT ![r].pc = "audit_risk", ![r].band = band]
        /\ UNCHANGED <<versions, pointer>>
    BY <1>8 DEF InsertAssessment
  <2> HIDE DEF band
  <2>2. req'[r].pc = "audit_risk"
    BY <2>1, SessionType DEF TypeOK, RequestState
  <2>3. QED
    BY <2>1, <2>2 DEF Outside, TypeOK
<1>9. CASE CreateJob(r) \/ NoName(r)
  BY <1>9, Elsewhere DEF CreateJob, NoName, data, Outside
<1>10. CASE FindCase(r)
  BY <1>10, Elsewhere DEF FindCase, data, Outside
<1>11. CASE OpenCase(r) \/ CaseEvent(r)
  BY <1>11, Elsewhere DEF OpenCase, CaseEvent, RecordCaseEvent, Outside
<1>12. CASE \/ AuditMark(r) \/ AuditRisk(r) \/ AuditScreening(r) \/ AuditCase(r)
            \/ AuditStep(r)
  BY <1>12, Elsewhere
     DEF AuditMark, AuditRisk, AuditScreening, AuditCase, AuditStep, Emit, Outside
<1>13. QED
  BY <1>1, <1>2, <1>3, <1>4, <1>5, <1>6, <1>7, <1>8, <1>9, <1>10, <1>11, <1>12
     DEF SubmitStep

\* The read of latest_version: the number it leads to is not beyond the chain.
LEMMA ReadChain ==
    ASSUME VersionInv, TypeOK', NEW r \in Request, ReadVersion(r)
    PROVE  VersionInv'
<1>1. PICK s \in Session, d \in Profile \cup {None} :
        req' = [req EXCEPT ![r].pc = "insert_version", ![r].session = s,
                           ![r].data = d, ![r].version = pointer[s] + 1]
  BY DEF ReadVersion
<1>2. UNCHANGED <<versions, pointer>> /\ VersionChain'
  BY DEF ReadVersion, data, VersionInv, VersionChain
<1>3. /\ req'[r].pc = "insert_version" /\ req'[r].session = s
      /\ req'[r].version = pointer[s] + 1
  BY <1>1, SessionType DEF VersionInv, TypeOK, RequestState
<1>4. Reading(r)' /\ Pointing(r)'
  <2>1. pointer[s] \in Nat
    BY DEF VersionInv, TypeOK
  <2>2. QED
    BY <1>2, <1>3, <2>1 DEF Reading, Pointing, At
<1>5. ASSUME NEW q \in Request, q # r PROVE Reading(q)' /\ Pointing(q)'
  <2>1. req'[q] = req[q]
    BY <1>1, <1>5 DEF VersionInv, TypeOK
  <2>2. QED
    BY <1>2, <2>1 DEF VersionInv, Reading, Pointing, At
<1>6. QED
  BY <1>2, <1>4, <1>5 DEF VersionInv

\* The insert: UNIQUE (customer_id, version) lets a request through only with the
\* number after latest_version, all earlier ones being taken.
LEMMA InsertChain ==
    ASSUME VersionInv, TypeOK', NEW r \in Request, InsertVersion(r)
    PROVE  VersionInv'
<1> DEFINE s == req[r].session
           row == [n |-> req[r].version, data |-> req[r].data, by |-> r]
<1>1. s \in Session /\ pointer[s] \in Nat /\ req[r].version \in Nat
  BY SessionType DEF VersionInv, TypeOK, RequestState
<1>2. /\ versions' = [versions EXCEPT ![s] = @ \cup {row}]
      /\ UNCHANGED pointer
  BY DEF InsertVersion, StoreVersion
<1>3. req[r].version = pointer[s] + 1
  <2>1. req[r].version \in 1..(pointer[s] + 1)
    BY DEF VersionInv, Reading, InsertVersion
  <2>2. req[r].version \notin 1..pointer[s]
    BY <1>1 DEF VersionInv, VersionChain, InsertVersion, VersionTaken
  <2>3. QED
    BY <1>1, <2>1, <2>2
<1>4. /\ versions'[s] = versions[s] \cup {row}
      /\ \A t \in Session : t # s => versions'[t] = versions[t]
  BY <1>1, <1>2 DEF VersionInv, TypeOK
<1>5. VersionChain'
  <2>1. ASSUME NEW v \in versions[s] PROVE v.n # row.n
    BY DEF InsertVersion, VersionTaken
  <2>2. ASSUME NEW t \in Session, t = s
        PROVE  /\ \A v \in versions'[t] : v.n \in 1..(pointer'[t] + 1)
               /\ \A n \in 1..pointer'[t] : \E v \in versions'[t] : v.n = n
               /\ \A v, w \in versions'[t] : v.n = w.n => v = w
    BY <1>1, <1>2, <1>3, <1>4, <2>1, <2>2 DEF VersionInv, VersionChain
  <2>3. ASSUME NEW t \in Session, t # s
        PROVE  /\ \A v \in versions'[t] : v.n \in 1..(pointer'[t] + 1)
               /\ \A n \in 1..pointer'[t] : \E v \in versions'[t] : v.n = n
               /\ \A v, w \in versions'[t] : v.n = w.n => v = w
    BY <1>2, <1>4, <2>3 DEF VersionInv, VersionChain
  <2>4. QED
    BY <2>2, <2>3 DEF VersionChain
<1>6. /\ req'[r].pc = "point_version" /\ req'[r].session = s
      /\ req'[r].version = req[r].version
  <2>1. Goto(r, "point_version") /\ "point_version" \notin Ended
    BY DEF InsertVersion, StoreVersion, Ended
  <2>2. QED
    BY <2>1, SessionType DEF Goto, VersionInv, TypeOK, RequestState
<1>7. Reading(r)' /\ Pointing(r)'
  <2>1. row \in versions'[s] /\ row.n = req[r].version /\ row.by = r
    BY <1>4
  <2> HIDE DEF row
  <2>2. \E v \in versions'[s] : v.n = req[r].version /\ v.by = r
    BY <2>1
  <2>3. Pointing(r)'
    BY <1>2, <1>3, <1>6, <2>2 DEF Pointing
  <2>4. Reading(r)'
    BY <1>6 DEF Reading, At
  <2>5. QED
    BY <2>3, <2>4
<1>8. ASSUME NEW q \in Request, q # r PROVE Reading(q)' /\ Pointing(q)'
  <2>1. req'[q] = req[q]
    BY <1>8 DEF InsertVersion, StoreVersion, Goto, VersionInv, TypeOK
  <2>2. req[q].session \in Session
    BY SessionType DEF VersionInv
  <2>3. versions[req[q].session] \subseteq versions'[req[q].session]
    BY <1>4, <2>2
  <2>4. QED
    BY <1>2, <2>1, <2>3 DEF VersionInv, Reading, Pointing, At
<1>9. QED
  BY <1>5, <1>7, <1>8 DEF VersionInv

\* The update of latest_version: no second request can be about to move the same
\* pointer, for it would have inserted the same version.
LEMMA PointChain ==
    ASSUME VersionInv, TypeOK', NEW r \in Request, PointVersion(r)
    PROVE  VersionInv'
<1> DEFINE s == req[r].session
<1>1. s \in Session /\ pointer[s] \in Nat /\ req[r].version = pointer[s] + 1
  BY SessionType DEF VersionInv, TypeOK, PointVersion, Pointing
<1>2. PICK row \in versions[s] : row.n = pointer[s] + 1 /\ row.by = r
  BY <1>1 DEF VersionInv, PointVersion, Pointing
<1>3. UNCHANGED versions /\ pointer' = [pointer EXCEPT ![s] = pointer[s] + 1]
  BY <1>1 DEF PointVersion
<1>4. pointer'[s] = pointer[s] + 1 /\ \A t \in Session : t # s => pointer'[t] = pointer[t]
  BY <1>1, <1>3 DEF VersionInv, TypeOK
<1>5. VersionChain'
  <2>1. ASSUME NEW t \in Session, t = s
        PROVE  /\ \A v \in versions'[t] : v.n \in 1..(pointer'[t] + 1)
               /\ \A n \in 1..pointer'[t] : \E v \in versions'[t] : v.n = n
               /\ \A v, w \in versions'[t] : v.n = w.n => v = w
    BY <1>1, <1>2, <1>3, <1>4, <2>1 DEF VersionInv, VersionChain
  <2>2. ASSUME NEW t \in Session, t # s
        PROVE  /\ \A v \in versions'[t] : v.n \in 1..(pointer'[t] + 1)
               /\ \A n \in 1..pointer'[t] : \E v \in versions'[t] : v.n = n
               /\ \A v, w \in versions'[t] : v.n = w.n => v = w
    BY <1>3, <1>4, <2>2 DEF VersionInv, VersionChain
  <2>3. QED
    BY <2>1, <2>2 DEF VersionChain
<1>6. \A q \in Request : req'[q].pc \in {"insert_version", "point_version"} => req'[q] = req[q]
  BY Elsewhere DEF PointVersion, VersionInv
<1>7. req'[r].pc = "audit_edit"
  <2>1. Goto(r, "audit_edit") /\ "audit_edit" \notin Ended
    BY DEF PointVersion, Ended
  <2>2. QED
    BY <2>1, SessionType DEF Goto, VersionInv, TypeOK, RequestState
<1>8. ASSUME NEW q \in Request PROVE Reading(q)'
  <2> SUFFICES ASSUME At(q, "insert_version")'
               PROVE  req'[q].version \in 1..(pointer'[req'[q].session] + 1)
    BY DEF Reading
  <2>1. req'[q] = req[q] /\ At(q, "insert_version")
    BY <1>6 DEF At
  <2>2. req[q].version \in 1..(pointer[req[q].session] + 1)
    BY <2>1 DEF VersionInv, Reading
  <2>3. req[q].session \in Session /\ pointer[req[q].session] \in Nat
    BY SessionType DEF VersionInv, TypeOK
  <2>4. QED
    BY <1>1, <1>4, <2>1, <2>2, <2>3
<1>9. ASSUME NEW q \in Request PROVE Pointing(q)'
  <2> SUFFICES ASSUME At(q, "point_version")'
               PROVE  /\ req'[q].version = pointer'[req'[q].session] + 1
                      /\ \E v \in versions'[req'[q].session] :
                           v.n = req'[q].version /\ v.by = q
    BY DEF Pointing
  <2>1. req'[q] = req[q] /\ At(q, "point_version") /\ q # r
    BY <1>6, <1>7 DEF At
  <2>2. /\ req[q].session \in Session
        /\ req[q].version = pointer[req[q].session] + 1
        /\ \E v \in versions[req[q].session] : v.n = req[q].version /\ v.by = q
    BY <2>1, SessionType DEF VersionInv, Pointing
  <2>3. req[q].session # s
    BY <1>1, <1>2, <2>1, <2>2 DEF VersionInv, VersionChain
  <2>4. QED
    BY <1>3, <1>4, <2>1, <2>2, <2>3
<1>10. QED
  BY <1>5, <1>8, <1>9 DEF VersionInv

\* Every step of every request preserves the invariant.
LEMMA StepChain ==
    ASSUME VersionInv, NEW r \in Request,
           InitiateStep(r) \/ EditStep(r) \/ SubmitStep(r) \/ Deny(r) \/ Abort(r)
    PROVE  VersionInv'
<1>1. TypeOK /\ TypeOK'
  BY StepType DEF VersionInv
<1>2. CASE ReadVersion(r)
  BY <1>1, <1>2, ReadChain
<1>3. CASE InsertVersion(r)
  BY <1>1, <1>3, InsertChain
<1>4. CASE PointVersion(r)
  BY <1>1, <1>4, PointChain
<1>5. ASSUME Outside PROVE VersionInv'
  BY <1>1, <1>5, Untouched DEF Outside
<1>6. CASE InitiateStep(r) \/ SubmitStep(r)
  BY <1>1, <1>5, <1>6, InitiateOutside, SubmitOutside
<1>7. CASE VersionConflict(r) \/ LosePointer(r) \/ AuditEdit(r) \/ Deny(r) \/ Abort(r)
  <2>1. Outside
    BY <1>1, <1>7, Elsewhere
       DEF VersionConflict, LosePointer, AuditEdit, Emit, Deny, Abort, data, Outside
  <2>2. QED
    BY <1>5, <2>1
<1>8. QED
  BY <1>2, <1>3, <1>4, <1>6, <1>7 DEF EditStep

\* However requests interleave, and wherever they are cut off, the versions of a
\* record are numbered without gaps or repetitions, and latest_version is the last
\* one or, when its update was lost, the one before.
THEOREM VersionChainHolds == Spec => []VersionChain
<1>1. Init => VersionInv
  <2> SUFFICES ASSUME Init PROVE VersionInv
    OBVIOUS
  <2>1. TypeOK
    BY InitialType
  <2>2. VersionChain
    <3> SUFFICES ASSUME NEW s \in Session
                 PROVE  /\ \A v \in versions[s] : v.n \in 1..(pointer[s] + 1)
                        /\ \A n \in 1..pointer[s] : \E v \in versions[s] : v.n = n
                        /\ \A v, w \in versions[s] : v.n = w.n => v = w
      BY DEF VersionChain
    <3>1. CASE s \in Opened
      <4> DEFINE row == [n |-> 1, data |-> Recorded[s], by |-> None]
      <4>1. pointer[s] = 1 /\ versions[s] = {row} /\ row.n = 1
        BY <3>1 DEF Init
      <4> HIDE DEF row
      <4>2. QED
        BY <4>1
    <3>2. CASE s \notin Opened
      <4>1. pointer[s] = 0 /\ versions[s] = {}
        BY <3>2 DEF Init
      <4>2. QED
        BY <4>1
    <3>3. QED
      BY <3>1, <3>2
  <2>3. \A r \in Request : Reading(r) /\ Pointing(r)
    BY DEF Init, Reading, Pointing, At
  <2>4. QED
    BY <2>1, <2>2, <2>3 DEF VersionInv
<1>2. VersionInv /\ [Next]_vars => VersionInv'
  <2>1. VersionInv /\ UNCHANGED vars => VersionInv'
    <3> SUFFICES ASSUME VersionInv, UNCHANGED vars PROVE VersionInv'
      OBVIOUS
    <3>1. TypeOK'
      BY DEF VersionInv, TypeOK, vars
    <3>2. QED
      BY <3>1, Untouched DEF vars
  <2>2. VersionInv /\ Next => VersionInv'
    BY StepChain DEF Next
  <2>3. QED
    BY <2>1, <2>2
<1>3. VersionInv => VersionChain
  BY DEF VersionInv
<1>4. QED
  BY <1>1, <1>2, <1>3, PTL DEF Spec
=============================================================================
