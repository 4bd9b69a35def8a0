------------------------ MODULE Finalization_proofs ------------------------
(***************************************************************************)
(* Theorems about Onboarding, for any sessions, requests, callers and      *)
(* profiles: what a finalised session has, what a case rests on, what the  *)
(* audit log tells and leaves out, and that the anomalies are races.       *)
(***************************************************************************)
EXTENDS RequestOverlap, Onboarding_proofs

Assessing == {"audit_mark", "load_data", "find_assessment", "insert_assessment"}
Screening == {"audit_risk", "create_job", "audit_screening"}
Casing    == {"find_case", "open_case", "case_event", "audit_case"}
\* Between a write and its audit row.
Unaudited == {"point_version", "audit_edit", "audit_risk", "audit_screening", "case_event",
              "audit_case"}

Graded(s, band) == \E i \in DOMAIN assessments[s] : assessments[s][i].band = band

WroteVersion(r) == \E v \in versions[req[r].session] : v.by = r
WroteAssessment(r) ==
    \E i \in DOMAIN assessments[req[r].session] : assessments[req[r].session][i].by = r

\* What a request has behind it at each stage of submitStep.
Path(r) ==
    /\ req[r].pc \in Finalizing => IsFinal(req[r].session, req[r].step)
    /\ At(r, "mark_business") => req[r].session \in Corporate
    /\ req[r].pc \in Assessing \cup Screening => req[r].session \notin Corporate
    /\ At(r, "find_assessment") \/ At(r, "insert_assessment") =>
         \E v \in versions[req[r].session] : v.data = req[r].data
    /\ req[r].pc \in Screening \cup Casing /\ req[r].session \notin Corporate =>
         Graded(req[r].session, req[r].band)
    /\ req[r].pc \in Casing /\ req[r].session \notin Corporate => r \in jobs
    /\ At(r, "open_case") => QueueFor(r) # "none"

\* The last audit row of a final step.
Submitted(r) ==
    /\ <<"SESSION_STEP_SUBMITTED", r>> \in trail => At(r, "done")
    /\ At(r, "audit_step") \/ <<"SESSION_STEP_SUBMITTED", r>> \in trail =>
         (IsFinal(req[r].session, req[r].step) => Finalized(r))

\* A request that has not begun has written nothing.
Fresh(r) ==
    At(r, "idle") =>
      /\ \A s \in Session : \A v \in versions[s] : v.by # r
      /\ \A s \in Session : \A i \in DOMAIN assessments[s] : assessments[s][i].by # r
      /\ r \notin jobs /\ opened[r] = "none"
      /\ \A e \in AuditType : <<e, r>> \notin trail

\* Writes that are not in the audit log.
LacksVersion(r)    == WroteVersion(r) /\ <<"FIELD_CHANGED", r>> \notin trail
LacksAssessment(r) == WroteAssessment(r) /\ <<"RISK_SCORE_COMPUTED", r>> \notin trail
LacksJob(r)        == r \in jobs /\ <<"SCREENING_INITIATED", r>> \notin trail
LacksCase(r)       == opened[r] # "none" /\ <<"CASE_CREATED", r>> \notin trail

AtMostOneLacks(r) ==
    /\ LacksVersion(r) => ~LacksAssessment(r) /\ ~LacksJob(r) /\ ~LacksCase(r)
    /\ LacksAssessment(r) => ~LacksJob(r) /\ ~LacksCase(r)
    /\ LacksJob(r) => ~LacksCase(r)

\* Each audit row has its write; each write has its audit row, is about to, or was cut off.
Audited(r) ==
    /\ <<"FIELD_CHANGED", r>> \in trail => WroteVersion(r)
    /\ <<"RISK_SCORE_COMPUTED", r>> \in trail => WroteAssessment(r)
    /\ <<"SCREENING_INITIATED", r>> \in trail => r \in jobs
    /\ <<"CASE_CREATED", r>> \in trail => opened[r] # "none"
    /\ At(r, "point_version") \/ At(r, "audit_edit") => WroteVersion(r)
    /\ At(r, "audit_risk") => WroteAssessment(r)
    /\ At(r, "audit_screening") => r \in jobs
    /\ At(r, "case_event") \/ At(r, "audit_case") => opened[r] # "none"
    /\ WroteVersion(r) => \/ <<"FIELD_CHANGED", r>> \in trail
                          \/ req[r].pc \in {"point_version", "audit_edit", "aborted"}
    /\ WroteAssessment(r) => \/ <<"RISK_SCORE_COMPUTED", r>> \in trail
                             \/ req[r].pc \in {"audit_risk", "aborted"}
    /\ r \in jobs => \/ <<"SCREENING_INITIATED", r>> \in trail
                     \/ req[r].pc \in {"audit_screening", "aborted"}
    /\ opened[r] # "none" => \/ <<"CASE_CREATED", r>> \in trail
                             \/ req[r].pc \in {"case_event", "audit_case", "aborted"}
    /\ At(r, "aborted") => AtMostOneLacks(r)

\* What a case rests on.
Justified(r) ==
    opened[r] # "none" =>
      LET s == req[r].session IN
      /\ IsFinal(s, req[r].step)
      /\ s \in Corporate => opened[r] = "standard"
      /\ s \notin Corporate =>
           /\ r \in jobs
           /\ \E i \in DOMAIN assessments[s] :
                \E v \in versions[s] :
                  /\ assessments[s][i].band = BandOf(v.data.input)
                  /\ opened[r] = RiskBandToQueue(assessments[s][i].band)

\* Every assessment was computed from a recorded version.
Computed ==
    \A s \in Session : \A i \in DOMAIN assessments[s] :
      \E v \in versions[s] : assessments[s][i].band = BandOf(v.data.input)

FinalInv ==
    /\ TypeOK /\ Computed
    /\ \A r \in Request : Path(r) /\ Submitted(r) /\ Fresh(r) /\ Audited(r) /\ Justified(r)
-----------------------------------------------------------------------------
(* What a step of r leaves the others.                                     *)

\* Versions and assessments are only added, by r and for r; nothing else of another
\* request changes.
Adds(r) ==
    /\ \A q \in Request \ {r} : req'[q] = req[q] /\ opened'[q] = opened[q]
    /\ \A s \in Session : /\ versions[s] \subseteq versions'[s]
                          /\ \A v \in versions'[s] \ versions[s] : v.by = r
    /\ \A s \in Session :
         /\ DOMAIN assessments[s] \subseteq DOMAIN assessments'[s]
         /\ \A i \in DOMAIN assessments[s] : assessments'[s][i] = assessments[s][i]
         /\ \A i \in DOMAIN assessments'[s] \ DOMAIN assessments[s] :
              assessments'[s][i].by = r
    /\ \A q \in Request \ {r} : q \in jobs' <=> q \in jobs
    /\ \A q \in Request \ {r}, e \in AuditType : <<e, q>> \in trail' <=> <<e, q>> \in trail
    /\ opened[r] # "none" => opened'[r] # "none" /\ req'[r].session = req[r].session

\* A case stays a case of its session.
LEMMA CasesStay ==
    ASSUME TypeOK, NEW r \in Request, Adds(r), NEW s \in Session, CasesOf(s) # {}
    PROVE  CasesOf(s)' # {}
<1>1. PICK q \in Request : opened[q] # "none" /\ req[q].session = s
  BY DEF CasesOf
<1>2. opened'[q] # "none" /\ req'[q].session = s
  BY <1>1 DEF Adds
<1>3. QED
  BY <1>2 DEF CasesOf

LEMMA NotEmpty ==
    ASSUME NEW S, NEW seq \in Seq(S), seq # <<>>
    PROVE  1 \in DOMAIN seq
  BY EmptySeq

LEMMA OthersKeep ==
    ASSUME FinalInv, NEW r \in Request, Adds(r), NEW q \in Request, q # r
    PROVE  Path(q)' /\ Submitted(q)' /\ Fresh(q)' /\ Audited(q)' /\ Justified(q)'
<1> DEFINE s == req[q].session
<1>1. /\ req'[q] = req[q] /\ opened'[q] = opened[q] /\ s \in Session
      /\ q \in jobs' <=> q \in jobs
      /\ \A e \in AuditType : <<e, q>> \in trail' <=> <<e, q>> \in trail
  BY SessionType DEF Adds, FinalInv
<1>2. /\ versions[s] \subseteq versions'[s]
      /\ DOMAIN assessments[s] \subseteq DOMAIN assessments'[s]
      /\ \A i \in DOMAIN assessments[s] : assessments'[s][i] = assessments[s][i]
  BY <1>1 DEF Adds
<1>3. (WroteVersion(q)' <=> WroteVersion(q)) /\ (WroteAssessment(q)' <=> WroteAssessment(q))
  <2>1. WroteVersion(q)' <=> WroteVersion(q)
    BY <1>1, <1>2 DEF WroteVersion, Adds
  <2>2. WroteAssessment(q)' <=> WroteAssessment(q)
    BY <1>1, <1>2 DEF WroteAssessment, Adds
  <2>3. QED
    BY <2>1, <2>2
<1>4. Path(q) /\ Submitted(q) /\ Fresh(q) /\ Audited(q) /\ Justified(q)
  BY DEF FinalInv
<1>5. \A band : Graded(s, band) => Graded(s, band)'
  BY <1>1, <1>2 DEF Graded
<1>6. Path(q)'
  BY <1>1, <1>2, <1>4, <1>5 DEF Path, At, QueueFor
<1>7. Submitted(q)'
  <2>1. Finalized(q) => Finalized(q)'
    <3>1. CasesOf(s) # {} => CasesOf(s)' # {}
      BY <1>1, CasesStay DEF FinalInv
    <3>2. assessments[s] # <<>> => assessments'[s] # <<>>
      <4>1. assessments[s] # <<>> => 1 \in DOMAIN assessments[s]
        BY <1>1, NotEmpty DEF FinalInv, TypeOK
      <4>2. assessments'[s] = <<>> => 1 \notin DOMAIN assessments'[s]
        OBVIOUS
      <4>3. QED
        BY <1>2, <4>1, <4>2
    <3>3. QED
      BY <1>1, <3>1, <3>2 DEF Finalized
  <2>2. "SESSION_STEP_SUBMITTED" \in AuditType
    BY DEF AuditType
  <2>3. QED
    BY <1>1, <1>4, <2>1, <2>2 DEF Submitted, At
<1>8. Fresh(q)'
  BY <1>1, <1>4 DEF Fresh, At, Adds
<1>9. Audited(q)'
  <2>1. /\ <<"FIELD_CHANGED", q>> \in trail' <=> <<"FIELD_CHANGED", q>> \in trail
        /\ <<"RISK_SCORE_COMPUTED", q>> \in trail' <=> <<"RISK_SCORE_COMPUTED", q>> \in trail
        /\ <<"SCREENING_INITIATED", q>> \in trail' <=> <<"SCREENING_INITIATED", q>> \in trail
        /\ <<"CASE_CREATED", q>> \in trail' <=> <<"CASE_CREATED", q>> \in trail
    BY <1>1 DEF AuditType
  <2>2. AtMostOneLacks(q)' <=> AtMostOneLacks(q)
    BY <1>1, <1>3, <2>1
       DEF AtMostOneLacks, LacksVersion, LacksAssessment, LacksJob, LacksCase
  <2>3. QED
    BY <1>1, <1>3, <1>4, <2>1, <2>2 DEF Audited, At
<1>10. Justified(q)'
  BY <1>1, <1>2, <1>4 DEF Justified
<1>11. QED
  BY <1>6, <1>7, <1>8, <1>9, <1>10

\* It is left to show what the step does to r itself.
LEMMA StepKeeps ==
    ASSUME FinalInv, TypeOK', NEW r \in Request, Adds(r), Computed',
           Path(r)', Submitted(r)', Fresh(r)', Audited(r)', Justified(r)'
    PROVE  FinalInv'
  BY OthersKeep DEF FinalInv
-----------------------------------------------------------------------------
\* A request goes on, keeping what it works on.
Goes(r, stage) ==
    /\ \A q \in Request \ {r} : req'[q] = req[q]
    /\ req'[r].pc = stage /\ req'[r].session = req[r].session
    /\ req'[r].step = req[r].step /\ req'[r].band = req[r].band
    /\ req'[r].data = req[r].data \/ stage \in Ended

LEMMA GotoGoes ==
    ASSUME TypeOK, NEW r \in Request, NEW stage \in Stages, Goto(r, stage)
    PROVE  Goes(r, stage)
<1>1. req \in [Request -> RequestState] /\ req[r] \in RequestState
  BY DEF TypeOK
<1>2. CASE stage \in Ended
  <2>1. req' = [req EXCEPT ![r] = [req[r] EXCEPT !.pc = stage, !.version = 0, !.data = None]]
    BY <1>2 DEF Goto
  <2>2. QED
    BY <1>1, <1>2, <2>1 DEF Goes, RequestState
<1>3. CASE stage \notin Ended
  <2>1. req' = [req EXCEPT ![r] = [req[r] EXCEPT !.pc = stage]]
    BY <1>3 DEF Goto
  <2>2. QED
    BY <1>1, <1>3, <2>1 DEF Goes, RequestState
<1>4. QED
  BY <1>2, <1>3

\* The tables of this module's properties, the audit log aside.
Tables == <<versions, assessments, jobs, opened>>

\* A step that writes none of those tables and audits none of those writes.
LEMMA QuietStep ==
    ASSUME FinalInv, TypeOK', NEW r \in Request, NEW stage \in Stages \ {"idle"},
           \A q \in Request \ {r} : req'[q] = req[q], req'[r].pc = stage,
           req[r].pc \in {"idle"} \cup Running, UNCHANGED Tables,
           \/ At(r, "idle")
           \/ req'[r].session = req[r].session /\ req'[r].step = req[r].step,
           \/ trail' = trail
           \/ \E e \in AuditType \ (WriteEvents \cup {"SESSION_STEP_SUBMITTED"}) :
                trail' = trail \cup {<<e, r>>},
           stage = "aborted" \/ (req[r].pc \notin Unaudited /\ stage \notin Unaudited),
           Path(r)',
           stage = "audit_step" /\ IsFinal(req'[r].session, req'[r].step) => Finalized(r)'
    PROVE  FinalInv'
<1>1. UNCHANGED <<versions, assessments, jobs, opened>>
  BY DEF Tables
<1>2. \A e \in WriteEvents \cup {"SESSION_STEP_SUBMITTED"} : <<e, r>> \in trail' <=> <<e, r>> \in trail
  OBVIOUS
<1>3. Path(r) /\ Submitted(r) /\ Fresh(r) /\ Audited(r) /\ Justified(r) /\ TypeOK
  BY DEF FinalInv
<1>4. Adds(r)
  <2>1. opened[r] # "none" => req'[r].session = req[r].session
    BY <1>3 DEF Fresh
  <2>2. \A q \in Request \ {r}, e \in AuditType : <<e, q>> \in trail' <=> <<e, q>> \in trail
    OBVIOUS
  <2>3. QED
    BY <1>1, <2>1, <2>2 DEF Adds
<1>5. Computed'
  BY <1>1 DEF FinalInv, Computed
<1>6. Submitted(r)'
  <2>1. ~At(r, "done")
    BY DEF At, Running, Initiating, Editing, Stepping, Finalizing
  <2>2. <<"SESSION_STEP_SUBMITTED", r>> \notin trail'
    BY <1>2, <1>3, <2>1 DEF Submitted
  <2>3. QED
    BY <2>2 DEF Submitted, At
<1>7. Fresh(r)'
  BY DEF Fresh, At
<1>8. CASE At(r, "idle")
  <2>1. req'[r].session \in Session
    BY DEF TypeOK, RequestState
  <2>2. ~WroteVersion(r)' /\ ~WroteAssessment(r)' /\ r \notin jobs' /\ opened'[r] = "none"
    BY <1>1, <1>3, <1>8, <2>1 DEF Fresh, WroteVersion, WroteAssessment
  <2>3. \A e \in WriteEvents : <<e, r>> \notin trail'
    BY <1>2, <1>3, <1>8 DEF Fresh, AuditType, WriteEvents
  <2>4. stage \notin Unaudited
    BY <1>8 DEF Unaudited
  <2>5. Audited(r)'
    BY <2>2, <2>3, <2>4
       DEF Audited, At, WriteEvents, Unaudited, AtMostOneLacks, LacksVersion, LacksAssessment,
           LacksJob, LacksCase
  <2>6. Justified(r)'
    BY <2>2 DEF Justified
  <2>7. QED
    BY <1>4, <1>5, <1>6, <1>7, <2>5, <2>6, StepKeeps
<1>9. CASE ~At(r, "idle")
  <2>1. /\ req'[r].session = req[r].session /\ req'[r].step = req[r].step
    BY <1>9
  <2>2. (WroteVersion(r)' <=> WroteVersion(r)) /\ (WroteAssessment(r)' <=> WroteAssessment(r))
    BY <1>1, <2>1 DEF WroteVersion, WroteAssessment
  <2>3. Audited(r)'
    <3>1. /\ <<"FIELD_CHANGED", r>> \in trail' <=> <<"FIELD_CHANGED", r>> \in trail
          /\ <<"RISK_SCORE_COMPUTED", r>> \in trail' <=> <<"RISK_SCORE_COMPUTED", r>> \in trail
          /\ <<"SCREENING_INITIATED", r>> \in trail' <=> <<"SCREENING_INITIATED", r>> \in trail
          /\ <<"CASE_CREATED", r>> \in trail' <=> <<"CASE_CREATED", r>> \in trail
      BY <1>2 DEF WriteEvents
    <3>2. (r \in jobs' <=> r \in jobs) /\ opened'[r] = opened[r]
      BY <1>1
    <3>3. req[r].pc # "aborted"
      BY DEF Running, Initiating, Editing, Stepping, Finalizing
    <3>4. AtMostOneLacks(r)
      BY <1>3, <3>3 DEF Audited, AtMostOneLacks, LacksVersion, LacksAssessment, LacksJob,
                        LacksCase
    <3>5. AtMostOneLacks(r)'
      BY <2>2, <3>1, <3>2, <3>4
         DEF AtMostOneLacks, LacksVersion, LacksAssessment, LacksJob, LacksCase
    <3>6. CASE stage = "aborted"
      BY <1>3, <2>2, <3>1, <3>2, <3>5, <3>6 DEF Audited, At
    <3>7. CASE req[r].pc \notin Unaudited \cup {"aborted"} /\ stage \notin Unaudited
      BY <1>3, <2>2, <3>1, <3>2, <3>5, <3>7 DEF Audited, At, Unaudited
    <3>8. QED
      BY <3>3, <3>6, <3>7
  <2>4. Justified(r)'
    BY <1>1, <1>3, <2>1 DEF Justified
  <2>5. QED
    BY <1>4, <1>5, <1>6, <1>7, <2>3, <2>4, StepKeeps
<1>10. QED
  BY <1>8, <1>9

LEMMA PathEnds ==
    ASSUME NEW r \in Request, req'[r].pc \in Ended \cup Initiating \cup Editing \cup
                                            {"reread", "advance", "audit_step"}
    PROVE  Path(r)'
  BY DEF Path, At, Ended, Initiating, Editing, Finalizing, Assessing, Screening, Casing

\* The steps of initiateSession.
LEMMA InitiateKeeps ==
    ASSUME FinalInv, TypeOK', NEW r \in Request, InitiateStep(r)
    PROVE  FinalInv'
<1>1. /\ TypeOK /\ req \in [Request -> RequestState] /\ req[r] \in RequestState
      /\ UNCHANGED Tables
  BY SessionType
     DEF FinalInv, TypeOK, InitiateStep, StartInitiate, CreateBusiness, AuditKyb,
         CreateSession, AuditInitiated, Emit, Tables
<1>2. CASE StartInitiate(r)
  <2>1. PICK stage \in {"create_business", "create_session"} :
          /\ \A q \in Request \ {r} : req'[q] = req[q]
          /\ req'[r].pc = stage
    BY <1>1, <1>2 DEF StartInitiate, RequestState
  <2>2. Path(r)'
    BY <2>1, PathEnds DEF Initiating
  <2>3. QED
    BY <1>1, <1>2, <2>1, <2>2, StagesAre, QuietStep DEF StartInitiate, At, Unaudited
<1>3. CASE CreateBusiness(r) \/ AuditKyb(r) \/ CreateSession(r) \/ AuditInitiated(r)
  <2>1. PICK stage \in {"audit_kyb", "create_session", "audit_initiated", "done"} :
          Goto(r, stage)
    BY <1>3 DEF CreateBusiness, AuditKyb, CreateSession, AuditInitiated, Emit
  <2>2. stage \in Stages \ {"idle"}
    BY StagesAre DEF Ended
  <2>3. Goes(r, stage)
    BY <1>1, <2>1, <2>2, GotoGoes
  <2>4. \/ trail' = trail
        \/ trail' = trail \cup {<<"KYB_INITIATED", r>>}
        \/ trail' = trail \cup {<<"SESSION_INITIATED", r>>}
    BY <1>3 DEF CreateBusiness, AuditKyb, CreateSession, AuditInitiated, Emit
  <2>5. \/ trail' = trail
        \/ \E e \in AuditType \ (WriteEvents \cup {"SESSION_STEP_SUBMITTED"}) :
             trail' = trail \cup {<<e, r>>}
    BY <2>4 DEF AuditType, WriteEvents
  <2>6. req[r].pc \in Running /\ req[r].pc \notin Unaudited
    BY <1>3 DEF CreateBusiness, AuditKyb, CreateSession, AuditInitiated, Emit, At, Running,
       Initiating, Unaudited
  <2>7. Path(r)' /\ stage # "audit_step" /\ stage \notin Unaudited
    BY <2>3, PathEnds DEF Goes, Initiating, Ended, Unaudited
  <2>8. QED
    BY <1>1, <2>2, <2>3, <2>5, <2>6, <2>7, QuietStep DEF Goes
<1>4. QED
  BY <1>2, <1>3 DEF InitiateStep

\* A request that stops.
LEMMA EndKeeps ==
    ASSUME FinalInv, TypeOK', NEW r \in Request, NEW stage \in {"conflict", "denied", "invalid"},
           Goto(r, stage), UNCHANGED data, req[r].pc \in Running \ Unaudited
    PROVE  FinalInv'
<1>1. stage \in Stages \ {"idle"} /\ stage \in Ended
  BY StagesAre DEF Ended
<1>2. Goes(r, stage)
  BY <1>1, GotoGoes DEF FinalInv
<1>3. Path(r)' /\ stage # "audit_step" /\ stage \notin Unaudited
  BY <1>1, <1>2, PathEnds DEF Goes, Unaudited
<1>4. UNCHANGED Tables /\ trail' = trail
  BY DEF data, Tables
<1>5. QED
  BY <1>1, <1>2, <1>3, <1>4, QuietStep DEF Goes

LEMMA AbortKeeps ==
    ASSUME FinalInv, TypeOK', NEW r \in Request, Abort(r)
    PROVE  FinalInv'
<1>1. "aborted" \in Stages \ {"idle"} /\ "aborted" \in Ended /\ Goto(r, "aborted")
  BY StagesAre DEF Ended, Abort
<1>2. Goes(r, "aborted")
  BY <1>1, GotoGoes DEF FinalInv
<1>3. Path(r)'
  BY <1>1, <1>2, PathEnds DEF Goes
<1>4. UNCHANGED Tables /\ trail' = trail /\ req[r].pc \in Running
  BY DEF data, Tables, Abort
<1>5. QED
  BY <1>1, <1>2, <1>3, <1>4, QuietStep DEF Goes
-----------------------------------------------------------------------------
\* The first steps of an edit and of submitStep.
LEMMA BeginKeeps ==
    ASSUME FinalInv, TypeOK', NEW r \in Request, ReadVersion(r) \/ StartStep(r)
    PROVE  FinalInv'
<1>1. TypeOK /\ req \in [Request -> RequestState] /\ req[r] \in RequestState
  BY SessionType DEF FinalInv, TypeOK
<1>2. UNCHANGED Tables /\ trail' = trail /\ At(r, "idle")
  BY DEF ReadVersion, StartStep, CallStep, Begin, data, Tables
<1>3. PICK stage \in {"insert_version", "conflict", "reread"} :
        req'[r].pc = stage /\ \A q \in Request \ {r} : req'[q] = req[q]
  <2>1. CASE ReadVersion(r)
    <3>1. PICK s \in Session, d \in Profile \cup {None} :
            req' = [req EXCEPT ![r].pc = "insert_version", ![r].session = s,
                               ![r].data = d, ![r].version = pointer[s] + 1]
      BY <2>1 DEF ReadVersion
    <3>2. req'[r].pc = "insert_version" /\ \A q \in Request \ {r} : req'[q] = req[q]
      BY <1>1, <3>1 DEF RequestState
    <3>3. QED
      BY <3>2
  <2>2. CASE StartStep(r)
    <3>1. PICK s \in Session : \E step \in Steps(s) :
            Begin(r, s, step, IF session[s].status = "submitted" THEN "conflict" ELSE "reread")
      BY <2>2 DEF StartStep
    <3> DEFINE stage == IF session[s].status = "submitted" THEN "conflict" ELSE "reread"
    <3>2. PICK step \in Steps(s) :
            req' = [req EXCEPT ![r].session = s, ![r].step = step, ![r].pc = stage]
      BY <3>1 DEF Begin
    <3>3. stage \in {"conflict", "reread"}
      OBVIOUS
    <3> HIDE DEF stage
    <3>4. req'[r].pc = stage /\ \A q \in Request \ {r} : req'[q] = req[q]
      BY <1>1, <3>2 DEF RequestState
    <3>5. QED
      BY <3>3, <3>4
  <2>3. QED
    BY <2>1, <2>2
<1>4. stage \in Stages \ {"idle"} /\ stage \notin Unaudited /\ stage # "audit_step"
  BY StagesAre DEF Ended, Unaudited
<1>5. Path(r)'
  BY <1>3, PathEnds DEF Ended, Editing
<1>6. QED
  BY <1>2, <1>3, <1>4, <1>5, QuietStep DEF At, Unaudited

\* advanceSession: only a final step goes on to finalise.
LEMMA AdvanceKeeps ==
    ASSUME FinalInv, TypeOK', NEW r \in Request, Reread(r) \/ Advance(r)
    PROVE  FinalInv'
<1>1. TypeOK /\ req \in [Request -> RequestState] /\ req[r] \in RequestState
  BY SessionType DEF FinalInv, TypeOK
<1>2. UNCHANGED Tables /\ trail' = trail /\ req[r].pc \in Running \ Unaudited
  BY DEF Reread, Advance, AdvanceTo, At, data, Tables, Running, Stepping, Unaudited
<1>3. CASE Reread(r)
  <2>1. Goes(r, "advance")
    BY <1>1, <1>3 DEF Reread, Goes, RequestState
  <2>2. Path(r)' /\ "advance" \in Stages \ {"idle"} /\ "advance" \notin Unaudited
    BY <2>1, PathEnds, StagesAre DEF Goes, Unaudited
  <2>3. QED
    BY <1>2, <2>1, <2>2, QuietStep DEF Goes
<1>4. CASE Advance(r)
  <2> DEFINE final == IsFinal(req[r].session, req[r].step)
             stage == IF ~final THEN "audit_step" ELSE "mark_customer"
  <2>1. req' = [req EXCEPT ![r].seen = {}, ![r].pc = stage]
    BY <1>4 DEF Advance, AdvanceTo
  <2>2. stage \in {"audit_step", "mark_customer"} /\ (stage = "audit_step" <=> ~final)
    OBVIOUS
  <2> HIDE DEF stage
  <2>3. Goes(r, stage)
    BY <1>1, <2>1 DEF Goes, RequestState
  <2>4. Path(r)'
    BY <2>2, <2>3 DEF Path, Goes, At, Finalizing, Assessing, Screening, Casing
  <2>5. stage \in Stages \ {"idle"} /\ stage \notin Unaudited
    BY <2>2, StagesAre DEF Unaudited
  <2>6. stage = "audit_step" => ~IsFinal(req'[r].session, req'[r].step)
    BY <2>2, <2>3 DEF Goes
  <2>7. QED
    BY <1>2, <2>3, <2>4, <2>5, <2>6, QuietStep DEF Goes
<1>5. QED
  BY <1>3, <1>4

\* The first steps of finalizeSubmittedSession.
LEMMA MarkKeeps ==
    ASSUME FinalInv, TypeOK', NEW r \in Request,
           MarkCustomer(r) \/ MarkBusiness(r) \/ AuditMark(r)
    PROVE  FinalInv'
<1>1. TypeOK /\ Path(r)
  BY DEF FinalInv
<1>2. UNCHANGED Tables /\ req[r].pc \in {"mark_customer", "mark_business", "audit_mark"}
  BY DEF MarkCustomer, MarkBusiness, AuditMark, Emit, At, Tables
<1>3. req[r].pc \in Running \ Unaudited /\ IsFinal(req[r].session, req[r].step)
  BY <1>1, <1>2 DEF Path, Running, Stepping, Finalizing, Unaudited
<1>4. PICK stage \in {"mark_business", "audit_mark", "find_case", "load_data"} :
        /\ Goto(r, stage)
        /\ stage \in {"mark_business", "find_case"} => req[r].session \in Corporate
        /\ stage \in {"audit_mark", "load_data"} => req[r].session \notin Corporate
  <2>1. CASE MarkCustomer(r)
    BY <2>1 DEF MarkCustomer
  <2>2. CASE MarkBusiness(r)
    BY <1>1, <2>2 DEF MarkBusiness, Path, At
  <2>3. CASE AuditMark(r)
    BY <1>1, <2>3 DEF AuditMark, Emit, Path, At, Assessing
  <2>4. QED
    BY <2>1, <2>2, <2>3
<1>5. stage \in Stages \ {"idle"} /\ stage \notin Unaudited /\ stage # "audit_step"
  BY StagesAre DEF Unaudited
<1>6. Goes(r, stage)
  BY <1>1, <1>4, <1>5, GotoGoes
<1>7. Path(r)'
  BY <1>3, <1>4, <1>6 DEF Path, Goes, At, Finalizing, Assessing, Screening, Casing
<1>8. trail' = trail \/ trail' = trail \cup {<<"SESSION_COMPLETED", r>>}
  BY DEF MarkCustomer, MarkBusiness, AuditMark, Emit
<1>9. \/ trail' = trail
      \/ \E e \in AuditType \ (WriteEvents \cup {"SESSION_STEP_SUBMITTED"}) :
           trail' = trail \cup {<<e, r>>}
  BY <1>8 DEF AuditType, WriteEvents
<1>10. QED
  BY <1>2, <1>3, <1>5, <1>6, <1>7, <1>9, QuietStep DEF Goes

\* getLatestCustomerData: what is assessed is a recorded version.
LEMMA LoadKeeps ==
    ASSUME FinalInv, TypeOK', NEW r \in Request, LoadData(r)
    PROVE  FinalInv'
<1>1. TypeOK /\ Path(r) /\ req \in [Request -> RequestState] /\ req[r] \in RequestState
  BY SessionType DEF FinalInv, TypeOK
<1>2. UNCHANGED Tables /\ UNCHANGED data /\ trail' = trail /\ At(r, "load_data")
  BY DEF LoadData, data, Tables
<1>3. /\ req[r].pc \in Running \ Unaudited /\ IsFinal(req[r].session, req[r].step)
      /\ req[r].session \notin Corporate
  BY <1>1, <1>2 DEF Path, At, Running, Stepping, Finalizing, Assessing, Unaudited
<1>4. CASE versions[req[r].session] = {}
  BY <1>2, <1>3, <1>4, EndKeeps DEF LoadData
<1>5. CASE versions[req[r].session] # {}
  <2>1. PICK v \in versions[req[r].session] :
          req' = [req EXCEPT ![r].pc = "find_assessment", ![r].data = v.data]
    BY <1>5 DEF LoadData
  <2>2. /\ \A q \in Request \ {r} : req'[q] = req[q]
        /\ req'[r].pc = "find_assessment" /\ req'[r].data = v.data
        /\ req'[r].session = req[r].session /\ req'[r].step = req[r].step
        /\ req'[r].band = req[r].band
    BY <1>1, <2>1 DEF RequestState
  <2>3. Path(r)'
    BY <1>2, <1>3, <2>2 DEF Path, At, Finalizing, Assessing, Screening, Casing, Tables
  <2>4. "find_assessment" \in Stages \ {"idle"} /\ "find_assessment" \notin Unaudited
    BY StagesAre DEF Unaudited
  <2>5. QED
    BY <1>2, <1>3, <2>2, <2>3, <2>4, QuietStep
<1>6. QED
  BY <1>4, <1>5

\* getLatestAssessment
LEMMA FindAssessmentKeeps ==
    ASSUME FinalInv, TypeOK', NEW r \in Request, FindAssessment(r)
    PROVE  FinalInv'
<1> DEFINE s == req[r].session
           rows == assessments[s]
<1>1. /\ TypeOK /\ Path(r) /\ req \in [Request -> RequestState] /\ req[r] \in RequestState
      /\ rows \in Seq([band : RiskBands, by : Request])
  BY SessionType DEF FinalInv, TypeOK
<1>2. UNCHANGED Tables /\ trail' = trail /\ At(r, "find_assessment")
  BY DEF FindAssessment, data, Tables
<1>3. /\ req[r].pc \in Running \ Unaudited /\ IsFinal(req[r].session, req[r].step)
      /\ req[r].session \notin Corporate
      /\ \E v \in versions[s] : v.data = req[r].data
  BY <1>1, <1>2 DEF Path, At, Running, Stepping, Finalizing, Assessing, Unaudited
<1>4. CASE rows = <<>>
  <2>1. req' = [req EXCEPT ![r].pc = "insert_assessment"]
    BY <1>4 DEF FindAssessment
  <2>2. Goes(r, "insert_assessment") /\ req'[r].data = req[r].data
    BY <1>1, <2>1 DEF Goes, RequestState
  <2>3. Path(r)'
    BY <1>2, <1>3, <2>2 DEF Path, Goes, At, Finalizing, Assessing, Screening, Casing, Tables
  <2>4. "insert_assessment" \in Stages \ {"idle"} /\ "insert_assessment" \notin Unaudited
    BY StagesAre DEF Unaudited
  <2>5. QED
    BY <1>2, <1>3, <2>2, <2>3, <2>4, QuietStep DEF Goes
<1>5. CASE rows # <<>>
  <2>1. PICK band : band = rows[Len(rows)].band /\ Graded(s, band)
    <3>1. Len(rows) \in DOMAIN rows
      <4> HIDE DEF rows
      <4>1. Len(rows) \in Nat \ {0} /\ DOMAIN rows = 1..Len(rows)
        BY <1>1, <1>5, EmptySeq
      <4>2. QED
        BY <4>1
    <3>2. QED
      BY <3>1 DEF Graded
  <2>2. req' = [req EXCEPT ![r].pc = "create_job", ![r].band = band]
    BY <1>5, <2>1 DEF FindAssessment
  <2> HIDE DEF rows
  <2>3. /\ \A q \in Request \ {r} : req'[q] = req[q]
        /\ req'[r].pc = "create_job" /\ req'[r].band = band
        /\ req'[r].session = req[r].session /\ req'[r].step = req[r].step
    BY <1>1, <2>2 DEF RequestState
  <2>4. Graded(s, band)'
    BY <1>2, <2>1, <2>3 DEF Graded, Tables
  <2>5. Path(r)'
    BY <1>3, <2>3, <2>4 DEF Path, At, Finalizing, Assessing, Screening, Casing
  <2>6. "create_job" \in Stages \ {"idle"} /\ "create_job" \notin Unaudited
    BY StagesAre DEF Unaudited
  <2>7. QED
    BY <1>2, <1>3, <2>3, <2>5, <2>6, QuietStep
<1>6. QED
  BY <1>4, <1>5

\* riskBandToQueue and getCaseBySessionId: without a case to open, or with one, done.
LEMMA FindCaseKeeps ==
    ASSUME FinalInv, TypeOK', NEW r \in Request, FindCase(r)
    PROVE  FinalInv'
<1> DEFINE s == req[r].session
<1>1. TypeOK /\ Path(r) /\ req[r] \in RequestState /\ s \in Session /\ At(r, "find_case")
  BY SessionType DEF FinalInv, FindCase
<1>2. UNCHANGED Tables /\ UNCHANGED data /\ trail' = trail
  BY DEF FindCase, data, Tables
<1>3. /\ req[r].pc \in Running \ Unaudited /\ IsFinal(s, req[r].step)
      /\ s \notin Corporate => Graded(s, req[r].band) /\ r \in jobs
  BY <1>1 DEF Path, At, Running, Stepping, Finalizing, Casing, Unaudited
<1>4. CASE Goto(r, "invalid")
  BY <1>2, <1>3, <1>4, EndKeeps
<1>5. CASE Goto(r, "open_case") /\ QueueFor(r) # "none"
  <2>1. "open_case" \in Stages \ {"idle"} /\ "open_case" \notin Unaudited
    BY StagesAre DEF Unaudited
  <2>2. Goes(r, "open_case")
    BY <1>1, <1>5, <2>1, GotoGoes
  <2>3. QueueFor(r)' = QueueFor(r) /\ (Graded(s, req[r].band) => Graded(s, req[r].band)')
    BY <1>2, <2>2 DEF QueueFor, Goes, Graded, Tables
  <2>4. Path(r)'
    BY <1>2, <1>3, <1>5, <2>2, <2>3
       DEF Path, Goes, At, Finalizing, Assessing, Screening, Casing, Tables, Graded
  <2>5. QED
    BY <1>2, <1>3, <2>1, <2>2, <2>4, QuietStep DEF Goes
<1>6. CASE Goto(r, "audit_step") /\ (QueueFor(r) = "none" \/ CasesOf(s) # {})
  <2>1. "audit_step" \in Stages \ {"idle"} /\ "audit_step" \notin Unaudited
    BY StagesAre DEF Unaudited
  <2>2. Goes(r, "audit_step")
    BY <1>1, <1>6, <2>1, GotoGoes
  <2>3. Path(r)'
    BY <2>2, PathEnds DEF Goes
  <2>4. CasesOf(s) # {} => CasesOf(s)' # {}
    <3>1. SUFFICES ASSUME NEW q \in Request, opened[q] # "none", req[q].session = s
                   PROVE  opened'[q] # "none" /\ req'[q].session = s
      BY <2>2 DEF CasesOf, Goes
    <3>2. QED
      BY <1>2, <2>2, <3>1 DEF Goes, Tables
  <2>5. QueueFor(r) = "none" => s \notin Corporate /\ req[r].band = "low"
    <3>1. req[r].band \in Bands
      BY <1>1 DEF RequestState
    <3>2. s \notin Corporate => req[r].band # "none"
      <4>1. SUFFICES ASSUME NEW i \in DOMAIN assessments[s], assessments[s][i].band = req[r].band
                     PROVE  req[r].band # "none"
        BY <1>3 DEF Graded
      <4>2. assessments[s][i] \in [band : RiskBands, by : Request]
        <5> DEFINE rows == assessments[s]
        <5>1. rows \in Seq([band : RiskBands, by : Request])
          BY <1>1 DEF TypeOK
        <5> HIDE DEF rows
        <5>2. i \in 1..Len(rows)
          BY <4>1, <5>1 DEF rows
        <5>3. rows[i] \in [band : RiskBands, by : Request]
          BY <5>1, <5>2, ElementOfSeq
        <5>4. QED
          BY <5>3 DEF rows
      <4>3. QED
        BY <4>1, <4>2 DEF RiskBands
    <3>3. QED
      BY <3>1, <3>2 DEF QueueFor, RiskBandToQueue, Bands, RiskBands
  <2>6. s \notin Corporate => assessments[s] # <<>>
    BY <1>3 DEF Graded
  <2>7. Finalized(r)'
    BY <1>2, <1>3, <1>6, <2>2, <2>4, <2>5, <2>6 DEF Finalized, Goes, Tables
  <2>8. QED
    BY <1>2, <1>3, <2>1, <2>2, <2>3, <2>7, QuietStep DEF Goes
<1>7. QED
  BY <1>4, <1>5, <1>6 DEF FindCase
-----------------------------------------------------------------------------
(* The steps that write, and the steps that audit a write.                 *)

LEMMA WriterStep ==
    ASSUME FinalInv, TypeOK', NEW r \in Request, NEW stage \in Stages \ {"idle"},
           \A q \in Request \ {r} : req'[q] = req[q],
           req'[r].pc = stage, req'[r].session = req[r].session, req[r].pc \in Running,
           trail' = trail \/ \E e \in WriteEvents : trail' = trail \cup {<<e, r>>},
           \A s \in Session : /\ versions[s] \subseteq versions'[s]
                              /\ \A v \in versions'[s] \ versions[s] : v.by = r,
           \A s \in Session :
             /\ DOMAIN assessments[s] \subseteq DOMAIN assessments'[s]
             /\ \A i \in DOMAIN assessments[s] : assessments'[s][i] = assessments[s][i]
             /\ \A i \in DOMAIN assessments'[s] \ DOMAIN assessments[s] :
                  assessments'[s][i].by = r,
           jobs' = jobs \/ jobs' = jobs \cup {r},
           \A q \in Request \ {r} : opened'[q] = opened[q],
           opened[r] # "none" => opened'[r] # "none",
           Computed', Path(r)', Audited(r)', Justified(r)',
           stage = "audit_step" => Finalized(r)'
    PROVE  FinalInv'
<1>1. ~At(r, "idle") /\ ~At(r, "done") /\ ~At(r, "idle")'
  BY DEF At, Running, Initiating, Editing, Stepping, Finalizing
<1>2. \A q \in Request \ {r}, e \in AuditType : <<e, q>> \in trail' <=> <<e, q>> \in trail
  OBVIOUS
<1>3. Adds(r)
  BY <1>2 DEF Adds
<1>4. Fresh(r)'
  BY <1>1 DEF Fresh
<1>5. Submitted(r)'
  <2>1. <<"SESSION_STEP_SUBMITTED", r>> \notin trail
    BY <1>1 DEF FinalInv, Submitted
  <2>2. <<"SESSION_STEP_SUBMITTED", r>> \notin trail'
    BY <2>1 DEF WriteEvents
  <2>3. QED
    BY <2>2 DEF Submitted, At
<1>6. QED
  BY <1>3, <1>4, <1>5, StepKeeps

\* The insert of a version, and the update of the pointer that may be lost.
LEMMA VersionKeeps ==
    ASSUME FinalInv, TypeOK', NEW r \in Request,
           InsertVersion(r) \/ PointVersion(r) \/ LosePointer(r) \/ AuditEdit(r)
    PROVE  FinalInv'
<1> DEFINE s == req[r].session
<1>1. TypeOK /\ Path(r) /\ Audited(r) /\ Justified(r) /\ Fresh(r) /\ s \in Session
  BY SessionType DEF FinalInv
<1>2. UNCHANGED <<assessments, jobs, opened>>
  BY DEF InsertVersion, StoreVersion, PointVersion, LosePointer, AuditEdit, Emit, data
<1>3. \A t \in Session : /\ versions[t] \subseteq versions'[t]
                         /\ \A v \in versions'[t] \ versions[t] : v.by = r
  <2>1. CASE InsertVersion(r)
    <3> DEFINE row == [n |-> req[r].version, by |-> r, data |-> req[r].data]
    <3>1. versions' = [versions EXCEPT ![s] = @ \cup {row}]
      BY <2>1 DEF InsertVersion, StoreVersion
    <3>2. row.by = r
      OBVIOUS
    <3> HIDE DEF row
    <3>3. DOMAIN versions = Session
      BY <1>1 DEF TypeOK
    <3>4. \A t \in Session : versions'[t] = versions[t] \/ versions'[t] = versions[t] \cup {row}
      BY <1>1, <3>1, <3>3
    <3>5. QED
      BY <3>2, <3>4
  <2>2. CASE PointVersion(r) \/ LosePointer(r) \/ AuditEdit(r)
    BY <2>2 DEF PointVersion, LosePointer, AuditEdit, Emit, data
  <2>3. QED
    BY <2>1, <2>2
<1>4. Computed'
  BY <1>2, <1>3 DEF FinalInv, Computed
<1>5. req[r].pc \in {"insert_version", "point_version", "audit_edit"} /\ req[r].pc \in Running
  BY DEF InsertVersion, PointVersion, LosePointer, AuditEdit, Emit, At, Running, Editing
<1>6. ASSUME NEW stage \in {"point_version", "audit_edit", "done"}, Goto(r, stage)
      PROVE  Goes(r, stage) /\ Path(r)' /\ Justified(r)' /\ stage \in Stages \ {"idle"}
  <2>1. stage \in Stages \ {"idle"}
    BY StagesAre DEF Ended
  <2>2. Goes(r, stage)
    BY <1>1, <1>6, <2>1, GotoGoes
  <2>3. Path(r)'
    BY <2>2, PathEnds DEF Goes, Editing, Ended
  <2>4. Justified(r)'
    BY <1>1, <1>2, <1>3, <2>2 DEF Justified, Goes
  <2>5. QED
    BY <2>1, <2>2, <2>3, <2>4
<1>7. CASE InsertVersion(r)
  <2>1. Goes(r, "point_version") /\ Path(r)' /\ Justified(r)' /\ "point_version" \in Stages \ {"idle"}
    BY <1>6, <1>7 DEF InsertVersion, StoreVersion
  <2>2. trail' = trail
    BY <1>7 DEF InsertVersion, StoreVersion
  <2>3. WroteVersion(r)'
    <3>1. [n |-> req[r].version, data |-> req[r].data, by |-> r] \in versions'[s]
      BY <1>1, <1>7 DEF InsertVersion, StoreVersion, TypeOK
    <3>2. QED
      BY <2>1, <3>1 DEF WroteVersion, Goes
  <2>4. WroteAssessment(r)' <=> WroteAssessment(r)
    BY <1>2, <2>1 DEF WroteAssessment, Goes
  <2>5. Audited(r)'
    BY <1>1, <1>2, <1>7, <2>1, <2>2, <2>3, <2>4 DEF Audited, At, Goes, InsertVersion
  <2>6. QED
    BY <1>2, <1>3, <1>4, <1>5, <2>1, <2>2, <2>5, WriterStep DEF Goes
<1>8. CASE PointVersion(r) \/ LosePointer(r)
  <2>1. Goes(r, "audit_edit") /\ Path(r)' /\ Justified(r)' /\ "audit_edit" \in Stages \ {"idle"}
    BY <1>6, <1>8 DEF PointVersion, LosePointer
  <2>2. trail' = trail /\ versions' = versions /\ At(r, "point_version")
    BY <1>8 DEF PointVersion, LosePointer, data
  <2>3. (WroteVersion(r)' <=> WroteVersion(r)) /\ (WroteAssessment(r)' <=> WroteAssessment(r))
    BY <1>2, <2>1, <2>2 DEF WroteAssessment, WroteVersion, Goes
  <2>4. Audited(r)'
    BY <1>1, <1>2, <2>1, <2>2, <2>3 DEF Audited, At, Goes
  <2>5. QED
    BY <1>2, <1>3, <1>4, <1>5, <2>1, <2>2, <2>4, WriterStep DEF Goes
<1>9. CASE AuditEdit(r)
  <2>1. Goes(r, "done") /\ Path(r)' /\ Justified(r)' /\ "done" \in Stages \ {"idle"}
    BY <1>6, <1>9 DEF AuditEdit, Emit
  <2>2. trail' = trail \cup {<<"FIELD_CHANGED", r>>} /\ versions' = versions
        /\ At(r, "audit_edit")
    BY <1>9 DEF AuditEdit, Emit
  <2>3. (WroteVersion(r)' <=> WroteVersion(r)) /\ (WroteAssessment(r)' <=> WroteAssessment(r))
    BY <1>2, <2>1, <2>2 DEF WroteAssessment, WroteVersion, Goes
  <2>4. Audited(r)'
    BY <1>1, <1>2, <2>1, <2>2, <2>3 DEF Audited, At, Goes
  <2>5. \E e \in WriteEvents : trail' = trail \cup {<<e, r>>}
    BY <2>2 DEF WriteEvents
  <2>6. QED
    BY <1>2, <1>3, <1>4, <1>5, <2>1, <2>4, <2>5, WriterStep DEF Goes
<1>10. QED
  BY <1>7, <1>8, <1>9

\* computeRiskScore: appended to the assessments of the session.
LEMMA AssessKeeps ==
    ASSUME FinalInv, TypeOK', NEW r \in Request, InsertAssessment(r)
    PROVE  FinalInv'
<1> DEFINE s == req[r].session
           band == BandOf(req[r].data.input)
           rows == assessments[s]
           new == [band |-> band, by |-> r]
<1>1. /\ TypeOK /\ Path(r) /\ Audited(r) /\ Justified(r) /\ s \in Session
      /\ req \in [Request -> RequestState] /\ req[r] \in RequestState
  BY SessionType DEF FinalInv, TypeOK
<1>2. /\ At(r, "insert_assessment") /\ UNCHANGED <<versions, jobs, opened, trail>>
      /\ assessments' = [assessments EXCEPT ![s] = Append(rows, new)]
      /\ req' = [req EXCEPT ![r].pc = "audit_risk", ![r].band = band]
  BY DEF InsertAssessment
<1>3. /\ req[r].pc \in Running /\ IsFinal(s, req[r].step) /\ s \notin Corporate
      /\ \E v \in versions[s] : v.data = req[r].data
  BY <1>1, <1>2 DEF Path, At, Running, Stepping, Finalizing, Assessing
<1>4. /\ rows \in Seq([band : RiskBands, by : Request])
      /\ new \in [band : RiskBands, by : Request]
  BY <1>1 DEF TypeOK, BandOf, DetermineBand, RiskBands
<1>5. PICK last \in Nat : last = Len(rows) + 1
  BY <1>4
<1>6. /\ DOMAIN rows = 1..(last - 1) /\ DOMAIN Append(rows, new) = 1..last
      /\ \A i \in DOMAIN rows : Append(rows, new)[i] = rows[i]
      /\ Append(rows, new)[last] = new
  <2> HIDE DEF rows, new
  <2>1. QED
    BY <1>4, <1>5, AppendProperties
<1>7. /\ assessments'[s] = Append(rows, new)
      /\ \A t \in Session \ {s} : assessments'[t] = assessments[t]
  BY <1>1, <1>2 DEF TypeOK
<1>8. \A t \in Session :
        /\ DOMAIN assessments[t] \subseteq DOMAIN assessments'[t]
        /\ \A i \in DOMAIN assessments[t] : assessments'[t][i] = assessments[t][i]
        /\ \A i \in DOMAIN assessments'[t] \ DOMAIN assessments[t] :
             assessments'[t][i] = new /\ t = s
  <2>1. ASSUME NEW t \in Session, t = s
        PROVE  /\ DOMAIN assessments[t] \subseteq DOMAIN assessments'[t]
               /\ \A i \in DOMAIN assessments[t] : assessments'[t][i] = assessments[t][i]
               /\ \A i \in DOMAIN assessments'[t] \ DOMAIN assessments[t] :
                    assessments'[t][i] = new
    <3> HIDE DEF new
    <3>1. QED
      BY <1>6, <1>7, <2>1
  <2>2. QED
    BY <1>7, <2>1
<1>9. new.band = band /\ new.by = r
  OBVIOUS
<1>10. /\ \A q \in Request \ {r} : req'[q] = req[q]
       /\ req'[r].pc = "audit_risk" /\ req'[r].band = band
       /\ req'[r].session = s /\ req'[r].step = req[r].step
  BY <1>1, <1>2 DEF RequestState
<1>11. Computed'
  <2>1. ASSUME NEW t \in Session, NEW i \in DOMAIN assessments'[t]
        PROVE  \E v \in versions[t] : assessments'[t][i].band = BandOf(v.data.input)
    <3>1. CASE i \in DOMAIN assessments[t]
      BY <1>8, <3>1 DEF FinalInv, Computed
    <3>2. CASE i \notin DOMAIN assessments[t]
      BY <1>3, <1>8, <1>9, <2>1, <3>2
    <3>3. QED
      BY <3>1, <3>2
  <2>2. QED
    BY <1>2, <2>1 DEF Computed
<1>12. last \in DOMAIN assessments'[s] /\ assessments'[s][last] = new
  BY <1>5, <1>6, <1>7
<1> HIDE DEF new, band
<1>13. Path(r)'
  <2>1. Graded(req[r].session, req[r].band)'
    BY <1>9, <1>10, <1>12 DEF Graded
  <2>2. QED
    BY <1>3, <1>10, <2>1 DEF Path, At, Finalizing, Assessing, Screening, Casing
<1>14. WroteAssessment(r)' /\ (WroteVersion(r)' <=> WroteVersion(r))
  BY <1>2, <1>9, <1>10, <1>12 DEF WroteAssessment, WroteVersion
<1>15. Audited(r)'
  BY <1>1, <1>2, <1>10, <1>14 DEF Audited, At
<1>16. Justified(r)'
  BY <1>1, <1>2, <1>8, <1>10 DEF Justified
<1>17. "audit_risk" \in Stages \ {"idle"}
  BY StagesAre
<1>18. /\ \A t \in Session : /\ versions[t] \subseteq versions'[t]
                            /\ \A v \in versions'[t] \ versions[t] : v.by = r
       /\ \A t \in Session :
            /\ DOMAIN assessments[t] \subseteq DOMAIN assessments'[t]
            /\ \A i \in DOMAIN assessments[t] : assessments'[t][i] = assessments[t][i]
            /\ \A i \in DOMAIN assessments'[t] \ DOMAIN assessments[t] :
                 assessments'[t][i].by = r
  BY <1>2, <1>8, <1>9
<1>19. QED
  BY <1>2, <1>3, <1>10, <1>11, <1>13, <1>15, <1>16, <1>17, <1>18, WriterStep

\* A step of screening or of the case, which leaves versions and assessments alone.
LEMMA TailStep ==
    ASSUME FinalInv, TypeOK', NEW r \in Request, NEW stage \in Stages \ {"idle"},
           Goes(r, stage), req[r].pc \in Running, UNCHANGED <<versions, assessments>>,
           trail' = trail \/ \E e \in WriteEvents : trail' = trail \cup {<<e, r>>},
           jobs' = jobs \/ jobs' = jobs \cup {r},
           \A q \in Request \ {r} : opened'[q] = opened[q],
           opened[r] # "none" => opened'[r] # "none",
           Path(r)', Audited(r)', opened'[r] = opened[r] \/ Justified(r)',
           stage = "audit_step" => Finalized(r)'
    PROVE  FinalInv'
<1>1. Computed'
  BY DEF FinalInv, Computed
<1>2. Justified(r)'
  <2>1. CASE opened'[r] = opened[r]
    BY <2>1 DEF FinalInv, Justified, Goes
  <2>2. QED
    BY <2>1
<1>3. QED
  BY <1>1, <1>2, WriterStep DEF Goes

LEMMA ScreenKeeps ==
    ASSUME FinalInv, TypeOK', NEW r \in Request,
           AuditRisk(r) \/ CreateJob(r) \/ AuditScreening(r)
    PROVE  FinalInv'
<1> DEFINE s == req[r].session
<1>1. TypeOK /\ Path(r) /\ Audited(r) /\ s \in Session
  BY SessionType DEF FinalInv
<1>2. UNCHANGED <<versions, assessments, opened>>
  BY DEF AuditRisk, CreateJob, AuditScreening, Emit
<1>3. req[r].pc \in Screening /\ req[r].pc \in Running
  BY DEF AuditRisk, CreateJob, AuditScreening, Emit, At, Screening, Running, Stepping, Finalizing
<1>4. IsFinal(s, req[r].step) /\ s \notin Corporate /\ Graded(s, req[r].band)
  BY <1>1, <1>3 DEF Path, Screening, Finalizing
<1>5. ASSUME NEW stage \in {"create_job", "audit_screening", "find_case"}, Goto(r, stage),
             stage = "find_case" => r \in jobs'
      PROVE  /\ Goes(r, stage) /\ Path(r)' /\ stage \in Stages \ {"idle"}
             /\ (WroteVersion(r)' <=> WroteVersion(r))
             /\ (WroteAssessment(r)' <=> WroteAssessment(r))
  <2>1. stage \in Stages \ {"idle"}
    BY StagesAre
  <2>2. Goes(r, stage)
    BY <1>1, <1>5, <2>1, GotoGoes
  <2>3. Graded(s, req[r].band)'
    BY <1>2, <1>4, <2>2 DEF Goes, Graded
  <2>4. Path(r)'
    BY <1>4, <1>5, <2>2, <2>3 DEF Path, Goes, At, Finalizing, Assessing, Screening, Casing
  <2>5. QED
    BY <1>2, <2>1, <2>2, <2>4 DEF WroteVersion, WroteAssessment, Goes
<1>6. CASE AuditRisk(r)
  <2>1. /\ Goto(r, "create_job") /\ At(r, "audit_risk") /\ UNCHANGED jobs
        /\ trail' = trail \cup {<<"RISK_SCORE_COMPUTED", r>>}
    BY <1>6 DEF AuditRisk, Emit
  <2>2. Audited(r)'
    BY <1>1, <1>2, <1>5, <2>1 DEF Audited, At, Goes
  <2>3. \E e \in WriteEvents : trail' = trail \cup {<<e, r>>}
    BY <2>1 DEF WriteEvents
  <2>4. QED
    BY <1>2, <1>3, <1>5, <2>1, <2>2, <2>3, TailStep
<1>7. CASE CreateJob(r)
  <2>1. /\ Goto(r, "audit_screening") /\ At(r, "create_job") /\ jobs' = jobs \cup {r}
        /\ trail' = trail
    BY <1>7 DEF CreateJob
  <2>2. Audited(r)'
    BY <1>1, <1>2, <1>5, <2>1 DEF Audited, At, Goes
  <2>3. QED
    BY <1>2, <1>3, <1>5, <2>1, <2>2, TailStep
<1>8. CASE AuditScreening(r)
  <2>1. /\ Goto(r, "find_case") /\ At(r, "audit_screening") /\ UNCHANGED jobs
        /\ trail' = trail \cup {<<"SCREENING_INITIATED", r>>}
    BY <1>8 DEF AuditScreening, Emit
  <2>2. r \in jobs'
    BY <1>1, <2>1 DEF Audited
  <2>3. Audited(r)'
    BY <1>1, <1>2, <1>5, <2>1, <2>2 DEF Audited, At, Goes
  <2>4. \E e \in WriteEvents : trail' = trail \cup {<<e, r>>}
    BY <2>1 DEF WriteEvents
  <2>5. QED
    BY <1>2, <1>3, <1>5, <2>1, <2>2, <2>3, <2>4, TailStep
<1>9. QED
  BY <1>6, <1>7, <1>8

\* openCase: the queue is the one of the assessment the request found or made.
LEMMA CaseKeeps ==
    ASSUME FinalInv, TypeOK', NEW r \in Request,
           OpenCase(r) \/ CaseEvent(r) \/ AuditCase(r)
    PROVE  FinalInv'
<1> DEFINE s == req[r].session
<1>1. TypeOK /\ Path(r) /\ Audited(r) /\ s \in Session /\ opened \in [Request -> Queues \cup {"none"}]
  BY SessionType DEF FinalInv, TypeOK
<1>2. UNCHANGED <<versions, assessments, jobs>>
  BY DEF OpenCase, CaseEvent, RecordCaseEvent, AuditCase, Emit
<1>3. req[r].pc \in {"open_case", "case_event", "audit_case"} /\ req[r].pc \in Running
      /\ req[r].pc \in Casing
  BY DEF OpenCase, CaseEvent, RecordCaseEvent, AuditCase, Emit, At, Casing, Running, Stepping,
         Finalizing
<1>4. IsFinal(s, req[r].step) /\ (s \notin Corporate => Graded(s, req[r].band) /\ r \in jobs)
  BY <1>1, <1>3 DEF Path, Casing, Finalizing
<1>5. ASSUME NEW stage \in {"case_event", "audit_case", "audit_step"}, Goto(r, stage)
      PROVE  /\ Goes(r, stage) /\ Path(r)' /\ stage \in Stages \ {"idle"}
             /\ (WroteVersion(r)' <=> WroteVersion(r))
             /\ (WroteAssessment(r)' <=> WroteAssessment(r))
  <2>1. stage \in Stages \ {"idle"}
    BY StagesAre
  <2>2. Goes(r, stage)
    BY <1>1, <1>5, <2>1, GotoGoes
  <2>3. Graded(s, req[r].band) => Graded(s, req[r].band)'
    BY <1>2, <2>2 DEF Goes, Graded
  <2>4. Path(r)'
    BY <1>2, <1>4, <1>5, <2>2, <2>3
       DEF Path, Goes, At, Finalizing, Assessing, Screening, Casing
  <2>5. QED
    BY <1>2, <2>1, <2>2, <2>4 DEF WroteVersion, WroteAssessment, Goes
<1>6. CASE OpenCase(r)
  <2>1. /\ Goto(r, "case_event") /\ At(r, "open_case") /\ trail' = trail
        /\ opened' = [opened EXCEPT ![r] = QueueFor(r)]
    BY <1>6 DEF OpenCase
  <2>2. /\ opened'[r] = QueueFor(r) /\ opened'[r] # "none"
        /\ \A q \in Request \ {r} : opened'[q] = opened[q]
    BY <1>1, <2>1 DEF Path
  <2>3. Audited(r)'
    BY <1>1, <1>2, <1>5, <2>1, <2>2 DEF Audited, At, Goes
  <2>4. Justified(r)'
    <3>1. /\ req'[r].session = s /\ req'[r].step = req[r].step
      BY <1>5, <2>1 DEF Goes
    <3>2. CASE s \in Corporate
      BY <1>4, <2>2, <3>1, <3>2 DEF Justified, QueueFor
    <3>3. CASE s \notin Corporate
      <4>1. PICK i \in DOMAIN assessments[s] : assessments[s][i].band = req[r].band
        BY <1>4, <3>3 DEF Graded
      <4>2. PICK v \in versions[s] : assessments[s][i].band = BandOf(v.data.input)
        BY <1>1 DEF FinalInv, Computed
      <4>3. opened'[r] = RiskBandToQueue(assessments[s][i].band)
        BY <2>2, <3>3, <4>1 DEF QueueFor
      <4>4. QED
        BY <1>2, <1>4, <3>1, <3>3, <4>2, <4>3 DEF Justified
    <3>4. QED
      BY <3>2, <3>3
  <2>5. QED
    BY <1>2, <1>3, <1>5, <2>1, <2>2, <2>3, <2>4, TailStep
<1>7. CASE CaseEvent(r)
  <2>1. /\ Goto(r, "audit_case") /\ At(r, "case_event") /\ trail' = trail /\ opened' = opened
    BY <1>7 DEF CaseEvent, RecordCaseEvent
  <2>2. Audited(r)'
    BY <1>1, <1>2, <1>5, <2>1 DEF Audited, At, Goes
  <2>3. QED
    BY <1>2, <1>3, <1>5, <2>1, <2>2, TailStep
<1>8. CASE AuditCase(r)
  <2>1. /\ Goto(r, "audit_step") /\ At(r, "audit_case") /\ opened' = opened
        /\ trail' = trail \cup {<<"CASE_CREATED", r>>}
    BY <1>8 DEF AuditCase, Emit
  <2>2. opened[r] # "none"
    BY <1>1, <2>1 DEF Audited
  <2>3. Audited(r)'
    BY <1>1, <1>2, <1>5, <2>1, <2>2 DEF Audited, At, Goes
  <2>4. Finalized(r)'
    <3>1. req'[r].session = s /\ opened'[r] # "none"
      BY <1>5, <2>1, <2>2 DEF Goes
    <3>2. CasesOf(req[r].session)' # {}
      BY <3>1 DEF CasesOf
    <3>3. s \notin Corporate => assessments[s] # <<>> /\ r \in jobs
      BY <1>4 DEF Graded
    <3>4. QED
      BY <1>2, <3>1, <3>2, <3>3 DEF Finalized
  <2>5. \E e \in WriteEvents : trail' = trail \cup {<<e, r>>}
    BY <2>1 DEF WriteEvents
  <2>6. QED
    BY <1>2, <1>3, <1>5, <2>1, <2>3, <2>4, <2>5, TailStep
<1>9. QED
  BY <1>6, <1>7, <1>8

\* The last audit row, after which the request does nothing more.
LEMMA DoneKeeps ==
    ASSUME FinalInv, TypeOK', NEW r \in Request, AuditStep(r)
    PROVE  FinalInv'
<1>1. TypeOK /\ Path(r) /\ Audited(r) /\ Justified(r) /\ Submitted(r)
  BY DEF FinalInv
<1>2. /\ At(r, "audit_step") /\ Goto(r, "done")
      /\ trail' = trail \cup {<<"SESSION_STEP_SUBMITTED", r>>}
      /\ UNCHANGED <<versions, assessments, jobs, opened>>
  BY DEF AuditStep, Emit
<1>3. Goes(r, "done")
  BY <1>1, <1>2, GotoGoes, StagesAre DEF Ended
<1>4. \A e \in WriteEvents : <<e, r>> \in trail' <=> <<e, r>> \in trail
  BY <1>2 DEF WriteEvents
<1>5. (WroteVersion(r)' <=> WroteVersion(r)) /\ (WroteAssessment(r)' <=> WroteAssessment(r))
  BY <1>2, <1>3 DEF WroteVersion, WroteAssessment, Goes
<1>6. Adds(r)
  BY <1>2, <1>3 DEF Adds, Goes
<1>7. Computed'
  BY <1>2 DEF FinalInv, Computed
<1>8. Path(r)'
  BY <1>3, PathEnds DEF Goes, Ended
<1>9. Submitted(r)'
  <2>1. IsFinal(req[r].session, req[r].step) => Finalized(r)
    BY <1>1, <1>2 DEF Submitted
  <2>2. CasesOf(req[r].session) # {} => CasesOf(req[r].session)' # {}
    BY <1>2, <1>3 DEF CasesOf, Goes
  <2>3. Finalized(r) => Finalized(r)'
    BY <1>2, <1>3, <2>2 DEF Finalized, Goes
  <2>4. QED
    BY <1>3, <2>1, <2>3 DEF Submitted, At, Goes
<1>10. Fresh(r)'
  BY <1>3 DEF Fresh, At, Goes
<1>11. Audited(r)'
  <2>1. /\ <<"FIELD_CHANGED", r>> \in trail' <=> <<"FIELD_CHANGED", r>> \in trail
        /\ <<"RISK_SCORE_COMPUTED", r>> \in trail' <=> <<"RISK_SCORE_COMPUTED", r>> \in trail
        /\ <<"SCREENING_INITIATED", r>> \in trail' <=> <<"SCREENING_INITIATED", r>> \in trail
        /\ <<"CASE_CREATED", r>> \in trail' <=> <<"CASE_CREATED", r>> \in trail
    BY <1>4 DEF WriteEvents
  <2>2. QED
    BY <1>1, <1>2, <1>3, <1>5, <2>1 DEF Audited, At, Goes
<1>12. Justified(r)'
  BY <1>1, <1>2, <1>3 DEF Justified, Goes
<1>13. QED
  BY <1>6, <1>7, <1>8, <1>9, <1>10, <1>11, <1>12, StepKeeps
-----------------------------------------------------------------------------
LEMMA InitFinal ==
    ASSUME Init PROVE FinalInv
<1>1. TypeOK
  BY InitialType
<1>2. \A r \in Request : req[r].pc = "idle"
  BY DEF Init
<1>3. \A s \in Session : assessments[s] = <<>>
  BY DEF Init
<1>4. \A s \in Session : \A v \in versions[s] : v.by = None
  BY DEF Init
<1>5. Computed
  BY <1>3 DEF Computed
<1>6. ASSUME NEW r \in Request PROVE Path(r) /\ Submitted(r) /\ Fresh(r) /\ Audited(r) /\ Justified(r)
  <2>1. trail = {} /\ jobs = {} /\ opened[r] = "none"
    BY DEF Init
  <2>2. req[r].session \in Session
    BY <1>1, SessionType
  <2>3. ~WroteVersion(r) /\ ~WroteAssessment(r)
    BY <1>3, <1>4, <2>2, OnboardingAssumption DEF WroteVersion, WroteAssessment
  <2>4. Fresh(r)
    BY <1>3, <1>4, <2>1, OnboardingAssumption DEF Fresh
  <2>5. Path(r)
    BY <1>2 DEF Path, At, Finalizing, Assessing, Screening, Casing
  <2>6. QED
    BY <1>2, <2>1, <2>3, <2>4, <2>5 DEF Submitted, Audited, Justified, At
<1>7. QED
  BY <1>1, <1>5, <1>6 DEF FinalInv

\* Every step of every request preserves the invariant.
LEMMA StepFinal ==
    ASSUME FinalInv, NEW r \in Request,
           InitiateStep(r) \/ EditStep(r) \/ SubmitStep(r) \/ Deny(r) \/ Abort(r)
    PROVE  FinalInv'
<1>1. TypeOK'
  BY StepType DEF FinalInv
<1>2. CASE InitiateStep(r)
  BY <1>1, <1>2, InitiateKeeps
<1>3. CASE EditStep(r)
  <2>1. CASE VersionConflict(r)
    BY <1>1, <2>1, EndKeeps
       DEF VersionConflict, At, Running, Editing, Unaudited
  <2>2. QED
    BY <1>1, <1>3, <2>1, BeginKeeps, VersionKeeps DEF EditStep
<1>4. CASE SubmitStep(r)
  <2>1. CASE NoName(r)
    BY <1>1, <2>1, EndKeeps DEF NoName, At, Running, Stepping, Finalizing, Unaudited
  <2>2. CASE StartStep(r) \/ Reread(r) \/ Advance(r)
    BY <1>1, <2>2, BeginKeeps, AdvanceKeeps
  <2>3. CASE MarkCustomer(r) \/ MarkBusiness(r) \/ AuditMark(r) \/ LoadData(r)
             \/ FindAssessment(r) \/ InsertAssessment(r)
    BY <1>1, <2>3, MarkKeeps, LoadKeeps, FindAssessmentKeeps, AssessKeeps
  <2>4. CASE AuditRisk(r) \/ CreateJob(r) \/ AuditScreening(r) \/ FindCase(r)
    BY <1>1, <2>4, ScreenKeeps, FindCaseKeeps
  <2>5. CASE OpenCase(r) \/ CaseEvent(r) \/ AuditCase(r) \/ AuditStep(r)
    BY <1>1, <2>5, CaseKeeps, DoneKeeps
  <2>6. QED
    BY <1>4, <2>1, <2>2, <2>3, <2>4, <2>5 DEF SubmitStep
<1>5. CASE Deny(r)
  <2>1. req[r].pc \in Running \ Unaudited
    BY <1>5 DEF Deny, GuardedStage, At, Running, Stepping, Finalizing, Unaudited
  <2>2. QED
    BY <1>1, <1>5, <2>1, EndKeeps DEF Deny
<1>6. CASE Abort(r)
  BY <1>1, <1>6, AbortKeeps
<1>7. QED
  BY <1>2, <1>3, <1>4, <1>5, <1>6

LEMMA FinalStutters ==
    ASSUME FinalInv, UNCHANGED vars PROVE FinalInv'
<1>1. TypeOK'
  BY DEF FinalInv, TypeOK, vars
<1>2. Computed'
  BY DEF FinalInv, Computed, vars
<1>3. ASSUME NEW r \in Request
      PROVE  Path(r)' /\ Submitted(r)' /\ Fresh(r)' /\ Audited(r)' /\ Justified(r)'
  <2>1. UNCHANGED <<req, versions, assessments, jobs, opened, trail>>
    BY DEF vars
  <2>2. Path(r) /\ Submitted(r) /\ Fresh(r) /\ Audited(r) /\ Justified(r)
    BY DEF FinalInv
  <2>3. Path(r)' /\ Fresh(r)' /\ Justified(r)'
    BY <2>1, <2>2 DEF Path, Fresh, Justified, At, QueueFor, Graded
  <2>4. Submitted(r)' /\ Audited(r)'
    BY <2>1, <2>2
       DEF Submitted, Audited, At, Finalized, CasesOf, WroteVersion, WroteAssessment,
           AtMostOneLacks, LacksVersion, LacksAssessment, LacksJob, LacksCase
  <2>5. QED
    BY <2>3, <2>4
<1>4. QED
  BY <1>1, <1>2, <1>3 DEF FinalInv

LEMMA FinalInvariant == Spec => []FinalInv
<1>1. ASSUME FinalInv, [Next]_vars PROVE FinalInv'
  <2>1. CASE UNCHANGED vars
    BY <1>1, <2>1, FinalStutters
  <2>2. CASE Next
    BY <1>1, <2>2, StepFinal DEF Next
  <2>3. QED
    BY <1>1, <2>1, <2>2
<1>2. Init => FinalInv
  BY InitFinal
<1>3. QED
  BY <1>1, <1>2, PTL DEF Spec
-----------------------------------------------------------------------------
\* submitStep, finalizeSubmittedSession: whatever other requests do meanwhile, an answer of
\* 200 to a final step means that the customer was assessed, screened and, unless the risk
\* is low, is in the queue of the reviewers.
THEOREM AnsweredMeansFinalized == Spec => []FinalizationComplete
<1>1. FinalInv => FinalizationComplete
  BY DEF FinalInv, Submitted, FinalizationComplete
<1>2. QED
  BY <1>1, FinalInvariant, PTL

\* openCase is called by finalisation only: no case without a screening job of the same
\* request and the assessment of a recorded version that calls for its queue.
THEOREM CasesAreJustified == Spec => []CaseIsJustified
<1>1. FinalInv => CaseIsJustified
  BY DEF FinalInv, Justified, CaseIsJustified
<1>2. QED
  BY <1>1, FinalInvariant, PTL
-----------------------------------------------------------------------------
(* Overlapping requests: what the history variable of RequestOverlap has   *)
(* to do with the anomalies of the read-then-write code.                   *)

\* The stages of initiateSession before the session is there, and of submitStep before it
\* is advanced.
Starting == {"create_business", "audit_kyb", "create_session"}
Stepped  == {"reread", "advance"}

\* advanceSession has written what the request asks for.
Advanced(r) == req[r].pc \in Finalizing \cup {"audit_step"} \/ Saved(r)

Conflicted(r) == \E q \in Request : Overlap(q, r)

\* Who is in the history of a request has ended, and the request has begun.
Sequenced ==
    /\ after \in [Request -> SUBSET Request]
    /\ \A r \in Request : after[r] # {} => ~At(r, "idle")
    /\ \A r \in Request : \A q \in after[r] : req[q].pc \in Ended

\* A session is absent until the one request that initiates it creates it.
Initiated ==
    /\ \A s \in Session : customer[s] = "none" => session[s].status = "absent"
    /\ \A r \in Request : req[r].pc \in Starting =>
         customer[req[r].session] # "none" /\ session[req[r].session].status = "absent"
    /\ \A q, r \in Request :
         req[q].pc \in Starting /\ req[r].pc \in Starting /\ req[q].session = req[r].session
           => q = r
    /\ \A r \in Request : req[r].pc \in Stepped => session[req[r].session].status # "absent"

\* A step that was written is still there, or somebody overlapped.
Effective(r) ==
    Advanced(r) =>
      /\ req[r].step \in session[req[r].session].done \/ Conflicted(r)
      /\ IsFinal(req[r].session, req[r].step) =>
           session[req[r].session].status = "submitted" \/ Conflicted(r)

\* Whoever opened a case after the look for one overlaps.
Sole(r) == At(r, "open_case") => \A q \in CasesOf(req[r].session) : Overlap(q, r)

\* A request that will write knows what those that ended before it began have written, and
\* none of those was the last step, or somebody overlapped.
Informed(p) ==
    \A r \in after[p] :
      req[r].session = req[p].session /\ Saved(r) =>
        \/ Conflicted(r)
        \/ /\ At(p, "advance") => req[r].step \in req[p].seen
           /\ req[p].pc \in Stepped => ~IsFinal(req[r].session, req[r].step)

OverlapInv ==
    /\ FinalInv /\ Sequenced /\ Initiated /\ OneCaseUnlessOverlap
    /\ \A r \in Request : Effective(r) /\ Sole(r) /\ Informed(r)
-----------------------------------------------------------------------------
(* The kinds of step, as far as this invariant is concerned.               *)

SubmittedRow(r) == <<"SESSION_STEP_SUBMITTED", r>>

\* One request moves, and keeps its session and step once it has begun.
Moves(p) ==
    /\ \A q \in Request \ {p} : /\ req'[q] = req[q] /\ opened'[q] = opened[q]
                                /\ SubmittedRow(q) \in trail' <=> SubmittedRow(q) \in trail
    /\ req[p].pc \in {"idle"} \cup Running /\ req'[p].pc \in Running \cup Ended
    /\ ~At(p, "idle") => req'[p].session = req[p].session /\ req'[p].step = req[p].step

\* StartInitiate
Initiates(p) ==
    /\ At(p, "idle") /\ UNCHANGED <<session, opened>>
    /\ req'[p].pc \in Starting /\ req'[p].session \in Session
    /\ customer[req'[p].session] = "none"
    /\ customer' = [customer EXCEPT ![req'[p].session] = "pending"]

\* ReadVersion, StartStep
Enters(p) ==
    /\ At(p, "idle") /\ UNCHANGED <<customer, session, opened>>
    /\ req'[p].pc \in {"insert_version", "reread", "conflict"} /\ req'[p].session \in Session
    /\ session[req'[p].session].status # "absent"
    /\ req'[p].pc = "reread" => session[req'[p].session].status # "submitted"

\* CreateSession
Creates(p) ==
    /\ At(p, "create_session") /\ UNCHANGED <<customer, opened>>
    /\ req'[p].pc = "audit_initiated"
    /\ session' = [session EXCEPT ![req[p].session].status = "in_progress"]

Rereads(p) ==
    /\ At(p, "reread") /\ UNCHANGED <<customer, session, opened>>
    /\ req'[p].pc = "advance" /\ req'[p].seen = session[req[p].session].done

Advances(p) ==
    /\ At(p, "advance") /\ UNCHANGED <<customer, opened>>
    /\ req'[p].pc \in {"mark_customer", "audit_step"}
    /\ session' = [session EXCEPT ![req[p].session] =
                     [status |-> IF IsFinal(req[p].session, req[p].step) THEN "submitted"
                                 ELSE "in_progress",
                      current |-> NextCurrent(p), done |-> req[p].seen \cup {req[p].step}]]

\* FindCase, when there is none
Misses(p) ==
    /\ At(p, "find_case") /\ UNCHANGED <<customer, session, opened>>
    /\ req'[p].pc = "open_case" /\ CasesOf(req[p].session) = {}

Opens(p) ==
    /\ At(p, "open_case") /\ UNCHANGED <<customer, session>>
    /\ req'[p].pc = "case_event"

\* All others.
Passes(p) ==
    /\ ~At(p, "idle") /\ UNCHANGED <<session, opened>>
    /\ \A s \in Session : customer'[s] = "none" => customer[s] = "none"
    /\ req'[p].pc \notin Stepped \cup {"open_case"}
    /\ req'[p].pc \in Starting => req[p].pc \in Starting
    /\ Advanced(p)' => Advanced(p)

StepKind(p) == \/ Initiates(p) \/ Enters(p) \/ Creates(p) \/ Rereads(p) \/ Advances(p)
               \/ Misses(p) \/ Opens(p) \/ Passes(p)

\* What GotoGoes says of Goto, of the assignments too that set more of the request.
Keeps(p, stage) ==
    /\ \A q \in Request \ {p} : req'[q] = req[q]
    /\ req'[p].pc = stage /\ req'[p].session = req[p].session /\ req'[p].step = req[p].step

LEMMA PassingStep ==
    ASSUME FinalInv, NEW p \in Request, NEW stage \in Running \cup Ended, Keeps(p, stage),
           stage \notin Stepped \cup {"open_case"}, req[p].pc \in Running,
           UNCHANGED <<session, opened>>,
           \A s \in Session : customer'[s] = "none" => customer[s] = "none",
           \/ trail' = trail
           \/ \E e \in AuditType : /\ trail' = trail \cup {<<e, p>>}
                                   /\ e = "SESSION_STEP_SUBMITTED" => At(p, "audit_step"),
           stage \in Starting => req[p].pc \in Starting,
           stage \in Finalizing \cup {"audit_step"} => req[p].pc \in Finalizing \cup {"audit_step"}
    PROVE  Moves(p) /\ Passes(p)
<1>1. ~At(p, "idle") /\ ~At(p, "done")
  BY DEF At, Running, Initiating, Editing, Stepping, Finalizing
<1>2. Moves(p)
  BY DEF Moves, Keeps, SubmittedRow
<1>3. Advanced(p)' => Advanced(p)
  <2>1. CASE stage \in Finalizing \cup {"audit_step"}
    BY <2>1 DEF Advanced
  <2>2. CASE stage \notin Finalizing \cup {"audit_step"}
    <3>1. SUFFICES ASSUME SubmittedRow(p) \in trail' PROVE Advanced(p)
      BY <2>2 DEF Advanced, Saved, Keeps, SubmittedRow
    <3>2. SubmittedRow(p) \notin trail
      BY <1>1 DEF FinalInv, Submitted, SubmittedRow
    <3>3. At(p, "audit_step")
      BY <3>1, <3>2 DEF SubmittedRow
    <3>4. QED
      BY <3>3 DEF Advanced, At
  <2>3. QED
    BY <2>1, <2>2
<1>4. QED
  BY <1>1, <1>2, <1>3 DEF Passes, Keeps

\* The stages a handler goes to, and what these sets say of them.
LEMMA RunningStages ==
    /\ Running \cup Ended \subseteq Stages
    /\ Starting \subseteq Running /\ Stepped \subseteq Running /\ Finalizing \subseteq Running
    /\ Editing \subseteq Running /\ "audit_step" \in Running /\ "audit_initiated" \in Running
    /\ "idle" \notin Running /\ "idle" \notin Ended
    /\ \A stage \in Running : stage \notin Ended
  BY DEF Stages, Running, Ended, Starting, Stepped, Initiating, Editing, Stepping, Finalizing

LEMMA GotoSteps ==
    ASSUME FinalInv, NEW p \in Request, NEW stage \in Running \cup Ended, Goto(p, stage)
    PROVE  Keeps(p, stage)
  BY GotoGoes, RunningStages DEF FinalInv, Goes, Keeps

LEMMA InitiateKind ==
    ASSUME FinalInv, NEW p \in Request, InitiateStep(p)
    PROVE  Moves(p) /\ StepKind(p)
<1>1. TypeOK /\ req \in [Request -> RequestState] /\ req[p] \in RequestState
  BY SessionType DEF FinalInv, TypeOK
<1>2. CASE StartInitiate(p)
  <2>1. PICK s \in Session :
          /\ customer[s] = "none"
          /\ customer' = [customer EXCEPT ![s] = "pending"]
          /\ req' = [req EXCEPT ![p].session = s,
                                ![p].pc = IF s \in Corporate THEN "create_business"
                                          ELSE "create_session"]
    BY <1>2 DEF StartInitiate
  <2>2. /\ req'[p].session = s /\ req'[p].pc \in {"create_business", "create_session"}
        /\ \A q \in Request \ {p} : req'[q] = req[q]
    BY <1>1, <2>1 DEF RequestState
  <2>3. Initiates(p)
    BY <1>2, <2>1, <2>2 DEF Initiates, StartInitiate, Starting
  <2>4. Moves(p)
    BY <1>2, <2>2 DEF Moves, StartInitiate, At, Running, Initiating
  <2>5. QED
    BY <2>3, <2>4 DEF StepKind
<1>3. CASE CreateSession(p)
  <2>1. Keeps(p, "audit_initiated")
    BY <1>3, GotoSteps, RunningStages DEF CreateSession
  <2>2. Moves(p)
    BY <1>3, <2>1 DEF Moves, Keeps, CreateSession, At, Running, Initiating
  <2>3. Creates(p)
    BY <1>3, <2>1 DEF Creates, Keeps, CreateSession
  <2>4. QED
    BY <2>2, <2>3 DEF StepKind
<1>4. CASE CreateBusiness(p) \/ AuditKyb(p) \/ AuditInitiated(p)
  <2>1. /\ req[p].pc \in Initiating /\ UNCHANGED <<session, customer, opened>>
        /\ \/ trail' = trail
           \/ \E e \in AuditType : /\ trail' = trail \cup {<<e, p>>}
                                   /\ e # "SESSION_STEP_SUBMITTED"
    BY <1>4 DEF CreateBusiness, AuditKyb, AuditInitiated, Emit, AuditType, At, Initiating
  <2>2. PICK stage \in {"audit_kyb", "create_session", "done"} :
          Goto(p, stage) /\ (stage # "done" => req[p].pc \in Starting)
    BY <1>4 DEF CreateBusiness, AuditKyb, AuditInitiated, Emit, Starting, At
  <2>3. /\ stage \in Running \cup Ended /\ stage \notin Stepped \cup {"open_case"}
        /\ stage \notin Finalizing \cup {"audit_step"} /\ ("done" \notin Starting)
    BY DEF Running, Initiating, Ended, Stepped, Finalizing, Starting
  <2>4. Keeps(p, stage) /\ req[p].pc \in Running
    BY <2>1, <2>2, <2>3, GotoSteps DEF Running
  <2>5. QED
    BY <2>1, <2>2, <2>3, <2>4, PassingStep DEF StepKind
<1>5. QED
  BY <1>2, <1>3, <1>4 DEF InitiateStep

LEMMA EditKind ==
    ASSUME FinalInv, NEW p \in Request, EditStep(p)
    PROVE  Moves(p) /\ StepKind(p)
<1>1. TypeOK /\ req \in [Request -> RequestState] /\ req[p] \in RequestState
  BY SessionType DEF FinalInv, TypeOK
<1>2. CASE ReadVersion(p)
  <2>1. PICK s \in Session, d \in Profile \cup {None} :
          /\ session[s].status # "absent"
          /\ req' = [req EXCEPT ![p].pc = "insert_version", ![p].session = s,
                                ![p].data = d, ![p].version = pointer[s] + 1]
    BY <1>2 DEF ReadVersion
  <2>2. /\ req'[p].session = s /\ req'[p].pc = "insert_version"
        /\ \A q \in Request \ {p} : req'[q] = req[q]
    BY <1>1, <2>1 DEF RequestState
  <2>3. UNCHANGED <<customer, session, opened, trail>> /\ At(p, "idle")
    BY <1>2 DEF ReadVersion, data
  <2>4. Enters(p)
    BY <2>1, <2>2, <2>3 DEF Enters
  <2>5. Moves(p)
    BY <2>2, <2>3 DEF Moves, At, Running, Editing
  <2>6. QED
    BY <2>4, <2>5 DEF StepKind
<1>3. CASE \/ InsertVersion(p) \/ VersionConflict(p) \/ PointVersion(p) \/ LosePointer(p)
           \/ AuditEdit(p)
  <2>1. req[p].pc \in Editing /\ UNCHANGED <<session, opened>>
    BY <1>3 DEF InsertVersion, StoreVersion, VersionConflict, PointVersion, LosePointer,
       AuditEdit, Emit, data, At, Editing
  <2>2. \/ trail' = trail
        \/ \E e \in AuditType : /\ trail' = trail \cup {<<e, p>>}
                                /\ e # "SESSION_STEP_SUBMITTED"
    BY <1>3 DEF InsertVersion, StoreVersion, VersionConflict, PointVersion, LosePointer,
       AuditEdit, Emit, data, AuditType
  <2>3. PICK stage \in {"point_version", "conflict", "audit_edit", "done"} : Goto(p, stage)
    BY <1>3 DEF InsertVersion, StoreVersion, VersionConflict, PointVersion, LosePointer,
       AuditEdit, Emit
  <2>4. /\ stage \in Running \cup Ended /\ stage \notin Stepped \cup {"open_case"}
        /\ stage \notin Finalizing \cup {"audit_step"} /\ stage \notin Starting
    BY DEF Running, Editing, Ended, Stepped, Finalizing, Starting
  <2>5. Keeps(p, stage) /\ req[p].pc \in Running
    BY <2>1, <2>3, <2>4, GotoSteps DEF Running
  <2>6. \A s \in Session : customer'[s] = "none" => customer[s] = "none"
    <3>1. CASE PointVersion(p)
      <4>1. \/ customer' = customer
            \/ customer' = [customer EXCEPT ![req[p].session] = "in_progress"]
        BY <3>1 DEF PointVersion
      <4>2. QED
        BY <1>1, <4>1 DEF TypeOK
    <3>2. CASE ~PointVersion(p)
      BY <1>3, <3>2 DEF InsertVersion, StoreVersion, VersionConflict, LosePointer, AuditEdit,
         Emit, data
    <3>3. QED
      BY <3>1, <3>2
  <2>7. QED
    BY <2>1, <2>2, <2>4, <2>5, <2>6, PassingStep DEF StepKind
<1>4. QED
  BY <1>2, <1>3 DEF EditStep

\* A handler's stage that is a stage of finalisation, but not the case's.
LEMMA SubmitKind ==
    ASSUME FinalInv, NEW p \in Request, SubmitStep(p)
    PROVE  Moves(p) /\ StepKind(p)
<1>1. TypeOK /\ req \in [Request -> RequestState] /\ req[p] \in RequestState
  BY SessionType DEF FinalInv, TypeOK
<1>2. CASE StartStep(p)
  <2>1. PICK s \in Session :
          /\ session[s].status # "absent"
          /\ \E step \in Steps(s) :
               Begin(p, s, step, IF session[s].status = "submitted" THEN "conflict" ELSE "reread")
    BY <1>2 DEF StartStep, CallStep
  <2> DEFINE stage == IF session[s].status = "submitted" THEN "conflict" ELSE "reread"
  <2>2. PICK step : /\ req' = [req EXCEPT ![p].session = s, ![p].step = step, ![p].pc = stage]
                    /\ UNCHANGED data
    BY <2>1 DEF Begin
  <2>3. stage \in {"conflict", "reread"} /\ (stage = "reread" => session[s].status # "submitted")
    OBVIOUS
  <2> HIDE DEF stage
  <2>4. /\ req'[p].session = s /\ req'[p].pc = stage
        /\ \A q \in Request \ {p} : req'[q] = req[q]
    BY <1>1, <2>2 DEF RequestState
  <2>5. UNCHANGED <<customer, session, opened, trail>> /\ At(p, "idle")
    BY <1>2, <2>2 DEF StartStep, CallStep, data
  <2>6. Enters(p)
    BY <2>1, <2>3, <2>4, <2>5 DEF Enters
  <2>7. Moves(p)
    BY <2>3, <2>4, <2>5 DEF Moves, At, Running, Stepping, Ended
  <2>8. QED
    BY <2>6, <2>7 DEF StepKind
<1>3. CASE Reread(p)
  <2>1. /\ req' = [req EXCEPT ![p].pc = "advance", ![p].seen = session[req[p].session].done]
        /\ UNCHANGED <<customer, session, opened, trail>> /\ At(p, "reread")
    BY <1>3 DEF Reread, data
  <2>2. /\ Keeps(p, "advance") /\ req'[p].seen = session[req[p].session].done
    BY <1>1, <2>1 DEF Keeps, RequestState
  <2>3. Rereads(p)
    BY <2>1, <2>2 DEF Rereads, Keeps
  <2>4. Moves(p)
    BY <2>1, <2>2 DEF Moves, Keeps, At, Running, Stepping
  <2>5. QED
    BY <2>3, <2>4 DEF StepKind
<1>4. CASE Advance(p)
  <2> DEFINE final == IsFinal(req[p].session, req[p].step)
             stage == IF ~final THEN "audit_step" ELSE "mark_customer"
             row == [status |-> IF final THEN "submitted" ELSE "in_progress",
                     current |-> NextCurrent(p), done |-> req[p].seen \cup {req[p].step}]
  <2>1. /\ At(p, "advance") /\ UNCHANGED <<customer, opened, trail>>
        /\ session' = [session EXCEPT ![req[p].session] = row]
        /\ req' = [req EXCEPT ![p].seen = {}, ![p].pc = stage]
    BY <1>4 DEF Advance, AdvanceTo
  <2>2. stage \in {"mark_customer", "audit_step"}
    OBVIOUS
  <2>3. Advances(p) <=> req'[p].pc \in {"mark_customer", "audit_step"}
    BY <2>1 DEF Advances
  <2> HIDE DEF final, stage, row
  <2>4. Keeps(p, stage)
    BY <1>1, <2>1 DEF Keeps, RequestState
  <2>5. Moves(p)
    BY <2>1, <2>2, <2>4 DEF Moves, Keeps, At, Running, Stepping, Finalizing
  <2>6. QED
    BY <2>2, <2>3, <2>4, <2>5 DEF StepKind, Keeps
<1>5. CASE OpenCase(p)
  <2>1. Keeps(p, "case_event")
    BY <1>5, GotoSteps, RunningStages DEF OpenCase, Finalizing
  <2>2. Opens(p)
    BY <1>5, <2>1 DEF OpenCase, Opens, Keeps
  <2>3. \A q \in Request \ {p} : opened'[q] = opened[q]
    BY <1>1, <1>5 DEF OpenCase, TypeOK
  <2>4. Moves(p)
    BY <1>5, <2>1, <2>3 DEF Moves, Keeps, OpenCase, At, Running, Stepping, Finalizing
  <2>5. QED
    BY <2>2, <2>4 DEF StepKind
<1>6. CASE FindCase(p) /\ Goto(p, "open_case") /\ CasesOf(req[p].session) = {}
  <2>1. Keeps(p, "open_case")
    BY <1>6, GotoSteps, RunningStages DEF Finalizing
  <2>2. UNCHANGED <<customer, session, opened, trail>> /\ At(p, "find_case")
    BY <1>6 DEF FindCase, data
  <2>3. Misses(p)
    BY <1>6, <2>1, <2>2 DEF Misses, Keeps
  <2>4. Moves(p)
    BY <2>1, <2>2 DEF Moves, Keeps, At, Running, Stepping, Finalizing
  <2>5. QED
    BY <2>3, <2>4 DEF StepKind
<1> DEFINE Onwards == (Finalizing \ {"open_case"}) \cup {"audit_step", "invalid", "done"}
\* The rest are stages of finalisation, up to the last audit row.
<1>7. ASSUME NEW stage \in Onwards, Keeps(p, stage),
             req[p].pc \in Finalizing \cup {"audit_step"}, UNCHANGED <<session, opened>>,
             \A s \in Session : customer'[s] = "none" => customer[s] = "none",
             \/ trail' = trail
             \/ \E e \in AuditType : /\ trail' = trail \cup {<<e, p>>}
                                     /\ e = "SESSION_STEP_SUBMITTED" => At(p, "audit_step")
      PROVE  Moves(p) /\ StepKind(p)
  <2>1. /\ stage \in Running \cup Ended /\ stage \notin Stepped \cup {"open_case"}
        /\ stage \notin Starting /\ req[p].pc \in Running
    BY <1>7 DEF Running, Stepping, Finalizing, Ended, Stepped, Starting
  <2>2. QED
    BY <1>7, <2>1, PassingStep DEF StepKind
<1>8. ASSUME NEW stage \in Onwards, Goto(p, stage) PROVE Keeps(p, stage)
  BY <1>8, GotoSteps DEF Running, Stepping, Ended
<1>9. CASE MarkCustomer(p) \/ MarkBusiness(p)
  <2>1. /\ req[p].pc \in Finalizing /\ UNCHANGED <<session, opened, trail>>
        /\ \/ customer' = customer
           \/ customer' = [customer EXCEPT ![req[p].session] = "submitted"]
    BY <1>9 DEF MarkCustomer, MarkBusiness, At, Finalizing
  <2>2. \A s \in Session : customer'[s] = "none" => customer[s] = "none"
    BY <1>1, <2>1 DEF TypeOK
  <2>3. PICK stage \in {"mark_business", "audit_mark", "find_case"} : Goto(p, stage)
    BY <1>9 DEF MarkCustomer, MarkBusiness
  <2>4. stage \in Onwards
    BY DEF Finalizing
  <2>5. QED
    BY <1>7, <1>8, <2>1, <2>2, <2>3, <2>4
<1>10. CASE \/ AuditMark(p) \/ AuditRisk(p) \/ AuditScreening(p) \/ AuditCase(p)
            \/ AuditStep(p)
  <2>1. PICK stage \in {"load_data", "create_job", "find_case", "audit_step", "done"},
             e \in AuditType : /\ Goto(p, stage) /\ trail' = trail \cup {<<e, p>>}
                               /\ e = "SESSION_STEP_SUBMITTED" => At(p, "audit_step")
    BY <1>10 DEF AuditMark, AuditRisk, AuditScreening, AuditCase, AuditStep, Emit, AuditType
  <2>2. UNCHANGED <<customer, session, opened>> /\ req[p].pc \in Finalizing \cup {"audit_step"}
    BY <1>10 DEF AuditMark, AuditRisk, AuditScreening, AuditCase, AuditStep, Emit, At, Finalizing
  <2>3. stage \in Onwards
    BY DEF Finalizing
  <2>4. QED
    BY <1>7, <1>8, <2>1, <2>2, <2>3
<1>11. CASE LoadData(p) \/ FindAssessment(p) \/ InsertAssessment(p)
  <2>1. UNCHANGED <<customer, session, opened, trail>> /\ req[p].pc \in Finalizing
    BY <1>11 DEF LoadData, FindAssessment, InsertAssessment, data, At, Finalizing
  <2>2. \E stage \in {"invalid", "find_assessment", "insert_assessment", "create_job",
                      "audit_risk"} : Keeps(p, stage)
    <3>1. CASE LoadData(p)
      <4>1. CASE Goto(p, "invalid")
        BY <4>1, <1>8
      <4>2. CASE \E v : req' = [req EXCEPT ![p].pc = "find_assessment", ![p].data = v.data]
        BY <1>1, <4>2 DEF Keeps, RequestState
      <4>3. QED
        BY <3>1, <4>1, <4>2 DEF LoadData
    <3>2. CASE FindAssessment(p)
      <4> DEFINE rows == assessments[req[p].session]
      <4>1. \/ req' = [req EXCEPT ![p].pc = "insert_assessment"]
            \/ req' = [req EXCEPT ![p].pc = "create_job", ![p].band = rows[Len(rows)].band]
        BY <3>2 DEF FindAssessment
      <4> HIDE DEF rows
      <4>2. QED
        BY <1>1, <4>1 DEF Keeps, RequestState
    <3>3. CASE InsertAssessment(p)
      <4> DEFINE band == BandOf(req[p].data.input)
      <4>1. req' = [req EXCEPT ![p].pc = "audit_risk", ![p].band = band]
        BY <3>3 DEF InsertAssessment
      <4> HIDE DEF band
      <4>2. QED
        BY <1>1, <4>1 DEF Keeps, RequestState
    <3>4. QED
      BY <1>11, <3>1, <3>2, <3>3
  <2>3. PICK stage \in {"invalid", "find_assessment", "insert_assessment", "create_job",
                      "audit_risk"} : Keeps(p, stage)
    BY <2>2
  <2>4. stage \in Onwards
    BY DEF Finalizing
  <2>5. QED
    BY <1>7, <2>1, <2>3, <2>4
<1>12. CASE \/ CreateJob(p) \/ NoName(p) \/ CaseEvent(p)
            \/ FindCase(p) /\ (Goto(p, "audit_step") \/ Goto(p, "invalid"))
  <2>1. /\ UNCHANGED <<customer, session, opened, trail>> /\ req[p].pc \in Finalizing
    BY <1>12 DEF CreateJob, NoName, CaseEvent, RecordCaseEvent, FindCase, data, At, Finalizing
  <2>2. PICK stage \in {"audit_screening", "invalid", "audit_case", "audit_step"} : Goto(p, stage)
    BY <1>12 DEF CreateJob, NoName, CaseEvent, RecordCaseEvent
  <2>3. stage \in Onwards
    BY DEF Finalizing
  <2>4. QED
    BY <1>7, <1>8, <2>1, <2>2, <2>3
<1>13. FindCase(p) => \/ FindCase(p) /\ Goto(p, "open_case") /\ CasesOf(req[p].session) = {}
                      \/ FindCase(p) /\ (Goto(p, "audit_step") \/ Goto(p, "invalid"))
  BY DEF FindCase
<1>14. QED
  BY <1>2, <1>3, <1>4, <1>5, <1>6, <1>9, <1>10, <1>11, <1>12, <1>13 DEF SubmitStep

LEMMA KindOfStep ==
    ASSUME FinalInv, NEW p \in Request,
           InitiateStep(p) \/ EditStep(p) \/ SubmitStep(p) \/ Deny(p) \/ Abort(p)
    PROVE  Moves(p) /\ StepKind(p)
<1>1. CASE Deny(p) \/ Abort(p)
  <2>1. req[p].pc \in Running
    BY <1>1 DEF Deny, Abort, GuardedStage, At, Running, Stepping, Finalizing
  <2>2. PICK stage \in {"denied", "aborted"} : Goto(p, stage)
    BY <1>1 DEF Deny, Abort
  <2>3. /\ stage \in Running \cup Ended /\ stage \notin Stepped \cup {"open_case"}
        /\ stage \notin Starting /\ stage \notin Finalizing \cup {"audit_step"}
    BY DEF Ended, Stepped, Finalizing, Starting
  <2>4. Keeps(p, stage)
    BY <2>2, <2>3, GotoSteps
  <2>5. UNCHANGED <<customer, session, opened, trail>>
    BY <1>1 DEF Deny, Abort, data
  <2>6. QED
    BY <2>1, <2>3, <2>4, <2>5, PassingStep DEF StepKind
<1>2. QED
  BY <1>1, InitiateKind, EditKind, SubmitKind
-----------------------------------------------------------------------------
(* What the audit log tells of the marks on customers and sessions.        *)

Completed(r) == <<"SESSION_COMPLETED", r>> \in trail

\* Closing a session, or stopped after it was closed.
ClosingStages == Finalizing \cup {"audit_step", "denied", "invalid", "aborted"}

MarkTold(s) == \E r \in Request :
    Closes(r, s) /\ (Completed(r) \/ req[r].pc \in {"audit_mark", "aborted"})

ClosingTold(s) == \E r \in Request :
    Closes(r, s) /\ (SubmittedRow(r) \in trail \/ req[r].pc \in ClosingStages)

AccountInv ==
    /\ FinalInv
    /\ \A s \in Individual : customer[s] = "submitted" => MarkTold(s)
    /\ \A s \in Session : session[s].status = "submitted" => ClosingTold(s)

\* What a step of r has to do with these marks and rows.
Tells(r) ==
    /\ trail \subseteq trail'
    /\ At(r, "audit_mark") => Completed(r)' \/ req'[r].pc = "aborted"
    /\ req[r].pc \in Finalizing \cup {"audit_step"} =>
         SubmittedRow(r) \in trail' \/ req'[r].pc \in ClosingStages
    /\ \A s \in Individual : customer'[s] = "submitted" =>
         \/ customer[s] = "submitted"
         \/ At(r, "mark_customer") /\ req[r].session = s /\ req'[r].pc = "audit_mark"

LEMMA QuietTells ==
    ASSUME NEW r \in Request, NEW stage, req'[r].pc = stage, trail \subseteq trail',
           \A s \in Individual : customer'[s] = "submitted" => customer[s] = "submitted",
           ~At(r, "audit_mark"),
           \/ req[r].pc \notin Finalizing \cup {"audit_step"}
           \/ stage \in ClosingStages
    PROVE  Tells(r)
  BY DEF Tells

LEMMA InitiateTells ==
    ASSUME FinalInv, NEW r \in Request, InitiateStep(r) PROVE Tells(r)
<1>1. TypeOK /\ req[r].session \in Session
  BY SessionType DEF FinalInv
<1>2. \A s \in Individual : customer'[s] = "submitted" => customer[s] = "submitted"
  BY <1>1 DEF TypeOK, InitiateStep, StartInitiate, CreateBusiness, AuditKyb, CreateSession,
              AuditInitiated, Emit, Individual
<1>3. trail \subseteq trail'
  BY DEF InitiateStep, StartInitiate, CreateBusiness, AuditKyb, CreateSession, AuditInitiated,
         Emit
<1>4. req[r].pc \in {"idle"} \cup Initiating
  BY DEF InitiateStep, StartInitiate, CreateBusiness, AuditKyb, CreateSession, AuditInitiated,
         Emit, At, Initiating
<1>5. ~At(r, "audit_mark") /\ req[r].pc \notin Finalizing \cup {"audit_step"}
  BY <1>4 DEF At, Initiating, Finalizing
<1>6. QED
  BY <1>2, <1>3, <1>5, QuietTells

LEMMA EditTells ==
    ASSUME FinalInv, NEW r \in Request, EditStep(r) PROVE Tells(r)
<1>1. TypeOK /\ req[r].session \in Session
  BY SessionType DEF FinalInv
<1>2. \A s \in Individual : customer'[s] = "submitted" => customer[s] = "submitted"
  <2>1. UNCHANGED customer \/ customer' = [customer EXCEPT ![req[r].session] = "in_progress"]
    BY DEF EditStep, ReadVersion, InsertVersion, StoreVersion, VersionConflict, PointVersion,
           LosePointer, AuditEdit, Emit, data
  <2>2. QED
    BY <1>1, <2>1 DEF TypeOK, Individual
<1>3. trail \subseteq trail'
  BY DEF EditStep, ReadVersion, InsertVersion, StoreVersion, VersionConflict, PointVersion,
         LosePointer, AuditEdit, Emit, data
<1>4. req[r].pc \in {"idle"} \cup Editing
  BY DEF EditStep, ReadVersion, InsertVersion, StoreVersion, VersionConflict, PointVersion,
         LosePointer, AuditEdit, Emit, At, Editing
<1>5. ~At(r, "audit_mark") /\ req[r].pc \notin Finalizing \cup {"audit_step"}
  BY <1>4 DEF At, Editing, Finalizing
<1>6. QED
  BY <1>2, <1>3, <1>5, QuietTells

LEMMA SubmitTells ==
    ASSUME FinalInv, NEW r \in Request, SubmitStep(r) PROVE Tells(r)
<1>1. /\ TypeOK /\ req[r].session \in Session
      /\ req \in [Request -> RequestState] /\ req[r] \in RequestState
  BY SessionType DEF FinalInv, TypeOK
<1>2. trail \subseteq trail'
  BY DEF SubmitStep, StartStep, Begin, Reread, Advance, AdvanceTo, MarkCustomer, MarkBusiness,
         AuditMark, LoadData, FindAssessment, InsertAssessment, AuditRisk, CreateJob, NoName,
         AuditScreening, FindCase, OpenCase, CaseEvent, RecordCaseEvent, AuditCase, AuditStep,
         Emit, data
<1>3. CASE StartStep(r) \/ Reread(r) \/ Advance(r)
  <2>1. req[r].pc \notin Finalizing \cup {"audit_step"} /\ ~At(r, "audit_mark")
    BY <1>3 DEF StartStep, CallStep, Reread, Advance, At, Finalizing
  <2>2. UNCHANGED customer
    BY <1>3 DEF StartStep, Begin, Reread, Advance, AdvanceTo, data
  <2>3. QED
    BY <1>2, <2>1, <2>2, QuietTells
<1>4. CASE MarkCustomer(r)
  <2>1. PICK stage \in {"mark_business", "audit_mark"} :
          Goto(r, stage) /\ (req[r].session \in Individual => stage = "audit_mark")
    BY <1>4 DEF MarkCustomer, Individual
  <2>2. req'[r].pc = stage
    BY <2>1, GotoSteps, RunningStages DEF Keeps, Finalizing
  <2>3. stage \in ClosingStages
    BY DEF ClosingStages, Finalizing
  <2>4. customer' = [customer EXCEPT ![req[r].session] = "submitted"]
    BY <1>4 DEF MarkCustomer
  <2>5. At(r, "mark_customer") /\ ~At(r, "audit_mark")
    BY <1>4 DEF MarkCustomer, At
  <2>6. ASSUME NEW s \in Individual, customer'[s] = "submitted", customer[s] # "submitted"
        PROVE  req[r].session = s
    BY <1>1, <2>4, <2>6 DEF TypeOK, Individual
  <2>7. QED
    BY <1>2, <2>1, <2>2, <2>3, <2>5, <2>6 DEF Tells
<1>5. CASE AuditMark(r)
  <2>1. /\ At(r, "audit_mark") /\ Goto(r, "load_data") /\ UNCHANGED customer /\ Completed(r)'
    BY <1>5 DEF AuditMark, Emit, Completed
  <2>2. req'[r].pc = "load_data" /\ "load_data" \in ClosingStages
    BY <2>1, GotoSteps, RunningStages DEF Keeps, Finalizing, ClosingStages
  <2>3. ~At(r, "mark_customer")
    BY <2>1 DEF At
  <2>4. QED
    BY <1>2, <2>1, <2>2, <2>3 DEF Tells
<1>6. CASE AuditStep(r)
  <2>1. At(r, "audit_step") /\ UNCHANGED customer /\ SubmittedRow(r) \in trail'
    BY <1>6 DEF AuditStep, Emit, SubmittedRow
  <2>2. QED
    BY <1>2, <2>1 DEF Tells, At
<1>7. CASE \/ LoadData(r) \/ FindAssessment(r) \/ InsertAssessment(r)
  <2>1. req'[r].pc \in {"invalid", "find_assessment", "insert_assessment", "create_job",
                        "audit_risk"}
    <3>1. CASE Goto(r, "invalid")
      BY <3>1, GotoSteps, RunningStages DEF Keeps, Ended
    <3>2. CASE LoadData(r) /\ ~Goto(r, "invalid")
      <4>1. PICK d : req' = [req EXCEPT ![r].pc = "find_assessment", ![r].data = d]
        BY <3>2 DEF LoadData
      <4>2. QED
        BY <1>1, <4>1 DEF RequestState
    <3>3. CASE FindAssessment(r)
      <4>1. \/ req' = [req EXCEPT ![r].pc = "insert_assessment"]
            \/ \E b : req' = [req EXCEPT ![r].pc = "create_job", ![r].band = b]
        BY <3>3 DEF FindAssessment
      <4>2. QED
        BY <1>1, <4>1 DEF RequestState
    <3>4. CASE InsertAssessment(r)
      <4>1. PICK b : req' = [req EXCEPT ![r].pc = "audit_risk", ![r].band = b]
        BY <3>4 DEF InsertAssessment
      <4>2. QED
        BY <1>1, <4>1 DEF RequestState
    <3>5. QED
      BY <1>7, <3>1, <3>2, <3>3, <3>4
  <2>2. req'[r].pc \in ClosingStages
    BY <2>1 DEF ClosingStages, Finalizing
  <2>3. UNCHANGED customer
    BY <1>7 DEF LoadData, FindAssessment, InsertAssessment, data
  <2>4. ~At(r, "audit_mark")
    BY <1>7 DEF LoadData, FindAssessment, InsertAssessment, At
  <2>5. QED
    BY <1>2, <2>2, <2>3, <2>4, QuietTells
<1>8. CASE \/ MarkBusiness(r) \/ AuditRisk(r) \/ CreateJob(r) \/ NoName(r) \/ AuditScreening(r)
           \/ FindCase(r) \/ OpenCase(r) \/ CaseEvent(r) \/ AuditCase(r)
  <2>1. PICK stage \in {"find_case", "create_job", "audit_screening", "invalid", "audit_step",
                        "open_case", "case_event", "audit_case"} : Goto(r, stage)
    BY <1>8 DEF MarkBusiness, AuditRisk, CreateJob, NoName, AuditScreening, FindCase, OpenCase,
                CaseEvent, RecordCaseEvent, AuditCase, Emit
  <2>2. stage \in Running \cup Ended /\ stage \in ClosingStages
    BY RunningStages DEF ClosingStages, Finalizing, Ended
  <2>3. req'[r].pc = stage
    BY <2>1, <2>2, GotoSteps DEF Keeps
  <2>4. UNCHANGED customer /\ ~At(r, "audit_mark")
    BY <1>8 DEF MarkBusiness, AuditRisk, CreateJob, NoName, AuditScreening, FindCase, OpenCase,
                CaseEvent, RecordCaseEvent, AuditCase, Emit, At, data
  <2>5. QED
    BY <1>2, <2>2, <2>3, <2>4, QuietTells
<1>9. QED
  BY <1>3, <1>4, <1>5, <1>6, <1>7, <1>8 DEF SubmitStep

LEMMA StepTells ==
    ASSUME FinalInv, NEW r \in Request,
           InitiateStep(r) \/ EditStep(r) \/ SubmitStep(r) \/ Deny(r) \/ Abort(r)
    PROVE  Tells(r)
<1>1. CASE Deny(r) \/ Abort(r)
  <2>1. PICK stage \in {"denied", "aborted"} :
          Goto(r, stage) /\ (At(r, "audit_mark") => stage = "aborted")
    BY <1>1 DEF Deny, Abort, GuardedStage, At
  <2>2. stage \in Running \cup Ended /\ stage \in ClosingStages
    BY DEF ClosingStages, Ended
  <2>3. req'[r].pc = stage
    BY <2>1, <2>2, GotoSteps DEF Keeps
  <2>4. UNCHANGED <<customer, trail>>
    BY <1>1 DEF Deny, Abort, data
  <2>5. QED
    BY <2>1, <2>2, <2>3, <2>4 DEF Tells
<1>2. QED
  BY <1>1, InitiateTells, EditTells, SubmitTells

\* Who told of a mark, or still has to, does not change its session or its step.
LEMMA AccountStep ==
    ASSUME AccountInv, NEW r \in Request,
           InitiateStep(r) \/ EditStep(r) \/ SubmitStep(r) \/ Deny(r) \/ Abort(r)
    PROVE  AccountInv'
<1>1. FinalInv /\ FinalInv'
  BY StepFinal DEF AccountInv
<1>2. Moves(r) /\ StepKind(r) /\ Tells(r)
  BY <1>1, KindOfStep, StepTells
<1>3. Path(r) /\ Fresh(r) /\ TypeOK
  BY <1>1 DEF FinalInv
<1>4. ASSUME NEW q \in Request, NEW s \in Session, Closes(q, s), ~At(q, "idle")
      PROVE  Closes(q, s)'
  BY <1>2, <1>4 DEF Moves, Closes, At
<1>5. ASSUME NEW s \in Session, MarkTold(s) PROVE MarkTold(s)'
  <2>1. PICK q \in Request :
          Closes(q, s) /\ (Completed(q) \/ req[q].pc \in {"audit_mark", "aborted"})
    BY <1>5 DEF MarkTold
  <2>2. ~At(q, "idle")
    BY <1>1, <2>1 DEF FinalInv, Fresh, AuditType, Completed, At
  <2>3. Closes(q, s)'
    BY <1>4, <2>1, <2>2
  <2>4. Completed(q) => Completed(q)'
    BY <1>2 DEF Tells, Completed
  <2>5. CASE q # r
    BY <1>2, <2>1, <2>3, <2>4, <2>5 DEF Moves, MarkTold
  <2>6. CASE q = r
    <3>1. req[r].pc # "aborted"
      BY <1>2 DEF Moves, Running, Initiating, Editing, Stepping, Finalizing
    <3>2. Completed(r)' \/ req'[r].pc = "aborted"
      BY <1>2, <2>1, <2>4, <2>6, <3>1 DEF Tells, At
    <3>3. QED
      BY <2>3, <2>6, <3>2 DEF MarkTold
  <2>7. QED
    BY <2>5, <2>6
<1>6. ASSUME NEW s \in Session, ClosingTold(s) PROVE ClosingTold(s)'
  <2>1. PICK q \in Request :
          Closes(q, s) /\ (SubmittedRow(q) \in trail \/ req[q].pc \in ClosingStages)
    BY <1>6 DEF ClosingTold
  <2>2. ~At(q, "idle")
    BY <1>1, <2>1 DEF FinalInv, Fresh, AuditType, SubmittedRow, At, ClosingStages, Finalizing
  <2>3. Closes(q, s)'
    BY <1>4, <2>1, <2>2
  <2>4. SubmittedRow(q) \in trail => SubmittedRow(q) \in trail'
    BY <1>2 DEF Tells
  <2>5. SubmittedRow(q)' = SubmittedRow(q)
    BY DEF SubmittedRow
  <2>6. CASE q # r
    BY <1>2, <2>1, <2>3, <2>4, <2>5, <2>6 DEF Moves, ClosingTold
  <2>7. CASE q = r
    <3>1. req[r].pc \notin {"denied", "invalid", "aborted"}
      BY <1>2 DEF Moves, Running, Initiating, Editing, Stepping, Finalizing
    <3>2. SubmittedRow(r) \in trail' \/ req'[r].pc \in ClosingStages
      BY <1>2, <2>1, <2>4, <2>7, <3>1 DEF Tells, ClosingStages
    <3>3. QED
      BY <2>3, <2>5, <2>7, <3>2 DEF ClosingTold
  <2>8. QED
    BY <2>6, <2>7
<1>7. ASSUME NEW s \in Individual, customer'[s] = "submitted" PROVE MarkTold(s)'
  <2>1. s \in Session
    BY DEF Individual
  <2>2. CASE customer[s] = "submitted"
    BY <1>5, <2>1, <2>2 DEF AccountInv
  <2>3. CASE At(r, "mark_customer") /\ req[r].session = s /\ req'[r].pc = "audit_mark"
    <3>1. Closes(r, s) /\ ~At(r, "idle")
      BY <1>3, <2>3 DEF Path, Closes, At, Finalizing
    <3>2. Closes(r, s)'
      BY <1>4, <2>1, <3>1
    <3>3. QED
      BY <2>3, <3>2 DEF MarkTold
  <2>4. QED
    BY <1>2, <1>7, <2>2, <2>3 DEF Tells
<1>8. ASSUME NEW s \in Session, session'[s].status = "submitted" PROVE ClosingTold(s)'
  <2>1. CASE session[s].status = "submitted"
    BY <1>6, <2>1 DEF AccountInv
  <2>2. CASE session[s].status # "submitted"
    <3>1. session' # session
      BY <1>8, <2>2
    <3>2. session \in [Session -> [status : {"absent", "in_progress", "submitted"},
                                   current : AllSteps, done : SUBSET AllSteps]]
      BY <1>3 DEF TypeOK
    <3>3. Creates(r) \/ Advances(r)
      BY <1>2, <3>1 DEF StepKind, Initiates, Enters, Rereads, Misses, Opens, Passes
    <3>4. Advances(r)
      BY <1>8, <2>2, <3>2, <3>3 DEF Creates
    <3>5. req[r].session = s /\ IsFinal(s, req[r].step)
      BY <1>8, <2>2, <3>2, <3>4 DEF Advances
    <3>6. Closes(r, s) /\ ~At(r, "idle")
      BY <3>4, <3>5 DEF Closes, Advances, At
    <3>7. Closes(r, s)'
      BY <1>4, <3>6
    <3>8. req'[r].pc \in ClosingStages
      BY <3>4 DEF Advances, ClosingStages, Finalizing
    <3>9. QED
      BY <3>7, <3>8 DEF ClosingTold
  <2>3. QED
    BY <2>1, <2>2
<1>9. QED
  BY <1>1, <1>7, <1>8 DEF AccountInv

LEMMA AccountInvariant == Spec => []AccountInv
<1>1. Init => AccountInv
  <2>1. SUFFICES ASSUME Init PROVE AccountInv
    OBVIOUS
  <2>2. \A s \in Session : session[s].status # "submitted" /\ customer[s] # "submitted"
    BY <2>1 DEF Init
  <2>3. QED
    BY <2>1, <2>2, InitFinal DEF AccountInv, Individual
<1>2. ASSUME AccountInv, [Next]_vars PROVE AccountInv'
  <2>1. CASE UNCHANGED vars
    <3>1. FinalInv'
      BY <1>2, <2>1, FinalStutters DEF AccountInv
    <3>2. UNCHANGED <<req, session, customer, trail>>
      BY <2>1 DEF vars
    <3>3. \A s \in Session : (MarkTold(s)' <=> MarkTold(s)) /\ (ClosingTold(s)' <=> ClosingTold(s))
      BY <3>2 DEF MarkTold, ClosingTold, Closes, Completed, SubmittedRow
    <3>4. QED
      BY <1>2, <3>1, <3>2, <3>3 DEF AccountInv, Individual
  <2>2. CASE Next
    BY <1>2, <2>2, AccountStep DEF Next
  <2>3. QED
    BY <1>2, <2>1, <2>2
<1>3. QED
  BY <1>1, <1>2, PTL DEF Spec

\* audit.emit after each write, and the marks of finalizeSubmittedSession: what the audit
\* log tells and leaves out, of every request and however the requests interleave or end.
THEOREM AuditLogTellsTheTruth == Spec => []AuditTrailSound
<1>1. ASSUME FinalInv, NEW r \in Request
      PROVE  /\ \A e \in WriteEvents : <<e, r>> \in trail => <<e, r>> \in Wrote(r)
             /\ req[r].pc \in Ended \ {"aborted"} => Wrote(r) \subseteq trail
             /\ \A e, f \in Wrote(r) \ trail : e = f
  <2>1. Audited(r)
    BY <1>1 DEF FinalInv
  \* What Wrote(r) is.
  <2>2. /\ <<"FIELD_CHANGED", r>> \in Wrote(r) <=> WroteVersion(r)
        /\ <<"RISK_SCORE_COMPUTED", r>> \in Wrote(r) <=> WroteAssessment(r)
        /\ <<"SCREENING_INITIATED", r>> \in Wrote(r) <=> r \in jobs
        /\ <<"CASE_CREATED", r>> \in Wrote(r) <=> opened[r] # "none"
    BY DEF Wrote, WroteVersion, WroteAssessment
  <2>3. \A x \in Wrote(r) : \E e \in WriteEvents : x = <<e, r>>
    BY DEF Wrote, WriteEvents
  <2>4. \A e \in WriteEvents : <<e, r>> \in trail => <<e, r>> \in Wrote(r)
    BY <2>1, <2>2 DEF Audited, WriteEvents
  <2>5. ASSUME req[r].pc \in Ended \ {"aborted"}, NEW x \in Wrote(r) PROVE x \in trail
    BY <2>1, <2>2, <2>3, <2>5 DEF Audited, WriteEvents, Ended
  <2>6. AtMostOneLacks(r)
    BY <2>1 DEF Audited, At, AtMostOneLacks, LacksVersion, LacksAssessment, LacksJob, LacksCase
  <2>7. ASSUME NEW x \in Wrote(r) \ trail, NEW y \in Wrote(r) \ trail PROVE x = y
    <3>1. PICK e \in WriteEvents, f \in WriteEvents : x = <<e, r>> /\ y = <<f, r>>
      BY <2>3
    <3>2. e = f
      BY <2>2, <2>6, <3>1
         DEF WriteEvents, AtMostOneLacks, LacksVersion, LacksAssessment, LacksJob, LacksCase
    <3>3. QED
      BY <3>1, <3>2
  <2>8. QED
    BY <2>4, <2>5, <2>7
<1>2. AccountInv => AuditTrailSound
  BY <1>1 DEF AccountInv, AuditTrailSound, MarkTold, ClosingTold, ClosingStages, Completed,
              SubmittedRow
<1>3. QED
  BY <1>2, AccountInvariant, PTL
-----------------------------------------------------------------------------
(* What a step does to the history, and each part of the invariant.        *)

\* The history of a request that begins, or has begun.
Records(p) ==
    /\ \A q \in Request \ {p} : after'[q] = after[q]
    /\ ~At(p, "idle") => after'[p] = after[p]
    /\ At(p, "idle") => after'[p] = {q \in Request : req[q].pc \in Ended}

LEMMA HistoryStep ==
    ASSUME OverlapInv, NEW p \in Request, Moves(p),
           after' = [r \in Request |-> IF At(r, "idle") /\ req'[r].pc # "idle"
                                       THEN {q \in Request : req[q].pc \in Ended}
                                       ELSE after[r]]
    PROVE  Records(p) /\ Sequenced'
<1>1. req'[p].pc # "idle"
  BY RunningStages DEF Moves
<1>2. Records(p)
  BY <1>1 DEF Records, Moves, At
<1>3. after' \in [Request -> SUBSET Request]
  BY DEF OverlapInv, Sequenced
<1>4. \A r \in Request : after'[r] # {} => ~At(r, "idle")'
  BY <1>1, <1>2 DEF OverlapInv, Sequenced, Records, Moves, At
<1>5. ASSUME NEW r \in Request, NEW q \in after'[r] PROVE req'[q].pc \in Ended
  <2>1. q \in Request
    BY <1>3
  <2>2. req[q].pc \in Ended
    BY <1>2, <2>1 DEF OverlapInv, Sequenced, Records
  <2>3. q # p
    BY <2>2, RunningStages DEF Moves
  <2>4. QED
    BY <2>1, <2>2, <2>3 DEF Moves
<1>6. QED
  BY <1>2, <1>3, <1>4, <1>5 DEF Sequenced

\* Overlapping requests stay so.
LEMMA OverlapStays ==
    ASSUME OverlapInv, NEW p \in Request, Moves(p), Records(p),
           NEW q \in Request, NEW r \in Request, Overlap(q, r)
    PROVE  Overlap(q, r)'
<1>1. ASSUME NEW x \in Request, ~At(x, "idle")
      PROVE  req'[x].session = req[x].session /\ after'[x] = after[x] /\ ~At(x, "idle")'
  <2>1. CASE x = p
    BY <1>1, <2>1, RunningStages DEF Moves, Records, At
  <2>2. CASE x # p
    BY <1>1, <2>2 DEF Moves, Records, At
  <2>3. QED
    BY <2>1, <2>2
<1>2. ~At(q, "idle") /\ ~At(r, "idle")
  BY DEF Overlap
<1>3. QED
  BY <1>1, <1>2 DEF Overlap

LEMMA ConflictStays ==
    ASSUME OverlapInv, NEW p \in Request, Moves(p), Records(p),
           NEW r \in Request, Conflicted(r)
    PROVE  Conflicted(r)'
<1>1. PICK q \in Request : Overlap(q, r)
  BY DEF Conflicted
<1>2. Overlap(q, r)'
  BY <1>1, OverlapStays
<1>3. QED
  BY <1>2 DEF Conflicted

\* A request under way overlaps whoever has begun and did not end before it began.
LEMMA RunningOverlaps ==
    ASSUME OverlapInv, NEW p \in Request, NEW r \in Request, p # r,
           req[p].pc \in Running, ~At(r, "idle"), r \notin after[p],
           req[p].session = req[r].session
    PROVE  Overlap(p, r) /\ Overlap(r, p)
<1>1. p \notin after[r]
  BY RunningStages DEF OverlapInv, Sequenced
<1>2. ~At(p, "idle")
  BY RunningStages DEF At
<1>3. QED
  BY <1>1, <1>2 DEF Overlap

LEMMA InitiatedStays ==
    ASSUME OverlapInv, TypeOK', NEW p \in Request, Moves(p), StepKind(p)
    PROVE  Initiated'
<1>1. /\ TypeOK /\ Initiated
      /\ \A r \in Request : req[r].session \in Session /\ req'[r].session \in Session
  BY SessionType DEF OverlapInv, FinalInv, TypeOK, RequestState
<1>2. \A r \in Request \ {p} : req'[r] = req[r]
  BY DEF Moves
<1>3. "idle" \notin Starting /\ "idle" \notin Stepped
      /\ \A stage \in Starting : stage \notin Stepped
  BY DEF Starting, Stepped
<1>4. CASE Initiates(p)
  <2> DEFINE s == req'[p].session
  <2>1. /\ customer[s] = "none" /\ session[s].status = "absent" /\ s \in Session
        /\ customer' = [customer EXCEPT ![s] = "pending"] /\ session' = session
        /\ req'[p].pc \in Starting
    BY <1>1, <1>4 DEF Initiates, Initiated
  <2> HIDE DEF s
  <2>2. \A t \in Session : customer'[t] = IF t = s THEN "pending" ELSE customer[t]
    BY <1>1, <2>1 DEF TypeOK
  <2>3. \A r \in Request \ {p} : req[r].pc \in Starting => req[r].session # s
    BY <1>1, <2>1 DEF Initiated
  <2>4. req'[p].session = s
    BY DEF s
  <2>5. QED
    BY <1>1, <1>2, <1>3, <2>1, <2>2, <2>3, <2>4 DEF Initiated
<1>5. CASE Enters(p)
  <2>1. /\ UNCHANGED <<customer, session>> /\ req'[p].pc \notin Starting
        /\ session[req'[p].session].status # "absent"
    BY <1>5 DEF Enters, Starting
  <2>2. QED
    BY <1>1, <1>2, <2>1 DEF Initiated
<1>6. CASE Creates(p)
  <2> DEFINE s == req[p].session
  <2>1. /\ req[p].pc \in Starting /\ req'[p].pc \notin Starting \cup Stepped
        /\ session' = [session EXCEPT ![s].status = "in_progress"] /\ customer' = customer
    BY <1>6 DEF Creates, At, Starting, Stepped
  <2>2. customer[s] # "none" /\ \A r \in Request \ {p} : req[r].pc \in Starting => req[r].session # s
    BY <1>1, <2>1 DEF Initiated
  <2>3. s \in Session
    BY <1>1
  <2> HIDE DEF s
  <2>4. \A t \in Session :
          session'[t].status = IF t = s THEN "in_progress" ELSE session[t].status
    BY <1>1, <2>1, <2>3 DEF TypeOK
  <2>5. QED
    BY <1>1, <1>2, <2>1, <2>2, <2>4 DEF Initiated
<1>7. CASE Advances(p)
  <2> DEFINE s == req[p].session
             status == IF IsFinal(s, req[p].step) THEN "submitted" ELSE "in_progress"
  <2>1. /\ req[p].pc \in Stepped /\ req'[p].pc \notin Starting \cup Stepped
        /\ customer' = customer
        /\ session' = [session EXCEPT ![s] = [status |-> status, current |-> NextCurrent(p),
                                              done |-> req[p].seen \cup {req[p].step}]]
    BY <1>7 DEF Advances, At, Starting, Stepped
  <2>2. session[s].status # "absent" /\ s \in Session /\ status # "absent"
    BY <1>1, <2>1 DEF Initiated
  <2> HIDE DEF s, status
  <2>3. \A t \in Session : session'[t].status = IF t = s THEN status ELSE session[t].status
    BY <1>1, <2>1, <2>2 DEF TypeOK
  <2>4. QED
    BY <1>1, <1>2, <2>1, <2>2, <2>3 DEF Initiated
<1>8. CASE Rereads(p) \/ Misses(p) \/ Opens(p) \/ Passes(p)
  <2>1. /\ session' = session /\ req'[p].session = req[p].session
        /\ \A s \in Session : customer'[s] = "none" => customer[s] = "none"
        /\ req'[p].pc \in Starting => req[p].pc \in Starting
        /\ req'[p].pc \in Stepped => req[p].pc \in Stepped
    BY <1>8 DEF Rereads, Misses, Opens, Passes, Moves, At, Starting, Stepped
  <2>2. QED
    BY <1>1, <1>2, <2>1 DEF Initiated
<1>9. QED
  BY <1>4, <1>5, <1>6, <1>7, <1>8 DEF StepKind

\* A request that begins has opened nothing.
LEMMA OpenedHasBegun ==
    ASSUME OverlapInv, NEW r \in Request, opened[r] # "none"
    PROVE  ~At(r, "idle")
  BY DEF OverlapInv, FinalInv, Fresh

\* No case is new but the one of a request that opens one.
LEMMA CasesAdded ==
    ASSUME OverlapInv, NEW p \in Request, Moves(p), StepKind(p),
           NEW r \in Request, opened'[r] # "none"
    PROVE  \/ opened[r] # "none" /\ req'[r].session = req[r].session
           \/ r = p /\ Opens(p)
<1>1. CASE r # p
  BY <1>1 DEF Moves
<1>2. CASE r = p /\ ~Opens(p)
  <2>1. opened' = opened
    BY <1>2 DEF StepKind, Initiates, Enters, Creates, Rereads, Advances, Misses, Passes
  <2>2. QED
    BY <1>2, <2>1, OpenedHasBegun DEF Moves
<1>3. QED
  BY <1>1, <1>2

LEMMA OneCaseStays ==
    ASSUME OverlapInv, NEW p \in Request, Moves(p), StepKind(p), Records(p)
    PROVE  OneCaseUnlessOverlap'
<1> SUFFICES ASSUME NEW q \in Request, NEW r \in Request, q # r,
                    req'[q].session = req'[r].session, opened'[q] # "none", opened'[r] # "none"
             PROVE  Overlap(q, r)'
  BY DEF OneCaseUnlessOverlap
<1>1. CASE /\ opened[q] # "none" /\ req'[q].session = req[q].session
           /\ opened[r] # "none" /\ req'[r].session = req[r].session
  <2>1. Overlap(q, r)
    BY <1>1 DEF OverlapInv, OneCaseUnlessOverlap
  <2>2. QED
    BY <2>1, OverlapStays
<1>2. ASSUME Opens(p), NEW x \in Request, x # p, opened[x] # "none",
             req[x].session = req[p].session
      PROVE  Overlap(x, p)' /\ Overlap(p, x)'
  <2>1. x \in CasesOf(req[p].session)
    BY <1>2 DEF CasesOf
  <2>2. Overlap(x, p)
    BY <1>2, <2>1 DEF OverlapInv, Sole, Opens
  <2>3. Overlap(p, x)
    BY <2>2 DEF Overlap
  <2>4. QED
    BY <1>2, <2>2, <2>3, OverlapStays
<1>3. CASE r = p /\ Opens(p)
  <2>1. opened[q] # "none" /\ req'[q].session = req[q].session
    BY <1>3, CasesAdded
  <2>2. req'[p].session = req[p].session
    BY <1>3 DEF Moves, Opens, At
  <2>3. QED
    BY <1>2, <1>3, <2>1, <2>2
<1>4. CASE q = p /\ Opens(p)
  <2>1. opened[r] # "none" /\ req'[r].session = req[r].session
    BY <1>4, CasesAdded
  <2>2. req'[p].session = req[p].session
    BY <1>4 DEF Moves, Opens, At
  <2>3. QED
    BY <1>2, <1>4, <2>1, <2>2
<1>5. QED
  BY <1>1, <1>3, <1>4, CasesAdded

LEMMA SoleStays ==
    ASSUME OverlapInv, NEW p \in Request, Moves(p), StepKind(p), Records(p), NEW r \in Request
    PROVE  Sole(r)'
<1> SUFFICES ASSUME At(r, "open_case")', NEW q \in Request, opened'[q] # "none",
                    req'[q].session = req'[r].session
             PROVE  Overlap(q, r)'
  BY DEF Sole, CasesOf
<1>1. CASE r = p
  <2>1. Misses(p)
    BY <1>1 DEF StepKind, Initiates, Enters, Creates, Rereads, Advances, Opens, Passes, At, Starting
  <2>2. opened' = opened /\ req'[p].session = req[p].session /\ CasesOf(req[p].session) = {}
    BY <2>1 DEF Misses, Moves, At
  <2>3. opened[q] # "none" /\ req'[q].session = req[q].session
    BY <2>1, CasesAdded DEF Misses, Opens, At
  <2>4. QED
    BY <1>1, <2>2, <2>3 DEF CasesOf
<1>2. CASE r # p
  <2>1. req'[r] = req[r] /\ At(r, "open_case")
    BY <1>2 DEF Moves, At
  <2>2. CASE opened[q] # "none" /\ req'[q].session = req[q].session
    <3>1. q \in CasesOf(req[r].session)
      BY <2>1, <2>2 DEF CasesOf
    <3>2. Overlap(q, r)
      BY <2>1, <3>1 DEF OverlapInv, Sole
    <3>3. QED
      BY <3>2, OverlapStays
  <2>3. CASE q = p /\ Opens(p)
    <3>1. /\ req[p].pc \in Running /\ req[r].pc \in Running
          /\ req[p].session = req[r].session
      BY <2>1, <2>3 DEF Opens, Moves, At, Running, Stepping, Finalizing
    <3>2. r \notin after[p] /\ ~At(r, "idle")
      BY <3>1, RunningStages DEF OverlapInv, Sequenced, At
    <3>3. Overlap(p, r)
      BY <1>2, <3>1, <3>2, RunningOverlaps
    <3>4. QED
      BY <2>3, <3>3, OverlapStays
  <2>4. QED
    BY <2>2, <2>3, CasesAdded
<1>3. QED
  BY <1>1, <1>2

\* What others may do to a step that was written.
LEMMA EffectiveStays ==
    ASSUME OverlapInv, TypeOK', NEW p \in Request, Moves(p), StepKind(p), Records(p),
           NEW r \in Request
    PROVE  Effective(r)'
<1> SUFFICES ASSUME Advanced(r)'
             PROVE  /\ req'[r].step \in session'[req'[r].session].done \/ Conflicted(r)'
                    /\ IsFinal(req'[r].session, req'[r].step) =>
                         session'[req'[r].session].status = "submitted" \/ Conflicted(r)'
  BY DEF Effective
<1>1. TypeOK /\ req[r].session \in Session /\ req[p].session \in Session
  BY SessionType DEF OverlapInv, FinalInv
<1>2. ASSUME r # p PROVE req'[r] = req[r] /\ Advanced(r) /\ Effective(r) /\ ~At(r, "idle")
  <2>1. req'[r] = req[r] /\ (SubmittedRow(r) \in trail' <=> SubmittedRow(r) \in trail)
    BY <1>2 DEF Moves
  <2>2. Advanced(r)
    BY <2>1 DEF Advanced, Saved, At, SubmittedRow
  <2>3. ~At(r, "idle")
    BY <2>2 DEF Advanced, Saved, At, Finalizing
  <2>4. QED
    BY <2>1, <2>2, <2>3 DEF OverlapInv
<1>3. CASE Creates(p)
  <2>1. r # p
    <3>1. SUFFICES ASSUME r = p PROVE FALSE
      OBVIOUS
    <3>2. req'[p].pc = "audit_initiated"
      BY <1>3 DEF Creates
    <3>3. QED
      BY <3>1, <3>2 DEF Advanced, Saved, At, Finalizing
  <2>2. req'[r] = req[r] /\ Advanced(r) /\ Effective(r)
    BY <1>2, <2>1
  <2>3. session[req[p].session].status = "absent"
    BY <1>3 DEF Creates, At, OverlapInv, Initiated, Starting
  <2>4. session'[req[r].session].done = session[req[r].session].done
    BY <1>1, <1>3 DEF Creates, TypeOK
  <2>5. \/ session'[req[r].session].status = session[req[r].session].status
        \/ session[req[r].session].status = "absent"
    BY <1>1, <1>3, <2>3 DEF Creates, TypeOK
  <2>6. QED
    BY <2>2, <2>4, <2>5, ConflictStays DEF Effective
<1>4. CASE Advances(p)
  <2> DEFINE s == req[p].session
             row == [status |-> IF IsFinal(s, req[p].step) THEN "submitted" ELSE "in_progress",
                     current |-> NextCurrent(p), done |-> req[p].seen \cup {req[p].step}]
  <2>1. session' = [session EXCEPT ![s] = row] /\ At(p, "advance")
    BY <1>4 DEF Advances
  <2>2. session'[s] = row /\ \A t \in Session \ {s} : session'[t] = session[t]
    BY <1>1, <2>1 DEF TypeOK
  <2>3. CASE r = p
    BY <2>1, <2>2, <2>3 DEF Moves, At
  <2>4. CASE r # p /\ req[r].session # s
    BY <1>1, <1>2, <2>2, <2>4, ConflictStays DEF Effective
  <2>5. CASE r # p /\ req[r].session = s
    <3>1. req'[r] = req[r] /\ Advanced(r) /\ Effective(r) /\ ~At(r, "idle")
      BY <1>2, <2>5
    <3>2. CASE r \notin after[p]
      <4>1. req[p].pc \in Running
        BY <2>1 DEF At, Running, Stepping
      <4>2. Overlap(p, r)
        BY <2>5, <3>1, <3>2, <4>1, RunningOverlaps
      <4>3. Conflicted(r)'
        BY <4>2, ConflictStays DEF Conflicted
      <4>4. QED
        BY <4>3
    <3>3. CASE r \in after[p]
      <4>1. Saved(r)
        <5>1. req[r].pc \in Ended
          BY <3>3 DEF OverlapInv, Sequenced
        <5>2. QED
          BY <3>1, <5>1, RunningStages DEF Advanced
      <4>2. \/ Conflicted(r)
            \/ req[r].step \in req[p].seen /\ ~IsFinal(req[r].session, req[r].step)
        BY <2>1, <2>5, <3>3, <4>1 DEF OverlapInv, Informed, At, Stepped
      <4>3. QED
        BY <2>2, <2>5, <3>1, <4>2, ConflictStays
    <3>4. QED
      BY <3>2, <3>3
  <2>6. QED
    BY <2>3, <2>4, <2>5
<1>5. CASE ~Creates(p) /\ ~Advances(p)
  <2>1. session' = session
    BY <1>5 DEF StepKind, Initiates, Enters, Rereads, Misses, Opens, Passes
  <2>2. CASE r # p
    BY <1>2, <2>1, <2>2, ConflictStays DEF Effective
  <2>3. CASE r = p
    <3>1. ~At(p, "idle") /\ Advanced(p)
      <4>1. CASE Initiates(p) \/ Enters(p) \/ Rereads(p)
        <5>1. req'[p].pc \in Starting \cup {"insert_version", "reread", "conflict", "advance"}
          BY <4>1 DEF Initiates, Enters, Rereads
        <5>2. QED
          BY <2>3, <5>1 DEF Advanced, Saved, At, Starting, Finalizing
      <4>2. CASE Misses(p) \/ Opens(p) \/ Passes(p)
        BY <2>3, <4>2 DEF Misses, Opens, Passes, Advanced, At, Finalizing
      <4>3. QED
        BY <1>5, <4>1, <4>2 DEF StepKind
    <3>2. Effective(p) /\ req'[p].session = req[p].session /\ req'[p].step = req[p].step
      BY <3>1 DEF OverlapInv, Moves
    <3>3. QED
      BY <2>1, <2>3, <3>1, <3>2, ConflictStays DEF Effective
  <2>4. QED
    BY <2>2, <2>3
<1>6. QED
  BY <1>3, <1>4, <1>5

LEMMA InformedStays ==
    ASSUME OverlapInv, NEW p \in Request, Moves(p), StepKind(p), Records(p), NEW q \in Request,
           Sequenced'
    PROVE  Informed(q)'
<1> SUFFICES ASSUME NEW r \in after'[q], req'[r].session = req'[q].session, Saved(r)',
                    ~Conflicted(r)'
             PROVE  /\ At(q, "advance")' => req'[r].step \in req'[q].seen
                    /\ req'[q].pc \in Stepped => ~IsFinal(req'[r].session, req'[r].step)
  BY DEF Informed
<1>1. r \in Request /\ req[r].pc \in Ended /\ r # p
  <2>1. r \in Request
    BY DEF Sequenced
  <2>2. req[r].pc \in Ended
    BY <2>1 DEF OverlapInv, Sequenced, Records
  <2>3. QED
    BY <2>1, <2>2, RunningStages DEF Moves
<1>2. req'[r] = req[r] /\ Saved(r) /\ ~Conflicted(r)
  <2>1. req'[r] = req[r] /\ (SubmittedRow(r) \in trail' <=> SubmittedRow(r) \in trail)
    BY <1>1 DEF Moves
  <2>2. Saved(r)
    BY <2>1 DEF Saved, At, SubmittedRow
  <2>3. QED
    BY <1>1, <2>1, <2>2, ConflictStays
<1>3. Effective(r) /\ Advanced(r)
  BY <1>1, <1>2 DEF OverlapInv, Advanced
<1>4. CASE q # p
  <2>1. req'[q] = req[q] /\ after'[q] = after[q]
    BY <1>4 DEF Moves, Records
  <2>2. QED
    BY <1>2, <2>1 DEF OverlapInv, Informed, At
<1>5. CASE q = p
  <2>1. CASE Enters(p)
    <3>1. /\ session' = session /\ req'[p].pc # "advance"
          /\ req'[p].pc \in Stepped => session[req'[p].session].status # "submitted"
      BY <2>1 DEF Enters, Stepped
    <3>2. IsFinal(req[r].session, req[r].step) => session[req[r].session].status = "submitted"
      BY <1>2, <1>3 DEF Effective
    <3>3. QED
      BY <1>2, <1>5, <3>1, <3>2 DEF At
  <2>2. CASE Rereads(p)
    <3>1. /\ ~At(p, "idle") /\ req[p].pc \in Stepped
          /\ req'[p].seen = session[req[p].session].done
      BY <2>2 DEF Rereads, At, Stepped
    <3>2. req'[p].session = req[p].session /\ after'[p] = after[p]
      BY <3>1 DEF Moves, Records
    <3>3. req[r].step \in session[req[r].session].done
      BY <1>2, <1>3 DEF Effective
    <3>4. ~IsFinal(req[r].session, req[r].step)
      BY <1>2, <1>5, <3>1, <3>2 DEF OverlapInv, Informed
    <3>5. QED
      BY <1>2, <1>5, <3>1, <3>2, <3>3, <3>4
  <2>3. CASE ~Enters(p) /\ ~Rereads(p)
    <3>1. req'[p].pc \notin Stepped
      BY <2>3 DEF StepKind, Initiates, Creates, Advances, Misses, Opens, Passes, Starting, Stepped
    <3>2. QED
      BY <1>5, <3>1 DEF At, Stepped
  <2>4. QED
    BY <2>1, <2>2, <2>3
<1>6. QED
  BY <1>4, <1>5
-----------------------------------------------------------------------------
LEMMA InitOverlap ==
    ASSUME OverlapInit PROVE OverlapInv
<1>1. FinalInv
  BY InitFinal DEF OverlapInit
<1>2. /\ after = [r \in Request |-> {}] /\ \A r \in Request : req[r].pc = "idle"
      /\ \A r \in Request : opened[r] = "none"
  BY DEF OverlapInit, Init
<1>3. Sequenced
  BY <1>2 DEF Sequenced
<1>4. Initiated
  <2>1. \A r \in Request : req[r].pc \notin Starting \cup Stepped
    BY <1>2 DEF Starting, Stepped
  <2>2. \A s \in Session : customer[s] = "none" => session[s].status = "absent"
    BY DEF OverlapInit, Init
  <2>3. QED
    BY <2>1, <2>2 DEF Initiated
<1>5. OneCaseUnlessOverlap
  BY <1>2 DEF OneCaseUnlessOverlap
<1>6. ASSUME NEW r \in Request PROVE Effective(r) /\ Sole(r) /\ Informed(r)
  BY <1>2 DEF Effective, Advanced, Saved, Sole, Informed, At, Finalizing
<1>7. QED
  BY <1>1, <1>3, <1>4, <1>5, <1>6 DEF OverlapInv

LEMMA OverlapStutters ==
    ASSUME OverlapInv, UNCHANGED <<vars, after>>, FinalInv' PROVE OverlapInv'
<1>1. UNCHANGED <<req, session, customer, opened, trail, after>>
  BY DEF vars
<1>2. \A q, r \in Request : Overlap(q, r)' <=> Overlap(q, r)
  BY <1>1 DEF Overlap, At
<1>3. Sequenced' /\ Initiated'
  BY <1>1 DEF OverlapInv, Sequenced, Initiated, At
<1>4. OneCaseUnlessOverlap'
  BY <1>1, <1>2 DEF OverlapInv, OneCaseUnlessOverlap
<1>5. ASSUME NEW r \in Request PROVE Effective(r)' /\ Sole(r)' /\ Informed(r)'
  <2>1. Effective(r) /\ Sole(r) /\ Informed(r)
    BY DEF OverlapInv
  <2>2. Effective(r)'
    BY <1>1, <1>2, <2>1 DEF Effective, Advanced, Saved, Conflicted, At
  <2>3. Sole(r)'
    BY <1>1, <1>2, <2>1 DEF Sole, CasesOf, At
  <2>4. Informed(r)'
    <3>1. \A q \in Request : (Saved(q)' <=> Saved(q)) /\ (Conflicted(q)' <=> Conflicted(q))
      BY <1>1, <1>2 DEF Saved, Conflicted, At
    <3>2. after[r] \subseteq Request
      BY DEF OverlapInv, Sequenced
    <3>3. QED
      BY <1>1, <2>1, <3>1, <3>2 DEF Informed, At
  <2>5. QED
    BY <2>2, <2>3, <2>4
<1>6. QED
  BY <1>3, <1>4, <1>5 DEF OverlapInv

LEMMA StepOverlap ==
    ASSUME OverlapInv, OverlapNext PROVE OverlapInv'
<1>1. PICK p \in Request :
        InitiateStep(p) \/ EditStep(p) \/ SubmitStep(p) \/ Deny(p) \/ Abort(p)
  BY DEF OverlapNext, Next
<1>2. FinalInv'
  BY <1>1, StepFinal DEF OverlapInv
<1>3. Moves(p) /\ StepKind(p)
  BY <1>1, KindOfStep DEF OverlapInv
<1>4. Records(p) /\ Sequenced'
  BY <1>3, HistoryStep DEF OverlapNext
<1>5. TypeOK'
  BY <1>2 DEF FinalInv
<1>6. Initiated'
  BY <1>3, <1>5, InitiatedStays
<1>7. OneCaseUnlessOverlap'
  BY <1>3, <1>4, OneCaseStays
<1>8. ASSUME NEW r \in Request PROVE Effective(r)' /\ Sole(r)' /\ Informed(r)'
  BY <1>3, <1>4, <1>5, EffectiveStays, SoleStays, InformedStays
<1>9. QED
  BY <1>2, <1>4, <1>6, <1>7, <1>8 DEF OverlapInv

\* advanceSession and finalizeSubmittedSession, for any number of requests, sessions and
\* steps: a second case for a session, a step that was answered 200 and lost, and a
\* submitted session that is open again each have two requests for the session that
\* overlapped.  What comes after an answer never undoes it.
THEOREM AnomaliesAreRaces == OverlapSpec => []AnomaliesNeedOverlap
<1>1. OverlapInit => OverlapInv
  BY InitOverlap
<1>2. OverlapInv /\ [OverlapNext]_<<vars, after>> => OverlapInv'
  <2>1. SUFFICES ASSUME OverlapInv, UNCHANGED <<vars, after>> PROVE OverlapInv'
    BY StepOverlap
  <2>2. FinalInv'
    BY <2>1, FinalStutters DEF OverlapInv, vars
  <2>3. QED
    BY <2>1, <2>2, OverlapStutters
<1>3. OverlapInv => AnomaliesNeedOverlap
  <2>1. SUFFICES ASSUME OverlapInv PROVE AnomaliesNeedOverlap
    OBVIOUS
  <2>2. \A r \in Request : Saved(r) => Advanced(r)
    BY DEF Advanced
  <2>3. StepKeptUnlessOverlap /\ SubmissionKeptUnlessOverlap
    BY <2>1, <2>2
       DEF OverlapInv, Effective, Conflicted, StepKeptUnlessOverlap, SubmissionKeptUnlessOverlap
  <2>4. QED
    BY <2>1, <2>3 DEF OverlapInv, AnomaliesNeedOverlap
<1>4. QED
  BY <1>1, <1>2, <1>3, PTL DEF OverlapSpec
=============================================================================
