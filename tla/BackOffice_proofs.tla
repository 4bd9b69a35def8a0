------------------------- MODULE BackOffice_proofs -------------------------
(***************************************************************************)
(* Theorems about the back office, for any requests, reports, hits and     *)
(* workflow definitions: no report is filed unvalidated, the counters of   *)
(* the reports count, no workflow of a tenant is switched on without an    *)
(* acknowledgement, the status of a hit is a recorded resolution, a        *)
(* document's hash and status have their history, the versioned tables are *)
(* registers that keep what was saved, and every account is explained.     *)
(***************************************************************************)
EXTENDS BackOffice, FiniteSetTheorems, FunctionTheorems, SequenceTheorems, TLAPS

(* Requests that meet: what the history variable crossed records.          *)

\* Two requests under way on one row have met.
Met == \A q, r \in Request :
         q # r /\ Underway(q) /\ Underway(r) /\ req[q].on = req[r].on => r \in crossed

\* Whoever goes on, or ends, meets nobody new.
LEMMA GoingMeetsNobody ==
    ASSUME Met, crossed' = crossed,
           \A q \in Request : req'[q].on = req[q].on /\ (Underway(q)' => Underway(q))
    PROVE  Met'
  BY DEF Met

\* Whoever arrives meets those at work on its row, and they meet it.
LEMMA ArrivalMeets ==
    ASSUME Met, req = [q \in Request |-> req[q]], NEW r \in Request,
           NEW op, NEW on, NEW arg, NEW seen, NEW stage, Begin(r, op, on, arg, seen, stage)
    PROVE  /\ Met' /\ At(r, "idle") /\ crossed \subseteq crossed'
           /\ req'[r] = [pc |-> stage, op |-> op, on |-> on, arg |-> arg, seen |-> seen]
           /\ \A q \in Request \ {r} : req'[q] = req[q]
           /\ \A q \in Request : Underway(q) /\ req[q].on = on => {q, r} \subseteq crossed'
<1> DEFINE rivals == {q \in Request : Underway(q) /\ req[q].on = on}
<1>1. /\ At(r, "idle")
      /\ req'[r] = [pc |-> stage, op |-> op, on |-> on, arg |-> arg, seen |-> seen]
      /\ \A q \in Request \ {r} : req'[q] = req[q]
      /\ crossed' = IF rivals = {} THEN crossed ELSE crossed \cup rivals \cup {r}
  BY DEF Begin
<1>2. \A q \in rivals : {q, r} \subseteq crossed'
  BY <1>1
<1>3. crossed \subseteq crossed' /\ req'[r].on = on
  BY <1>1
<1>4. Met'
  <2>1. SUFFICES ASSUME NEW q \in Request, NEW o \in Request, q # o, Underway(q)', Underway(o)',
                        req'[q].on = req'[o].on
                 PROVE  o \in crossed'
    BY DEF Met
  <2>2. \A x \in Request \ {r} : Underway(x)' <=> Underway(x)
    BY <1>1 DEF Underway
  <2>3. CASE q = r
    BY <1>1, <1>2, <1>3, <2>1, <2>2, <2>3
  <2>4. CASE o = r
    BY <1>1, <1>2, <1>3, <2>1, <2>2, <2>4
  <2>5. CASE q # r /\ o # r
    BY <1>1, <1>3, <2>1, <2>2, <2>5 DEF Met
  <2>6. QED
    BY <2>3, <2>4, <2>5
<1>5. QED
  BY <1>1, <1>2, <1>3, <1>4
-----------------------------------------------------------------------------
\* What holds of every row of sar_reports.
Sound(report) ==
    /\ report.hash # None => report.hash.valid
    /\ report.filed => report.hash # None

\* The validity and the status of a new text.
Patch == [valid : BOOLEAN, status : SarStatus \cup {None}]

\* What a request knows of the row it works on when it is about to write: rows are
\* never deleted, and a stored hash is replaced but never cleared.
Stage(r) ==
    /\ At(r, "reserve") \/ At(r, "write_patch") => req[r].arg \in Patch
    /\ At(r, "insert_draft") =>
         /\ req[r].seen # None
         /\ ~req[r].seen.filed /\ req[r].seen.hash = None
    /\ At(r, "write_patch") \/ At(r, "validate") \/ At(r, "store_hash") \/ At(r, "file") =>
         req[r].on # None /\ sar[req[r].on] # None
    /\ At(r, "validate") \/ At(r, "store_hash") => req[r].seen # None
    /\ At(r, "store_hash") => req[r].seen.text.valid
    /\ At(r, "file") => sar[req[r].on].hash # None

SarInv ==
    /\ SarTypeOK
    /\ \A p \in Report : sar[p] # None => Sound(sar[p])
    /\ \A r \in Request : Stage(r)
-----------------------------------------------------------------------------
\* A step of one request that keeps the rows and their hashes is a good step.
LEMMA OneRequestMoves ==
    ASSUME SarInv, SarTypeOK', NEW r \in Request, Stage(r)',
           \A q \in Request \ {r} : req'[q] = req[q],
           \A p \in Report : sar'[p] # None => Sound(sar'[p]),
           \A p \in Report : sar[p] # None =>
               sar'[p] # None /\ (sar[p].hash # None => sar'[p].hash # None)
    PROVE  SarInv'
<1>1. ASSUME NEW q \in Request \ {r} PROVE Stage(q)'
  <2>1. Stage(q) /\ req'[q] = req[q] /\ req[q].on \in Report \cup {None}
    BY DEF SarInv, SarTypeOK, SarRequest
  <2>2. QED
    BY <2>1 DEF Stage, At
<1>2. \A p \in Report : sar'[p] # None => Sound(sar[p])'
  BY DEF Sound
<1>3. QED
  BY <1>1, <1>2 DEF SarInv

\* A step that leaves the reports alone.
LEMMA ReportsKept ==
    ASSUME SarInv, NEW r \in Request, NEW x \in SarRequest,
           req' = [req EXCEPT ![r] = x], Stage(r)', sar' = sar,
           counter' \in Nat, stored' = stored, crossed' \subseteq Request,
           counterWritable' = counterWritable,
           trail' \subseteq {"drafted", "updated", "exported", "submitted"} \X Request
    PROVE  SarInv'
<1>1. SarTypeOK'
  BY DEF SarInv, SarTypeOK
<1>2. \A q \in Request \ {r} : req'[q] = req[q]
  BY DEF SarInv, SarTypeOK
<1>3. \A p \in Report : sar'[p] # None => Sound(sar'[p])
  BY DEF SarInv
<1>4. \A p \in Report : sar[p] # None =>
         sar'[p] # None /\ (sar[p].hash # None => sar'[p].hash # None)
  OBVIOUS
<1>5. QED
  BY <1>1, <1>2, <1>3, <1>4, OneRequestMoves

\* A step that writes one report.
LEMMA ReportWritten ==
    ASSUME SarInv, NEW r \in Request, NEW x \in SarRequest,
           req' = [req EXCEPT ![r] = x], Stage(r)',
           NEW p \in Report, NEW report \in SarReport, Sound(report),
           sar' = [sar EXCEPT ![p] = report],
           sar[p] # None => (sar[p].hash # None => report.hash # None),
           counter' \in Nat, stored' \subseteq Report \X Request, crossed' = crossed,
           counterWritable' = counterWritable,
           trail' = trail
    PROVE  SarInv'
<1>1. SarTypeOK'
  BY DEF SarInv, SarTypeOK
<1>2. \A q \in Request \ {r} : req'[q] = req[q]
  BY DEF SarInv, SarTypeOK
<1>3. sar'[p] = report /\ \A o \in Report \ {p} : sar'[o] = sar[o]
  BY DEF SarInv, SarTypeOK
<1>4. \A o \in Report : sar'[o] # None => Sound(sar'[o])
  BY <1>3 DEF SarInv
<1>5. \A o \in Report : sar[o] # None =>
         sar'[o] # None /\ (sar[o].hash # None => sar'[o].hash # None)
  BY <1>3, SarNoneAssumption
<1>6. QED
  BY <1>1, <1>2, <1>4, <1>5, OneRequestMoves
-----------------------------------------------------------------------------
\* A number that fits is shown as it is.
LEMMA ShownIsNumber ==
    ASSUME NEW n \in Nat
    PROVE  Shown(n) \in Nat /\ (n < Limit => Shown(n) = n)
<1>1. \A m \in Nat : CutLast(m) \in Nat /\ (m < Limit => CutLast(m) = m)
  BY SarAssumption DEF CutLast
<1>2. QED
  BY <1>1 DEF Shown

LEMMA NewDraft ==
    ASSUME NEW n \in Nat, NEW text \in Text
    PROVE  Draft(n, text) \in SarReport /\ ~Draft(n, text).filed /\ Draft(n, text).hash = None
<1>1. Draft(n, text) = [number |-> n, text |-> text, status |-> "draft", filed |-> FALSE,
                        hash |-> None, version |-> 0]
  BY DEF Draft
<1>2. Draft(n, text) \in SarReport
  BY <1>1 DEF SarReport, SarStatus
<1>3. QED
  BY <1>1, <1>2

LEMMA InitSar == RequestsInit /\ SarInit => SarInv
<1>1. SUFFICES ASSUME RequestsInit, SarInit PROVE SarInv
  OBVIOUS
<1>2. req \in [Request -> SarRequest] /\ \A r \in Request : req[r].pc = "idle"
  BY <1>1 DEF RequestsInit, Idle, SarRequest
<1>3. \A n \in Nat, t \in Text :
        Draft(n, t) \in SarReport /\ Sound(Draft(n, t))
  BY DEF Draft, SarReport, SarStatus, Sound
<1>4. \A p \in Report : sar[p] # None => sar[p] \in SarReport /\ Sound(sar[p])
  <2>1. CASE sar = [p \in Report |-> None]
    BY <2>1
  <2>2. ASSUME NEW first \in Report, NEW valid \in BOOLEAN,
               sar = [p \in Report |->
                        IF p = first THEN Draft(1, [by |-> None, valid |-> valid]) ELSE None]
        PROVE  \A p \in Report : sar[p] # None => sar[p] \in SarReport /\ Sound(sar[p])
    <3>1. [by |-> None, valid |-> valid] \in Text
      BY DEF Text
    <3>2. QED
      BY <1>3, <2>2, <3>1
  <2>3. QED
    BY <1>1, <2>1, <2>2 DEF SarInit
<1>5. sar \in [Report -> SarReport \cup {None}]
  <2>1. sar = [p \in Report |-> sar[p]]
    BY <1>1 DEF SarInit
  <2>2. QED
    BY <1>4, <2>1
<1>6. SarTypeOK
  BY <1>1, <1>2, <1>5 DEF SarTypeOK, RequestsInit, SarInit
<1>7. \A r \in Request : Stage(r)
  BY <1>2 DEF Stage, At
<1>8. QED
  BY <1>4, <1>6, <1>7 DEF SarInv
-----------------------------------------------------------------------------
\* A request that goes on to another stage keeps its operation, row and values.
LEMMA GotoRequest ==
    ASSUME req \in [Request -> SarRequest], NEW r \in Request,
           NEW stage \in {"idle"} \cup SarStage \cup Ended, Goto(r, stage)
    PROVE  /\ [req[r] EXCEPT !.pc = stage] \in SarRequest
           /\ req' = [req EXCEPT ![r] = [req[r] EXCEPT !.pc = stage]]
           /\ req'[r].pc = stage /\ req'[r].op = req[r].op /\ req'[r].on = req[r].on
           /\ req'[r].arg = req[r].arg /\ req'[r].seen = req[r].seen
           /\ crossed' = crossed
<1>1. req' = [req EXCEPT ![r] = [req[r] EXCEPT !.pc = stage]] /\ crossed' = crossed
  BY DEF Goto
<1>2. [req[r] EXCEPT !.pc = stage] \in SarRequest
  BY DEF SarRequest
<1>3. req'[r] = [req[r] EXCEPT !.pc = stage] /\ req[r] \in SarRequest
  BY <1>1
<1>4. QED
  BY <1>1, <1>2, <1>3 DEF SarRequest

\* What a new request is.
LEMMA BeginRequest ==
    ASSUME SarInv, NEW r \in Request,
           NEW op \in {"create", "update", "export", "submit"},
           NEW on \in Report \cup {None},
           NEW arg \in Patch \cup {None},
           NEW seen \in SarReport \cup {None},
           NEW stage \in SarStage \cup Ended,
           Begin(r, op, on, arg, seen, stage)
    PROVE  \E x \in SarRequest :
             /\ req' = [req EXCEPT ![r] = x] /\ req'[r] = x
             /\ x.pc = stage /\ x.on = on /\ x.arg = arg /\ x.seen = seen
             /\ crossed' \subseteq Request
<1> DEFINE x == [pc |-> stage, op |-> op, on |-> on, arg |-> arg, seen |-> seen]
<1>1. x \in SarRequest
  BY DEF SarRequest, Patch
<1>2. req' = [req EXCEPT ![r] = x] /\ crossed' \subseteq Request
  BY DEF Begin, SarInv, SarTypeOK
<1>3. req'[r] = x
  BY <1>2 DEF SarInv, SarTypeOK
<1>4. QED
  BY <1>1, <1>2, <1>3

LEMMA StartKeeps ==
    ASSUME SarInv, counterWritable' = counterWritable, NEW r \in Request,
           \/ StartDraft(r) \/ StartUpdate(r) \/ StartExport(r) \/ StartSubmit(r)
    PROVE  SarInv'
<1>1. sar \in [Report -> SarReport \cup {None}] /\ UNCHANGED <<trail, counter, sar, stored>>
  BY DEF SarInv, SarTypeOK, StartDraft, StartUpdate, StartExport, StartSubmit, sarRows
<1>2. CASE StartDraft(r)
  <2>1. PICK valid \in BOOLEAN :
          Begin(r, "create", None, [valid |-> valid, status |-> None], None, "reserve")
    BY <1>2 DEF StartDraft
  <2>2. [valid |-> valid, status |-> None] \in Patch
    BY DEF Patch
  <2>3. PICK x \in SarRequest :
          /\ req' = [req EXCEPT ![r] = x] /\ req'[r] = x /\ crossed' \subseteq Request
          /\ x.pc = "reserve" /\ x.arg = [valid |-> valid, status |-> None]
    BY <2>1, <2>2, BeginRequest DEF SarStage
  <2>4. Stage(r)'
    BY <2>2, <2>3 DEF Stage, At
  <2>5. QED
    BY <1>1, <2>3, <2>4, ReportsKept DEF SarInv, SarTypeOK
<1>3. CASE StartUpdate(r)
  <2>1. PICK p \in Report, valid \in BOOLEAN, status \in SarStatus \cup {None} :
          /\ sar[p] # None
          /\ Begin(r, "update", p, [valid |-> valid, status |-> status], None, "write_patch")
    BY <1>3 DEF StartUpdate
  <2>2. [valid |-> valid, status |-> status] \in Patch
    BY DEF Patch
  <2>3. PICK x \in SarRequest :
          /\ req' = [req EXCEPT ![r] = x] /\ req'[r] = x /\ crossed' \subseteq Request
          /\ x.pc = "write_patch" /\ x.on = p
          /\ x.arg = [valid |-> valid, status |-> status]
    BY <2>1, <2>2, BeginRequest DEF SarStage
  <2>4. Stage(r)'
    BY <1>1, <2>1, <2>2, <2>3, SarNoneAssumption DEF Stage, At
  <2>5. QED
    BY <1>1, <2>3, <2>4, ReportsKept DEF SarInv, SarTypeOK
<1>4. CASE StartExport(r)
  <2>1. PICK p \in Report : sar[p] # None /\ Begin(r, "export", p, None, sar[p], "validate")
    BY <1>4 DEF StartExport
  <2>2. PICK x \in SarRequest :
          /\ req' = [req EXCEPT ![r] = x] /\ req'[r] = x /\ crossed' \subseteq Request
          /\ x.pc = "validate" /\ x.on = p /\ x.seen = sar[p]
    BY <1>1, <2>1, BeginRequest DEF SarStage
  <2>3. Stage(r)'
    BY <1>1, <2>1, <2>2, SarNoneAssumption DEF Stage, At
  <2>4. QED
    BY <1>1, <2>2, <2>3, ReportsKept DEF SarInv, SarTypeOK
<1>5. CASE StartSubmit(r)
  <2>1. PICK p \in Report : 
          /\ sar[p] # None
          /\ Begin(r, "submit", p, None, None, IF sar[p].hash = None THEN "refused" ELSE "file")
    BY <1>5 DEF StartSubmit
  <2>2. PICK x \in SarRequest :
          /\ req' = [req EXCEPT ![r] = x] /\ req'[r] = x /\ crossed' \subseteq Request
          /\ x.pc = (IF sar[p].hash = None THEN "refused" ELSE "file") /\ x.on = p
    BY <2>1, BeginRequest DEF SarStage, Ended
  <2>3. Stage(r)'
    BY <1>1, <2>1, <2>2, SarNoneAssumption DEF Stage, At
  <2>4. QED
    BY <1>1, <2>2, <2>3, ReportsKept DEF SarInv, SarTypeOK
<1>6. QED
  BY <1>2, <1>3, <1>4, <1>5

\* Stages that only wait for the audit entry, or that end the request, promise nothing.
LEMMA QuietStage ==
    ASSUME NEW r \in Request,
           NEW stage \in Ended \cup {"audit_drafted", "audit_updated", "audit_exported",
                                     "audit_submitted"},
           req'[r].pc = stage
    PROVE  Stage(r)'
  BY DEF Stage, At, Ended

\* The steps that touch neither a report nor the counter.
LEMMA QuietKeeps ==
    ASSUME SarInv, counterWritable' = counterWritable, NEW r \in Request,
           Validate(r) \/ SarAudit(r) \/ (Kill(r) /\ UNCHANGED <<counter, sar, stored>>)
    PROVE  SarInv'
<1>1. req \in [Request -> SarRequest] /\ counter \in Nat /\ crossed \subseteq Request
      /\ trail \subseteq {"drafted", "updated", "exported", "submitted"} \X Request
  BY DEF SarInv, SarTypeOK
<1>2. CASE Validate(r)
  <2>1. At(r, "validate") /\ UNCHANGED <<trail, counter, sar, stored>>
    BY <1>2 DEF Validate, sarRows
  <2>2. CASE req[r].seen.text.valid
    <3>1. Goto(r, "store_hash") /\ "store_hash" \in SarStage
      BY <1>2, <2>2 DEF Validate, SarStage
    <3>2. req'[r].pc = "store_hash" /\ req'[r].on = req[r].on /\ req'[r].seen = req[r].seen
      BY <1>1, <3>1, GotoRequest
    <3>3. /\ req[r].on # None /\ sar[req[r].on] # None /\ req[r].seen # None
      BY <2>1 DEF SarInv, Stage
    <3>4. Stage(r)'
      BY <2>1, <2>2, <3>2, <3>3 DEF Stage, At
    <3>5. QED
      BY <1>1, <2>1, <3>1, <3>4, GotoRequest, ReportsKept
  <2>3. CASE ~req[r].seen.text.valid
    <3>1. Goto(r, "refused") /\ "refused" \in Ended
      BY <1>2, <2>3 DEF Validate, Ended
    <3>2. Stage(r)'
      BY <1>1, <3>1, GotoRequest, QuietStage
    <3>3. QED
      BY <1>1, <2>1, <3>1, <3>2, GotoRequest, ReportsKept
  <2>4. QED
    BY <2>2, <2>3
<1>3. CASE SarAudit(r)
  <2>1. UNCHANGED <<counter, sar, stored>> /\ Goto(r, "done") /\ "done" \in Ended
    BY <1>3 DEF SarAudit, Emit, sarRows, Ended
  <2>2. trail' \subseteq {"drafted", "updated", "exported", "submitted"} \X Request
    BY <1>1, <1>3 DEF SarAudit, Emit
  <2>3. Stage(r)'
    BY <1>1, <2>1, GotoRequest, QuietStage
  <2>4. QED
    BY <1>1, <2>1, <2>2, <2>3, GotoRequest, ReportsKept
<1>4. CASE Kill(r) /\ UNCHANGED <<counter, sar, stored>>
  <2>1. UNCHANGED <<trail, counter, sar, stored>> /\ Goto(r, "killed") /\ "killed" \in Ended
    BY <1>4 DEF Kill, sarRows, Ended
  <2>2. Stage(r)'
    BY <1>1, <2>1, GotoRequest, QuietStage
  <2>3. QED
    BY <1>1, <2>1, <2>2, GotoRequest, ReportsKept
<1>5. QED
  BY <1>2, <1>3, <1>4

\* createSarDraft: a draft is not filed and has no hash.
LEMMA ReserveKeeps ==
    ASSUME SarInv, counterWritable' = counterWritable, NEW r \in Request, Reserve(r)
    PROVE  SarInv'
<1>1. req \in [Request -> SarRequest] /\ counter \in Nat /\ crossed \subseteq Request
      /\ trail \subseteq {"drafted", "updated", "exported", "submitted"} \X Request
      /\ UNCHANGED <<trail, sar, stored>> /\ req[r].arg \in Patch
  BY DEF SarInv, SarTypeOK, Reserve, Stage
<1>2. CASE counterWritable
  <2>1. PICK number \in Nat :
          counter' = counter + 1
          /\ Keep(r, Draft(number, [by |-> r, valid |-> req[r].arg.valid]), "insert_draft")
    BY <1>1, <1>2, ShownIsNumber DEF Reserve
  <2>2. [by |-> r, valid |-> req[r].arg.valid] \in Text
    BY <1>1 DEF Text, Patch
  <2>3. PICK draft \in SarReport :
          draft = Draft(number, [by |-> r, valid |-> req[r].arg.valid])
          /\ ~draft.filed /\ draft.hash = None
    BY <2>2, NewDraft
  <2> DEFINE x == [req[r] EXCEPT !.pc = "insert_draft", !.seen = draft]
  <2>4. req' = [req EXCEPT ![r] = x] /\ crossed' = crossed
    BY <2>1, <2>3 DEF Keep
  <2>5. x \in SarRequest
    BY <1>1 DEF SarRequest, SarStage
  <2>6. req'[r] = x /\ req[r] \in SarRequest
    BY <1>1, <2>4
  <2>7. req'[r].pc = "insert_draft" /\ req'[r].seen = draft
    BY <2>6 DEF SarRequest
  <2>8. Stage(r)'
    BY <2>3, <2>7, SarNoneAssumption DEF Stage, At
  <2>9. counter' \in Nat /\ UNCHANGED <<sar, stored, trail>>
    BY <1>1, <2>1
  <2>10. crossed' \subseteq Request
    BY <1>1, <2>4
  <2> HIDE DEF x
  <2>11. QED
    BY <1>1, <2>4, <2>5, <2>8, <2>9, <2>10, ReportsKept
<1>3. CASE ~counterWritable
  <2>1. UNCHANGED counter /\ Goto(r, "refused") /\ "refused" \in Ended
    BY <1>3 DEF Reserve, Ended
  <2>2. Stage(r)'
    BY <1>1, <2>1, GotoRequest, QuietStage
  <2>3. QED
    BY <1>1, <2>1, <2>2, GotoRequest, ReportsKept
<1>4. QED
  BY <1>2, <1>3

LEMMA InsertKeepsReports ==
    ASSUME SarInv, counterWritable' = counterWritable, NEW r \in Request, InsertDraft(r)
    PROVE  SarInv'
<1>1. /\ req \in [Request -> SarRequest] /\ counter \in Nat /\ crossed \subseteq Request
      /\ trail \subseteq {"drafted", "updated", "exported", "submitted"} \X Request
      /\ stored \subseteq Report \X Request /\ UNCHANGED <<trail, counter, stored>>
      /\ At(r, "insert_draft")
  BY DEF SarInv, SarTypeOK, InsertDraft
<1>2. CASE UNCHANGED sar /\ Goto(r, "refused")
  <2>1. "refused" \in Ended
    BY DEF Ended
  <2>2. Stage(r)'
    BY <1>1, <1>2, <2>1, GotoRequest, QuietStage
  <2>3. QED
    BY <1>1, <1>2, <2>1, <2>2, GotoRequest, ReportsKept
<1>3. ASSUME NEW p \in Report, sar[p] = None, sar' = [sar EXCEPT ![p] = req[r].seen],
             Goto(r, "audit_drafted")
      PROVE  SarInv'
  <2>1. PICK report \in SarReport : report = req[r].seen /\ ~report.filed /\ report.hash = None
    BY <1>1 DEF SarInv, Stage, SarRequest
  <2>2. Sound(report)
    BY <2>1 DEF Sound
  <2>3. "audit_drafted" \in SarStage
    BY DEF SarStage
  <2>4. Stage(r)'
    BY <1>1, <1>3, <2>3, GotoRequest, QuietStage
  <2>5. QED
    BY <1>1, <1>3, <2>1, <2>2, <2>3, <2>4, GotoRequest, ReportWritten
<1>4. QED
  BY <1>2, <1>3 DEF InsertDraft

\* updateSarDraft keeps hash and filing date.
LEMMA PatchKeeps ==
    ASSUME SarInv, counterWritable' = counterWritable, NEW r \in Request, WritePatch(r)
    PROVE  SarInv'
<1>1. /\ req \in [Request -> SarRequest] /\ counter \in Nat /\ crossed \subseteq Request
      /\ trail \subseteq {"drafted", "updated", "exported", "submitted"} \X Request
      /\ stored \subseteq Report \X Request /\ UNCHANGED <<trail, counter, stored>>
      /\ sar \in [Report -> SarReport \cup {None}]
      /\ req[r].arg \in Patch /\ Goto(r, "audit_updated")
  BY DEF SarInv, SarTypeOK, WritePatch, Stage
<1>2. PICK p \in Report : p = req[r].on /\ sar[p] \in SarReport /\ Sound(sar[p])
  BY <1>1 DEF SarInv, SarRequest, Stage, WritePatch
<1> DEFINE text == [by |-> r, valid |-> req[r].arg.valid]
           status == IF req[r].arg.status = None THEN sar[p].status ELSE req[r].arg.status
           report == [sar[p] EXCEPT !.text = text, !.status = status]
<1>3. text \in Text /\ status \in SarStatus
  BY <1>1, <1>2 DEF Text, Patch, SarReport
<1>4. sar' = [sar EXCEPT ![p] = report]
  BY <1>1, <1>2 DEF WritePatch, SarReport
<1> HIDE DEF text, status
<1>5. report \in SarReport /\ report.hash = sar[p].hash /\ report.filed = sar[p].filed
  BY <1>2, <1>3 DEF SarReport
<1> HIDE DEF report
<1>6. Sound(report)
  BY <1>2, <1>5 DEF Sound
<1>7. "audit_updated" \in SarStage
  BY DEF SarStage
<1>8. Stage(r)'
  BY <1>1, <1>7, GotoRequest, QuietStage
<1>9. QED
  BY <1>1, <1>2, <1>4, <1>5, <1>6, <1>7, <1>8, GotoRequest, ReportWritten

\* exportSarAsXml stores the hash of a text that was found valid.
LEMMA StoreHashKeeps ==
    ASSUME SarInv, counterWritable' = counterWritable, NEW r \in Request, StoreHash(r)
    PROVE  SarInv'
<1>1. /\ req \in [Request -> SarRequest] /\ counter \in Nat /\ crossed \subseteq Request
      /\ trail \subseteq {"drafted", "updated", "exported", "submitted"} \X Request
      /\ stored \subseteq Report \X Request /\ UNCHANGED <<trail, counter>>
      /\ sar \in [Report -> SarReport \cup {None}]
      /\ At(r, "store_hash") /\ Goto(r, "audit_exported")
  BY DEF SarInv, SarTypeOK, StoreHash
<1>2. PICK p \in Report : p = req[r].on /\ sar[p] \in SarReport /\ Sound(sar[p])
  BY <1>1 DEF SarInv, SarRequest, Stage
<1>3. PICK text \in Text, read \in Nat :
        text = req[r].seen.text /\ text.valid /\ read = req[r].seen.version
  BY <1>1 DEF SarInv, SarRequest, Stage, SarReport
<1>4. "audit_exported" \in SarStage
  BY DEF SarStage
<1>5. Stage(r)'
  BY <1>1, <1>4, GotoRequest, QuietStage
<1>6. CASE UNCHANGED <<sar, stored>>
  BY <1>1, <1>4, <1>5, <1>6, GotoRequest, ReportsKept
<1>7. CASE /\ sar' = [sar EXCEPT ![p].hash = text, ![p].version = read + 1]
           /\ stored' = stored \cup {<<p, r>>}
  <2> DEFINE report == [sar[p] EXCEPT !.hash = text, !.version = read + 1]
  <2>1. sar' = [sar EXCEPT ![p] = report]
    BY <1>1, <1>2, <1>7
  <2>2. report \in SarReport /\ report.hash = text
    <3>1. sar[p] \in SarReport /\ read + 1 \in Nat /\ text \in Text \cup {None}
      BY <1>2, <1>3
    <3>2. report.hash = text
      BY <3>1 DEF SarReport
    <3>3. report \in SarReport
      BY <3>1 DEF SarReport
    <3>4. QED
      BY <3>2, <3>3
  <2> HIDE DEF report
  <2>3. Sound(report) /\ report.hash # None
    BY <1>3, <2>2, SarNoneAssumption DEF Sound
  <2>4. stored' \subseteq Report \X Request
    BY <1>1, <1>7
  <2>5. QED
    BY <1>1, <1>4, <1>5, <2>1, <2>2, <2>3, <2>4, GotoRequest, ReportWritten
<1>8. QED
  BY <1>2, <1>3, <1>6, <1>7 DEF StoreHash

\* submitSarReport, after the check that the report was exported.
LEMMA FileKeeps ==
    ASSUME SarInv, counterWritable' = counterWritable, NEW r \in Request, File(r)
    PROVE  SarInv'
<1>1. /\ req \in [Request -> SarRequest] /\ counter \in Nat /\ crossed \subseteq Request
      /\ trail \subseteq {"drafted", "updated", "exported", "submitted"} \X Request
      /\ stored \subseteq Report \X Request /\ UNCHANGED <<trail, counter, stored>>
      /\ sar \in [Report -> SarReport \cup {None}]
      /\ At(r, "file") /\ Goto(r, "audit_submitted")
  BY DEF SarInv, SarTypeOK, File
<1>2. PICK p \in Report : p = req[r].on /\ sar[p] \in SarReport /\ Sound(sar[p])
                          /\ sar[p].hash # None
  BY <1>1 DEF SarInv, SarRequest, Stage
<1> DEFINE report == [sar[p] EXCEPT !.status = "submitted", !.filed = TRUE]
<1>3. sar' = [sar EXCEPT ![p] = report]
  BY <1>1, <1>2 DEF File
<1>4. report \in SarReport /\ report.hash = sar[p].hash
  BY <1>2 DEF SarReport, SarStatus
<1> HIDE DEF report
<1>5. Sound(report)
  BY <1>2, <1>4 DEF Sound
<1>6. "audit_submitted" \in SarStage
  BY DEF SarStage
<1>7. Stage(r)'
  BY <1>1, <1>6, GotoRequest, QuietStage
<1>8. QED
  BY <1>1, <1>2, <1>3, <1>4, <1>5, <1>6, <1>7, GotoRequest, ReportWritten

LEMMA SarStepKeeps ==
    ASSUME SarInv, [SarNext]_<<calls, sarRows>>
    PROVE  SarInv'
<1>1. CASE UNCHANGED <<calls, sarRows>>
  BY <1>1 DEF SarInv, SarTypeOK, Sound, Stage, At, calls, sarRows
<1>2. CASE SarNext
  <2> counterWritable' = counterWritable
    BY <1>2 DEF SarNext
  <2>1. PICK r \in Request :
          \/ StartDraft(r) \/ Reserve(r) \/ InsertDraft(r) \/ StartUpdate(r) \/ WritePatch(r)
          \/ StartExport(r) \/ Validate(r) \/ StoreHash(r) \/ StartSubmit(r) \/ File(r)
          \/ SarAudit(r)
          \/ (Kill(r) /\ UNCHANGED <<counter, sar, stored>>)
    BY <1>2 DEF SarNext
  <2>2. CASE StartDraft(r) \/ StartUpdate(r) \/ StartExport(r) \/ StartSubmit(r)
    BY <2>2, StartKeeps
  <2>3. CASE Validate(r) \/ SarAudit(r) \/ (Kill(r) /\ UNCHANGED <<counter, sar, stored>>)
    BY <2>3, QuietKeeps
  <2>4. CASE Reserve(r) \/ InsertDraft(r) \/ WritePatch(r) \/ StoreHash(r) \/ File(r)
    BY <2>4, ReserveKeeps, InsertKeepsReports, PatchKeeps, StoreHashKeeps, FileKeeps
  <2>5. (StartDraft(r) \/ StartUpdate(r) \/ StartExport(r) \/ StartSubmit(r))
        \/ (Validate(r) \/ SarAudit(r) \/ (Kill(r) /\ UNCHANGED <<counter, sar, stored>>))
        \/ (Reserve(r) \/ InsertDraft(r) \/ WritePatch(r) \/ StoreHash(r) \/ File(r))
    BY <2>1, Zenon
  <2>6. QED
    BY <2>2, <2>3, <2>4, <2>5, Zenon
<1>3. QED
  BY <1>1, <1>2
-----------------------------------------------------------------------------
(* The counters of the register of reports.                                *)

\* A request that was given a reference number, and one that was given the first.
Holder(r) == req[r].op = "create" /\ req[r].seen # None
First(r) == Holder(r) /\ req[r].seen.number = 1

\* The numbers the counter has handed out: it stands at the next one, but 1 comes twice.
GivenOut(next, n) == n >= 1 /\ next >= 1 /\ (n < next \/ n = 1)

\* Only a creation holds a number, from the reservation on.
Operations(r) ==
    /\ At(r, "idle") => req[r].seen = None
    /\ At(r, "validate") => req[r].op # "create"
    /\ At(r, "reserve") => req[r].op = "create" /\ req[r].seen = None
    /\ At(r, "insert_draft") => req[r].op = "create" /\ req[r].seen.version = 0

\* A number other than the first belongs to one creation, and meets no report when it is
\* inserted: every clash is about the first number.
Numbered ==
    /\ \A r \in Request : Holder(r) => GivenOut(counter, req[r].seen.number)
    /\ \A p \in Report : sar[p] # None => GivenOut(counter, sar[p].number)
    /\ \A q, r \in Request :
         Holder(q) /\ Holder(r) /\ req[q].seen.number = req[r].seen.number =>
             q = r \/ First(q)
    /\ \A r \in Request : At(r, "insert_draft") /\ ~First(r) => ~SarTaken(req[r].seen.number)
    /\ \A r \in Clashes : First(r)

\* The year began with a draft: the first number is handed out once more at most.
BeganWithADraft ==
    /\ counter >= 1
    /\ counter = 1 => \A r \in Request : ~First(r)
    /\ \A q, r \in Request : First(q) /\ First(r) => q = r

\* The year began without: two creations hold the first number at most, and a report or a
\* clash under that number means that one of them got as far as writing it.
BeganEmpty ==
    /\ counter = 0 => \A r \in Request : ~First(r)
    /\ counter <= 1 => \A q, r \in Request : First(q) /\ First(r) => q = r
    /\ \A o, q, r \in Request : First(o) /\ First(q) /\ First(r) => o = q \/ q = r \/ o = r
    /\ SarTaken(1) \/ Clashes # {} =>
         \E w \in Request : First(w) /\ req[w].pc \notin {"insert_draft", "refused"}

NumbersInv ==
    /\ \A r \in Request : Operations(r)
    /\ Numbered
    /\ BeganWithADraft \/ BeganEmpty

\* All that holds while the numbers fit into a reference.
CountsInv ==
    /\ \A r \in Request : Operations(r)
    /\ counter <= Limit => NumbersInv

\* What an export that is about to store its hash knows of the number of exports.
Counting(r) ==
    At(r, "validate") \/ At(r, "store_hash") =>
        \A p \in Report : req[r].on = p =>
            /\ req[r].seen.version <= Cardinality(Stored(p))
            /\ r \notin crossed => req[r].seen.version = sar[p].version

\* An export is stored once, and requests that work on one report at once have met.
VersionsInv ==
    /\ \A p \in Report : IsFiniteSet(Stored(p)) /\ (sar[p] = None => Stored(p) = {})
    /\ \A p \in Report : \A r \in Stored(p) : req[r].pc \in {"audit_exported"} \cup Ended
    /\ Met
    /\ VersionCountsExports
    /\ \A r \in Request : Counting(r)
-----------------------------------------------------------------------------
\* A step that gives no number and writes none.
LEMMA NumbersMove ==
    ASSUME SarInv, NumbersInv, NEW r \in Request,
           \A q \in Request \ {r} : req'[q] = req[q],
           req'[r].op = req[r].op, req'[r].seen = req[r].seen,
           req'[r].pc \notin {"idle", "validate", "reserve", "insert_draft"},
           req'[r].pc = "refused" => ~Holder(r),
           \A p \in Report : sar'[p] = None <=> sar[p] = None,
           \A p \in Report : sar[p] # None => sar'[p].number = sar[p].number,
           counter' = counter
    PROVE  NumbersInv'
<1>1. \A q \in Request : /\ Holder(q)' <=> Holder(q)
                         /\ First(q)' <=> First(q)
                         /\ req'[q].seen = req[q].seen
  BY DEF Holder, First
<1>2. \A n : SarTaken(n)' <=> SarTaken(n)
  BY DEF SarTaken
<1>3. \A q \in Request : Operations(q)'
  BY DEF NumbersInv, Operations, At
<1>4. Clashes' \subseteq Clashes
  BY <1>1 DEF Clashes, Holder, At
<1>5. Numbered'
  <2>1. \A q \in Request \ {r} : At(q, "insert_draft")' => At(q, "insert_draft")
    BY DEF At
  <2>2. ~At(r, "insert_draft")'
    BY DEF At
  <2>3. \A q \in Request : Holder(q)' => GivenOut(counter', req'[q].seen.number)
    BY <1>1 DEF NumbersInv, Numbered
  <2>4. \A p \in Report : sar'[p] # None => GivenOut(counter', sar'[p].number)
    BY DEF NumbersInv, Numbered
  <2>5. \A q \in Request : At(q, "insert_draft")' /\ ~First(q)' => ~SarTaken(req[q].seen.number)'
    BY <1>1, <1>2, <2>1, <2>2 DEF NumbersInv, Numbered
  <2>6. \A q \in Clashes' : First(q)'
    BY <1>1, <1>4 DEF NumbersInv, Numbered, Clashes
  <2>7. \A o, q \in Request : Holder(o)' /\ Holder(q)' /\ req'[o].seen.number = req'[q].seen.number
                              => o = q \/ First(o)'
    BY <1>1 DEF NumbersInv, Numbered
  <2>8. QED
    BY <1>1, <2>3, <2>4, <2>5, <2>6, <2>7 DEF Numbered
<1>6. BeganWithADraft => BeganWithADraft'
  BY <1>1 DEF BeganWithADraft
<1>7. BeganEmpty => BeganEmpty'
  <2>1. ASSUME NEW w \in Request, First(w), req[w].pc \notin {"insert_draft", "refused"}
        PROVE  First(w)' /\ req'[w].pc \notin {"insert_draft", "refused"}
    BY <1>1, <2>1 DEF First
  <2>2. QED
    BY <1>1, <1>2, <1>4, <2>1 DEF BeganEmpty
<1>8. QED
  BY <1>3, <1>5, <1>6, <1>7 DEF NumbersInv

\* A request that arrives holds no number.
LEMMA NumbersBegin ==
    ASSUME SarInv, NumbersInv, NEW r \in Request, At(r, "idle"),
           \A q \in Request \ {r} : req'[q] = req[q],
           \/ req'[r].op = "create" /\ req'[r].pc = "reserve"
           \/ req'[r].op # "create" /\ req'[r].pc \notin {"idle", "reserve", "insert_draft"},
           req'[r].op = "create" => req'[r].seen = None,
           UNCHANGED <<counter, sar>>
    PROVE  NumbersInv'
<1>1. /\ ~Holder(r) /\ ~Holder(r)'
      /\ \A q \in Request : (Holder(q)' <=> Holder(q)) /\ (First(q)' <=> First(q))
      /\ \A q \in Request : Holder(q) => req'[q] = req[q]
  BY DEF NumbersInv, Operations, Holder, First
<1>2. \A n : SarTaken(n)' <=> SarTaken(n)
  BY DEF SarTaken
<1>3. \A q \in Request : Operations(q)'
  BY DEF NumbersInv, Operations, At
<1>4. Clashes' \subseteq Clashes
  BY <1>1 DEF Clashes, Holder, At
<1>5. Numbered'
  <2>1. \A q \in Request : At(q, "insert_draft")' => At(q, "insert_draft") /\ req'[q] = req[q]
    BY DEF At
  <2>2. \A q \in Request : Holder(q)' => GivenOut(counter', req'[q].seen.number)
    BY <1>1 DEF NumbersInv, Numbered
  <2>3. \A p \in Report : sar'[p] # None => GivenOut(counter', sar'[p].number)
    BY DEF NumbersInv, Numbered
  <2>4. \A q \in Request : At(q, "insert_draft")' /\ ~First(q)' => ~SarTaken(req[q].seen.number)'
    BY <1>1, <1>2, <2>1 DEF NumbersInv, Numbered
  <2>5. \A q \in Clashes' : First(q)'
    BY <1>1, <1>4 DEF NumbersInv, Numbered, Clashes
  <2>6. \A o, q \in Request : Holder(o)' /\ Holder(q)' /\ req'[o].seen.number = req'[q].seen.number
                              => o = q \/ First(o)'
    BY <1>1 DEF NumbersInv, Numbered
  <2>7. QED
    BY <2>2, <2>3, <2>4, <2>5, <2>6 DEF Numbered
<1>6. BeganWithADraft => BeganWithADraft'
  BY <1>1 DEF BeganWithADraft
<1>7. BeganEmpty => BeganEmpty'
  BY <1>1, <1>2, <1>4 DEF BeganEmpty, First
<1>8. QED
  BY <1>3, <1>5, <1>6, <1>7 DEF NumbersInv

\* generate_sar_reference: the number given is new, except for the second 1.
LEMMA NumbersReserve ==
    ASSUME SarInv, NumbersInv, NEW r \in Request, At(r, "reserve"),
           \A q \in Request \ {r} : req'[q] = req[q],
           req'[r].pc = "insert_draft", req'[r].op = "create", req'[r].seen # None,
           req'[r].seen.number = IF counter = 0 THEN 1 ELSE counter,
           req'[r].seen.version = 0,
           counter' = counter + 1, sar' = sar
    PROVE  NumbersInv'
<1> DEFINE n == IF counter = 0 THEN 1 ELSE counter
<1>1. /\ counter \in Nat /\ ~Holder(r) /\ Holder(r)'
      /\ \A q \in Request \ {r} : (Holder(q)' <=> Holder(q)) /\ (First(q)' <=> First(q))
      /\ (First(r)' <=> n = 1) /\ ~First(r)
  BY DEF SarInv, SarTypeOK, NumbersInv, Operations, Holder, First
<1>2. /\ \A q \in Request : Holder(q) => req[q].seen.number \in Nat
      /\ \A p \in Report : sar[p] # None => sar[p].number \in Nat
  BY DEF SarInv, SarTypeOK, SarRequest, SarReport, Holder
<1>3. \A m \in Nat : GivenOut(counter, m) => GivenOut(counter', m) /\ (m = n => n = 1)
  BY <1>1 DEF GivenOut
<1>4. GivenOut(counter', n) /\ n \in Nat
  BY <1>1 DEF GivenOut
<1>5. \A m : SarTaken(m)' <=> SarTaken(m)
  BY DEF SarTaken
<1>6. \A q \in Request : Operations(q)'
  BY DEF NumbersInv, Operations, At
<1>7. Clashes' = Clashes
  BY DEF Clashes, At
<1>8. Numbered'
  <2>1. \A q \in Request : Holder(q)' => GivenOut(counter', req'[q].seen.number)
    BY <1>1, <1>2, <1>3, <1>4 DEF NumbersInv, Numbered
  <2>2. \A p \in Report : sar'[p] # None => GivenOut(counter', sar'[p].number)
    BY <1>2, <1>3 DEF NumbersInv, Numbered
  <2>3. \A q \in Request : At(q, "insert_draft")' /\ ~First(q)' => ~SarTaken(req[q].seen.number)'
    <3>1. n # 1 => ~SarTaken(n)
      BY <1>2, <1>3 DEF NumbersInv, Numbered, SarTaken
    <3>2. QED
      BY <1>1, <1>5, <3>1 DEF NumbersInv, Numbered, At
  <2>4. \A q \in Clashes' : First(q)'
    BY <1>1, <1>7 DEF NumbersInv, Numbered, Clashes, At
  <2>5. \A q \in Request \ {r} : Holder(q) /\ req[q].seen.number = n => First(q) /\ n = 1
    BY <1>2, <1>3 DEF NumbersInv, Numbered, First
  <2>6. \A o, q \in Request : Holder(o)' /\ Holder(q)' /\ req'[o].seen.number = req'[q].seen.number
                              => o = q \/ First(o)'
    BY <1>1, <2>5 DEF NumbersInv, Numbered
  <2>7. QED
    BY <2>1, <2>2, <2>3, <2>4, <2>6 DEF Numbered
<1>9. BeganWithADraft => BeganWithADraft'
  BY <1>1 DEF BeganWithADraft
<1>10. BeganEmpty => BeganEmpty'
  <2>1. SUFFICES ASSUME BeganEmpty PROVE BeganEmpty'
    OBVIOUS
  <2>2. n = 1 => counter <= 1
    BY <1>1
  <2>3. \A o, q \in Request : counter' <= 1 /\ First(o)' /\ First(q)' => o = q
    BY <1>1, <2>1 DEF BeganEmpty
  <2>4. \A o, p, q \in Request : First(o)' /\ First(p)' /\ First(q)' => o = p \/ p = q \/ o = q
    BY <1>1, <2>1, <2>2 DEF BeganEmpty
  <2>5. SarTaken(1)' \/ Clashes' # {} =>
          \E w \in Request : First(w)' /\ req'[w].pc \notin {"insert_draft", "refused"}
    BY <1>1, <1>5, <1>7, <2>1 DEF BeganEmpty
  <2>6. QED
    BY <1>1, <2>3, <2>4, <2>5 DEF BeganEmpty
<1>11. QED
  BY <1>6, <1>8, <1>9, <1>10 DEF NumbersInv

\* UNIQUE (tenant_id, reference_number): only the first number can be refused.
LEMMA NumbersInsert ==
    ASSUME SarInv, NumbersInv, NEW r \in Request, At(r, "insert_draft"), req[r].seen # None,
           \A q \in Request \ {r} : req'[q] = req[q],
           req'[r].op = req[r].op, req'[r].seen = req[r].seen, counter' = counter,
           \/ SarTaken(req[r].seen.number) /\ req'[r].pc = "refused" /\ sar' = sar
           \/ /\ req'[r].pc = "audit_drafted"
              /\ \E p \in Report : sar'[p] = req[r].seen
                                   /\ \A o \in Report \ {p} : sar'[o] = sar[o]
    PROVE  NumbersInv'
<1>1. /\ Holder(r)
      /\ \A q \in Request : /\ Holder(q)' <=> Holder(q)
                            /\ First(q)' <=> First(q)
                            /\ req'[q].seen = req[q].seen
  BY DEF NumbersInv, Operations, Holder, First
<1>2. \A m : SarTaken(m)' => SarTaken(m) \/ (m = req[r].seen.number /\ ~At(r, "refused")')
  BY DEF SarTaken, At
<1>3. \A q \in Request : Operations(q)'
  BY DEF NumbersInv, Operations, At
<1>4. Clashes' \subseteq Clashes \cup {r}
      /\ (r \in Clashes' => SarTaken(req[r].seen.number) /\ First(r))
  BY DEF Clashes, At, NumbersInv, Numbered
<1>5. Numbered'
  <2>1. \A q \in Request : Holder(q)' => GivenOut(counter', req'[q].seen.number)
    BY <1>1 DEF NumbersInv, Numbered
  <2>2. \A p \in Report : sar'[p] # None => GivenOut(counter', sar'[p].number)
    BY <1>1 DEF NumbersInv, Numbered
  <2>3. \A q \in Request : At(q, "insert_draft")' /\ ~First(q)' => ~SarTaken(req[q].seen.number)'
    <3>1. SUFFICES ASSUME NEW q \in Request, At(q, "insert_draft")', ~First(q)'
                   PROVE  ~SarTaken(req[q].seen.number)'
      BY <1>1
    <3>2. q # r /\ At(q, "insert_draft") /\ ~First(q)
      BY <1>1, <3>1 DEF At
    <3>3. Holder(q)
      BY <3>2 DEF SarInv, Stage, NumbersInv, Operations, Holder
    <3>4. req[q].seen.number # req[r].seen.number /\ ~SarTaken(req[q].seen.number)
      BY <1>1, <3>2, <3>3 DEF NumbersInv, Numbered
    <3>5. QED
      BY <1>2, <3>4
  <2>4. \A q \in Clashes' : First(q)'
    BY <1>1, <1>4 DEF NumbersInv, Numbered, Clashes
  <2>5. \A o, q \in Request : Holder(o)' /\ Holder(q)' /\ req'[o].seen.number = req'[q].seen.number
                              => o = q \/ First(o)'
    BY <1>1 DEF NumbersInv, Numbered
  <2>6. QED
    BY <2>1, <2>2, <2>3, <2>4, <2>5 DEF Numbered
<1>6. BeganWithADraft => BeganWithADraft'
  BY <1>1 DEF BeganWithADraft
<1>7. BeganEmpty => BeganEmpty'
  <2>1. SUFFICES ASSUME BeganEmpty, SarTaken(1)' \/ Clashes' # {}
                 PROVE  \E w \in Request : First(w)' /\ req'[w].pc \notin {"insert_draft", "refused"}
    BY <1>1 DEF BeganEmpty
  <2>2. CASE SarTaken(1) \/ Clashes # {}
    <3>1. PICK w \in Request : First(w) /\ req[w].pc \notin {"insert_draft", "refused"}
      BY <2>1, <2>2 DEF BeganEmpty
    <3>2. w # r
      BY <3>1 DEF At
    <3>3. QED
      BY <1>1, <3>1, <3>2
  <2>3. CASE ~SarTaken(1) /\ Clashes = {}
    <3>1. First(r) => req[r].seen.number = 1
      BY DEF First
    <3>2. r \notin Clashes' /\ Clashes' = {}
      BY <1>4, <2>3, <3>1
    <3>3. SarTaken(1)'
      BY <2>1, <3>2
    <3>4. req[r].seen.number = 1 /\ req'[r].pc = "audit_drafted"
      BY <1>2, <2>3, <3>3 DEF At
    <3>5. QED
      BY <1>1, <3>4 DEF First
  <2>4. QED
    BY <2>2, <2>3
<1>8. QED
  BY <1>3, <1>5, <1>6, <1>7 DEF NumbersInv
-----------------------------------------------------------------------------
LEMMA StoredIsSubset == SarInv => \A p \in Report : Stored(p) \subseteq Request
  BY DEF Stored

\* A step that stores no export and changes no version.
LEMMA VersionsMove ==
    ASSUME SarInv, VersionsInv, NEW r \in Request, Underway(r),
           \A q \in Request \ {r} : req'[q] = req[q],
           req'[r].on = req[r].on,
           req'[r].pc \in {"validate", "store_hash"} =>
               At(r, "validate") /\ req'[r].seen = req[r].seen,
           At(r, "audit_exported") => req'[r].pc \in Ended,
           \A p \in Report : sar'[p] = None <=> sar[p] = None,
           \A p \in Report : sar[p] # None => sar'[p].version = sar[p].version,
           UNCHANGED <<stored, crossed>>
    PROVE  VersionsInv'
<1>1. \A p \in Report : Stored(p)' = Stored(p)
  BY DEF Stored
<1>2. \A q \in Request : Underway(q)' => Underway(q)
  BY DEF Underway
<1>3. \A q \in Request : req'[q].on = req[q].on
  OBVIOUS
<1>4. \A p \in Report : \A q \in Stored(p) : req'[q].pc \in {"audit_exported"} \cup Ended
  <2>1. SUFFICES ASSUME NEW p \in Report, NEW q \in Stored(p), q = r
                 PROVE  req'[r].pc \in {"audit_exported"} \cup Ended
    BY StoredIsSubset DEF VersionsInv
  <2>2. At(r, "audit_exported")
    BY <2>1 DEF VersionsInv, Underway, At
  <2>3. QED
    BY <2>2
<1>5. VersionCountsExports'
  BY <1>1 DEF VersionsInv, VersionCountsExports
<1>6. \A q \in Request : Counting(q)'
  <2>1. SUFFICES ASSUME NEW q \in Request, At(q, "validate")' \/ At(q, "store_hash")',
                        NEW p \in Report, req'[q].on = p
                 PROVE  /\ req'[q].seen.version <= Cardinality(Stored(p))
                        /\ q \notin crossed => req'[q].seen.version = sar'[p].version
    BY <1>1 DEF Counting
  <2>2. At(q, "validate") \/ At(q, "store_hash")
    BY <2>1 DEF At
  <2>3. req'[q].seen = req[q].seen /\ req[q].on = p
    BY <1>3, <2>1 DEF At
  <2>4. sar[p] # None
    BY <2>2, <2>3 DEF SarInv, Stage
  <2>5. QED
    BY <2>2, <2>3, <2>4 DEF VersionsInv, Counting
<1>7. Met'
  BY <1>2, <1>3, GoingMeetsNobody DEF VersionsInv
<1>8. \A p \in Report : IsFiniteSet(Stored(p)') /\ (sar'[p] = None => Stored(p)' = {})
  BY <1>1 DEF VersionsInv
<1>9. QED
  BY <1>1, <1>4, <1>5, <1>6, <1>7, <1>8 DEF VersionsInv

\* A request that arrives meets those at work on the same report; an export reads its version.
LEMMA VersionsBegin ==
    ASSUME SarInv, VersionsInv, NEW r \in Request, NEW op, NEW on, NEW arg, NEW seen, NEW stage,
           Begin(r, op, on, arg, seen, stage),
           stage # "store_hash", stage = "validate" => on \in Report /\ seen = sar[on] /\ seen # None,
           UNCHANGED <<sar, stored>>
    PROVE  VersionsInv'
<1>1. /\ Met' /\ At(r, "idle") /\ crossed \subseteq crossed'
      /\ req'[r] = [pc |-> stage, op |-> op, on |-> on, arg |-> arg, seen |-> seen]
      /\ \A q \in Request \ {r} : req'[q] = req[q]
  <2>1. Met /\ req = [q \in Request |-> req[q]]
    BY DEF VersionsInv, SarInv, SarTypeOK
  <2>2. QED
    BY <2>1, ArrivalMeets
<1>2. req'[r].pc = stage /\ req'[r].on = on /\ req'[r].seen = seen
  BY <1>1
<1>3. \A p \in Report : Stored(p)' = Stored(p)
  BY DEF Stored
<1>4. \A p \in Report : r \notin Stored(p)
  BY <1>1 DEF VersionsInv, At, Ended
<1>5. \A p \in Report : \A q \in Stored(p) : req'[q].pc \in {"audit_exported"} \cup Ended
  BY <1>1, <1>4, StoredIsSubset DEF VersionsInv
<1>6. VersionCountsExports'
  BY <1>1, <1>3 DEF VersionsInv, VersionCountsExports
<1>7. \A q \in Request : Counting(q)'
  <2>1. SUFFICES ASSUME NEW q \in Request, At(q, "validate")' \/ At(q, "store_hash")',
                        NEW p \in Report, req'[q].on = p
                 PROVE  /\ req'[q].seen.version <= Cardinality(Stored(p))
                        /\ q \notin crossed' => req'[q].seen.version = sar[p].version
    BY <1>3 DEF Counting
  <2>2. CASE q = r
    <3>1. seen = sar[p] /\ sar[p] # None
      BY <1>2, <2>1, <2>2 DEF At
    <3>2. QED
      BY <1>2, <2>2, <3>1 DEF VersionsInv, VersionCountsExports
  <2>3. CASE q # r
    BY <1>1, <2>1, <2>3 DEF VersionsInv, Counting, At
  <2>4. QED
    BY <2>2, <2>3
<1>8. \A p \in Report : IsFiniteSet(Stored(p)') /\ (sar'[p] = None => Stored(p)' = {})
  BY <1>3 DEF VersionsInv
<1>9. QED
  BY <1>1, <1>3, <1>5, <1>6, <1>7, <1>8 DEF VersionsInv

\* A new report has no version and no exports, and nobody works on it yet.
LEMMA VersionsInsert ==
    ASSUME SarInv, VersionsInv, NEW r \in Request, At(r, "insert_draft"),
           \A q \in Request \ {r} : req'[q] = req[q],
           req'[r].on = req[r].on, req'[r].pc = "audit_drafted",
           NEW p \in Report, sar[p] = None, sar'[p] # None, sar'[p].version = 0,
           \A o \in Report \ {p} : sar'[o] = sar[o],
           UNCHANGED <<stored, crossed>>
    PROVE  VersionsInv'
<1>1. \A o \in Report : Stored(o)' = Stored(o)
  BY DEF Stored
<1>2. \A q \in Request : (Underway(q)' => Underway(q)) /\ req'[q].on = req[q].on
  BY DEF Underway, At, Ended
<1>3. Stored(p) = {} /\ Cardinality(Stored(p)) = 0
  BY FS_EmptySet DEF VersionsInv
<1>4. VersionCountsExports'
  BY <1>1, <1>3 DEF VersionsInv, VersionCountsExports
<1>5. \A q \in Request : Counting(q)'
  <2>1. SUFFICES ASSUME NEW q \in Request, At(q, "validate")' \/ At(q, "store_hash")',
                        NEW o \in Report, req'[q].on = o
                 PROVE  /\ req'[q].seen.version <= Cardinality(Stored(o))
                        /\ q \notin crossed => req'[q].seen.version = sar'[o].version
    BY <1>1 DEF Counting
  <2>2. q # r /\ (At(q, "validate") \/ At(q, "store_hash")) /\ req[q].on = o
    BY <1>2, <2>1 DEF At
  <2>3. o # p
    BY <2>2 DEF SarInv, Stage
  <2>4. QED
    BY <2>2, <2>3 DEF VersionsInv, Counting
<1>6. \A o \in Report : \A q \in Stored(o) : req'[q].pc \in {"audit_exported"} \cup Ended
  BY StoredIsSubset DEF VersionsInv, At, Ended
<1>7. Met'
  BY <1>2, GoingMeetsNobody DEF VersionsInv
<1>8. \A o \in Report : IsFiniteSet(Stored(o)') /\ (sar'[o] = None => Stored(o)' = {})
  BY <1>1 DEF VersionsInv
<1>9. QED
  BY <1>1, <1>4, <1>5, <1>6, <1>7, <1>8 DEF VersionsInv

\* Whoever stores an export without having met anybody read the version that is there.
LEMMA VersionsStore ==
    ASSUME SarInv, VersionsInv, NEW r \in Request, At(r, "store_hash"),
           \A q \in Request \ {r} : req'[q] = req[q],
           req'[r].on = req[r].on, req'[r].pc = "audit_exported",
           NEW p \in Report, p = req[r].on, sar'[p] # None, NEW read \in Nat,
           read = req[r].seen.version, sar'[p].version = read + 1,
           \A o \in Report \ {p} : sar'[o] = sar[o],
           stored' = stored \cup {<<p, r>>}, crossed' = crossed
    PROVE  VersionsInv'
<1>1. Stored(p)' = Stored(p) \cup {r} /\ \A o \in Report \ {p} : Stored(o)' = Stored(o)
  BY DEF Stored
<1>2. \A q \in Request : (Underway(q)' => Underway(q)) /\ req'[q].on = req[q].on
  BY DEF Underway, At, Ended
<1>3. \A o \in Report : r \notin Stored(o)
  BY DEF VersionsInv, At, Ended
<1>4. /\ IsFiniteSet(Stored(p)) /\ IsFiniteSet(Stored(p)')
      /\ Cardinality(Stored(p)) \in Nat
      /\ Cardinality(Stored(p)') = Cardinality(Stored(p)) + 1
  <2>1. IsFiniteSet(Stored(p)) /\ r \notin Stored(p)
    BY <1>3 DEF VersionsInv
  <2>2. Cardinality(Stored(p)) \in Nat
    BY <2>1, FS_CardinalityType
  <2>3. /\ IsFiniteSet(Stored(p) \cup {r})
        /\ Cardinality(Stored(p) \cup {r}) = Cardinality(Stored(p)) + 1
    BY <2>1, FS_AddElement
  <2>4. QED
    BY <1>1, <2>1, <2>2, <2>3
<1>5. /\ read <= Cardinality(Stored(p))
      /\ r \notin crossed => read = sar[p].version
  BY DEF VersionsInv, Counting
<1>6. sar[p] # None
  BY DEF SarInv, Stage
<1>7. VersionCountsExports'
  <2>1. sar'[p].version <= Cardinality(Stored(p)')
    BY <1>4, <1>5
  <2>2. ASSUME Stored(p)' \cap crossed = {} PROVE sar'[p].version = Cardinality(Stored(p)')
    <3>1. r \notin crossed /\ Stored(p) \cap crossed = {}
      BY <1>1, <2>2
    <3>2. sar[p].version = Cardinality(Stored(p))
      BY <1>6, <3>1 DEF VersionsInv, VersionCountsExports
    <3>3. QED
      BY <1>4, <1>5, <3>1, <3>2
  <2>3. \A o \in Report \ {p} : sar'[o] # None =>
           /\ sar'[o].version <= Cardinality(Stored(o)')
           /\ Stored(o)' \cap crossed = {} => sar'[o].version = Cardinality(Stored(o)')
    BY <1>1 DEF VersionsInv, VersionCountsExports
  <2>4. QED
    BY <2>1, <2>2, <2>3 DEF VersionCountsExports
<1>8. \A q \in Request : Counting(q)'
  <2>1. SUFFICES ASSUME NEW q \in Request, At(q, "validate")' \/ At(q, "store_hash")',
                        NEW o \in Report, req'[q].on = o
                 PROVE  /\ req'[q].seen.version <= Cardinality(Stored(o)')
                        /\ q \notin crossed => req'[q].seen.version = sar'[o].version
    BY DEF Counting
  <2>2. q # r /\ (At(q, "validate") \/ At(q, "store_hash")) /\ req[q].on = o /\ req'[q] = req[q]
    BY <1>2, <2>1 DEF At
  <2>3. CASE o = p
    <3>1. Underway(q) /\ Underway(r)
      BY <2>2 DEF Underway, At, Ended
    <3>2. q \in crossed
      BY <2>2, <2>3, <3>1 DEF VersionsInv, Met
    <3>3. req[q].seen.version <= Cardinality(Stored(p))
      BY <2>2, <2>3 DEF VersionsInv, Counting
    <3>4. req[q].seen.version \in Nat
      BY <2>2 DEF SarInv, SarTypeOK, SarRequest, SarReport, Stage
    <3>5. QED
      BY <1>4, <2>2, <2>3, <3>2, <3>3, <3>4
  <2>4. CASE o # p
    BY <1>1, <2>2, <2>4 DEF VersionsInv, Counting
  <2>5. QED
    BY <2>3, <2>4
<1>9. \A o \in Report : \A q \in Stored(o)' : req'[q].pc \in {"audit_exported"} \cup Ended
  BY <1>1, StoredIsSubset DEF VersionsInv
<1>10. Met'
  BY <1>2, GoingMeetsNobody DEF VersionsInv
<1>11. \A o \in Report : IsFiniteSet(Stored(o)') /\ (sar'[o] = None => Stored(o)' = {})
  BY <1>1, <1>4, <1>6 DEF VersionsInv
<1>12. QED
  BY <1>7, <1>8, <1>9, <1>10, <1>11 DEF VersionsInv
-----------------------------------------------------------------------------
\* The counter never goes back: once the numbers do not fit any more, they never do.
LEMMA CountsOn ==
    ASSUME SarInv, CountsInv, NEW r \in Request,
           \A q \in Request \ {r} : req'[q] = req[q], Operations(r)',
           counter' = counter \/ counter' = counter + 1,
           NumbersInv /\ counter' <= Limit => NumbersInv'
    PROVE  CountsInv'
<1>1. counter \in Nat /\ Limit \in Nat
  BY SarAssumption DEF SarInv, SarTypeOK
<1>2. counter' <= Limit => counter <= Limit
  BY <1>1
<1>3. \A q \in Request : Operations(q)'
  BY DEF CountsInv, Operations, At
<1>4. QED
  BY <1>2, <1>3 DEF CountsInv

LEMMA BeginCounts ==
    ASSUME SarInv, CountsInv, VersionsInv, NEW r \in Request,
           NEW op, NEW on, NEW arg, NEW seen, NEW stage,
           Begin(r, op, on, arg, seen, stage),
           \/ op = "create" /\ stage = "reserve" /\ seen = None
           \/ op # "create" /\ stage \notin {"idle", "reserve", "insert_draft"},
           stage # "store_hash", stage = "validate" => on \in Report /\ seen = sar[on] /\ seen # None,
           UNCHANGED <<counter, sar, stored>>
    PROVE  CountsInv' /\ VersionsInv'
<1>1. /\ At(r, "idle")
      /\ req'[r] = [pc |-> stage, op |-> op, on |-> on, arg |-> arg, seen |-> seen]
      /\ \A q \in Request \ {r} : req'[q] = req[q]
  BY DEF Begin, SarInv, SarTypeOK
<1>2. req'[r].pc = stage /\ req'[r].op = op /\ req'[r].seen = seen
  BY <1>1
<1>3. NumbersInv => NumbersInv'
  BY <1>1, <1>2, NumbersBegin
<1>4. Operations(r)'
  BY <1>2 DEF Operations, At
<1>5. CountsInv'
  BY <1>1, <1>3, <1>4, CountsOn
<1>6. VersionsInv'
  BY VersionsBegin
<1>7. QED
  BY <1>5, <1>6

LEMMA StartCounts ==
    ASSUME SarInv, CountsInv, VersionsInv, NEW r \in Request,
           \/ StartDraft(r) \/ StartUpdate(r) \/ StartExport(r) \/ StartSubmit(r)
    PROVE  CountsInv' /\ VersionsInv'
<1>1. UNCHANGED <<counter, sar, stored>>
  BY DEF StartDraft, StartUpdate, StartExport, StartSubmit, sarRows
<1>2. CASE StartDraft(r)
  BY <1>1, <1>2, BeginCounts DEF StartDraft
<1>3. CASE StartUpdate(r)
  BY <1>1, <1>3, BeginCounts DEF StartUpdate
<1>4. CASE StartExport(r)
  BY <1>1, <1>4, BeginCounts DEF StartExport
<1>5. CASE StartSubmit(r)
  BY <1>1, <1>5, BeginCounts DEF StartSubmit
<1>6. QED
  BY <1>2, <1>3, <1>4, <1>5

\* A request goes on; the reports keep their numbers and versions.
LEMMA GotoCounts ==
    ASSUME SarInv, CountsInv, VersionsInv, NEW r \in Request, Underway(r),
           NEW stage \in {"store_hash", "audit_updated", "audit_exported", "audit_submitted"} \cup Ended,
           Goto(r, stage),
           stage = "refused" => ~Holder(r),
           stage = "store_hash" => At(r, "validate"),
           At(r, "audit_exported") => stage \in Ended,
           \A p \in Report : sar'[p] = None <=> sar[p] = None,
           \A p \in Report : sar[p] # None => /\ sar'[p].number = sar[p].number
                                              /\ sar'[p].version = sar[p].version,
           UNCHANGED <<counter, stored>>
    PROVE  CountsInv' /\ VersionsInv'
<1>1. stage \in {"idle"} \cup SarStage \cup Ended
  BY DEF SarStage
<1>2. /\ req'[r].pc = stage /\ req'[r].op = req[r].op /\ req'[r].on = req[r].on
      /\ req'[r].seen = req[r].seen /\ crossed' = crossed
  BY <1>1, GotoRequest DEF SarInv, SarTypeOK
<1>3. \A q \in Request \ {r} : req'[q] = req[q]
  BY DEF Goto, SarInv, SarTypeOK
<1>4. stage \notin {"idle", "validate", "reserve", "insert_draft"}
  BY DEF Ended
<1>5. NumbersInv => NumbersInv'
  BY <1>2, <1>3, <1>4, NumbersMove
<1>6. Operations(r)'
  BY <1>2, <1>4 DEF Operations, At
<1>7. CountsInv'
  BY <1>3, <1>5, <1>6, CountsOn
<1>8. VersionsInv'
  BY <1>2, <1>3, <1>4, VersionsMove
<1>9. QED
  BY <1>7, <1>8

\* Everything but creating a draft and storing an export.
LEMMA MoveCounts ==
    ASSUME SarInv, CountsInv, VersionsInv, NEW r \in Request,
           \/ WritePatch(r) \/ Validate(r) \/ File(r) \/ SarAudit(r)
           \/ (Kill(r) /\ UNCHANGED <<counter, sar, stored>>)
    PROVE  CountsInv' /\ VersionsInv'
<1>1. sar \in [Report -> SarReport \cup {None}] /\ req[r] \in SarRequest
  BY DEF SarInv, SarTypeOK
<1>2. CASE WritePatch(r)
  <2>1. At(r, "write_patch") /\ Goto(r, "audit_updated") /\ UNCHANGED <<counter, stored>> /\ Underway(r)
    BY <1>2 DEF WritePatch, Underway, At, Ended
  <2>2. PICK p \in Report : p = req[r].on /\ sar[p] # None /\ sar[p] \in SarReport
    BY <1>1, <2>1 DEF SarInv, Stage, SarRequest
  <2>3. PICK text \in Text, status \in SarStatus :
          sar' = [sar EXCEPT ![p] = [sar[p] EXCEPT !.text = text, !.status = status]]
    <3> DEFINE text == [by |-> r, valid |-> req[r].arg.valid]
               status == IF req[r].arg.status = None THEN sar[p].status ELSE req[r].arg.status
    <3>1. req[r].arg \in Patch
      BY <2>1 DEF SarInv, Stage
    <3>2. text \in Text /\ status \in SarStatus
      BY <2>2, <3>1 DEF Text, Patch, SarReport
    <3>3. sar' = [sar EXCEPT ![p] = [sar[p] EXCEPT !.text = text, !.status = status]]
      BY <1>1, <1>2, <2>2 DEF WritePatch, SarReport
    <3> HIDE DEF text, status
    <3>4. QED
      BY <3>2, <3>3
  <2>4. /\ sar'[p] = [sar[p] EXCEPT !.text = text, !.status = status]
        /\ \A o \in Report \ {p} : sar'[o] = sar[o]
    BY <1>1, <2>3
  <2>5. /\ sar'[p].number = sar[p].number /\ sar'[p].version = sar[p].version
        /\ sar'[p] \in SarReport
    BY <2>2, <2>4 DEF SarReport
  <2>6. sar'[p] # None
    BY <2>5, SarNoneAssumption
  <2>7. "audit_updated" \notin Ended \cup {"refused", "store_hash"} /\ ~At(r, "audit_exported")
    BY <2>1 DEF Ended, At
  <2>8. QED
    BY <2>1, <2>2, <2>4, <2>5, <2>6, <2>7, GotoCounts, ZenonT(60)
<1>3. CASE File(r)
  <2>1. At(r, "file") /\ Goto(r, "audit_submitted") /\ UNCHANGED <<counter, stored>> /\ Underway(r)
    BY <1>3 DEF File, Underway, At, Ended
  <2>2. PICK p \in Report : p = req[r].on /\ sar[p] # None /\ sar[p] \in SarReport
    BY <1>1, <2>1 DEF SarInv, Stage, SarRequest
  <2>3. /\ sar'[p] = [sar[p] EXCEPT !.status = "submitted", !.filed = TRUE]
        /\ \A o \in Report \ {p} : sar'[o] = sar[o]
    BY <1>1, <1>3, <2>2 DEF File
  <2>4. /\ sar'[p].number = sar[p].number /\ sar'[p].version = sar[p].version
        /\ sar'[p] \in SarReport
    BY <2>2, <2>3 DEF SarReport, SarStatus
  <2>5. sar'[p] # None
    BY <2>4, SarNoneAssumption
  <2>6. "audit_submitted" \notin Ended \cup {"refused", "store_hash"} /\ ~At(r, "audit_exported")
    BY <2>1 DEF Ended, At
  <2>7. QED
    BY <2>1, <2>2, <2>3, <2>4, <2>5, <2>6, GotoCounts, ZenonT(60)
<1>4. CASE Validate(r)
  <2>1. At(r, "validate") /\ UNCHANGED <<counter, sar, stored>> /\ Underway(r)
    BY <1>4 DEF Validate, Underway, At, Ended, sarRows
  <2>2. ~Holder(r) /\ ~At(r, "audit_exported")
    BY <2>1 DEF CountsInv, Operations, Holder, At
  <2>3. PICK stage \in {"store_hash"} \cup Ended : Goto(r, stage)
    BY <1>4 DEF Validate, Ended
  <2>4. QED
    BY <2>1, <2>2, <2>3, GotoCounts
<1>5. CASE SarAudit(r)
  <2>1. /\ req[r].pc \in {"audit_drafted", "audit_updated", "audit_exported", "audit_submitted"}
        /\ Goto(r, "done") /\ UNCHANGED <<counter, sar, stored>>
    BY <1>5 DEF SarAudit, Emit, sarRows, At
  <2>2. Underway(r) /\ "done" \in Ended
    BY <2>1 DEF Underway, Ended
  <2>3. QED
    BY <2>1, <2>2, GotoCounts
<1>6. CASE Kill(r) /\ UNCHANGED <<counter, sar, stored>>
  <2>1. Underway(r) /\ Goto(r, "killed") /\ UNCHANGED <<counter, sar, stored>> /\ "killed" \in Ended
    BY <1>6 DEF Kill, sarRows, Ended
  <2>2. QED
    BY <2>1, GotoCounts
<1>7. QED
  BY <1>2, <1>3, <1>4, <1>5, <1>6

LEMMA ReserveCounts ==
    ASSUME SarInv, CountsInv, VersionsInv, NEW r \in Request, Reserve(r)
    PROVE  CountsInv' /\ VersionsInv'
<1>1. /\ At(r, "reserve") /\ UNCHANGED <<sar, stored>> /\ Underway(r) /\ ~Holder(r)
      /\ req[r].op = "create" /\ req[r] \in SarRequest /\ req[r].arg \in Patch /\ counter \in Nat
  BY DEF Reserve, Underway, At, Ended, SarInv, SarTypeOK, Stage, CountsInv, Operations, Holder
<1>2. CASE counterWritable
  <2>1. PICK number \in Nat : number = IF counter = 0 THEN 1 ELSE Shown(counter)
    BY <1>1, ShownIsNumber
  <2>2. PICK text \in Text : text = [by |-> r, valid |-> req[r].arg.valid]
    BY <1>1 DEF Text, Patch
  <2>3. counter' = counter + 1 /\ Keep(r, Draft(number, text), "insert_draft")
    BY <1>2, <2>1, <2>2 DEF Reserve
  <2>4. PICK draft \in SarReport : draft = Draft(number, text)
                                   /\ draft.number = number /\ draft.version = 0
    BY <2>2, NewDraft DEF Draft
  <2>5. /\ req'[r] = [req[r] EXCEPT !.pc = "insert_draft", !.seen = draft]
        /\ crossed' = crossed /\ \A q \in Request \ {r} : req'[q] = req[q]
    BY <2>3, <2>4 DEF Keep, SarInv, SarTypeOK
  <2>6. /\ req'[r].pc = "insert_draft" /\ req'[r].op = "create" /\ req'[r].on = req[r].on
        /\ req'[r].seen = draft /\ draft # None
    BY <1>1, <2>4, <2>5, SarNoneAssumption DEF SarRequest
  <2>7. ASSUME NumbersInv, counter' <= Limit PROVE NumbersInv'
    <3>1. counter < Limit
      BY <1>1, <2>3, <2>7, SarAssumption
    <3>2. number = IF counter = 0 THEN 1 ELSE counter
      BY <1>1, <2>1, <3>1, ShownIsNumber
    <3>3. QED
      BY <1>1, <2>3, <2>4, <2>5, <2>6, <2>7, <3>2, NumbersReserve
  <2>8. Operations(r)'
    BY <2>4, <2>6 DEF Operations, At
  <2>9. CountsInv'
    BY <2>3, <2>5, <2>7, <2>8, CountsOn
  <2>10. ~At(r, "audit_exported")
    BY <1>1 DEF At
  <2>11. VersionsInv'
    BY <1>1, <2>5, <2>6, <2>10, VersionsMove
  <2>12. QED
    BY <2>9, <2>11
<1>3. CASE ~counterWritable
  <2>1. Goto(r, "refused") /\ UNCHANGED counter /\ "refused" \in Ended /\ ~At(r, "audit_exported")
    BY <1>1, <1>3 DEF Reserve, Ended, At
  <2>2. QED
    BY <1>1, <2>1, GotoCounts
<1>4. QED
  BY <1>2, <1>3

LEMMA InsertCounts ==
    ASSUME SarInv, CountsInv, VersionsInv, NEW r \in Request, InsertDraft(r)
    PROVE  CountsInv' /\ VersionsInv'
<1>1. /\ At(r, "insert_draft") /\ UNCHANGED <<counter, stored>> /\ Underway(r)
      /\ req[r].seen # None /\ req[r].seen.version = 0 /\ ~At(r, "audit_exported")
      /\ sar \in [Report -> SarReport \cup {None}] /\ req \in [Request -> SarRequest]
  BY DEF InsertDraft, Underway, At, Ended, SarInv, SarTypeOK, Stage, CountsInv, Operations
<1>2. \A q \in Request \ {r} : req'[q] = req[q]
  BY <1>1 DEF InsertDraft, Goto
<1>3. CASE SarTaken(req[r].seen.number) /\ Goto(r, "refused") /\ UNCHANGED sar
  <2>1. "refused" \in Ended
    BY DEF Ended
  <2>2. /\ req'[r].pc = "refused" /\ req'[r].op = req[r].op /\ req'[r].on = req[r].on
        /\ req'[r].seen = req[r].seen /\ crossed' = crossed
    BY <1>1, <1>3, <2>1, GotoRequest
  <2>3. NumbersInv => NumbersInv'
    BY <1>1, <1>2, <1>3, <2>2, NumbersInsert
  <2>4. VersionsInv'
    BY <1>1, <1>2, <1>3, <2>2, VersionsMove
  <2>5. Operations(r)'
    BY <2>2 DEF Operations, At
  <2>6. CountsInv'
    BY <1>1, <1>2, <2>3, <2>5, CountsOn
  <2>7. QED
    BY <2>4, <2>6
<1>4. ASSUME NEW p \in Report, sar[p] = None, sar' = [sar EXCEPT ![p] = req[r].seen],
             Goto(r, "audit_drafted")
      PROVE  CountsInv' /\ VersionsInv'
  <2>1. "audit_drafted" \in SarStage
    BY DEF SarStage
  <2>2. /\ req'[r].pc = "audit_drafted" /\ req'[r].op = req[r].op /\ req'[r].on = req[r].on
        /\ req'[r].seen = req[r].seen /\ crossed' = crossed
    BY <1>1, <1>4, <2>1, GotoRequest
  <2>3. sar'[p] = req[r].seen /\ \A o \in Report \ {p} : sar'[o] = sar[o]
    BY <1>1, <1>4
  <2>4. NumbersInv => NumbersInv'
    BY <1>1, <1>2, <2>2, <2>3, NumbersInsert
  <2>5. VersionsInv'
    BY <1>1, <1>2, <1>4, <2>2, <2>3, VersionsInsert
  <2>6. Operations(r)'
    BY <2>2 DEF Operations, At
  <2>7. CountsInv'
    BY <1>1, <1>2, <2>4, <2>6, CountsOn
  <2>8. QED
    BY <2>5, <2>7
<1>5. QED
  BY <1>3, <1>4 DEF InsertDraft

LEMMA StoreCounts ==
    ASSUME SarInv, CountsInv, VersionsInv, NEW r \in Request, StoreHash(r)
    PROVE  CountsInv' /\ VersionsInv'
<1>1. /\ At(r, "store_hash") /\ UNCHANGED counter /\ Underway(r) /\ Goto(r, "audit_exported")
      /\ sar \in [Report -> SarReport \cup {None}] /\ req \in [Request -> SarRequest]
  BY DEF StoreHash, Underway, At, Ended, SarInv, SarTypeOK
<1>2. \A q \in Request \ {r} : req'[q] = req[q]
  BY <1>1 DEF Goto
<1>3. "audit_exported" \in SarStage /\ "audit_exported" \notin Ended /\ ~At(r, "audit_exported")
  BY <1>1 DEF SarStage, Ended, At
<1>4. PICK p \in Report : p = req[r].on /\ sar[p] # None /\ sar[p] \in SarReport
  BY <1>1 DEF SarInv, Stage, SarRequest
<1>5. PICK text \in Text, read \in Nat : text = req[r].seen.text /\ read = req[r].seen.version
  BY <1>1 DEF SarInv, SarRequest, Stage, SarReport
<1>6. CASE UNCHANGED <<sar, stored>>
  BY <1>1, <1>3, <1>6, GotoCounts
<1>7. CASE /\ sar' = [sar EXCEPT ![p].hash = text, ![p].version = read + 1]
           /\ stored' = stored \cup {<<p, r>>}
  <2>1. /\ req'[r].pc = "audit_exported" /\ req'[r].op = req[r].op /\ req'[r].on = req[r].on
        /\ req'[r].seen = req[r].seen /\ crossed' = crossed
    BY <1>1, <1>3, GotoRequest
  <2>2. /\ sar'[p] = [sar[p] EXCEPT !.hash = text, !.version = read + 1]
        /\ \A o \in Report \ {p} : sar'[o] = sar[o]
    BY <1>1, <1>7
  <2>3. read + 1 \in Nat
    BY <1>5
  <2>4. /\ sar'[p].number = sar[p].number /\ sar'[p].version = read + 1
        /\ sar'[p] \in SarReport
    BY <1>4, <1>5, <2>2, <2>3 DEF SarReport
  <2>5. sar'[p] # None
    BY <2>4, SarNoneAssumption
  <2>6. NumbersInv => NumbersInv'
    BY <1>1, <1>2, <1>4, <2>1, <2>2, <2>4, <2>5, NumbersMove
  <2>7. VersionsInv'
    <3>1. stored' = stored \cup {<<p, r>>} /\ \A o \in Report \ {p} : sar'[o] = sar[o]
      BY <1>7, <2>2
    <3>2. sar'[p].version = read + 1 /\ read \in Nat
      BY <1>5, <2>4
    <3>3. QED
      BY <1>1, <1>2, <1>4, <1>5, <2>1, <2>5, <3>1, <3>2, VersionsStore
  <2>8. Operations(r)'
    BY <2>1 DEF Operations, At
  <2>9. CountsInv'
    BY <1>1, <1>2, <2>6, <2>8, CountsOn
  <2>10. QED
    BY <2>7, <2>9
<1>8. QED
  BY <1>4, <1>5, <1>6, <1>7 DEF StoreHash

LEMMA SarStepCounts ==
    ASSUME SarInv, CountsInv, VersionsInv, [SarNext]_<<calls, sarRows>>
    PROVE  CountsInv' /\ VersionsInv'
<1>1. CASE UNCHANGED <<calls, sarRows>>
  <2>1. UNCHANGED <<req, trail, crossed, counter, sar, stored>>
    BY <1>1 DEF calls, sarRows
  <2>2. \A r \in Request : /\ Holder(r)' <=> Holder(r)
                           /\ First(r)' <=> First(r)
    BY <2>1 DEF Holder, First
  <2>3. Clashes' = Clashes /\ \A n : SarTaken(n)' <=> SarTaken(n)
    BY <2>1 DEF Clashes, SarTaken, At
  <2>4. (\A r \in Request : Operations(r))'
    BY <2>1 DEF CountsInv, Operations, At
  <2>5. Numbered => Numbered'
    BY <2>1 DEF Numbered, Holder, First, Clashes, SarTaken, At
  <2>6. BeganWithADraft => BeganWithADraft'
    BY <2>1, <2>2 DEF BeganWithADraft
  <2>7. BeganEmpty => BeganEmpty'
    BY <2>1, <2>2, <2>3 DEF BeganEmpty
  <2>8. CountsInv'
    BY <2>1, <2>4, <2>5, <2>6, <2>7 DEF CountsInv, NumbersInv
  <2>9. \A p \in Report : Stored(p)' = Stored(p)
    BY <2>1 DEF Stored
  <2>10. Met'
    BY <2>1 DEF VersionsInv, Met, Underway
  <2>11. VersionCountsExports'
    BY <2>1, <2>9 DEF VersionsInv, VersionCountsExports
  <2>12. (\A r \in Request : Counting(r))'
    BY <2>1, <2>9 DEF VersionsInv, Counting, At
  <2>13. VersionsInv'
    BY <2>1, <2>9, <2>10, <2>11, <2>12 DEF VersionsInv
  <2>14. QED
    BY <2>8, <2>13
<1>2. CASE SarNext
  <2> counterWritable' = counterWritable
    BY <1>2 DEF SarNext
  <2>1. PICK r \in Request :
          \/ StartDraft(r) \/ Reserve(r) \/ InsertDraft(r) \/ StartUpdate(r) \/ WritePatch(r)
          \/ StartExport(r) \/ Validate(r) \/ StoreHash(r) \/ StartSubmit(r) \/ File(r)
          \/ SarAudit(r)
          \/ (Kill(r) /\ UNCHANGED <<counter, sar, stored>>)
    BY <1>2 DEF SarNext
  <2>2. CASE StartDraft(r) \/ StartUpdate(r) \/ StartExport(r) \/ StartSubmit(r)
    BY <2>2, StartCounts
  <2>3. CASE WritePatch(r) \/ Validate(r) \/ File(r) \/ SarAudit(r)
             \/ (Kill(r) /\ UNCHANGED <<counter, sar, stored>>)
    BY <2>3, MoveCounts
  <2>4. CASE Reserve(r) \/ InsertDraft(r) \/ StoreHash(r)
    BY <2>4, ReserveCounts, InsertCounts, StoreCounts
  <2>5. (StartDraft(r) \/ StartUpdate(r) \/ StartExport(r) \/ StartSubmit(r))
        \/ (WritePatch(r) \/ Validate(r) \/ File(r) \/ SarAudit(r)
            \/ (Kill(r) /\ UNCHANGED <<counter, sar, stored>>))
        \/ (Reserve(r) \/ InsertDraft(r) \/ StoreHash(r))
    BY <2>1, Zenon
  <2>6. QED
    BY <2>2, <2>3, <2>4, <2>5, Zenon
<1>3. QED
  BY <1>1, <1>2

LEMMA InitCounts == RequestsInit /\ SarInit => CountsInv /\ VersionsInv
<1>1. SUFFICES ASSUME RequestsInit, SarInit PROVE CountsInv /\ VersionsInv
  OBVIOUS
<1>2. /\ \A r \in Request : req[r].pc = "idle" /\ req[r].seen = None
      /\ stored = {}
  BY <1>1 DEF RequestsInit, Idle, SarInit
<1>3. /\ \A r \in Request : ~Holder(r) /\ ~First(r) /\ ~Underway(r)
      /\ Clashes = {} /\ \A p \in Report : Stored(p) = {}
  BY <1>2 DEF Holder, First, Underway, Clashes, At, Stored
<1>4. \A p \in Report : sar[p] # None => counter = 1 /\ sar[p].number = 1 /\ sar[p].version = 0
  BY <1>1 DEF SarInit, Draft
<1>5. counter \in {0, 1} /\ (counter = 0 => \A p \in Report : sar[p] = None)
  BY <1>1 DEF SarInit
<1>6. CountsInv
  <2>1. Numbered
    BY <1>2, <1>3, <1>4 DEF Numbered, GivenOut, At
  <2>2. \A r \in Request : Operations(r)
    BY <1>2 DEF Operations, At
  <2>3. BeganWithADraft \/ BeganEmpty
    BY <1>3, <1>5 DEF BeganWithADraft, BeganEmpty, SarTaken
  <2>4. QED
    BY <2>1, <2>2, <2>3 DEF CountsInv, NumbersInv
<1>7. VersionsInv
  <2>1. VersionCountsExports
    BY <1>3, <1>4, FS_EmptySet DEF VersionCountsExports
  <2>2. \A r \in Request : Counting(r)
    BY <1>2 DEF Counting, At
  <2>3. QED
    BY <1>3, <2>1, <2>2, FS_EmptySet DEF VersionsInv, Met
<1>8. QED
  BY <1>6, <1>7

\* A report that is there, a status "submitted", and who they are owed to.
Origin(r) ==
    /\ At(r, "idle") => req[r].op # "update"
    /\ At(r, "write_patch") => req[r].op = "update"
    /\ At(r, "insert_draft") => counterWritable /\ req[r].seen.status = "draft"

Marked(p) ==
    sar[p] # None /\ sar[p].status = "submitted" =>
        sar[p].filed \/ \E r \in Request : Patched(r, p)

MarkedInv ==
    /\ NoReportWithoutCounter
    /\ \A r \in Request : Origin(r)
    /\ \A p \in Report : Marked(p)

\* A step of one request that takes back neither a patch nor a submission.
LEMMA MarkedMoves ==
    ASSUME SarInv, MarkedInv, counterWritable' = counterWritable, NEW r \in Request,
           \A q \in Request \ {r} : req'[q] = req[q], Origin(r)',
           \A p \in Report : Patched(r, p) => Patched(r, p)',
           ~counterWritable => sar' = sar,
           \A p \in Report : sar'[p] = sar[p] \/ Marked(p)' \/
              /\ sar[p] # None /\ sar'[p].status = sar[p].status
              /\ sar'[p].filed = sar[p].filed
    PROVE  MarkedInv'
<1>1. \A q \in Request : Origin(q)'
  BY DEF MarkedInv, Origin, At
<1>2. \A q \in Request, p \in Report : Patched(q, p) => Patched(q, p)'
  BY DEF Patched
<1>3. \A p \in Report : Marked(p)'
  BY <1>2 DEF MarkedInv, Marked
<1>4. NoReportWithoutCounter'
  BY DEF MarkedInv, NoReportWithoutCounter
<1>5. QED
  BY <1>1, <1>3, <1>4 DEF MarkedInv

\* A request that goes on and leaves the reports alone.
LEMMA MarkedGoes ==
    ASSUME SarInv, MarkedInv, counterWritable' = counterWritable, sar' = sar,
           NEW r \in Request, NEW stage \in Ended \cup (SarStage \ {"write_patch", "insert_draft"}),
           Goto(r, stage)
    PROVE  MarkedInv'
<1>1. req \in [Request -> SarRequest]
  BY DEF SarInv, SarTypeOK
<1>2. /\ req'[r].pc = stage /\ req'[r].op = req[r].op /\ req'[r].on = req[r].on
      /\ req'[r].arg = req[r].arg
  BY <1>1, GotoRequest
<1>3. \A q \in Request \ {r} : req'[q] = req[q]
  BY <1>1 DEF Goto
<1>4. Origin(r)'
  BY <1>2 DEF Origin, At, Ended, SarStage
<1>5. QED
  BY <1>2, <1>3, <1>4, MarkedMoves DEF Patched

LEMMA MarkedBegins ==
    ASSUME SarInv, MarkedInv, counterWritable' = counterWritable, sar' = sar,
           NEW r \in Request, NEW op, NEW on, NEW arg, NEW seen, NEW stage,
           Begin(r, op, on, arg, seen, stage), stage \notin {"idle", "insert_draft"},
           stage = "write_patch" => op = "update"
    PROVE  MarkedInv'
<1>1. /\ At(r, "idle") /\ \A q \in Request \ {r} : req'[q] = req[q]
      /\ req'[r] = [pc |-> stage, op |-> op, on |-> on, arg |-> arg, seen |-> seen]
  BY DEF Begin, SarInv, SarTypeOK
<1>2. req'[r].pc = stage /\ req'[r].op = op
  BY <1>1
<1>3. Origin(r)'
  BY <1>2 DEF Origin, At
<1>4. \A p \in Report : ~Patched(r, p)
  BY <1>1 DEF MarkedInv, Origin, Patched
<1>5. QED
  BY <1>1, <1>3, <1>4, MarkedMoves

LEMMA ReserveMarks ==
    ASSUME SarInv, MarkedInv, counterWritable' = counterWritable, NEW r \in Request, Reserve(r)
    PROVE  MarkedInv'
<1>1. sar' = sar /\ req \in [Request -> SarRequest] /\ req[r].arg \in Patch /\ counter \in Nat
  BY DEF Reserve, SarInv, SarTypeOK, Stage
<1>2. CASE ~counterWritable
  <2>1. Goto(r, "refused") /\ "refused" \in Ended
    BY <1>2 DEF Reserve, Ended
  <2>2. QED
    BY <1>1, <2>1, MarkedGoes
<1>3. CASE counterWritable
  <2>1. PICK number, text : Keep(r, Draft(number, text), "insert_draft")
    BY <1>3 DEF Reserve
  <2>2. /\ req'[r] = [req[r] EXCEPT !.pc = "insert_draft", !.seen = Draft(number, text)]
        /\ \A q \in Request \ {r} : req'[q] = req[q]
    BY <1>1, <2>1 DEF Keep
  <2>3. /\ req'[r].pc = "insert_draft" /\ req'[r].op = req[r].op /\ req'[r].on = req[r].on
        /\ req'[r].arg = req[r].arg /\ req'[r].seen = Draft(number, text)
    BY <1>1, <2>2 DEF SarRequest
  <2>4. Draft(number, text).status = "draft"
    BY DEF Draft
  <2>5. Origin(r)'
    BY <1>3, <2>3, <2>4 DEF Origin, At
  <2>6. QED
    BY <1>1, <2>2, <2>3, <2>5, MarkedMoves DEF Patched
<1>4. QED
  BY <1>2, <1>3

\* The steps that write a report.
LEMMA WriteMarks ==
    ASSUME SarInv, MarkedInv, counterWritable' = counterWritable, NEW r \in Request,
           InsertDraft(r) \/ WritePatch(r) \/ StoreHash(r) \/ File(r)
    PROVE  MarkedInv'
<1>1. /\ req \in [Request -> SarRequest] /\ sar \in [Report -> SarReport \cup {None}]
      /\ Origin(r)
  BY DEF SarInv, SarTypeOK, MarkedInv
<1>2. ASSUME NEW stage \in Ended \cup (SarStage \ {"write_patch", "insert_draft"}), Goto(r, stage)
      PROVE  /\ \A q \in Request \ {r} : req'[q] = req[q]
             /\ Origin(r)'
             /\ \A p \in Report : Patched(r, p)' <=> Patched(r, p)
  <2>1. /\ req'[r].pc = stage /\ req'[r].op = req[r].op /\ req'[r].on = req[r].on
        /\ req'[r].arg = req[r].arg
    BY <1>1, <1>2, GotoRequest
  <2>2. \A q \in Request \ {r} : req'[q] = req[q]
    BY <1>1, <1>2 DEF Goto
  <2>3. QED
    BY <2>1, <2>2 DEF Origin, At, Ended, SarStage, Patched
<1>3. CASE InsertDraft(r)
  <2>1. CASE UNCHANGED sar /\ Goto(r, "refused")
    BY <2>1, MarkedGoes DEF Ended
  <2>2. ASSUME NEW p \in Report, sar' = [sar EXCEPT ![p] = req[r].seen],
               Goto(r, "audit_drafted")
        PROVE  MarkedInv'
    <3>1. "audit_drafted" \in SarStage \ {"write_patch", "insert_draft"}
      BY DEF SarStage
    <3>2. counterWritable /\ req[r].seen.status = "draft"
      BY <1>1, <1>3 DEF InsertDraft, Origin
    <3>3. sar'[p] = req[r].seen /\ \A o \in Report \ {p} : sar'[o] = sar[o]
      BY <1>1, <2>2
    <3>4. Marked(p)'
      BY <3>2, <3>3 DEF Marked
    <3>5. QED
      BY <1>2, <2>2, <3>1, <3>2, <3>3, <3>4, MarkedMoves
  <2>3. QED
    BY <1>3, <2>1, <2>2 DEF InsertDraft
<1>4. CASE WritePatch(r) \/ StoreHash(r) \/ File(r)
  <2>1. PICK p \in Report : p = req[r].on /\ sar[p] # None /\ sar[p] \in SarReport
    BY <1>1, <1>4 DEF SarInv, Stage, SarRequest, WritePatch, StoreHash, File
  <2>2. counterWritable
    BY <2>1 DEF MarkedInv, NoReportWithoutCounter
  <2>3. CASE WritePatch(r)
    <3>1. /\ Goto(r, "audit_updated") /\ "audit_updated" \in SarStage \ {"write_patch", "insert_draft"}
          /\ req[r].op = "update" /\ req[r].on = p
      BY <1>1, <2>1, <2>3 DEF WritePatch, SarStage, Origin
    <3>2. \A o \in Report \ {p} : sar'[o] = sar[o]
      BY <1>1, <2>1, <2>3 DEF WritePatch
    <3>3. \/ sar'[p].status = sar[p].status /\ sar'[p].filed = sar[p].filed
          \/ sar'[p].status = req[r].arg.status
      BY <1>1, <2>1, <2>3 DEF WritePatch, SarReport
    <3>4. sar'[p].status = req[r].arg.status => Marked(p)'
      BY <1>2, <3>1 DEF Marked, Patched
    <3>5. QED
      BY <1>2, <2>1, <2>2, <3>1, <3>2, <3>3, <3>4, MarkedMoves
  <2>4. CASE StoreHash(r)
    <3>1. /\ Goto(r, "audit_exported")
          /\ "audit_exported" \in SarStage \ {"write_patch", "insert_draft"}
      BY <2>4 DEF StoreHash, SarStage
    <3>2. \A o \in Report \ {p} : sar'[o] = sar[o]
      BY <1>1, <2>1, <2>4 DEF StoreHash
    <3>3. sar'[p] = sar[p] \/ (sar'[p].status = sar[p].status /\ sar'[p].filed = sar[p].filed)
      BY <1>1, <2>1, <2>4 DEF StoreHash, SarReport
    <3>4. QED
      BY <1>2, <2>1, <2>2, <3>1, <3>2, <3>3, MarkedMoves
  <2>5. CASE File(r)
    <3>1. /\ Goto(r, "audit_submitted")
          /\ "audit_submitted" \in SarStage \ {"write_patch", "insert_draft"}
      BY <2>5 DEF File, SarStage
    <3>2. \A o \in Report \ {p} : sar'[o] = sar[o]
      BY <1>1, <2>1, <2>5 DEF File
    <3>3. sar'[p].filed
      BY <1>1, <2>1, <2>5 DEF File, SarReport
    <3>4. Marked(p)'
      BY <3>3 DEF Marked
    <3>5. QED
      BY <1>2, <2>2, <3>1, <3>2, <3>4, MarkedMoves
  <2>6. QED
    BY <1>4, <2>3, <2>4, <2>5
<1>5. QED
  BY <1>3, <1>4

LEMMA SarStepMarks ==
    ASSUME SarInv, MarkedInv, [SarNext]_<<calls, sarRows>>
    PROVE  MarkedInv'
<1>1. CASE UNCHANGED <<calls, sarRows>>
  BY <1>1 DEF MarkedInv, NoReportWithoutCounter, Origin, Marked, Patched, At, calls, sarRows
<1>2. CASE SarNext
  <2> counterWritable' = counterWritable
    BY <1>2 DEF SarNext
  <2>1. PICK r \in Request :
          \/ StartDraft(r) \/ Reserve(r) \/ InsertDraft(r) \/ StartUpdate(r) \/ WritePatch(r)
          \/ StartExport(r) \/ Validate(r) \/ StoreHash(r) \/ StartSubmit(r) \/ File(r)
          \/ SarAudit(r)
          \/ (Kill(r) /\ UNCHANGED <<counter, sar, stored>>)
    BY <1>2 DEF SarNext
  <2>2. CASE StartDraft(r) \/ StartUpdate(r) \/ StartExport(r) \/ StartSubmit(r)
    <3>1. sar' = sar
      BY <2>2 DEF StartDraft, StartUpdate, StartExport, StartSubmit
    <3>2. PICK op, on, arg, seen, stage :
            /\ Begin(r, op, on, arg, seen, stage)
            /\ stage \notin {"idle", "insert_draft"}
            /\ stage = "write_patch" => op = "update"
      <4>1. CASE StartDraft(r)
        BY <4>1 DEF StartDraft
      <4>2. CASE StartUpdate(r)
        BY <4>2 DEF StartUpdate
      <4>3. CASE StartExport(r)
        BY <4>3 DEF StartExport
      <4>4. CASE StartSubmit(r)
        BY <4>4 DEF StartSubmit
      <4>5. QED
        BY <2>2, <4>1, <4>2, <4>3, <4>4
    <3>3. QED
      BY <3>1, <3>2, MarkedBegins
  <2>3. CASE Validate(r) \/ SarAudit(r) \/ (Kill(r) /\ UNCHANGED <<counter, sar, stored>>)
    <3>1. UNCHANGED sar
      BY <2>3 DEF Validate, SarAudit
    <3>2. PICK stage \in {"store_hash"} \cup Ended : Goto(r, stage)
      BY <2>3 DEF Validate, SarAudit, Emit, Kill, Ended
    <3>3. stage \in Ended \cup (SarStage \ {"write_patch", "insert_draft"})
      BY <3>2 DEF SarStage
    <3>4. QED
      BY <3>1, <3>2, <3>3, MarkedGoes
  <2>4. CASE Reserve(r)
    BY <2>4, ReserveMarks
  <2>5. CASE InsertDraft(r) \/ WritePatch(r) \/ StoreHash(r) \/ File(r)
    BY <2>5, WriteMarks
  <2>6. QED
    BY <2>1, <2>2, <2>3, <2>4, <2>5, Zenon
<1>3. QED
  BY <1>1, <1>2

LEMMA InitMarked == RequestsInit /\ SarInit => MarkedInv
<1>1. SUFFICES ASSUME RequestsInit, SarInit PROVE MarkedInv
  OBVIOUS
<1>2. \A r \in Request : req[r].pc = "idle" /\ req[r].op = None
  BY <1>1 DEF RequestsInit, Idle
<1>3. \A r \in Request : Origin(r)
  BY <1>2, SarNoneAssumption DEF Origin, At
<1>4. \A n, text : Draft(n, text).status = "draft"
  BY DEF Draft
<1>5. \A p \in Report : sar[p] = None \/ (counterWritable /\ sar[p].status = "draft")
  <2>1. CASE sar = [p \in Report |-> None]
    BY <2>1
  <2>2. ASSUME counterWritable, NEW first \in Report, NEW text,
               sar = [p \in Report |-> IF p = first THEN Draft(1, text) ELSE None]
        PROVE  \A p \in Report : sar[p] = None \/ (counterWritable /\ sar[p].status = "draft")
    BY <1>4, <2>2
  <2>3. QED
    BY <1>1, <2>1, <2>2 DEF SarInit
<1>6. QED
  BY <1>3, <1>5 DEF MarkedInv, Marked, NoReportWithoutCounter
-----------------------------------------------------------------------------
\* Two clashes would need three creations that hold the first number.
LEMMA CountsCount ==
    ASSUME CountsInv, VersionsInv, MarkedInv
    PROVE  SarNumbersCount
<1>1. ASSUME counter <= Limit, NEW q \in Clashes, NEW r \in Clashes PROVE q = r
  <2>1. NumbersInv
    BY <1>1 DEF CountsInv
  <2>2. q \in Request /\ r \in Request /\ First(q) /\ First(r)
        /\ req[q].pc = "refused" /\ req[r].pc = "refused"
    BY <1>1, <2>1 DEF NumbersInv, Numbered, Clashes, At
  <2>3. CASE BeganWithADraft
    BY <2>2, <2>3 DEF BeganWithADraft
  <2>4. CASE BeganEmpty
    <3>1. PICK w \in Request : First(w) /\ req[w].pc # "refused"
      BY <1>1, <2>4 DEF BeganEmpty
    <3>2. w # q /\ w # r
      BY <2>2, <3>1
    <3>3. QED
      BY <2>2, <2>4, <3>1, <3>2 DEF BeganEmpty
  <2>5. QED
    BY <2>1, <2>3, <2>4 DEF NumbersInv
<1>2. ASSUME counter <= Limit PROVE Cardinality(Clashes) <= 1
  <2>1. CASE Clashes = {}
    BY <2>1, FS_EmptySet
  <2>2. ASSUME NEW r \in Clashes PROVE Cardinality(Clashes) <= 1
    <3>1. Clashes = {r}
      BY <1>1, <1>2, <2>2
    <3>2. Cardinality({r}) = 1
      BY FS_Singleton
    <3>3. QED
      BY <3>1, <3>2
  <2>3. QED
    BY <2>1, <2>2
<1>3. QED
  BY <1>2 DEF VersionsInv, MarkedInv, SarNumbersCount, OneDraftRefusedPerYear
-----------------------------------------------------------------------------
\* The types of the workflow area; a request about to switch knows what to.
WorkflowInv ==
    /\ WorkflowTypeOK
    /\ \A r \in Request : At(r, "preflight") \/ At(r, "switch") =>
         req[r].on \in Workflow /\ req[r].arg \in BOOLEAN

\* A step of one request, the acknowledgements aside.
LEMMA WorkflowRequestMoves ==
    ASSUME WorkflowInv, NEW r \in Request, NEW x \in WorkflowRequest,
           req' = [req EXCEPT ![r] = x],
           x.pc \in {"preflight", "switch"} => x.on \in Workflow /\ x.arg \in BOOLEAN,
           trail' \subseteq {"activated", "deactivated"} \X Request,
           crossed' \subseteq Request,
           active' \in [Workflow -> BOOLEAN], acknowledged' = acknowledged
    PROVE  WorkflowInv'
<1>1. WorkflowTypeOK'
  BY DEF WorkflowInv, WorkflowTypeOK
<1>2. req'[r] = x /\ \A q \in Request \ {r} : req'[q] = req[q]
  BY DEF WorkflowInv, WorkflowTypeOK
<1>3. QED
  BY <1>1, <1>2 DEF WorkflowInv, At

LEMMA WorkflowGoes ==
    ASSUME WorkflowInv, NEW r \in Request,
           NEW stage \in WorkflowStage \cup Ended, Goto(r, stage),
           stage = "switch" => At(r, "preflight"), stage # "preflight",
           trail' \subseteq {"activated", "deactivated"} \X Request,
           active' \in [Workflow -> BOOLEAN], acknowledged' = acknowledged
    PROVE  WorkflowInv'
<1> DEFINE x == [req[r] EXCEPT !.pc = stage]
<1>1. req[r] \in WorkflowRequest /\ crossed' \subseteq Request
      /\ req' = [req EXCEPT ![r] = x]
  BY DEF WorkflowInv, WorkflowTypeOK, Goto
<1>2. x \in WorkflowRequest
  BY <1>1 DEF WorkflowRequest
<1>3. x.pc = stage /\ x.on = req[r].on /\ x.arg = req[r].arg
  BY <1>1 DEF WorkflowRequest
<1>4. x.pc \in {"preflight", "switch"} => x.on \in Workflow /\ x.arg \in BOOLEAN
  BY <1>3 DEF WorkflowInv
<1> HIDE DEF x
<1>5. QED
  BY <1>1, <1>2, <1>4, WorkflowRequestMoves

LEMMA WorkflowBegins ==
    ASSUME WorkflowInv, NEW r \in Request, NEW op \in {"switch", "acknowledge"},
           NEW on \in Workflow, NEW arg \in BOOLEAN \cup {None},
           NEW stage \in WorkflowStage \cup Ended, Begin(r, op, on, arg, None, stage),
           stage \in {"preflight", "switch"} => arg \in BOOLEAN,
           UNCHANGED <<trail, workflowRows>>
    PROVE  WorkflowInv'
<1> DEFINE x == [pc |-> stage, op |-> op, on |-> on, arg |-> arg, seen |-> None]
<1>1. x \in WorkflowRequest
  BY DEF WorkflowRequest
<1>2. x.pc = stage /\ x.on = on /\ x.arg = arg
  OBVIOUS
<1>3. req' = [req EXCEPT ![r] = x] /\ crossed' \subseteq Request
  BY DEF Begin, WorkflowInv, WorkflowTypeOK
<1> HIDE DEF x
<1>4. QED
  BY <1>1, <1>2, <1>3, WorkflowRequestMoves DEF WorkflowInv, WorkflowTypeOK, workflowRows

LEMMA WorkflowStepKeeps ==
    ASSUME WorkflowInv, [WorkflowNext]_<<calls, workflowRows>>
    PROVE  WorkflowInv'
<1>1. CASE UNCHANGED <<calls, workflowRows>>
  BY <1>1 DEF WorkflowInv, WorkflowTypeOK, At, calls, workflowRows
<1>2. ASSUME NEW r \in Request, StartSwitch(r) PROVE WorkflowInv'
  <2>1. PICK w \in Workflow, on \in BOOLEAN, stage \in {"refused", "preflight", "switch"} :
          Begin(r, "switch", w, on, None, stage)
    BY <1>2 DEF StartSwitch
  <2>2. QED
    BY <1>2, <2>1, WorkflowBegins DEF StartSwitch, WorkflowStage, Ended
<1>3. ASSUME NEW r \in Request, StartAcknowledge(r) PROVE WorkflowInv'
  BY <1>3, WorkflowBegins DEF StartAcknowledge, Ended
<1>4. ASSUME NEW r \in Request, Preflight(r) PROVE WorkflowInv'
  BY <1>4, WorkflowGoes DEF Preflight, WorkflowInv, WorkflowTypeOK, WorkflowStage, Ended,
     workflowRows
<1>5. ASSUME NEW r \in Request, Switch(r) PROVE WorkflowInv'
  <2>1. req[r].arg \in BOOLEAN /\ active \in [Workflow -> BOOLEAN]
    BY <1>5 DEF WorkflowInv, WorkflowTypeOK, Switch
  <2>2. active' \in [Workflow -> BOOLEAN] /\ UNCHANGED <<trail, acknowledged>>
    BY <1>5, <2>1 DEF Switch
  <2>3. Goto(r, "audit_switched") \/ Goto(r, "refused")
    BY <1>5 DEF Switch
  <2>4. QED
    BY <2>2, <2>3, WorkflowGoes DEF WorkflowInv, WorkflowTypeOK, WorkflowStage, Ended
<1>6. ASSUME NEW r \in Request, AuditSwitched(r) PROVE WorkflowInv'
  BY <1>6, WorkflowGoes
     DEF AuditSwitched, Emit, WorkflowInv, WorkflowTypeOK, Ended, workflowRows
<1>7. ASSUME NEW r \in Request, Kill(r), UNCHANGED workflowRows PROVE WorkflowInv'
  BY <1>7, WorkflowGoes DEF Kill, WorkflowInv, WorkflowTypeOK, Ended, workflowRows
<1>8. ASSUME NEW w \in TenantWorkflow, OperatorAcknowledges(w) \/ OperatorRevokes(w)
      PROVE  WorkflowInv'
  <2>1. acknowledged \in [Workflow -> 0..MaxAcks] /\ w \in Workflow /\ MaxAcks \in Nat
    BY WorkflowAssumption DEF WorkflowInv, WorkflowTypeOK, Workflow
  <2>2. acknowledged' \in [Workflow -> 0..MaxAcks]
    BY <1>8, <2>1 DEF OperatorAcknowledges, OperatorRevokes
  <2>3. QED
    BY <1>8, <2>2
       DEF WorkflowInv, WorkflowTypeOK, At, calls, OperatorAcknowledges, OperatorRevokes
<1>9. QED
  BY <1>1, <1>2, <1>3, <1>4, <1>5, <1>6, <1>7, <1>8 DEF WorkflowNext

\* The trigger asks at the moment of the write.
LEMMA SwitchAsks ==
    ASSUME WorkflowInv, [WorkflowNext]_<<calls, workflowRows>>,
           NEW w \in TenantWorkflow, ~active[w], active'[w]
    PROVE  acknowledged[w] > 0
<1>1. PICK r \in Request : Switch(r)
  BY DEF WorkflowNext, workflowRows, StartSwitch, Preflight, AuditSwitched, StartAcknowledge,
         OperatorAcknowledges, OperatorRevokes
<1>2. active \in [Workflow -> BOOLEAN] /\ w \in Workflow
  BY DEF WorkflowInv, WorkflowTypeOK, Workflow
<1>3. req[r].on = w /\ active' = [active EXCEPT ![w] = req[r].arg] /\ Gate(w, req[r].arg)
  BY <1>1, <1>2 DEF Switch
<1>4. req[r].arg
  BY <1>2, <1>3
<1>5. QED
  BY <1>3, <1>4 DEF Gate
-----------------------------------------------------------------------------
(* Screening hits.                                                         *)

\* A request between its two writes has left the resolution it is about to show.
HitsInv ==
    /\ HitsTypeOK /\ StatusIsARecordedResolution
    /\ \A r \in Request :
         /\ At(r, "insert_resolution") \/ At(r, "set_status") =>
              req[r].on \in Hit /\ req[r].arg \in Resolution
         /\ At(r, "set_status") =>
              [hit |-> req[r].on, resolution |-> req[r].arg, by |-> r] \in resolutions

LEMMA HitRequestMoves ==
    ASSUME HitsInv, NEW r \in Request, NEW x \in HitRequest,
           req' = [req EXCEPT ![r] = x], crossed' \subseteq Request,
           trail' \subseteq {"hit_resolved"} \X Request,
           hitStatus' \in [Hit -> Resolution \cup {"pending"}],
           resolutions \subseteq resolutions',
           resolutions' \subseteq [hit : Hit, resolution : Resolution, by : Request],
           StatusIsARecordedResolution',
           x.pc \in {"insert_resolution", "set_status"} => x.on \in Hit /\ x.arg \in Resolution,
           x.pc = "set_status" => [hit |-> x.on, resolution |-> x.arg, by |-> r] \in resolutions'
    PROVE  HitsInv'
<1>1. HitsTypeOK'
  BY DEF HitsInv, HitsTypeOK
<1>2. req'[r] = x /\ \A q \in Request \ {r} : req'[q] = req[q]
  BY DEF HitsInv, HitsTypeOK
<1>3. QED
  BY <1>1, <1>2 DEF HitsInv, At

LEMMA HitGoes ==
    ASSUME HitsInv, NEW r \in Request, NEW stage \in {"audit_resolved", "done", "killed"},
           Goto(r, stage), trail' \subseteq {"hit_resolved"} \X Request,
           hitStatus' \in [Hit -> Resolution \cup {"pending"}], UNCHANGED resolutions,
           StatusIsARecordedResolution'
    PROVE  HitsInv'
<1> DEFINE x == [req[r] EXCEPT !.pc = stage]
<1>1. req[r] \in HitRequest /\ req' = [req EXCEPT ![r] = x] /\ crossed' \subseteq Request
  BY DEF HitsInv, HitsTypeOK, Goto
<1>2. x \in HitRequest /\ x.pc = stage
  BY <1>1 DEF HitRequest, HitStage, Ended
<1> HIDE DEF x
<1>3. resolutions' \subseteq [hit : Hit, resolution : Resolution, by : Request]
  BY DEF HitsInv, HitsTypeOK
<1>4. QED
  BY <1>1, <1>2, <1>3, HitRequestMoves

LEMMA HitsStepKeeps ==
    ASSUME HitsInv, [HitsNext]_<<calls, hitRows>>
    PROVE  HitsInv'
<1>1. CASE UNCHANGED <<calls, hitRows>>
  BY <1>1 DEF HitsInv, HitsTypeOK, At, calls, hitRows, StatusIsARecordedResolution, Resolved
<1>2. ASSUME NEW r \in Request, StartResolve(r) PROVE HitsInv'
  <2>1. PICK h \in Hit, d \in Resolution :
          Begin(r, "resolve", h, d, None, "insert_resolution")
    BY <1>2 DEF StartResolve
  <2> DEFINE x == [pc |-> "insert_resolution", op |-> "resolve", on |-> h, arg |-> d,
                   seen |-> None]
  <2>2. x \in HitRequest /\ x.pc = "insert_resolution" /\ x.on = h /\ x.arg = d
    BY DEF HitRequest, HitStage
  <2>3. req' = [req EXCEPT ![r] = x] /\ crossed' \subseteq Request
    BY <2>1 DEF Begin, HitsInv, HitsTypeOK
  <2>4. UNCHANGED <<trail, hitStatus, resolutions>>
    BY <1>2 DEF StartResolve, hitRows
  <2>5. StatusIsARecordedResolution'
    BY <2>4 DEF HitsInv, StatusIsARecordedResolution, Resolved
  <2> HIDE DEF x
  <2>6. QED
    BY <2>2, <2>3, <2>4, <2>5, HitRequestMoves DEF HitsInv, HitsTypeOK
<1>3. ASSUME NEW r \in Request, InsertResolution(r) PROVE HitsInv'
  <2> DEFINE x == [req[r] EXCEPT !.pc = "set_status"]
             row == [hit |-> req[r].on, resolution |-> req[r].arg, by |-> r]
  <2>1. req[r] \in HitRequest /\ req[r].on \in Hit /\ req[r].arg \in Resolution
    BY <1>3 DEF InsertResolution, HitsInv, HitsTypeOK
  <2>2. x \in HitRequest /\ x.pc = "set_status" /\ x.on = req[r].on /\ x.arg = req[r].arg
    BY <2>1 DEF HitRequest, HitStage
  <2>3. req' = [req EXCEPT ![r] = x] /\ UNCHANGED <<trail, crossed, hitStatus>>
    BY <1>3 DEF InsertResolution, Goto
  <2>4. row \in [hit : Hit, resolution : Resolution, by : Request]
        /\ resolutions' = resolutions \cup {row}
    BY <1>3, <2>1 DEF InsertResolution
  <2>5. [hit |-> x.on, resolution |-> x.arg, by |-> r] = row
    BY <2>2
  <2> HIDE DEF x, row
  <2>6. StatusIsARecordedResolution'
    BY <2>3, <2>4 DEF HitsInv, StatusIsARecordedResolution, Resolved
  <2>7. QED
    BY <2>1, <2>2, <2>3, <2>4, <2>5, <2>6, HitRequestMoves DEF HitsInv, HitsTypeOK
<1>4. ASSUME NEW r \in Request, SetHitStatus(r) PROVE HitsInv'
  <2>1. PICK row : row = [hit |-> req[r].on, resolution |-> req[r].arg, by |-> r]
    OBVIOUS
  <2>2. row.hit = req[r].on /\ row.resolution = req[r].arg /\ row \in resolutions
        /\ req[r].on \in Hit /\ req[r].arg \in Resolution
    BY <1>4, <2>1 DEF SetHitStatus, HitsInv
  <2>3. /\ hitStatus' = [hitStatus EXCEPT ![row.hit] = row.resolution] \/ hitStatus' = hitStatus
        /\ UNCHANGED <<trail, resolutions>> /\ Goto(r, "audit_resolved")
    BY <1>4, <2>2 DEF SetHitStatus
  <2>4. hitStatus \in [Hit -> Resolution \cup {"pending"}]
    BY DEF HitsInv, HitsTypeOK
  <2>5. \A h \in Hit : hitStatus'[h] = hitStatus[h] \/ (h = row.hit /\ hitStatus'[h] = row.resolution)
    BY <2>3, <2>4
  <2>6. StatusIsARecordedResolution'
    BY <2>2, <2>3, <2>5 DEF HitsInv, StatusIsARecordedResolution, Resolved
  <2>7. hitStatus' \in [Hit -> Resolution \cup {"pending"}]
    BY <2>2, <2>3, <2>4
  <2>8. QED
    BY <2>3, <2>6, <2>7, HitGoes DEF HitsInv, HitsTypeOK
<1>5. ASSUME NEW r \in Request, AuditResolved(r) \/ (Kill(r) /\ UNCHANGED hitRows)
      PROVE  HitsInv'
  <2>1. /\ Goto(r, "done") \/ Goto(r, "killed")
        /\ UNCHANGED <<hitStatus, resolutions>>
        /\ trail' \subseteq {"hit_resolved"} \X Request
    BY <1>5 DEF AuditResolved, Emit, Kill, hitRows, HitsInv, HitsTypeOK
  <2>2. StatusIsARecordedResolution'
    BY <2>1 DEF HitsInv, StatusIsARecordedResolution, Resolved
  <2>3. QED
    BY <2>1, <2>2, HitGoes DEF HitsInv, HitsTypeOK
<1>6. QED
  BY <1>1, <1>2, <1>3, <1>4, <1>5 DEF HitsNext
-----------------------------------------------------------------------------
(* Versioned records.                                                      *)

Content == [content : SUBSET Request, next : Nat]

\* The versions of a series are 1..k without repetition.
Counted(s, k) ==
    /\ \A x \in RowsOf(s) : x.version \in 1..k
    /\ \A n \in 1..k : VersionUsed(s, n)
    /\ \A x, y \in RowsOf(s) : x.version = y.version => x = y

\* A request about to insert holds a number below which all are used: others may have
\* inserted since it read, and nobody deletes.
Numbering(x) ==
    /\ x.pc \in {"form", "check_documents", "read_max", "insert", "audit_saved"} =>
         x.on \in Series /\ x.seen \in Content
    /\ x.pc = "insert" =>
         x.seen.next >= 1 /\ \A n \in 1..(x.seen.next - 1) : VersionUsed(x.on, n)

VersionedInv ==
    /\ VersionedTypeOK
    /\ \A s \in Series : \E k \in Nat : Counted(s, k)
    /\ \A r \in Request : Numbering(req[r])

\* Rows numbered 1..k without repetition are k rows.
LEMMA NumberedSize ==
    ASSUME NEW S, NEW k \in Nat,
           \A x \in S : x.version \in 1..k,
           \A n \in 1..k : \E x \in S : x.version = n,
           \A x, y \in S : x.version = y.version => x = y
    PROVE  Cardinality(S) = k
<1> DEFINE f == [x \in S |-> x.version]
<1>1. f \in Bijection(S, 1..k)
  BY DEF Bijection, Injection, Surjection, IsInjective
<1>2. ExistsBijection(S, 1..k)
  BY <1>1 DEF ExistsBijection
<1>3. ExistsBijection(1..k, S)
  BY <1>2, Fun_ExistsBijSymmetric
<1>4. IsFiniteSet(1..k) /\ Cardinality(1..k) = k
  BY FS_Interval
<1>5. QED
  BY <1>3, <1>4, FS_Bijection

\* The highest version is the number of rows.
LEMMA HighestIsLast ==
    ASSUME NEW s \in Series, NEW k \in Nat, Counted(s, k)
    PROVE  Highest(s) = k
<1>1. CASE k = 0
  <2>1. RowsOf(s) = {}
    BY <1>1 DEF Counted
  <2>2. QED
    BY <1>1, <2>1 DEF Highest
<1>2. CASE k > 0
  <2>1. PICK x \in RowsOf(s) : x.version = k
    BY <1>2 DEF Counted, VersionUsed
  <2>2. x \in Top(s)
    BY <2>1 DEF Top, Counted
  <2>3. \A y \in Top(s) : y.version = k
    BY <2>1 DEF Top, Counted
  <2>4. (CHOOSE y \in Top(s) : TRUE) \in Top(s)
    BY <2>2
  <2>5. QED
    BY <2>1, <2>3, <2>4 DEF Highest
<1>3. QED
  BY <1>1, <1>2

\* Rows are only added, so what is used stays used.
LEMMA UsedStays ==
    ASSUME rows \subseteq rows', NEW s, NEW n, VersionUsed(s, n)
    PROVE  VersionUsed(s, n)'
  BY DEF VersionUsed, RowsOf

LEMMA VersionRequestMoves ==
    ASSUME VersionedInv, NEW r \in Request, NEW x \in VersionRequest,
           req' = [req EXCEPT ![r] = x], crossed' \subseteq Request,
           trail' \subseteq {"saved", "renamed"} \X Request,
           rows \subseteq rows', rows' \subseteq Row,
           \A s \in Series : \E k \in Nat : Counted(s, k)',
           Numbering(x)
    PROVE  VersionedInv'
<1>1. VersionedTypeOK'
  BY DEF VersionedInv, VersionedTypeOK
<1>2. req'[r] = x /\ \A q \in Request \ {r} : req'[q] = req[q]
  BY DEF VersionedInv, VersionedTypeOK
<1>3. ASSUME NEW y, Numbering(y) PROVE Numbering(y)'
  BY <1>3, UsedStays DEF Numbering
<1>4. ASSUME NEW q \in Request PROVE Numbering(req[q])'
  <2>1. PICK y : y = req'[q]
    OBVIOUS
  <2>2. Numbering(y)
    BY <1>2, <2>1 DEF VersionedInv
  <2>3. Numbering(y)'
    BY <1>3, <2>2
  <2>4. QED
    BY <2>1, <2>3 DEF Numbering
<1>5. QED
  BY <1>1, <1>4 DEF VersionedInv

\* A step that leaves the rows alone.
LEMMA RowsKept ==
    ASSUME VersionedInv, NEW r \in Request, NEW x \in VersionRequest,
           req' = [req EXCEPT ![r] = x], crossed' \subseteq Request,
           trail' \subseteq {"saved", "renamed"} \X Request, rows' = rows, Numbering(x)
    PROVE  VersionedInv'
<1>1. \A s \in Series : \E k \in Nat : Counted(s, k)'
  BY DEF VersionedInv, Counted, VersionUsed, RowsOf
<1>2. QED
  BY <1>1, VersionRequestMoves DEF VersionedInv, VersionedTypeOK

LEMMA VersionGoes ==
    ASSUME VersionedInv, NEW r \in Request, NEW stage \in VersionStage \cup Ended,
           Goto(r, stage), trail' \subseteq {"saved", "renamed"} \X Request, rows' = rows,
           stage # "insert",
           stage \in VersionStage => req[r].pc \in VersionStage \ {"audit_renamed"}
    PROVE  VersionedInv'
<1> DEFINE x == [req[r] EXCEPT !.pc = stage]
<1>1. req[r] \in VersionRequest /\ req' = [req EXCEPT ![r] = x] /\ crossed' \subseteq Request
  BY DEF VersionedInv, VersionedTypeOK, Goto
<1>2. x \in VersionRequest /\ x.pc = stage /\ x.on = req[r].on /\ x.seen = req[r].seen
  BY <1>1 DEF VersionRequest
<1>3. Numbering(req[r])
  BY DEF VersionedInv
<1> HIDE DEF x
<1>4. Numbering(x)
  BY <1>2, <1>3 DEF Numbering, VersionStage, Ended
<1>5. QED
  BY <1>1, <1>2, <1>4, RowsKept

LEMMA VersionKeeps ==
    ASSUME VersionedInv, NEW r \in Request, NEW stage \in VersionStage, NEW seen \in Content,
           Keep(r, seen, stage), rows' = rows, trail' = trail,
           req[r].on \in Series,
           stage = "insert" =>
             seen.next >= 1 /\ \A n \in 1..(seen.next - 1) : VersionUsed(req[r].on, n)
    PROVE  VersionedInv'
<1> DEFINE x == [req[r] EXCEPT !.pc = stage, !.seen = seen]
<1>1. req[r] \in VersionRequest /\ req' = [req EXCEPT ![r] = x] /\ crossed' \subseteq Request
  BY DEF VersionedInv, VersionedTypeOK, Keep
<1>2. x \in VersionRequest /\ x.pc = stage /\ x.on = req[r].on /\ x.seen = seen
  BY <1>1 DEF VersionRequest, Content
<1> HIDE DEF x
<1>3. Numbering(x)
  BY <1>2 DEF Numbering
<1>4. QED
  BY <1>1, <1>2, <1>3, RowsKept DEF VersionedInv, VersionedTypeOK

LEMMA VersionBegins ==
    ASSUME VersionedInv, NEW r \in Request, NEW op \in {"save", "clone", "rename"},
           NEW on \in Series \cup {None}, NEW arg \in {"latest", "defaults", None},
           NEW seen \in Content \cup {None}, NEW stage \in VersionStage \cup Ended,
           Begin(r, op, on, arg, seen, stage), rows' = rows, trail' = trail,
           stage # "insert",
           stage \in VersionStage \ {"audit_renamed"} => on \in Series /\ seen \in Content
    PROVE  VersionedInv'
<1> DEFINE x == [pc |-> stage, op |-> op, on |-> on, arg |-> arg, seen |-> seen]
<1>1. x \in VersionRequest /\ x.pc = stage /\ x.on = on /\ x.seen = seen
  BY DEF VersionRequest, Content
<1>2. req' = [req EXCEPT ![r] = x] /\ crossed' \subseteq Request
  BY DEF Begin, VersionedInv, VersionedTypeOK
<1> HIDE DEF x
<1>3. Numbering(x)
  BY <1>1 DEF Numbering, VersionStage
<1>4. QED
  BY <1>1, <1>2, <1>3, RowsKept DEF VersionedInv, VersionedTypeOK

\* Forms hold the settings of the latest row, which are changes of requests.
LEMMA OpenFormKeeps ==
    ASSUME VersionedInv, NEW r \in Request, OpenForm(r)
    PROVE  VersionedInv'
<1>0. PICK s \in Forms, filled \in {"latest", "defaults"} :
        Begin(r, "save", s, filled,
              [content |-> IF filled = "latest" THEN Settings(s) ELSE {}, next |-> 0], "form")
  BY DEF OpenForm
<1>1. PICK content :
        /\ content = IF filled = "latest" THEN Settings(s) ELSE {}
        /\ Begin(r, "save", s, filled, [content |-> content, next |-> 0], "form")
  BY <1>0
<1>2. \A x \in rows : x.keeps \in SUBSET Request
  BY DEF VersionedInv, VersionedTypeOK, Row
<1>3. content \in SUBSET Request
  BY <1>1, <1>2 DEF Settings, Top, RowsOf
<1>4. [content |-> content, next |-> 0] \in Content /\ s \in Series
  BY <1>3 DEF Content, Forms, Series
<1>5. QED
  BY <1>1, <1>4, VersionBegins DEF OpenForm, VersionStage

LEMMA ReadMaxKeeps ==
    ASSUME VersionedInv, NEW r \in Request, ReadMax(r)
    PROVE  VersionedInv'
<1>1. req[r].on \in Series /\ req[r].seen \in Content
  BY DEF VersionedInv, Numbering, ReadMax, At
<1>2. PICK k \in Nat : Counted(req[r].on, k)
  BY <1>1 DEF VersionedInv
<1>3. Highest(req[r].on) = k
  BY <1>1, <1>2, HighestIsLast
<1>4. \A n \in 1..k : VersionUsed(req[r].on, n)
  BY <1>2 DEF Counted
<1>5. ASSUME NEW next \in {1, k + 1}, Keep(r, [req[r].seen EXCEPT !.next = next], "insert")
      PROVE  VersionedInv'
  <2>1. PICK seen : seen = [req[r].seen EXCEPT !.next = next]
    OBVIOUS
  <2>2. seen \in Content /\ seen.next = next
    BY <1>1, <2>1 DEF Content
  <2>3. seen.next >= 1 /\ \A n \in 1..(seen.next - 1) : VersionUsed(req[r].on, n)
    BY <1>4, <2>2
  <2>4. Keep(r, seen, "insert")
    BY <1>5, <2>1
  <2>5. QED
    BY <1>1, <2>2, <2>3, <2>4, VersionKeeps DEF ReadMax, VersionStage
<1>6. ASSUME Goto(r, "refused") PROVE VersionedInv'
  BY <1>6, VersionGoes DEF ReadMax, VersionedInv, VersionedTypeOK, Ended, VersionStage
<1>7. \/ \E next \in {1, k + 1} : Keep(r, [req[r].seen EXCEPT !.next = next], "insert")
      \/ Goto(r, "refused")
  BY <1>3 DEF ReadMax
<1>8. QED
  BY <1>5, <1>6, <1>7

\* The unique constraint refuses every number but the next: below it all are used.
LEMMA InsertIsNext ==
    ASSUME VersionedInv, NEW r \in Request, InsertRow(r), rows' # rows
    PROVE  \E k \in Nat, content \in SUBSET Request :
             /\ req[r].on \in Series /\ Counted(req[r].on, k) /\ content = req[r].seen.content
             /\ rows' = rows \cup {[series |-> req[r].on, version |-> k + 1, by |-> r,
                                    keeps |-> content]}
             /\ Goto(r, "audit_saved")
<1>1. Numbering(req[r]) /\ req[r].pc = "insert"
  BY DEF VersionedInv, InsertRow, At
<1>2. PICK next \in Nat, content \in SUBSET Request :
        next = req[r].seen.next /\ content = req[r].seen.content
  BY <1>1 DEF Numbering, Content
<1>3. req[r].on \in Series /\ next >= 1
      /\ \A n \in 1..(next - 1) : VersionUsed(req[r].on, n)
  BY <1>1, <1>2 DEF Numbering
<1>4. ~VersionUsed(req[r].on, next) /\ Goto(r, "audit_saved")
      /\ rows' = rows \cup {[series |-> req[r].on, version |-> next, by |-> r,
                             keeps |-> content]}
  BY <1>2 DEF InsertRow, Refused
<1>5. PICK k \in Nat : Counted(req[r].on, k)
  BY <1>3 DEF VersionedInv
<1>6. ~(next <= k)
  BY <1>3, <1>4, <1>5 DEF Counted
<1>7. ~(next - 1 > k)
  <2>1. SUFFICES ASSUME next - 1 > k PROVE FALSE
    OBVIOUS
  <2>2. VersionUsed(req[r].on, next - 1)
    BY <1>3, <2>1
  <2>3. QED
    BY <1>5, <2>1, <2>2 DEF VersionUsed, Counted
<1>8. next = k + 1
  BY <1>6, <1>7
<1>9. QED
  BY <1>2, <1>3, <1>4, <1>5, <1>8

\* The next row continues its series and leaves the others alone.
LEMMA NextRow ==
    ASSUME VersionedInv, NEW s \in Series, NEW k \in Nat, NEW r \in Request,
           NEW content \in SUBSET Request, Counted(s, k),
           rows' = rows \cup {[series |-> s, version |-> k + 1, by |-> r, keeps |-> content]}
    PROVE  /\ rows' \subseteq Row /\ Counted(s, k + 1)'
           /\ \E x \in rows' : RowsOf(s)' = RowsOf(s) \cup {x} /\ x.version = k + 1 /\ x.by = r
           /\ \A t \in Series \ {s} : RowsOf(t)' = RowsOf(t)
<1>1. PICK x : x = [series |-> s, version |-> k + 1, by |-> r, keeps |-> content]
  OBVIOUS
<1>2. x \in Row /\ x.series = s /\ x.version = k + 1 /\ x.by = r
  BY <1>1 DEF Row
<1>3. rows' = rows \cup {x}
  BY <1>1
<1>4. RowsOf(s)' = RowsOf(s) \cup {x} /\ \A t \in Series \ {s} : RowsOf(t)' = RowsOf(t)
  BY <1>2, <1>3 DEF RowsOf
<1>5. Counted(s, k + 1)'
  <2>1. \A y \in RowsOf(s)' : y.version \in 1..(k + 1)
    BY <1>2, <1>4 DEF Counted
  <2>2. \A n \in 1..(k + 1) : VersionUsed(s, n)'
    <3>1. ASSUME NEW n \in 1..k PROVE VersionUsed(s, n)'
      BY <1>4, <3>1 DEF Counted, VersionUsed
    <3>2. VersionUsed(s, k + 1)'
      BY <1>2, <1>4 DEF VersionUsed
    <3>3. QED
      BY <3>1, <3>2
  <2>3. \A y, z \in RowsOf(s)' : y.version = z.version => y = z
    BY <1>2, <1>4 DEF Counted
  <2>4. QED
    BY <2>1, <2>2, <2>3 DEF Counted
<1>6. QED
  BY <1>2, <1>3, <1>4, <1>5 DEF VersionedInv, VersionedTypeOK

LEMMA InsertRowKeeps ==
    ASSUME VersionedInv, NEW r \in Request, InsertRow(r)
    PROVE  VersionedInv'
<1>1. CASE rows' = rows
  <2>1. \E stage \in {"form", "refused", "audit_saved"} : Goto(r, stage)
    BY DEF InsertRow
  <2>2. QED
    BY <1>1, <2>1, VersionGoes
       DEF InsertRow, At, VersionStage, Ended, VersionedInv, VersionedTypeOK
<1>2. CASE rows' # rows
  <2>1. PICK k \in Nat, content \in SUBSET Request, s \in Series :
          /\ s = req[r].on /\ Counted(s, k)
          /\ rows' = rows \cup {[series |-> s, version |-> k + 1, by |-> r, keeps |-> content]}
          /\ Goto(r, "audit_saved")
    BY <1>2, InsertIsNext
  <2>2. /\ rows' \subseteq Row /\ Counted(s, k + 1)'
        /\ \A t \in Series \ {s} : RowsOf(t)' = RowsOf(t)
    BY <2>1, NextRow
  <2>3. \A t \in Series : \E n \in Nat : Counted(t, n)'
    <3>1. ASSUME NEW t \in Series \ {s} PROVE \E n \in Nat : Counted(t, n)'
      BY <2>2, <3>1 DEF VersionedInv, Counted, VersionUsed
    <3>2. k + 1 \in Nat
      OBVIOUS
    <3>3. QED
      BY <2>2, <3>1, <3>2
  <2> DEFINE x == [req[r] EXCEPT !.pc = "audit_saved"]
  <2>4. req[r] \in VersionRequest /\ req' = [req EXCEPT ![r] = x] /\ crossed' \subseteq Request
    BY <2>1 DEF VersionedInv, VersionedTypeOK, Goto
  <2>5. x \in VersionRequest /\ x.pc = "audit_saved" /\ x.on = req[r].on /\ x.seen = req[r].seen
    BY <2>4 DEF VersionRequest, VersionStage
  <2>6. Numbering(req[r]) /\ req[r].pc = "insert"
    BY DEF VersionedInv, InsertRow, At
  <2> HIDE DEF x
  <2>7. Numbering(x)
    BY <2>5, <2>6 DEF Numbering
  <2>8. trail' \subseteq {"saved", "renamed"} \X Request /\ rows \subseteq rows'
    BY <2>1 DEF InsertRow, VersionedInv, VersionedTypeOK
  <2>9. QED
    BY <2>2, <2>3, <2>4, <2>5, <2>7, <2>8, VersionRequestMoves
<1>3. QED
  BY <1>1, <1>2

LEMMA VersionedStepKeeps ==
    ASSUME VersionedInv, [VersionedNext]_<<calls, rows>>
    PROVE  VersionedInv'
<1>1. CASE UNCHANGED <<calls, rows>>
  BY <1>1 DEF VersionedInv, VersionedTypeOK, Numbering, Counted, VersionUsed, RowsOf, calls
<1>2. ASSUME NEW r \in Request, OpenForm(r) \/ ReadMax(r) \/ InsertRow(r)
      PROVE  VersionedInv'
  BY <1>2, OpenFormKeeps, ReadMaxKeeps, InsertRowKeeps
<1>3. ASSUME NEW r \in Request, Submit(r) PROVE VersionedInv'
  <2>1. req[r].on \in Series /\ req[r].seen \in Content
    BY <1>3 DEF VersionedInv, Numbering, Submit, At
  <2>2. [req[r].seen EXCEPT !.content = @ \cup {r}] \in Content
    BY <2>1 DEF Content
  <2>3. QED
    BY <1>3, <2>1, <2>2, VersionKeeps DEF Submit, VersionStage
<1>4. ASSUME NEW r \in Request, CheckDocuments(r) PROVE VersionedInv'
  BY <1>4, VersionGoes
     DEF CheckDocuments, At, VersionStage, Ended, VersionedInv, VersionedTypeOK
<1>5. ASSUME NEW r \in Request, StartClone(r) PROVE VersionedInv'
  <2>1. [content |-> {r}, next |-> 0] \in Content
    BY DEF Content
  <2>2. PICK verdict \in {"read_max", "refused"} :
          Begin(r, "clone", "rule_pack", None, [content |-> {r}, next |-> 0], verdict)
    BY <1>5 DEF StartClone
  <2>3. QED
    BY <1>5, <2>1, <2>2, VersionBegins DEF StartClone, VersionStage, Ended, Series
<1>6. ASSUME NEW r \in Request, StartRename(r) PROVE VersionedInv'
  BY <1>6, VersionBegins DEF StartRename, VersionStage
<1>7. ASSUME NEW r \in Request,
             AuditSaved(r) \/ AuditRenamed(r) \/ (Kill(r) /\ UNCHANGED rows)
      PROVE  VersionedInv'
  <2>1. \/ At(r, "audit_saved") /\ Goto(r, "form")
        \/ \E stage \in Ended : Goto(r, stage)
    BY <1>7 DEF AuditSaved, AuditRenamed, Emit, Kill, Ended
  <2>2. rows' = rows /\ trail' \subseteq {"saved", "renamed"} \X Request
    BY <1>7 DEF AuditSaved, AuditRenamed, Emit, Kill, VersionedInv, VersionedTypeOK
  <2>3. QED
    BY <2>1, <2>2, VersionGoes DEF At, VersionStage, Ended
<1>8. QED
  BY <1>1, <1>2, <1>3, <1>4, <1>5, <1>6, <1>7 DEF VersionedNext

\* What the initial rows are, in an area at rest and in the records' own.
LEMMA InitVersioned == RequestsInit /\ VersionedInit => VersionedInv
<1>1. SUFFICES ASSUME RequestsInit, VersionedInit PROVE VersionedInv
  OBVIOUS
<1>2. PICK old \in SUBSET Series :
        rows = {[series |-> s, version |-> 1, by |-> None, keeps |-> {}] : s \in old}
  BY <1>1 DEF VersionedInit
<1>3. rows \subseteq Row
  BY <1>2 DEF Row
<1>4. VersionedTypeOK
  <2>1. Idle \in VersionRequest
    BY DEF Idle, VersionRequest
  <2>2. QED
    BY <1>1, <1>3, <2>1 DEF RequestsInit, VersionedTypeOK
<1>5. ASSUME NEW s \in Series PROVE \E k \in Nat : Counted(s, k)
  <2>1. CASE s \in old
    <3>1. PICK x : x = [series |-> s, version |-> 1, by |-> None, keeps |-> {}]
      OBVIOUS
    <3>2. x.version = 1 /\ RowsOf(s) = {x}
      BY <1>2, <2>1, <3>1 DEF RowsOf
    <3>3. Counted(s, 1)
      BY <3>2 DEF Counted, VersionUsed
    <3>4. QED
      BY <3>3
  <2>2. CASE s \notin old
    <3>1. RowsOf(s) = {}
      BY <1>2, <2>2 DEF RowsOf
    <3>2. Counted(s, 0)
      BY <3>1 DEF Counted
    <3>3. QED
      BY <3>2
  <2>3. QED
    BY <2>1, <2>2
<1>6. \A r \in Request : Numbering(req[r])
  BY <1>1 DEF RequestsInit, Idle, Numbering
<1>7. QED
  BY <1>4, <1>5, <1>6 DEF VersionedInv
-----------------------------------------------------------------------------
\* A form filled from the latest row holds its settings, or has met who wrote it since.
UpToDate(r) ==
    Underway(r) /\ req[r].on \in Forms /\ req[r].arg = "latest" =>
        \A x \in Top(req[r].on) :
            x.keeps \subseteq req[r].seen.content \/ {x.by, r} \subseteq crossed

SettingsInv ==
    /\ Met
    /\ \A x \in rows : x.version > 1 => x.by \in Request /\ ~At(x.by, "idle")
    /\ \A r \in Request : UpToDate(r)
    /\ \A r \in Request :
         Underway(r) /\ req[r].on \in Forms => req[r].arg \in {"latest", "defaults"}
    /\ SettingsKeptUnlessCrossed

LEMMA RowsStartAtOne ==
    ASSUME VersionedInv
    PROVE  \A x, y \in rows : y.version = x.version + 1 => y.version > 1
<1>1. \A x \in rows : x.version \in Nat /\ x.version >= 1
  BY DEF VersionedInv, VersionedTypeOK, Row, Counted, RowsOf
<1>2. QED
  BY <1>1

\* A step that writes no row, by a request whose form loses nothing.
LEMMA SettingsWait ==
    ASSUME VersionedInv, SettingsInv, NEW r \in Request, Underway(r),
           \A q \in Request \ {r} : req'[q] = req[q],
           req'[r].on = req[r].on, req'[r].arg = req[r].arg, ~At(r, "idle")',
           req[r].on \in Forms => req[r].seen.content \subseteq req'[r].seen.content,
           UNCHANGED <<rows, crossed>>
    PROVE  SettingsInv'
<1>1. \A q \in Request : /\ req'[q].on = req[q].on /\ req'[q].arg = req[q].arg
                         /\ Underway(q)' => Underway(q)
                         /\ At(q, "idle")' => At(q, "idle")
  BY DEF Underway, At
<1>2. Met'
  BY <1>1, GoingMeetsNobody DEF SettingsInv
<1>3. \A s : Top(s)' = Top(s)
  BY DEF Top, RowsOf
<1>4. \A q \in Request : UpToDate(q)'
  <2>1. SUFFICES ASSUME NEW q \in Request, Underway(q)', NEW s \in Forms, s = req'[q].on,
                        req'[q].arg = "latest", NEW x \in Top(s)
                 PROVE  x.keeps \subseteq req'[q].seen.content \/ {x.by, q} \subseteq crossed
    BY <1>3 DEF UpToDate
  <2>2. req[q].on = s /\ (x.keeps \subseteq req[q].seen.content \/ {x.by, q} \subseteq crossed)
    BY <1>1, <2>1 DEF SettingsInv, UpToDate
  <2>3. QED
    BY <2>2
<1>5. \A x \in rows : x.version > 1 => x.by \in Request /\ ~At(x.by, "idle")'
  BY <1>1 DEF SettingsInv
<1>6. SettingsKeptUnlessCrossed'
  <2>1. SUFFICES ASSUME NEW x \in rows, NEW y \in rows, x.series = y.series, x.series \in Forms,
                        y.version = x.version + 1
                 PROVE  \/ x.keeps \subseteq y.keeps \/ {x.by, y.by} \subseteq crossed
                        \/ req'[y.by].arg = "defaults"
    BY DEF SettingsKeptUnlessCrossed
  <2>2. \/ x.keeps \subseteq y.keeps \/ {x.by, y.by} \subseteq crossed
        \/ req[y.by].arg = "defaults"
    BY <2>1 DEF SettingsInv, SettingsKeptUnlessCrossed
  <2>3. y.by \in Request
    BY <2>1, RowsStartAtOne DEF SettingsInv
  <2>4. QED
    BY <1>1, <2>2, <2>3
<1>7. QED
  BY <1>1, <1>2, <1>4, <1>5, <1>6 DEF SettingsInv

\* The form that opens holds the settings of the latest row.
LEMMA SettingsOpen ==
    ASSUME VersionedInv, SettingsInv, NEW r \in Request,
           NEW op, NEW on, NEW arg, NEW seen, NEW stage,
           Begin(r, op, on, arg, seen, stage), stage # "idle",
           on \in Forms => arg \in {"latest", "defaults"},
           on \in Forms /\ arg = "latest" => seen.content = Settings(on),
           UNCHANGED rows
    PROVE  SettingsInv'
<1>1. /\ Met' /\ At(r, "idle") /\ crossed \subseteq crossed'
      /\ req'[r] = [pc |-> stage, op |-> op, on |-> on, arg |-> arg, seen |-> seen]
      /\ \A q \in Request \ {r} : req'[q] = req[q]
  <2>1. Met /\ req = [q \in Request |-> req[q]]
    BY DEF SettingsInv, VersionedInv, VersionedTypeOK
  <2>2. QED
    BY <2>1, ArrivalMeets
<1>2. req'[r].pc = stage /\ req'[r].on = on /\ req'[r].arg = arg /\ req'[r].seen = seen
  BY <1>1
<1>3. \A s : Top(s)' = Top(s)
  BY DEF Top, RowsOf
<1>4. \A q \in Request : UpToDate(q)'
  <2>1. SUFFICES ASSUME NEW q \in Request, Underway(q)', NEW s \in Forms, s = req'[q].on,
                        req'[q].arg = "latest", NEW x \in Top(s)
                 PROVE  x.keeps \subseteq req'[q].seen.content \/ {x.by, q} \subseteq crossed'
    BY <1>3 DEF UpToDate
  <2>2. CASE q = r
    BY <1>2, <2>1, <2>2 DEF Settings
  <2>3. CASE q # r
    BY <1>1, <2>1, <2>3 DEF SettingsInv, UpToDate, Underway
  <2>4. QED
    BY <2>2, <2>3
<1>5. \A x \in rows : x.version > 1 => x.by \in Request /\ ~At(x.by, "idle")'
  BY <1>1, <1>2 DEF SettingsInv, At
<1>6. SettingsKeptUnlessCrossed'
  <2>1. SUFFICES ASSUME NEW x \in rows, NEW y \in rows, x.series = y.series, x.series \in Forms,
                        y.version = x.version + 1
                 PROVE  \/ x.keeps \subseteq y.keeps \/ {x.by, y.by} \subseteq crossed'
                        \/ req'[y.by].arg = "defaults"
    BY DEF SettingsKeptUnlessCrossed
  <2>2. \/ x.keeps \subseteq y.keeps \/ {x.by, y.by} \subseteq crossed
        \/ req[y.by].arg = "defaults"
    BY <2>1 DEF SettingsInv, SettingsKeptUnlessCrossed
  <2>3. y.by \in Request \ {r}
    BY <1>1, <2>1, RowsStartAtOne DEF SettingsInv
  <2>4. QED
    BY <1>1, <2>2, <2>3
<1>7. \A q \in Request :
         Underway(q)' /\ req'[q].on \in Forms => req'[q].arg \in {"latest", "defaults"}
  BY <1>1, <1>2 DEF SettingsInv, Underway
<1>8. QED
  BY <1>1, <1>4, <1>5, <1>6, <1>7 DEF SettingsInv

\* The next row is inserted by somebody who knew the last one, or who has met its author.
LEMMA SettingsInsert ==
    ASSUME VersionedInv, SettingsInv, NEW r \in Request, Underway(r),
           \A q \in Request \ {r} : req'[q] = req[q],
           req'[r].on = req[r].on, req'[r].arg = req[r].arg, req'[r].seen = req[r].seen,
           ~At(r, "idle")', crossed' = crossed,
           NEW s \in Series, s = req[r].on, NEW k \in Nat, Counted(s, k),
           rows' = rows \cup {[series |-> s, version |-> k + 1, by |-> r,
                               keeps |-> req[r].seen.content]}
    PROVE  SettingsInv'
<1>1. \A q \in Request : /\ req'[q].on = req[q].on /\ req'[q].arg = req[q].arg
                         /\ req'[q].seen = req[q].seen
                         /\ Underway(q)' => Underway(q)
                         /\ At(q, "idle")' => At(q, "idle")
  BY DEF Underway, At
<1>2. Met'
  BY <1>1, GoingMeetsNobody DEF SettingsInv
<1>3. PICK y : y = [series |-> s, version |-> k + 1, by |-> r, keeps |-> req[r].seen.content]
  OBVIOUS
<1>4. /\ y.series = s /\ y.version = k + 1 /\ y.by = r /\ y.keeps = req[r].seen.content
      /\ rows' = rows \cup {y}
  BY <1>3
<1>5. \A x \in rows : x.series = s => x.version \in 1..k
  BY DEF Counted, RowsOf
<1>6. Top(s)' = {y}
  BY <1>4, <1>5 DEF Top, RowsOf
<1>7. \A t \in Series \ {s} : Top(t)' = Top(t)
  BY <1>4 DEF Top, RowsOf
<1>8. \A q \in Request : UpToDate(q)'
  <2>1. SUFFICES ASSUME NEW q \in Request, Underway(q)', NEW t \in Forms, t = req'[q].on,
                        req'[q].arg = "latest", NEW x \in Top(t)'
                 PROVE  x.keeps \subseteq req'[q].seen.content \/ {x.by, q} \subseteq crossed
    BY DEF UpToDate
  <2>2. CASE t = s
    <3>1. x = y /\ req[q].on = s /\ Underway(q)
      BY <1>1, <1>6, <2>1, <2>2
    <3>2. CASE q = r
      BY <1>1, <1>4, <3>1, <3>2
    <3>3. CASE q # r
      <4>1. q \in crossed /\ r \in crossed
        BY <3>1, <3>3 DEF SettingsInv, Met
      <4>2. QED
        BY <1>4, <3>1, <4>1
    <3>4. QED
      BY <3>2, <3>3
  <2>3. CASE t # s
    <3>1. x \in Top(t)
      BY <1>7, <2>1, <2>3 DEF Forms, Series
    <3>2. QED
      BY <1>1, <2>1, <3>1 DEF SettingsInv, UpToDate
  <2>4. QED
    BY <2>2, <2>3
<1>9. \A x \in rows' : x.version > 1 => x.by \in Request /\ ~At(x.by, "idle")'
  BY <1>1, <1>4 DEF SettingsInv
<1>10. SettingsKeptUnlessCrossed'
  <2>1. SUFFICES ASSUME NEW x \in rows', NEW z \in rows', x.series = z.series, x.series \in Forms,
                        z.version = x.version + 1
                 PROVE  \/ x.keeps \subseteq z.keeps \/ {x.by, z.by} \subseteq crossed
                        \/ req'[z.by].arg = "defaults"
    BY DEF SettingsKeptUnlessCrossed
  <2>2. CASE x \in rows /\ z \in rows
    <3>1. \/ x.keeps \subseteq z.keeps \/ {x.by, z.by} \subseteq crossed
          \/ req[z.by].arg = "defaults"
      BY <2>1, <2>2 DEF SettingsInv, SettingsKeptUnlessCrossed
    <3>2. z.by \in Request
      BY <2>1, <2>2, RowsStartAtOne DEF SettingsInv
    <3>3. QED
      BY <1>1, <3>1, <3>2
  <2>3. CASE x \in rows /\ z = y
    <3>1. x.version = k /\ x.series = s
      <4>1. x.version \in Nat
        BY <2>3 DEF VersionedInv, VersionedTypeOK, Row
      <4>2. QED
        BY <1>4, <2>1, <2>3, <4>1
    <3>2. x \in Top(s)
      BY <1>5, <2>3, <3>1 DEF Top, RowsOf
    <3>3. req[r].arg \in {"latest", "defaults"}
      BY <2>1, <3>1 DEF SettingsInv
    <3>4. req[r].arg = "latest" =>
            x.keeps \subseteq req[r].seen.content \/ {x.by, r} \subseteq crossed
      BY <2>1, <3>1, <3>2 DEF SettingsInv, UpToDate
    <3>5. QED
      BY <1>1, <1>4, <2>3, <3>3, <3>4
  <2>4. x # y
    <3>1. SUFFICES ASSUME x = y PROVE FALSE
      OBVIOUS
    <3>2. z.version = k + 2 /\ z.series = s
      BY <1>4, <2>1, <3>1
    <3>3. z \in rows
      BY <1>4, <2>1, <3>2
    <3>4. QED
      BY <1>5, <3>2, <3>3
  <2>5. QED
    BY <1>4, <2>1, <2>2, <2>3, <2>4
<1>11. \A q \in Request :
         Underway(q)' /\ req'[q].on \in Forms => req'[q].arg \in {"latest", "defaults"}
  BY <1>1 DEF SettingsInv
<1>12. QED
  BY <1>2, <1>8, <1>9, <1>10, <1>11 DEF SettingsInv

LEMMA SettingsStep ==
    ASSUME VersionedInv, SettingsInv, [VersionedNext]_<<calls, rows>>
    PROVE  SettingsInv'
<1>1. CASE UNCHANGED <<calls, rows>>
  BY <1>1 DEF SettingsInv, Met, UpToDate, SettingsKeptUnlessCrossed, Top, RowsOf, Underway, At, calls
<1>2. req \in [Request -> VersionRequest] /\ \A r \in Request : Numbering(req[r])
  BY DEF VersionedInv, VersionedTypeOK
<1>3. ASSUME NEW r \in Request, OpenForm(r) \/ StartClone(r) \/ StartRename(r)
      PROVE  SettingsInv'
  <2>1. CASE OpenForm(r)
    <3>1. PICK s \in Forms, filled \in {"latest", "defaults"} :
            Begin(r, "save", s, filled,
                  [content |-> IF filled = "latest" THEN Settings(s) ELSE {}, next |-> 0], "form")
      BY <2>1 DEF OpenForm
    <3>2. PICK seen : seen = [content |-> IF filled = "latest" THEN Settings(s) ELSE {}, next |-> 0]
      OBVIOUS
    <3>3. filled = "latest" => seen.content = Settings(s)
      BY <3>2
    <3>4. Begin(r, "save", s, filled, seen, "form") /\ UNCHANGED rows
      BY <2>1, <3>1, <3>2 DEF OpenForm
    <3>5. QED
      BY <3>3, <3>4, SettingsOpen
  <2>2. CASE StartClone(r)
    BY <2>2, SettingsOpen DEF StartClone, Forms
  <2>3. CASE StartRename(r)
    <3>1. Begin(r, "rename", None, None, None, "audit_renamed") /\ UNCHANGED rows
      BY <2>3 DEF StartRename
    <3>2. QED
      BY <3>1, SettingsOpen, VersionedNoneAssumption DEF Forms, Series
  <2>4. QED
    BY <1>3, <2>1, <2>2, <2>3
<1>4. ASSUME NEW r \in Request, Underway(r), NEW stage \in VersionStage \cup Ended, Goto(r, stage),
             UNCHANGED rows
      PROVE  SettingsInv'
  <2>1. /\ req'[r] = [req[r] EXCEPT !.pc = stage] /\ crossed' = crossed
        /\ \A q \in Request \ {r} : req'[q] = req[q]
    BY <1>2, <1>4 DEF Goto
  <2>2. /\ req'[r].pc = stage /\ req'[r].on = req[r].on /\ req'[r].arg = req[r].arg
        /\ req'[r].seen = req[r].seen
    BY <1>2, <2>1 DEF VersionRequest
  <2>3. ~At(r, "idle")'
    BY <2>2 DEF At, VersionStage, Ended
  <2>4. QED
    BY <1>4, <2>1, <2>2, <2>3, SettingsWait
<1>5. ASSUME NEW r \in Request, Underway(r), NEW stage \in VersionStage, NEW seen \in Content,
             Keep(r, seen, stage), req[r].seen.content \subseteq seen.content, UNCHANGED rows
      PROVE  SettingsInv'
  <2>1. /\ req'[r] = [req[r] EXCEPT !.pc = stage, !.seen = seen] /\ crossed' = crossed
        /\ \A q \in Request \ {r} : req'[q] = req[q]
    BY <1>2, <1>5 DEF Keep
  <2>2. /\ req'[r].pc = stage /\ req'[r].on = req[r].on /\ req'[r].arg = req[r].arg
        /\ req'[r].seen = seen
    BY <1>2, <2>1 DEF VersionRequest
  <2>3. ~At(r, "idle")'
    BY <2>2 DEF At, VersionStage
  <2>4. QED
    BY <1>5, <2>1, <2>2, <2>3, SettingsWait
<1>6. ASSUME NEW r \in Request, Submit(r) PROVE SettingsInv'
  <2>1. req[r].seen \in Content /\ Underway(r) /\ UNCHANGED rows
    BY <1>2, <1>6 DEF Submit, Numbering, At, Underway, Ended
  <2>2. PICK seen : seen = [req[r].seen EXCEPT !.content = @ \cup {r}]
    OBVIOUS
  <2>3. seen \in Content /\ req[r].seen.content \subseteq seen.content
    BY <2>1, <2>2 DEF Content
  <2>4. PICK stage \in VersionStage : Keep(r, seen, stage)
    BY <1>6, <2>2 DEF Submit, VersionStage
  <2>5. QED
    BY <1>5, <2>1, <2>3, <2>4
<1>7. ASSUME NEW r \in Request, ReadMax(r) PROVE SettingsInv'
  <2>1. req[r].seen \in Content /\ Underway(r) /\ UNCHANGED rows /\ req[r].on \in Series
    BY <1>2, <1>7 DEF ReadMax, Numbering, At, Underway, Ended
  <2>2. PICK k \in Nat : k = Highest(req[r].on)
    BY <2>1, HighestIsLast DEF VersionedInv
  <2>3. ASSUME NEW next \in {1, k + 1}, Keep(r, [req[r].seen EXCEPT !.next = next], "insert")
        PROVE  SettingsInv'
    <3>1. PICK seen : seen = [req[r].seen EXCEPT !.next = next]
      OBVIOUS
    <3>2. seen \in Content /\ req[r].seen.content \subseteq seen.content
      BY <2>1, <3>1 DEF Content
    <3>3. QED
      BY <1>5, <2>1, <2>3, <3>1, <3>2 DEF VersionStage
  <2>4. CASE Goto(r, "refused")
    BY <1>4, <2>1, <2>4 DEF Ended
  <2>5. QED
    BY <1>7, <2>2, <2>3, <2>4 DEF ReadMax
<1>8. ASSUME NEW r \in Request, CheckDocuments(r) \/ AuditSaved(r) \/ AuditRenamed(r)
                                \/ (Kill(r) /\ UNCHANGED rows)
      PROVE  SettingsInv'
  <2>1. Underway(r) /\ UNCHANGED rows
    BY <1>8 DEF CheckDocuments, AuditSaved, AuditRenamed, Emit, Kill, At, Underway, Ended
  <2>2. \E stage \in VersionStage \cup Ended : Goto(r, stage)
    BY <1>8 DEF CheckDocuments, AuditSaved, AuditRenamed, Emit, Kill, VersionStage, Ended
  <2>3. QED
    BY <1>4, <2>1, <2>2
<1>9. ASSUME NEW r \in Request, InsertRow(r) PROVE SettingsInv'
  <2>1. Underway(r)
    BY <1>9 DEF InsertRow, At, Underway, Ended
  <2>2. CASE rows' = rows
    <3>1. \E stage \in VersionStage \cup Ended : Goto(r, stage)
      BY <1>9 DEF InsertRow, VersionStage, Ended
    <3>2. QED
      BY <1>4, <2>1, <2>2, <3>1
  <2>3. CASE rows' # rows
    <3>1. PICK k \in Nat, content \in SUBSET Request, s \in Series :
            /\ s = req[r].on /\ Counted(s, k) /\ content = req[r].seen.content
            /\ rows' = rows \cup {[series |-> s, version |-> k + 1, by |-> r, keeps |-> content]}
            /\ Goto(r, "audit_saved")
      BY <1>9, <2>3, InsertIsNext
    <3>2. /\ req'[r] = [req[r] EXCEPT !.pc = "audit_saved"] /\ crossed' = crossed
          /\ \A q \in Request \ {r} : req'[q] = req[q]
      BY <1>2, <3>1 DEF Goto
    <3>3. /\ req'[r].pc = "audit_saved" /\ req'[r].on = req[r].on /\ req'[r].arg = req[r].arg
          /\ req'[r].seen = req[r].seen
      BY <1>2, <3>2 DEF VersionRequest
    <3>4. ~At(r, "idle")'
      BY <3>3 DEF At
    <3>5. QED
      BY <2>1, <3>1, <3>2, <3>3, <3>4, SettingsInsert
  <2>4. QED
    BY <2>2, <2>3
<1>10. QED
  BY <1>1, <1>3, <1>6, <1>7, <1>8, <1>9 DEF VersionedNext

LEMMA InitSettings == RequestsInit /\ VersionedInit => SettingsInv
<1>1. SUFFICES ASSUME RequestsInit, VersionedInit PROVE SettingsInv
  OBVIOUS
<1>2. \A r \in Request : req[r].pc = "idle" /\ ~Underway(r)
  BY <1>1 DEF RequestsInit, Idle, Underway
<1>3. \A x \in rows : x.version = 1
  BY <1>1 DEF VersionedInit
<1>4. Met /\ \A r \in Request : UpToDate(r)
  BY <1>2 DEF Met, UpToDate
<1>5. SettingsKeptUnlessCrossed
  <2>1. \A x, y \in rows : y.version # x.version + 1
    BY <1>3
  <2>2. QED
    BY <2>1 DEF SettingsKeptUnlessCrossed
<1>6. \A x \in rows : ~(x.version > 1)
  BY <1>3
<1>7. QED
  BY <1>2, <1>4, <1>5, <1>6 DEF SettingsInv
-----------------------------------------------------------------------------
(* The versioned tables implement AppendOnlyRegister.                      *)

Book == [s \in Series |-> [n \in 1..Cardinality(RowsOf(s)) |-> EntryAt(s, n)]]

\* The insert of the next row is the entry of the register.
LEMMA InsertEnters ==
    ASSUME VersionedInv, NEW r \in Request, InsertRow(r), rows' # rows
    PROVE  \E s \in Series : Book' = [Book EXCEPT ![s] = Append(@, r)]
<1>1. PICK k \in Nat, content \in SUBSET Request, s \in Series :
        /\ s = req[r].on /\ Counted(s, k)
        /\ rows' = rows \cup {[series |-> s, version |-> k + 1, by |-> r, keeps |-> content]}
  BY InsertIsNext
<1>2. PICK x \in rows' : RowsOf(s)' = RowsOf(s) \cup {x} /\ x.version = k + 1 /\ x.by = r
  <2>1. \E x \in rows' : RowsOf(s)' = RowsOf(s) \cup {x} /\ x.version = k + 1 /\ x.by = r
    <3>1. s \in Series /\ k \in Nat /\ content \in SUBSET Request /\ Counted(s, k)
      BY <1>1
    <3>2. QED
      BY <1>1, <3>1, NextRow, SMTT(60)
  <2>2. QED
    BY <2>1
<1>3. Counted(s, k + 1)' /\ \A t \in Series \ {s} : RowsOf(t)' = RowsOf(t)
  BY <1>1, NextRow
<1>4. PICK S, T : S = RowsOf(s) /\ T = RowsOf(s)'
  OBVIOUS
<1>5. /\ \A y \in S : y.version \in 1..k
      /\ \A n \in 1..k : \E y \in S : y.version = n
      /\ T = S \cup {x}
      /\ \A y, z \in T : y.version = z.version => y = z
      /\ \A y \in T : y.version \in 1..(k + 1)
      /\ \A n \in 1..(k + 1) : \E y \in T : y.version = n
  BY <1>1, <1>2, <1>3, <1>4 DEF Counted, VersionUsed
<1>6. Cardinality(S) = k /\ Cardinality(T) = k + 1
  <2>1. Cardinality(S) = k
    BY <1>5, NumberedSize
  <2>2. k + 1 \in Nat
    OBVIOUS
  <2>3. Cardinality(T) = k + 1
    BY <1>5, <2>2, NumberedSize
  <2>4. QED
    BY <2>1, <2>3
<1>7. ASSUME NEW n \in 1..k PROVE EntryAt(s, n)' = EntryAt(s, n) /\ EntryAt(s, n) \in Request \cup {None}
  <2>1. PICK y \in S : y.version = n
    BY <1>5
  <2>2. (CHOOSE z \in S : z.version = n) = y /\ (CHOOSE z \in T : z.version = n) = y
    BY <1>5, <2>1
  <2>3. EntryAt(s, n) = y.by /\ EntryAt(s, n)' = y.by
    BY <1>4, <1>5, <2>1, <2>2 DEF EntryAt, VersionUsed
  <2>4. y.by \in Request \cup {None}
    BY <1>4, <2>1 DEF RowsOf, VersionedInv, VersionedTypeOK, Row
  <2>5. QED
    BY <2>3, <2>4
<1>8. EntryAt(s, k + 1)' = r
  <2>1. (CHOOSE z \in T : z.version = k + 1) = x
    BY <1>2, <1>5
  <2>2. QED
    BY <1>2, <1>4, <1>5, <2>1 DEF EntryAt, VersionUsed
<1>9. PICK before, after :
        /\ before = [n \in 1..k |-> EntryAt(s, n)]
        /\ after = [n \in 1..(k + 1) |-> EntryAt(s, n)']
  OBVIOUS
<1>10. before \in Seq(Request \cup {None}) /\ Len(before) = k
  BY <1>7, <1>9
<1>11. after = Append(before, r)
  BY <1>7, <1>8, <1>9, <1>10
<1>12. Book[s] = before /\ Book'[s] = after
  BY <1>4, <1>6, <1>9 DEF Book
<1>13. ASSUME NEW t \in Series \ {s} PROVE Book'[t] = Book[t]
  BY <1>3, <1>13 DEF Book, EntryAt, VersionUsed
<1>14. Book = [t \in Series |-> Book[t]] /\ Book' = [t \in Series |-> Book'[t]]
  BY DEF Book
<1>15. QED
  BY <1>11, <1>12, <1>13, <1>14

LEMMA BookKept ==
    ASSUME rows' = rows
    PROVE  Book' = Book
  BY DEF Book, EntryAt, VersionUsed, RowsOf

\* A row of version n by nobody, or no row, is what a series starts with.
LEMMA InitBook == RequestsInit /\ VersionedInit => Book \in [Series -> {<<>>, <<None>>}]
<1>1. SUFFICES ASSUME RequestsInit, VersionedInit, NEW s \in Series
               PROVE  Book[s] \in {<<>>, <<None>>}
  BY DEF Book
<1>2. PICK old \in SUBSET Series :
        rows = {[series |-> t, version |-> 1, by |-> None, keeps |-> {}] : t \in old}
  BY <1>1 DEF VersionedInit
<1>3. CASE s \in old
  <2>1. PICK x : x = [series |-> s, version |-> 1, by |-> None, keeps |-> {}]
    OBVIOUS
  <2>2. x.version = 1 /\ x.by = None /\ RowsOf(s) = {x}
    BY <1>2, <1>3, <2>1 DEF RowsOf
  <2>3. Cardinality(RowsOf(s)) = 1
    BY <2>2, FS_Singleton
  <2>4. EntryAt(s, 1) = None
    BY <2>2 DEF EntryAt
  <2>5. Book[s] = <<None>>
    BY <2>3, <2>4 DEF Book
  <2>6. QED
    BY <2>5
<1>4. CASE s \notin old
  <2>1. RowsOf(s) = {}
    BY <1>2, <1>4 DEF RowsOf
  <2>2. Cardinality(RowsOf(s)) = 0
    BY <2>1, FS_EmptySet
  <2>3. Book[s] = <<>>
    BY <2>2 DEF Book
  <2>4. QED
    BY <2>3
<1>5. QED
  BY <1>3, <1>4

\* Every step of a save is an entry of the register or a stutter.
LEMMA VersionedStepEnters ==
    ASSUME VersionedInv, [VersionedNext]_<<calls, rows>>
    PROVE  \/ Book' = Book
           \/ \E s \in Series, r \in Request : Book' = [Book EXCEPT ![s] = Append(@, r)]
<1>1. CASE rows' = rows
  BY <1>1, BookKept
<1>2. CASE rows' # rows
  <2>1. PICK r \in Request : InsertRow(r)
    BY <1>2 DEF VersionedNext, OpenForm, Submit, CheckDocuments, StartClone, ReadMax, AuditSaved,
                StartRename, AuditRenamed
  <2>2. QED
    BY <1>2, <2>1, InsertEnters
<1>3. QED
  BY <1>1, <1>2
-----------------------------------------------------------------------------
(* Documents.                                                              *)

\* What a stage tells of the operation, the document and the hash function.
DocumentStages(r) ==
    /\ At(r, "idle") => /\ req[r].op = None /\ hashing[r] = "none"
                        /\ \A d \in Doc : <<"hash_computed", d, r>> \notin docEvents
    /\ req[r].pc \in DocumentStage \cup {"done"} => req[r].on \in Doc /\ Exists(req[r].on)
    /\ req[r].pc \in {"set_uploaded", "event_uploaded", "audit_uploaded"} => req[r].op = "confirm"
    /\ req[r].pc \in {"set_verdict", "audit_verdict"} => req[r].op = "verify"
    /\ req[r].op = "verify" => req[r].arg.verdict \in Verdict
    /\ hashing[r] # "none" => At(r, "done")
    /\ hashing[r] = "store_hash" => doc[req[r].on].filed

\* Who accounts for a hash, and for a status.
HashTold(r, d) ==
    /\ req[r].on = d
    /\ <<"hash_computed", d, r>> \in docEvents \/ hashing[r] \in {"event_hashed", "killed"}
UploadTold(r, d) ==
    /\ req[r].op = "confirm" /\ req[r].on = d
    /\ req[r].pc \in {"done", "killed", "event_uploaded", "audit_uploaded"}
VerdictTold(r, d, v) ==
    /\ req[r].op = "verify" /\ req[r].on = d /\ req[r].arg.verdict = v
    /\ <<v, r>> \in trail \/ req[r].pc \in {"audit_verdict", "killed"}

\* The row of a document is accounted for.
Accounted(d) ==
    Exists(d) =>
      /\ doc[d].hashed => doc[d].filed /\ \E r \in Request : HashTold(r, d)
      /\ \/ doc[d].status = "pending"
         \/ doc[d].status = "uploaded" /\ \E r \in Request : UploadTold(r, d)
         \/ \E r \in Request, v \in Verdict : v = doc[d].status /\ VerdictTold(r, d, v)

DocumentsInv ==
    /\ DocumentsTypeOK
    /\ \A r \in Request : DocumentStages(r)
    /\ \A d \in Doc : Accounted(d)

\* What a step of r does to the others: rows grow, and nobody's account is lost.
DocumentStep(r) ==
    /\ \A q \in Request \ {r} : req'[q] = req[q] /\ hashing'[q] = hashing[q]
    /\ docEvents \subseteq docEvents' /\ trail \subseteq trail'
    /\ \A q \in Request \ {r}, d \in Doc : <<"hash_computed", d, q>> \in docEvents'
                                             => <<"hash_computed", d, q>> \in docEvents
    /\ \A d \in Doc : Exists(d) => Exists(d)' /\ (doc[d].filed => doc'[d].filed)
    /\ \A d \in Doc : /\ HashTold(r, d) => HashTold(r, d)'
                      /\ UploadTold(r, d) => UploadTold(r, d)'
                      /\ \A v \in Verdict : VerdictTold(r, d, v) => VerdictTold(r, d, v)'

LEMMA DocumentMoves ==
    ASSUME DocumentsInv, NEW r \in Request, DocumentStep(r), DocumentsTypeOK',
           DocumentStages(r)',
           \A d \in Doc : Exists(d)' =>
             /\ doc'[d].hashed => \/ Exists(d) /\ doc[d].hashed
                                  \/ doc'[d].filed /\ HashTold(r, d)'
             /\ \/ doc'[d].status = "pending"
                \/ Exists(d) /\ doc'[d].status = doc[d].status
                \/ doc'[d].status = "uploaded" /\ UploadTold(r, d)'
                \/ \E v \in Verdict : v = doc'[d].status /\ VerdictTold(r, d, v)'
    PROVE  DocumentsInv'
<1>1. ASSUME NEW q \in Request \ {r} PROVE DocumentStages(q)'
  <2>1. DocumentStages(q) /\ req'[q] = req[q] /\ hashing'[q] = hashing[q]
    BY DEF DocumentsInv, DocumentStep
  <2>2. \A d \in Doc : <<"hash_computed", d, q>> \in docEvents' => <<"hash_computed", d, q>> \in docEvents
    BY DEF DocumentStep
  <2>3. \A d \in Doc : Exists(d) => Exists(d)' /\ (doc[d].filed => doc'[d].filed)
    BY DEF DocumentStep
  <2>4. hashing[q] \in {"none"} \cup HashStage \cup Ended
    BY DEF DocumentsInv, DocumentsTypeOK
  <2>5. QED
    BY <2>1, <2>2, <2>3 DEF DocumentStages, At, Exists
<1>2. \A q \in Request, d \in Doc : /\ HashTold(q, d) => HashTold(q, d)'
                                    /\ UploadTold(q, d) => UploadTold(q, d)'
  BY ZenonT(60) DEF DocumentStep, HashTold, UploadTold
<1>3. \A q \in Request, d \in Doc, v \in Verdict : VerdictTold(q, d, v) => VerdictTold(q, d, v)'
  BY DEF DocumentStep, VerdictTold
<1>4. ASSUME NEW d \in Doc, Exists(d)' PROVE Accounted(d)'
  <2>1. doc'[d].hashed => doc'[d].filed /\ \E q \in Request : HashTold(q, d)'
    <3>1. CASE Exists(d) /\ doc[d].hashed
      <4>1. doc[d].filed /\ \E q \in Request : HashTold(q, d)
        BY <3>1 DEF DocumentsInv, Accounted
      <4>2. QED
        BY <1>2, <3>1, <4>1 DEF DocumentStep
    <3>2. QED
      BY <1>4, <3>1
  <2>2. \/ doc'[d].status = "pending"
        \/ doc'[d].status = "uploaded" /\ \E q \in Request : UploadTold(q, d)'
        \/ \E q \in Request, v \in Verdict : v = doc'[d].status /\ VerdictTold(q, d, v)'
    <3>1. CASE Exists(d) /\ doc'[d].status = doc[d].status
      <4>1. \/ doc[d].status = "pending"
            \/ doc[d].status = "uploaded" /\ \E q \in Request : UploadTold(q, d)
            \/ \E q \in Request, v \in Verdict : v = doc[d].status /\ VerdictTold(q, d, v)
        BY <3>1 DEF DocumentsInv, Accounted
      <4>2. QED
        BY <1>2, <1>3, <3>1, <4>1
    <3>2. QED
      BY <1>4, <3>1
  <2>3. QED
    BY <2>1, <2>2 DEF Accounted
<1>5. \A d \in Doc : Accounted(d)'
  BY <1>4 DEF Accounted
<1>6. QED
  BY <1>1, <1>5 DEF DocumentsInv

\* A request goes on to its next call, or ends.
LEMMA DocumentGoes ==
    ASSUME DocumentsInv, NEW r \in Request, NEW stage \in DocumentStage \cup Ended,
           Goto(r, stage), req[r].pc \in DocumentStage,
           stage \notin {"set_uploaded", "set_verdict"},
           stage \in {"event_uploaded", "audit_uploaded"} => req[r].op = "confirm",
           stage = "audit_verdict" => req[r].op = "verify",
           req[r].pc \in {"event_uploaded", "audit_uploaded"} =>
             stage \in {"audit_uploaded", "done", "killed"},
           req[r].pc = "audit_verdict" => stage = "killed" \/ <<req[r].arg.verdict, r>> \in trail',
           docEvents \subseteq docEvents', docEvents' \subseteq EventType \X Doc \X Request,
           \A q \in Request \ {r}, d \in Doc :
             <<"hash_computed", d, q>> \in docEvents' => <<"hash_computed", d, q>> \in docEvents,
           trail \subseteq trail',
           trail' \subseteq {"initiated", "uploaded", "verified", "rejected", "hashed"} \X Request,
           hashing' = hashing \/ (stage = "done" /\ hashing' = [hashing EXCEPT ![r] = "lookup"]),
           doc' \in [Doc -> Document \cup {None}],
           \A d \in Doc : Exists(d)' <=> Exists(d),
           \A d \in Doc : Exists(d) =>
             /\ doc'[d].hashed = doc[d].hashed /\ doc'[d].filed = doc[d].filed
             /\ \/ doc'[d].status = doc[d].status
                \/ d = req[r].on /\ doc'[d].status = "uploaded" /\ stage = "event_uploaded"
                \/ d = req[r].on /\ doc'[d].status = req[r].arg.verdict /\ stage = "audit_verdict"
    PROVE  DocumentsInv'
<1> DEFINE x == [req[r] EXCEPT !.pc = stage]
<1>1. req[r] \in DocumentRequest /\ req' = [req EXCEPT ![r] = x] /\ crossed' = crossed
  BY DEF DocumentsInv, DocumentsTypeOK, Goto
<1>2. x \in DocumentRequest /\ x.pc = stage /\ x.on = req[r].on /\ x.op = req[r].op
      /\ x.arg = req[r].arg
  BY <1>1 DEF DocumentRequest
<1> HIDE DEF x
<1>3. hashing \in [Request -> {"none"} \cup HashStage \cup Ended]
      /\ req \in [Request -> DocumentRequest] /\ crossed \subseteq Request
  BY DEF DocumentsInv, DocumentsTypeOK
<1>4. req'[r] = x /\ \A q \in Request \ {r} : req'[q] = req[q] /\ hashing'[q] = hashing[q]
  BY <1>1, <1>3
<1>5. hashing[r] = "none"
  BY DEF DocumentsInv, DocumentStages, At, DocumentStage
<1>6. hashing'[r] = "none" \/ (stage = "done" /\ hashing'[r] = "lookup")
  BY <1>3, <1>5
<1>7. DocumentsTypeOK'
  <2>1. req' \in [Request -> DocumentRequest]
    BY <1>1, <1>2, <1>3
  <2>2. hashing' \in [Request -> {"none"} \cup HashStage \cup Ended]
    BY <1>3 DEF HashStage
  <2>3. QED
    BY <1>1, <1>3, <2>1, <2>2 DEF DocumentsTypeOK
<1>8. DocumentStages(r)
  BY DEF DocumentsInv
<1>9. req[r].on \in Doc /\ Exists(req[r].on) /\ ~At(r, "idle")
  BY <1>8 DEF DocumentStages, At, DocumentStage
<1>10. DocumentStages(r)'
  <2>1. stage # "idle" /\ \A d \in Doc : d = req[r].on => doc'[d] # None
    BY <1>9 DEF DocumentStage, Ended, Exists
  <2>2. QED
    BY <1>2, <1>4, <1>6, <1>8, <1>9, <2>1 DEF DocumentStages, At, Exists
<1>11. ASSUME NEW d \in Doc
       PROVE  /\ HashTold(r, d) => HashTold(r, d)'
              /\ UploadTold(r, d) => UploadTold(r, d)'
              /\ \A v \in Verdict : VerdictTold(r, d, v) => VerdictTold(r, d, v)'
  <2>1. HashTold(r, d) => HashTold(r, d)'
    BY <1>2, <1>4, <1>5 DEF HashTold
  <2>2. UploadTold(r, d) => UploadTold(r, d)'
    BY <1>2, <1>4 DEF UploadTold, DocumentStage
  <2>3. \A v \in Verdict : VerdictTold(r, d, v) => VerdictTold(r, d, v)'
    BY <1>2, <1>4 DEF VerdictTold, DocumentStage
  <2>4. QED
    BY <2>1, <2>2, <2>3
<1>12. DocumentStep(r)
  BY <1>4, <1>11 DEF DocumentStep
<1>13. ASSUME NEW d \in Doc, d = req[r].on, doc'[d].status = req[r].arg.verdict,
              stage = "audit_verdict"
       PROVE  \E v \in Verdict : v = doc'[d].status /\ VerdictTold(r, d, v)'
  <2>1. req[r].arg.verdict \in Verdict
    BY <1>8, <1>13 DEF DocumentStages
  <2>2. PICK v \in Verdict : v = req[r].arg.verdict
    BY <2>1
  <2>3. VerdictTold(r, d, v)'
    BY <1>2, <1>4, <1>13, <2>2 DEF VerdictTold
  <2>4. QED
    BY <1>13, <2>2, <2>3
<1>14. ASSUME NEW d \in Doc, Exists(d)'
       PROVE  /\ doc'[d].hashed => \/ Exists(d) /\ doc[d].hashed
                                   \/ doc'[d].filed /\ HashTold(r, d)'
              /\ \/ doc'[d].status = "pending"
                 \/ Exists(d) /\ doc'[d].status = doc[d].status
                 \/ doc'[d].status = "uploaded" /\ UploadTold(r, d)'
                 \/ \E v \in Verdict : v = doc'[d].status /\ VerdictTold(r, d, v)'
  <2>1. CASE d = req[r].on /\ doc'[d].status = "uploaded" /\ stage = "event_uploaded"
    <3>1. UploadTold(r, d)'
      BY <1>2, <1>4, <2>1 DEF UploadTold
    <3>2. QED
      BY <1>14, <2>1, <3>1
  <2>2. QED
    BY <1>13, <1>14, <2>1
<1>15. QED
  BY <1>7, <1>10, <1>12, <1>14, DocumentMoves

\* A step that leaves the documents alone.
LEMMA DocumentWaits ==
    ASSUME DocumentsInv, NEW r \in Request, NEW stage \in DocumentStage \cup Ended,
           Goto(r, stage), req[r].pc \in DocumentStage,
           stage \notin {"set_uploaded", "set_verdict", "event_uploaded", "audit_verdict"},
           stage = "audit_uploaded" => req[r].op = "confirm",
           req[r].pc \in {"event_uploaded", "audit_uploaded"} =>
             stage \in {"audit_uploaded", "done", "killed"},
           req[r].pc = "audit_verdict" => stage = "killed" \/ <<req[r].arg.verdict, r>> \in trail',
           \/ docEvents' = docEvents
           \/ \E type \in EventType, d \in Doc : docEvents' = docEvents \cup {<<type, d, r>>},
           \/ trail' = trail
           \/ \E type \in {"initiated", "uploaded", "verified", "rejected"} :
                trail' = trail \cup {<<type, r>>},
           hashing' = hashing \/ (stage = "done" /\ hashing' = [hashing EXCEPT ![r] = "lookup"]),
           doc' = doc
    PROVE  DocumentsInv'
<1>1. docEvents \subseteq docEvents' /\ docEvents' \subseteq EventType \X Doc \X Request
  BY DEF DocumentsInv, DocumentsTypeOK
<1>2. \A q \in Request \ {r}, d \in Doc :
        <<"hash_computed", d, q>> \in docEvents' => <<"hash_computed", d, q>> \in docEvents
  OBVIOUS
<1>3. trail \subseteq trail'
      /\ trail' \subseteq {"initiated", "uploaded", "verified", "rejected", "hashed"} \X Request
  BY DEF DocumentsInv, DocumentsTypeOK
<1>4. doc' \in [Doc -> Document \cup {None}]
  BY DEF DocumentsInv, DocumentsTypeOK
<1>5. \A d \in Doc : Exists(d)' <=> Exists(d)
  BY DEF Exists
<1>6. QED
  BY <1>1, <1>2, <1>3, <1>4, <1>5, DocumentGoes

\* The requests' writes to documents.
LEMMA DocumentWritten ==
    ASSUME DocumentsInv, NEW r \in Request,
           SetPath(r) \/ Sign(r) \/ SetUploaded(r) \/ SetVerdict(r)
    PROVE  DocumentsInv'
<1>1. PICK d \in Doc : d = req[r].on /\ Exists(d)
  BY DEF SetPath, Sign, SetUploaded, SetVerdict, Update, At, DocumentsInv, DocumentStages,
         DocumentStage
<1>2. doc \in [Doc -> Document \cup {None}] /\ doc[d] \in Document
  BY <1>1 DEF DocumentsInv, DocumentsTypeOK, Exists
<1>3. UNCHANGED <<trail, docEvents, hashing>>
  BY DEF SetPath, Sign, SetUploaded, SetVerdict, Update
<1>4. CASE Goto(r, "refused") /\ doc' = doc
  BY <1>3, <1>4, DocumentWaits
     DEF SetPath, Sign, SetUploaded, SetVerdict, Update, At, DocumentStage, Ended
<1>5. ASSUME NEW row \in Document, NEW stage \in {"sign", "event_initiated", "event_uploaded",
                                                   "audit_verdict"},
             doc' = [doc EXCEPT ![d] = row], Goto(r, stage),
             req[r].pc \in {"set_path", "sign", "set_uploaded", "set_verdict"},
             row.hashed = doc[d].hashed, row.filed = doc[d].filed,
             \/ row.status = doc[d].status
             \/ row.status = "uploaded" /\ stage = "event_uploaded"
             \/ row.status = req[r].arg.verdict /\ stage = "audit_verdict",
             stage = "event_uploaded" => req[r].op = "confirm",
             stage = "audit_verdict" => req[r].op = "verify"
      PROVE  DocumentsInv'
  <2>1. doc' \in [Doc -> Document \cup {None}]
        /\ doc'[d] = row /\ \A e \in Doc \ {d} : doc'[e] = doc[e]
    BY <1>2, <1>5
  <2>2. \A e \in Doc : Exists(e)' <=> Exists(e)
    BY <1>1, <2>1, DocumentNoneAssumption DEF Exists
  <2>3. \A e \in Doc : Exists(e) =>
          /\ doc'[e].hashed = doc[e].hashed /\ doc'[e].filed = doc[e].filed
          /\ \/ doc'[e].status = doc[e].status
             \/ e = req[r].on /\ doc'[e].status = "uploaded" /\ stage = "event_uploaded"
             \/ e = req[r].on /\ doc'[e].status = req[r].arg.verdict /\ stage = "audit_verdict"
    BY <1>1, <1>5, <2>1
  <2>4. docEvents' \subseteq EventType \X Doc \X Request
        /\ trail' \subseteq {"initiated", "uploaded", "verified", "rejected", "hashed"} \X Request
    BY <1>3 DEF DocumentsInv, DocumentsTypeOK
  <2>5. stage \in DocumentStage \cup Ended /\ req[r].pc \in DocumentStage
    BY <1>5 DEF DocumentStage
  <2>6. /\ docEvents \subseteq docEvents' /\ trail \subseteq trail' /\ hashing' = hashing
        /\ \A q \in Request \ {r}, e \in Doc :
             <<"hash_computed", e, q>> \in docEvents' => <<"hash_computed", e, q>> \in docEvents
    BY <1>3
  <2>7. /\ req[r].pc \notin {"event_uploaded", "audit_uploaded", "audit_verdict"}
        /\ stage \notin {"set_uploaded", "set_verdict", "audit_uploaded", "done"}
    BY <1>5
  <2>8. doc' \in [Doc -> Document \cup {None}]
    BY <2>1
  <2>9. /\ Goto(r, stage)
        /\ stage = "event_uploaded" => req[r].op = "confirm"
        /\ stage = "audit_verdict" => req[r].op = "verify"
    BY <1>5
  <2>10. QED
    BY <2>2, <2>3, <2>4, <2>5, <2>6, <2>7, <2>8, <2>9, DocumentGoes
<1>6. CASE SetPath(r) /\ req[r].arg.staff
  <2>1. doc' = [doc EXCEPT ![d].located = TRUE] /\ Goto(r, "sign") /\ req[r].pc = "set_path"
    BY <1>1, <1>6 DEF SetPath, Update, At
  <2>2. PICK row : row = [doc[d] EXCEPT !.located = TRUE]
    OBVIOUS
  <2>3. row \in Document /\ doc' = [doc EXCEPT ![d] = row]
        /\ row.hashed = doc[d].hashed /\ row.filed = doc[d].filed /\ row.status = doc[d].status
    BY <1>2, <2>1, <2>2 DEF Document
  <2>4. QED
    BY <1>5, <2>1, <2>3
<1>7. CASE Sign(r)
  <2>1. doc' = [doc EXCEPT ![d].linked = TRUE] /\ Goto(r, "event_initiated") /\ req[r].pc = "sign"
    BY <1>1, <1>7 DEF Sign, At
  <2>2. PICK row : row = [doc[d] EXCEPT !.linked = TRUE]
    OBVIOUS
  <2>3. row \in Document /\ doc' = [doc EXCEPT ![d] = row]
        /\ row.hashed = doc[d].hashed /\ row.filed = doc[d].filed /\ row.status = doc[d].status
    BY <1>2, <2>1, <2>2 DEF Document
  <2>4. QED
    BY <1>5, <2>1, <2>3
<1>8. CASE SetUploaded(r) /\ req[r].arg.staff
  <2>1. doc' = [doc EXCEPT ![d].status = "uploaded"] /\ Goto(r, "event_uploaded")
        /\ req[r].pc = "set_uploaded"
    BY <1>1, <1>8 DEF SetUploaded, Update, At
  <2>2. PICK row : row = [doc[d] EXCEPT !.status = "uploaded"]
    OBVIOUS
  <2>3. row \in Document /\ doc' = [doc EXCEPT ![d] = row]
        /\ row.hashed = doc[d].hashed /\ row.filed = doc[d].filed /\ row.status = "uploaded"
    BY <1>2, <2>1, <2>2 DEF Document
  <2>4. req[r].op = "confirm"
    BY <2>1 DEF DocumentsInv, DocumentStages
  <2>5. QED
    BY <1>5, <2>1, <2>3, <2>4
<1>9. CASE SetVerdict(r) /\ req[r].arg.staff
  <2>1. doc' = [doc EXCEPT ![d].status = req[r].arg.verdict] /\ Goto(r, "audit_verdict")
        /\ req[r].pc = "set_verdict" /\ req[r].op = "verify"
    BY <1>1, <1>9 DEF SetVerdict, Update, At
  <2>2. PICK v \in Verdict : v = req[r].arg.verdict
    BY <2>1 DEF DocumentsInv, DocumentStages
  <2>3. PICK row : row = [doc[d] EXCEPT !.status = v]
    OBVIOUS
  <2>4. row \in Document /\ doc' = [doc EXCEPT ![d] = row]
        /\ row.hashed = doc[d].hashed /\ row.filed = doc[d].filed /\ row.status = v
    BY <1>2, <2>1, <2>2, <2>3 DEF Document
  <2>5. QED
    BY <1>5, <2>1, <2>2, <2>4
<1>10. QED
  BY <1>4, <1>6, <1>7, <1>8, <1>9 DEF SetPath, SetUploaded, SetVerdict, Update

LEMMA DocumentQuiet ==
    ASSUME DocumentsInv, NEW r \in Request,
           \/ EventInitiated(r) \/ EventUploaded(r) \/ AuditUploaded(r) \/ SignDownload(r)
           \/ EventAccessed(r) \/ AuditDocument(r) \/ (Kill(r) /\ UNCHANGED documentRows)
    PROVE  DocumentsInv'
<1>1. DocumentStages(r) /\ req[r] \in DocumentRequest
  BY DEF DocumentsInv, DocumentsTypeOK
<1>2. CASE EventInitiated(r)
  BY <1>1, <1>2, DocumentWaits
     DEF EventInitiated, AppendEvent, At, DocumentStages, DocumentStage, EventType
<1>3. CASE EventUploaded(r)
  BY <1>1, <1>3, DocumentWaits
     DEF EventUploaded, AppendEvent, At, DocumentStages, DocumentStage, EventType
<1>4. CASE AuditUploaded(r)
  BY <1>1, <1>4, DocumentWaits
     DEF AuditUploaded, Emit, At, DocumentStages, DocumentStage, Ended
<1>5. CASE SignDownload(r)
  BY <1>1, <1>5, DocumentWaits
     DEF SignDownload, At, DocumentStages, DocumentStage, Ended, documentRows
<1>6. CASE EventAccessed(r)
  BY <1>1, <1>6, DocumentWaits
     DEF EventAccessed, AppendEvent, At, DocumentStages, DocumentStage, EventType, Ended
<1>7. CASE AuditDocument(r)
  <2>1. CASE Emit(r, "audit_initiated", "initiated", "done")
    BY <1>1, <1>7, <2>1, DocumentWaits
       DEF AuditDocument, Emit, At, DocumentStage, Ended, documentRows
  <2>2. CASE req[r].op = "verify" /\ Emit(r, "audit_verdict", req[r].arg.verdict, "done")
    <3>1. PICK v \in Verdict : v = req[r].arg.verdict
      BY <1>1, <2>2 DEF DocumentStages
    <3>2. trail' = trail \cup {<<v, r>>} /\ Goto(r, "done") /\ req[r].pc = "audit_verdict"
      BY <2>2, <3>1 DEF Emit, At
    <3>3. QED
      BY <1>7, <3>1, <3>2, DocumentWaits
         DEF AuditDocument, DocumentStage, Ended, documentRows, Verdict
  <2>3. QED
    BY <1>7, <2>1, <2>2 DEF AuditDocument
<1>8. CASE Kill(r) /\ UNCHANGED documentRows
  <2>1. req[r].pc \in DocumentStage
    BY <1>1, <1>8 DEF Kill, Underway, DocumentRequest
  <2>2. QED
    BY <1>8, <2>1, DocumentWaits DEF Kill, documentRows, Ended
<1>9. QED
  BY <1>2, <1>3, <1>4, <1>5, <1>6, <1>7, <1>8

\* The object in the bucket: it appears, and nothing else changes.
LEMMA PutKeeps ==
    ASSUME DocumentsInv, NEW r \in Request, Put(r)
    PROVE  DocumentsInv'
<1>1. PICK d \in Doc : d = req[r].on /\ Exists(d)
  BY DEF Put, At, DocumentsInv, DocumentStages
<1>2. doc \in [Doc -> Document \cup {None}] /\ doc[d] \in Document
  BY <1>1 DEF DocumentsInv, DocumentsTypeOK, Exists
<1>3. PICK row : row = [doc[d] EXCEPT !.filed = TRUE]
  OBVIOUS
<1>4. row \in Document /\ row.filed /\ row.hashed = doc[d].hashed /\ row.status = doc[d].status
  BY <1>2, <1>3 DEF Document
<1>5. doc' = [doc EXCEPT ![d] = row] /\ UNCHANGED <<req, trail, crossed, docEvents, hashing>>
  BY <1>1, <1>3 DEF Put, calls
<1>6. doc' \in [Doc -> Document \cup {None}]
      /\ doc'[d] = row /\ \A e \in Doc \ {d} : doc'[e] = doc[e]
  BY <1>2, <1>4, <1>5
<1>7. \A e \in Doc : Exists(e)' <=> Exists(e)
  BY <1>1, <1>4, <1>6, DocumentNoneAssumption DEF Exists
<1>8. \A e \in Doc : Exists(e) =>
        /\ doc'[e].hashed = doc[e].hashed /\ doc'[e].status = doc[e].status
        /\ doc[e].filed => doc'[e].filed
  BY <1>1, <1>4, <1>6
<1>9. DocumentsTypeOK'
  BY <1>5, <1>6 DEF DocumentsInv, DocumentsTypeOK
<1>10. DocumentStages(r)'
  BY <1>5, <1>7, <1>8 DEF DocumentsInv, DocumentStages, At, DocumentStage
<1>11. DocumentStep(r)
  BY <1>5, <1>7, <1>8 DEF DocumentStep, HashTold, UploadTold, VerdictTold
<1>12. QED
  BY <1>7, <1>8, <1>9, <1>10, <1>11, DocumentMoves

\* A call arrives; StartUpload alone writes, a row of its own.
LEMMA DocumentBegins ==
    ASSUME DocumentsInv, NEW r \in Request, NEW op \in {"upload", "confirm", "verify", "read"},
           NEW d \in Doc, NEW arg \in [staff : BOOLEAN, verdict : Verdict \cup {None}] \cup {None},
           NEW stage \in {"set_path", "set_uploaded", "set_verdict", "sign_download", "refused"},
           Begin(r, op, d, arg, None, stage),
           op = "verify" => arg.verdict \in Verdict,
           stage = "set_uploaded" => op = "confirm", stage = "set_verdict" => op = "verify",
           stage # "refused" => Exists(d)',
           UNCHANGED <<trail, docEvents, hashing>>,
           doc' \in [Doc -> Document \cup {None}],
           \A e \in Doc : \/ doc'[e] = doc[e]
                          \/ ~Exists(e) /\ doc'[e].status = "pending" /\ ~doc'[e].hashed
    PROVE  DocumentsInv'
<1> DEFINE x == [pc |-> stage, op |-> op, on |-> d, arg |-> arg, seen |-> None]
<1>1. x \in DocumentRequest /\ x.pc = stage /\ x.on = d /\ x.op = op /\ x.arg = arg
  BY DEF DocumentRequest, DocumentStage, Ended
<1>2. req' = [req EXCEPT ![r] = x] /\ crossed' \subseteq Request /\ req[r].pc = "idle"
  BY DEF Begin, At, DocumentsInv, DocumentsTypeOK
<1> HIDE DEF x
<1>3. req \in [Request -> DocumentRequest]
  BY DEF DocumentsInv, DocumentsTypeOK
<1>4. req'[r] = x /\ \A q \in Request \ {r} : req'[q] = req[q]
  BY <1>2, <1>3
<1>5. DocumentsTypeOK'
  <2>1. req' \in [Request -> DocumentRequest]
    BY <1>1, <1>2, <1>3
  <2>2. QED
    BY <1>2, <2>1 DEF DocumentsInv, DocumentsTypeOK
<1>6. /\ req[r].op = None /\ hashing[r] = "none" /\ hashing'[r] = "none"
      /\ \A e \in Doc : <<"hash_computed", e, r>> \notin docEvents
  BY <1>2 DEF DocumentsInv, DocumentStages, At
<1>7. DocumentStages(r)'
  BY <1>1, <1>4, <1>6 DEF DocumentStages, At, Exists, DocumentStage
<1>8. ASSUME NEW e \in Doc
      PROVE  ~HashTold(r, e) /\ ~UploadTold(r, e) /\ \A v \in Verdict : ~VerdictTold(r, e, v)
  <2>1. ~HashTold(r, e)
    BY <1>6 DEF HashTold
  <2>2. ~UploadTold(r, e)
    BY <1>2 DEF UploadTold
  <2>3. \A v \in Verdict : ~VerdictTold(r, e, v)
    BY <1>6, DocumentNoneAssumption DEF VerdictTold
  <2>4. QED
    BY <2>1, <2>2, <2>3
<1>9. \A e \in Doc : Exists(e) => Exists(e)' /\ (doc[e].filed => doc'[e].filed)
  BY DEF Exists
<1>10. DocumentStep(r)
  BY <1>4, <1>8, <1>9 DEF DocumentStep
<1>11. ASSUME NEW e \in Doc, Exists(e)'
       PROVE  /\ doc'[e].hashed => Exists(e) /\ doc[e].hashed
              /\ doc'[e].status = "pending" \/ (Exists(e) /\ doc'[e].status = doc[e].status)
  BY <1>11 DEF Exists
<1>12. QED
  BY <1>5, <1>7, <1>10, <1>11, DocumentMoves

LEMMA DocumentStarts ==
    ASSUME DocumentsInv, NEW r \in Request,
           StartUpload(r) \/ StartConfirm(r) \/ StartVerify(r) \/ StartRead(r)
    PROVE  DocumentsInv'
<1>1. doc \in [Doc -> Document \cup {None}]
  BY DEF DocumentsInv, DocumentsTypeOK
<1>2. CASE StartUpload(r)
  <2>1. PICK d \in Doc, staff \in BOOLEAN :
          /\ ~Exists(d)
          /\ Begin(r, "upload", d, [staff |-> staff, verdict |-> None], None, "set_path")
          /\ doc' = [doc EXCEPT ![d] = [status |-> "pending", located |-> FALSE,
                                        linked |-> FALSE, filed |-> FALSE, hashed |-> FALSE]]
    BY <1>2 DEF StartUpload
  <2>2. PICK row : row = [status |-> "pending", located |-> FALSE, linked |-> FALSE,
                          filed |-> FALSE, hashed |-> FALSE]
    OBVIOUS
  <2>3. row \in Document /\ row.status = "pending" /\ ~row.hashed /\ row # None
    <3>1. row \in Document
      BY <2>2 DEF Document
    <3>2. row.status = "pending"
      BY <2>2
    <3>3. ~row.hashed
      BY <2>2
    <3>4. QED
      BY <3>1, <3>2, <3>3, DocumentNoneAssumption
  <2>4. doc' \in [Doc -> Document \cup {None}]
        /\ doc'[d] = row /\ \A e \in Doc \ {d} : doc'[e] = doc[e]
    BY <1>1, <2>1, <2>2, <2>3
  <2>5. Exists(d)'
    BY <2>3, <2>4 DEF Exists
  <2>6. \A e \in Doc : \/ doc'[e] = doc[e]
                       \/ ~Exists(e) /\ doc'[e].status = "pending" /\ ~doc'[e].hashed
    BY <2>1, <2>3, <2>4
  <2>7. PICK arg : arg = [staff |-> staff, verdict |-> None]
    OBVIOUS
  <2>8. arg \in [staff : BOOLEAN, verdict : Verdict \cup {None}] \cup {None}
    BY <2>7
  <2>9. UNCHANGED <<trail, docEvents, hashing>>
    BY <1>2 DEF StartUpload
  <2>10. Begin(r, "upload", d, arg, None, "set_path")
    BY <2>1, <2>7
  <2>11. QED
    BY <2>4, <2>5, <2>6, <2>8, <2>9, <2>10, DocumentBegins
<1>3. CASE StartConfirm(r)
  <2>1. PICK d \in Doc, staff \in BOOLEAN :
          Begin(r, "confirm", d, [staff |-> staff, verdict |-> None], None,
                IF Exists(d) THEN "set_uploaded" ELSE "refused")
    BY <1>3 DEF StartConfirm
  <2>2. PICK arg : arg = [staff |-> staff, verdict |-> None]
    OBVIOUS
  <2>3. arg \in [staff : BOOLEAN, verdict : Verdict \cup {None}] \cup {None}
    BY <2>2
  <2>4. UNCHANGED <<trail, docEvents, hashing, doc>>
    BY <1>3 DEF StartConfirm, documentRows
  <2>5. PICK stage \in {"set_uploaded", "refused"} :
          Begin(r, "confirm", d, arg, None, stage) /\ (stage # "refused" => Exists(d))
    BY <2>1, <2>2
  <2>6. stage # "refused" => Exists(d)'
    BY <2>4, <2>5 DEF Exists
  <2>7. QED
    BY <1>1, <2>3, <2>4, <2>5, <2>6, DocumentBegins
<1>4. CASE StartVerify(r)
  <2>1. PICK d \in Doc, staff \in BOOLEAN, v \in Verdict :
          /\ Exists(d)
          /\ Begin(r, "verify", d, [staff |-> staff, verdict |-> v], None, "set_verdict")
    BY <1>4 DEF StartVerify
  <2>2. PICK arg : arg = [staff |-> staff, verdict |-> v]
    OBVIOUS
  <2>3. arg \in [staff : BOOLEAN, verdict : Verdict \cup {None}] \cup {None}
        /\ arg.verdict \in Verdict
    BY <2>2
  <2>4. UNCHANGED <<trail, docEvents, hashing, doc>>
    BY <1>4 DEF StartVerify, documentRows
  <2>5. Exists(d)' /\ Begin(r, "verify", d, arg, None, "set_verdict")
    BY <2>1, <2>2, <2>4 DEF Exists
  <2>6. QED
    BY <1>1, <2>3, <2>4, <2>5, DocumentBegins
<1>5. CASE StartRead(r)
  <2>1. PICK d \in Doc : Exists(d) /\ Begin(r, "read", d, None, None, "sign_download")
    BY <1>5 DEF StartRead
  <2>2. UNCHANGED <<trail, docEvents, hashing, doc>>
    BY <1>5 DEF StartRead, documentRows
  <2>3. Exists(d)'
    BY <2>1, <2>2 DEF Exists
  <2>4. QED
    BY <1>1, <2>1, <2>2, <2>3, DocumentBegins
<1>6. QED
  BY <1>2, <1>3, <1>4, <1>5

\* compute-document-hash goes on, ends or dies without writing to the document.
LEMMA HashGoes ==
    ASSUME DocumentsInv, NEW r \in Request, NEW to \in HashStage \cup Ended,
           hashing[r] \in HashStage, hashing' = [hashing EXCEPT ![r] = to],
           to = "store_hash" => doc[req[r].on].filed,
           hashing[r] = "event_hashed" =>
             to = "killed" \/ <<"hash_computed", req[r].on, r>> \in docEvents',
           UNCHANGED <<req, crossed, doc>>,
           docEvents' = docEvents \/ docEvents' = docEvents \cup {<<"hash_computed", req[r].on, r>>},
           trail' = trail \/ trail' = trail \cup {<<"hashed", r>>}
    PROVE  DocumentsInv'
<1>1. hashing \in [Request -> {"none"} \cup HashStage \cup Ended]
  BY DEF DocumentsInv, DocumentsTypeOK
<1>2. hashing'[r] = to /\ \A q \in Request \ {r} : hashing'[q] = hashing[q]
  BY <1>1
<1>3. DocumentStages(r) /\ hashing[r] # "none"
  BY DEF DocumentsInv, HashStage
<1>4. req[r].pc = "done" /\ req[r].on \in Doc /\ Exists(req[r].on)
  BY <1>3 DEF DocumentStages, At
<1>5. DocumentsTypeOK'
  <2>1. hashing' \in [Request -> {"none"} \cup HashStage \cup Ended]
    BY <1>1
  <2>2. docEvents' \subseteq EventType \X Doc \X Request
    BY <1>4 DEF DocumentsInv, DocumentsTypeOK, EventType
  <2>3. trail' \subseteq {"initiated", "uploaded", "verified", "rejected", "hashed"} \X Request
    BY DEF DocumentsInv, DocumentsTypeOK
  <2>4. QED
    BY <2>1, <2>2, <2>3 DEF DocumentsInv, DocumentsTypeOK
<1>6. DocumentStages(r)'
  BY <1>2, <1>3, <1>4 DEF DocumentStages, At, Exists, DocumentStage
<1>7. ASSUME NEW d \in Doc, HashTold(r, d) PROVE HashTold(r, d)'
  BY <1>2, <1>7 DEF HashTold, HashStage
<1>8. DocumentStep(r)
  <2>1. \A d \in Doc : /\ UploadTold(r, d) => UploadTold(r, d)'
                       /\ \A v \in Verdict : VerdictTold(r, d, v) => VerdictTold(r, d, v)'
    BY DEF UploadTold, VerdictTold
  <2>2. \A d \in Doc : Exists(d) => Exists(d)' /\ (doc[d].filed => doc'[d].filed)
    BY DEF Exists
  <2>3. \A q \in Request \ {r}, d \in Doc :
          <<"hash_computed", d, q>> \in docEvents' => <<"hash_computed", d, q>> \in docEvents
    OBVIOUS
  <2>4. QED
    BY <1>2, <1>7, <2>1, <2>2, <2>3 DEF DocumentStep
<1>9. QED
  BY <1>5, <1>6, <1>8, DocumentMoves DEF Exists

\* The hash is written after the object was read.
LEMMA StoreFileHashKeeps ==
    ASSUME DocumentsInv, NEW r \in Request, StoreFileHash(r)
    PROVE  DocumentsInv'
<1>1. /\ hashing[r] = "store_hash" /\ hashing' = [hashing EXCEPT ![r] = "event_hashed"]
      /\ UNCHANGED <<req, trail, crossed, docEvents>>
  BY DEF StoreFileHash, Hash, calls
<1>2. DocumentStages(r) /\ hashing \in [Request -> {"none"} \cup HashStage \cup Ended]
      /\ doc \in [Doc -> Document \cup {None}]
  BY DEF DocumentsInv, DocumentsTypeOK
<1>3. PICK d \in Doc : d = req[r].on /\ Exists(d) /\ doc[d].filed /\ req[r].pc = "done"
  BY <1>1, <1>2 DEF DocumentStages, At
<1>4. doc[d] \in Document
  BY <1>2, <1>3 DEF Exists
<1>5. PICK row : row = [doc[d] EXCEPT !.hashed = TRUE]
  OBVIOUS
<1>6. row \in Document /\ row.filed = doc[d].filed /\ row.status = doc[d].status
  BY <1>4, <1>5 DEF Document
<1>7. doc' = [doc EXCEPT ![d] = row]
  BY <1>3, <1>5 DEF StoreFileHash, Target
<1>8. doc' \in [Doc -> Document \cup {None}]
      /\ doc'[d] = row /\ \A e \in Doc \ {d} : doc'[e] = doc[e]
  BY <1>2, <1>6, <1>7
<1>9. hashing'[r] = "event_hashed" /\ \A q \in Request \ {r} : hashing'[q] = hashing[q]
  BY <1>1, <1>2
<1>10. \A e \in Doc : Exists(e)' <=> Exists(e)
  BY <1>3, <1>6, <1>8, DocumentNoneAssumption DEF Exists
<1>11. \A e \in Doc : Exists(e) => /\ doc'[e].status = doc[e].status
                                   /\ doc[e].filed => doc'[e].filed
  BY <1>3, <1>6, <1>8
<1>12. DocumentsTypeOK'
  <2>1. hashing' \in [Request -> {"none"} \cup HashStage \cup Ended]
    BY <1>1, <1>2 DEF HashStage
  <2>2. QED
    BY <1>1, <1>8, <2>1 DEF DocumentsInv, DocumentsTypeOK
<1>13. DocumentStages(r)'
  BY <1>1, <1>2, <1>3, <1>9, <1>10 DEF DocumentStages, At, DocumentStage
<1>14. HashTold(r, d)'
  BY <1>1, <1>3, <1>9 DEF HashTold
<1>15. DocumentStep(r)
  <2>1. \A e \in Doc : /\ HashTold(r, e) => HashTold(r, e)'
                       /\ UploadTold(r, e) => UploadTold(r, e)'
                       /\ \A v \in Verdict : VerdictTold(r, e, v) => VerdictTold(r, e, v)'
    BY <1>1, <1>9 DEF HashTold, UploadTold, VerdictTold
  <2>2. \A e \in Doc : Exists(e) => Exists(e)' /\ (doc[e].filed => doc'[e].filed)
    BY <1>10, <1>11
  <2>3. QED
    BY <1>1, <1>9, <2>1, <2>2 DEF DocumentStep
<1>16. ASSUME NEW e \in Doc, Exists(e)'
       PROVE  /\ doc'[e].hashed => \/ Exists(e) /\ doc[e].hashed
                                   \/ doc'[e].filed /\ HashTold(r, e)'
              /\ Exists(e) /\ doc'[e].status = doc[e].status
  <2>1. CASE e = d
    BY <1>3, <1>10, <1>11, <1>14, <1>16, <2>1
  <2>2. CASE e # d
    BY <1>8, <1>10, <1>16, <2>2
  <2>3. QED
    BY <2>1, <2>2
<1>17. QED
  BY <1>12, <1>13, <1>15, <1>16, DocumentMoves

LEMMA HashKeeps ==
    ASSUME DocumentsInv, NEW r \in Request,
           HashLookup(r) \/ HashDownload(r) \/ EventHashed(r) \/ AuditHashed(r) \/ HashFails(r)
    PROVE  DocumentsInv'
<1>1. CASE HashLookup(r)
  <2>1. PICK to \in {"done", "download"} : hashing' = [hashing EXCEPT ![r] = to]
    BY <1>1 DEF HashLookup, Hash
  <2>2. hashing[r] = "lookup" /\ UNCHANGED <<req, trail, crossed, doc, docEvents>>
    BY <1>1 DEF HashLookup, Hash, calls
  <2>3. QED
    BY <2>1, <2>2, HashGoes DEF HashStage, Ended
<1>2. CASE HashDownload(r)
  <2>1. PICK to \in {"store_hash", "refused"} :
          hashing' = [hashing EXCEPT ![r] = to] /\ (to = "store_hash" => doc[req[r].on].filed)
    BY <1>2 DEF HashDownload, Hash, Target
  <2>2. hashing[r] = "download" /\ UNCHANGED <<req, trail, crossed, doc, docEvents>>
    BY <1>2 DEF HashDownload, Hash, calls
  <2>3. QED
    BY <2>1, <2>2, HashGoes DEF HashStage, Ended
<1>3. CASE EventHashed(r)
  <2>1. /\ hashing[r] = "event_hashed" /\ hashing' = [hashing EXCEPT ![r] = "audit_hashed"]
        /\ UNCHANGED <<req, trail, crossed, doc>>
        /\ docEvents' = docEvents \cup {<<"hash_computed", req[r].on, r>>}
    BY <1>3 DEF EventHashed, Hash, Target, calls
  <2>2. QED
    BY <2>1, HashGoes DEF HashStage, Ended
<1>4. CASE AuditHashed(r)
  BY <1>4, HashGoes DEF AuditHashed, Hash, HashStage, Ended
<1>5. CASE HashFails(r)
  <2>1. /\ hashing[r] \in HashStage /\ hashing' = [hashing EXCEPT ![r] = "killed"]
        /\ UNCHANGED <<req, trail, crossed, doc, docEvents>>
    BY <1>5 DEF HashFails, calls
  <2>2. QED
    BY <2>1, HashGoes DEF Ended
<1>6. QED
  BY <1>1, <1>2, <1>3, <1>4, <1>5

LEMMA DocumentsStepKeeps ==
    ASSUME DocumentsInv, [DocumentsNext]_<<calls, documentRows>>
    PROVE  DocumentsInv'
<1>1. CASE UNCHANGED <<calls, documentRows>>
  <2>1. UNCHANGED <<req, trail, crossed, doc, docEvents, hashing>>
    BY <1>1 DEF calls, documentRows
  <2>2. DocumentsTypeOK' /\ \A r \in Request : DocumentStages(r)'
    BY <2>1 DEF DocumentsInv, DocumentsTypeOK, DocumentStages, At, Exists
  <2>3. \A r \in Request, d \in Doc :
          /\ HashTold(r, d) => HashTold(r, d)'
          /\ UploadTold(r, d) => UploadTold(r, d)'
          /\ \A v \in Verdict : VerdictTold(r, d, v) => VerdictTold(r, d, v)'
    BY <2>1 DEF HashTold, UploadTold, VerdictTold
  <2>4. ASSUME NEW d \in Doc PROVE Accounted(d)'
    <3>1. Accounted(d) /\ doc'[d] = doc[d] /\ (Exists(d)' <=> Exists(d))
      BY <2>1 DEF DocumentsInv, Exists
    <3>2. QED
      BY <2>3, <3>1 DEF Accounted
  <2>5. QED
    BY <2>2, <2>4 DEF DocumentsInv
<1>2. CASE DocumentsNext
  <2>1. PICK r \in Request :
          \/ StartUpload(r) \/ SetPath(r) \/ Sign(r) \/ EventInitiated(r) \/ Put(r)
          \/ StartConfirm(r) \/ SetUploaded(r) \/ EventUploaded(r) \/ AuditUploaded(r)
          \/ StartVerify(r) \/ SetVerdict(r) \/ StartRead(r) \/ SignDownload(r)
          \/ EventAccessed(r) \/ AuditDocument(r)
          \/ HashLookup(r) \/ HashDownload(r) \/ StoreFileHash(r) \/ EventHashed(r)
          \/ AuditHashed(r) \/ HashFails(r)
          \/ (Kill(r) /\ UNCHANGED documentRows)
    BY <1>2 DEF DocumentsNext
  <2>2. QED
    BY <2>1, DocumentStarts, DocumentWritten, DocumentQuiet, PutKeeps, HashKeeps,
       StoreFileHashKeeps
<1>3. QED
  BY <1>1, <1>2

LEMMA InitDocuments == RequestsInit /\ DocumentsInit => DocumentsInv
<1>1. SUFFICES ASSUME RequestsInit, DocumentsInit PROVE DocumentsInv
  OBVIOUS
<1>2. Idle \in DocumentRequest
  BY DEF Idle, DocumentRequest
<1>3. DocumentsTypeOK
  BY <1>1, <1>2 DEF RequestsInit, DocumentsInit, DocumentsTypeOK
<1>4. ASSUME NEW r \in Request PROVE DocumentStages(r)
  <2>1. req[r].pc = "idle" /\ req[r].op = None /\ hashing[r] = "none" /\ docEvents = {}
    BY <1>1 DEF RequestsInit, DocumentsInit, Idle
  <2>2. QED
    BY <2>1, DocumentNoneAssumption DEF DocumentStages, At, DocumentStage
<1>5. \A d \in Doc : Accounted(d)
  BY <1>1 DEF DocumentsInit, Accounted, Exists
<1>6. QED
  BY <1>3, <1>4, <1>5 DEF DocumentsInv

\* The invariant gives both halves of the history.
LEMMA AccountedHistory ==
    ASSUME DocumentsInv
    PROVE  DocumentHistory
<1>1. HashHasHistory
  BY DEF DocumentsInv, Accounted, HashTold, HashHasHistory, Target
<1>2. StatusHasHistory
  <2>1. SUFFICES ASSUME NEW d \in Doc, Exists(d), doc[d].status # "pending"
                 PROVE  \/ doc[d].status = "uploaded"
                           /\ Made(d, "confirm", {"done", "killed"}, {"event_uploaded", "audit_uploaded"})
                        \/ \E r \in Request :
                             /\ req[r].op = "verify" /\ Target(r) = d
                             /\ req[r].arg.verdict = doc[d].status
                             /\ \/ <<doc[d].status, r>> \in trail
                                \/ req[r].pc \in {"audit_verdict", "killed"}
    BY DEF StatusHasHistory
  <2>2. CASE doc[d].status = "uploaded" /\ \E r \in Request : UploadTold(r, d)
    BY <2>2 DEF UploadTold, Made
  <2>3. CASE \E r \in Request, v \in Verdict : v = doc[d].status /\ VerdictTold(r, d, v)
    BY <2>3 DEF VerdictTold, Target
  <2>4. QED
    BY <2>1, <2>2, <2>3 DEF DocumentsInv, Accounted
<1>3. QED
  BY <1>1, <1>2 DEF DocumentHistory
-----------------------------------------------------------------------------
(* User administration.                                                    *)

AdminArg == [tenant : Tenant, role : Grantable \cup {PlatformRole, None}]

\* Nobody who worked on p met anybody else at work on p.
Quiet(p) == \A r \in crossed : req[r].on # p

\* What a request x carries from stage to stage.
AdminFits(x) ==
    /\ x.pc = "idle" => x.on = None
    /\ x.pc # "idle" => x.on \in Person /\ x.arg \in AdminArg
    /\ x.pc \in {"invite_lookup", "invite_upsert", "invite_role", "invite_grant", "grant"} =>
         x.arg.role \in Grantable
    /\ x.pc \in {"check_tenants", "upsert", "find_role", "audit_activated"} => x.op # "invite"
    /\ x.pc = "audit_activated" => x.op # "change_role"
    /\ x.pc \in {"revoke", "audit_revoked"} => x.op \in {"revoke_role", "change_role"}
    /\ x.pc \in {"find_role", "revoke", "audit_revoked"} /\ x.op # "revoke_role" =>
         x.arg.role \in Grantable

\* What it may rely on as long as it meets nobody: the user is not in another tenant, or
\* already in that of the administrator.
AdminKnows(x) ==
    /\ x.pc = "invite_upsert" => profile[x.on] \in {None, x.arg.tenant}
    /\ x.pc = "upsert" => \A g \in grants[x.on] : g.tenant = x.arg.tenant
    /\ x.pc \in {"invite_role", "invite_grant", "find_role", "revoke", "audit_revoked", "grant"} =>
         profile[x.on] = x.arg.tenant

\* A request that explains why p is without a role: one that found or granted none.
Blames(x, p) ==
    /\ x.on = p
    /\ \/ x.op = "revoke_role"
       \/ /\ x.op \in {"change_role", "invite"}
          /\ x.pc \notin {"audit_invited", "audit_assigned", "done"}

AdminInv ==
    /\ AdminTypeOK
    /\ Met
    /\ \A r \in Request : AdminFits(req[r])
    /\ \A r \in Request : Underway(r) /\ Quiet(req[r].on) => AdminKnows(req[r])
    /\ \A p \in Person : Quiet(p) => \A g \in grants[p] : g.tenant = profile[p]
    /\ \A p \in Person :
         account[p] # "absent" /\ grants[p] = {} => \E r \in Request : Blames(req[r], p)

\* A request goes on, and changes at most the user it works on.
LEMMA AdminMoves ==
    ASSUME AdminInv, NEW r \in Request, Underway(r), NEW p \in Person, p = req[r].on,
           NEW x \in AdminRequest, req' = [req EXCEPT ![r] = x],
           x.pc # "idle", x.op = req[r].op, x.on = p, x.arg = req[r].arg,
           crossed' = crossed,
           trail' \subseteq {"invited", "revoked", "assigned", "activated"} \X Request,
           account' = account,
           profile' \in [Person -> Tenant \cup {None}], grants' \in [Person -> SUBSET Grant],
           granted' \in Nat,
           \A o \in Person \ {p} : profile'[o] = profile[o] /\ grants'[o] = grants[o],
           AdminFits(x),
           Quiet(p) => AdminKnows(x)' /\ \A g \in grants'[p] : g.tenant = profile'[p],
           account[p] # "absent" /\ grants'[p] = {} =>
               Blames(x, p) \/ \E q \in Request \ {r} : Blames(req[q], p)
    PROVE  AdminInv'
<1>1. AdminTypeOK'
  BY DEF AdminInv, AdminTypeOK
<1>2. req'[r] = x /\ \A q \in Request \ {r} : req'[q] = req[q]
  BY DEF AdminInv, AdminTypeOK
<1>3. \A q \in Request : req'[q].on = req[q].on /\ (Underway(q)' => Underway(q))
  BY <1>2 DEF Underway
<1>4. Met'
  BY <1>3, GoingMeetsNobody DEF AdminInv
<1>5. crossed \subseteq Request
  BY DEF AdminInv, AdminTypeOK
<1>6. \A o : Quiet(o)' => Quiet(o)
  BY <1>3, <1>5 DEF Quiet
<1>7. \A q \in Request : AdminFits(req'[q])
  BY <1>2 DEF AdminInv
<1>8. ASSUME NEW q \in Request, Underway(q)', Quiet(req[q].on)' PROVE AdminKnows(req[q])'
  <2>1. CASE q = r
    <3>1. Quiet(p)
      BY <1>6, <1>8, <1>2, <2>1
    <3>2. AdminKnows(x)'
      BY <3>1
    <3>3. QED
      BY <1>2, <2>1, <3>2 DEF AdminKnows
  <2>2. CASE q # r
    <3>1. Underway(q) /\ req'[q] = req[q] /\ Quiet(req[q].on)
      BY <1>2, <1>3, <1>5, <1>8, <2>2 DEF Quiet
    <3>2. AdminKnows(req[q])
      BY <3>1 DEF AdminInv
    <3>3. CASE req[q].on = p
      <4>1. q \in crossed
        BY <2>2, <3>1, <3>3 DEF AdminInv, Met
      <4>2. QED
        BY <3>1, <4>1 DEF Quiet
    <3>4. CASE req[q].on # p
      <4>1. req[q].on \in Person
        BY <3>1 DEF AdminInv, AdminFits, Underway
      <4>2. profile'[req[q].on] = profile[req[q].on] /\ grants'[req[q].on] = grants[req[q].on]
        BY <3>4, <4>1
      <4>3. QED
        BY <3>1, <3>2, <4>2 DEF AdminKnows
    <3>5. QED
      BY <3>3, <3>4
  <2>3. QED
    BY <2>1, <2>2
<1>9. \A o \in Person : Quiet(o)' => \A g \in grants'[o] : g.tenant = profile'[o]
  BY <1>6 DEF AdminInv
<1>10. ASSUME NEW o \in Person, account'[o] # "absent", grants'[o] = {}
       PROVE  \E q \in Request : Blames(req'[q], o)
  <2>1. CASE o = p
    BY <1>2, <1>10, <2>1
  <2>2. CASE o # p
    <3>1. PICK q \in Request : Blames(req[q], o)
      BY <1>10, <2>2 DEF AdminInv
    <3>2. q # r
      BY <2>2, <3>1 DEF Blames
    <3>3. QED
      BY <1>2, <3>1, <3>2
  <2>3. QED
    BY <2>1, <2>2
<1>11. QED
  BY <1>1, <1>4, <1>7, <1>8, <1>9, <1>10 DEF AdminInv, AdminFits, Blames

\* What a request knows when it goes on.
LEMMA AdminUnderway ==
    ASSUME AdminInv, NEW r \in Request, Underway(r)
    PROVE  /\ req[r] \in AdminRequest /\ req[r].on \in Person /\ req[r].arg \in AdminArg
           /\ req[r].arg.tenant \in Tenant
           /\ AdminFits(req[r]) /\ (Quiet(req[r].on) => AdminKnows(req[r]))
           /\ profile \in [Person -> Tenant \cup {None}] /\ grants \in [Person -> SUBSET Grant]
           /\ granted \in Nat /\ req \in [Request -> AdminRequest]
           /\ trail \subseteq {"invited", "revoked", "assigned", "activated"} \X Request
  BY DEF AdminInv, AdminTypeOK, AdminFits, Underway, AdminArg

LEMMA AdminRecord ==
    ASSUME NEW x \in AdminRequest, NEW stage \in AdminStage \cup Ended, NEW seen \in Nat \cup {None}
    PROVE  \E y \in AdminRequest :
             /\ y = [x EXCEPT !.pc = stage, !.seen = seen]
             /\ y.pc = stage /\ y.op = x.op /\ y.on = x.on /\ y.arg = x.arg
<1>1. PICK y : y = [x EXCEPT !.pc = stage, !.seen = seen]
  OBVIOUS
<1>2. y.pc = stage /\ y.op = x.op /\ y.on = x.on /\ y.arg = x.arg
  BY <1>1 DEF AdminRequest
<1>3. y \in AdminRequest
  BY <1>1 DEF AdminRequest
<1>4. QED
  BY <1>1, <1>2, <1>3

\* The request that Goto makes of r.
LEMMA AdminGoto ==
    ASSUME req \in [Request -> AdminRequest], NEW r \in Request,
           NEW stage \in AdminStage \cup Ended, Goto(r, stage)
    PROVE  \E x \in AdminRequest :
             /\ req' = [req EXCEPT ![r] = x] /\ crossed' = crossed
             /\ x.pc = stage /\ x.op = req[r].op /\ x.on = req[r].on /\ x.arg = req[r].arg
<1>1. PICK x : x = [req[r] EXCEPT !.pc = stage]
  OBVIOUS
<1>2. x.pc = stage /\ x.op = req[r].op /\ x.on = req[r].on /\ x.arg = req[r].arg
  BY <1>1 DEF AdminRequest
<1>3. x \in AdminRequest
  BY <1>1 DEF AdminRequest
<1>4. req' = [req EXCEPT ![r] = x] /\ crossed' = crossed
  BY <1>1 DEF Goto
<1>5. QED
  BY <1>2, <1>3, <1>4

\* A step that changes no row of an account.
LEMMA AdminGoes ==
    ASSUME AdminInv, NEW r \in Request, Underway(r),
           NEW x \in AdminRequest, req' = [req EXCEPT ![r] = x],
           x.pc # "idle", x.op = req[r].op, x.on = req[r].on, x.arg = req[r].arg,
           crossed' = crossed,
           trail' \subseteq {"invited", "revoked", "assigned", "activated"} \X Request,
           UNCHANGED adminRows,
           AdminFits(x), Quiet(x.on) => AdminKnows(x),
           grants[x.on] = {} /\ Blames(req[r], x.on) => Blames(x, x.on)
    PROVE  AdminInv'
<1>1. PICK p \in Person : p = req[r].on
  BY AdminUnderway
<1>2. Quiet(p) => AdminKnows(x)' /\ \A g \in grants'[p] : g.tenant = profile'[p]
  BY <1>1 DEF AdminInv, AdminKnows, adminRows
<1>3. account[p] # "absent" /\ grants'[p] = {} =>
        Blames(x, p) \/ \E q \in Request \ {r} : Blames(req[q], p)
  BY <1>1 DEF AdminInv, adminRows
<1>4. QED
  BY <1>1, <1>2, <1>3, AdminUnderway, AdminMoves DEF adminRows

LEMMA AdminArrives ==
    ASSUME AdminInv, NEW r \in Request, NEW op \in ManageOp \cup {"invite"}, NEW p \in Person,
           NEW arg \in AdminArg, NEW stage \in AdminStage \cup Ended,
           Begin(r, op, p, arg, None, stage), trail' = trail,
           account' \in [Person -> {"absent", "invited", "confirmed"}],
           \A o \in Person \ {p} : account'[o] = account[o],
           UNCHANGED <<profile, grants, granted>>,
           NEW x, x = [pc |-> stage, op |-> op, on |-> p, arg |-> arg, seen |-> None],
           AdminFits(x), AdminKnows(x),
           account'[p] # account[p] => Blames(x, p)
    PROVE  AdminInv'
<1>1. /\ Met' /\ At(r, "idle") /\ crossed \subseteq crossed' /\ req'[r] = x
      /\ \A q \in Request \ {r} : req'[q] = req[q]
      /\ \A q \in Request : Underway(q) /\ req[q].on = p => {q, r} \subseteq crossed'
  <2>1. Met /\ req = [q \in Request |-> req[q]]
    BY DEF AdminInv, AdminTypeOK
  <2>2. QED
    BY <2>1, ArrivalMeets
<1>2. x \in AdminRequest /\ x.pc = stage /\ x.op = op /\ x.on = p /\ x.arg = arg
  BY DEF AdminRequest, AdminArg
<1>3. crossed \subseteq Request /\ crossed' \subseteq Request
  BY DEF AdminInv, AdminTypeOK, Begin
<1>4. AdminTypeOK'
  <2>1. req' \in [Request -> AdminRequest]
    BY <1>2 DEF AdminInv, AdminTypeOK, Begin
  <2>2. QED
    BY <1>3, <2>1 DEF AdminInv, AdminTypeOK
<1>5. req[r].on = None
  BY <1>1 DEF AdminInv, AdminFits, At
<1>6. \A o \in Person : Quiet(o)' => Quiet(o)
  BY <1>1, <1>3, <1>5, AdminAssumption DEF Quiet
<1>7. \A q \in Request : AdminFits(req'[q])
  BY <1>1 DEF AdminInv
<1>8. ASSUME NEW q \in Request, Underway(q)', Quiet(req[q].on)' PROVE AdminKnows(req[q])'
  <2>1. CASE q = r
    BY <1>1, <2>1 DEF AdminKnows
  <2>2. CASE q # r
    <3>1. Underway(q) /\ req'[q] = req[q]
      BY <1>1, <1>8, <2>2 DEF Underway
    <3>2. req[q].on \in Person
      BY <3>1 DEF AdminInv, AdminFits, Underway
    <3>3. Quiet(req[q].on)
      BY <1>1, <1>3, <1>5, <1>8, <3>1, <3>2, AdminAssumption DEF Quiet
    <3>4. QED
      BY <3>1, <3>3 DEF AdminInv, AdminKnows
  <2>3. QED
    BY <2>1, <2>2
<1>9. \A o \in Person : Quiet(o)' => \A g \in grants'[o] : g.tenant = profile'[o]
  BY <1>6 DEF AdminInv
<1>10. ASSUME NEW o \in Person, account'[o] # "absent", grants'[o] = {}
       PROVE  \E q \in Request : Blames(req'[q], o)
  <2>1. CASE account'[o] # account[o]
    BY <1>1, <2>1
  <2>2. CASE account'[o] = account[o]
    <3>1. PICK q \in Request : Blames(req[q], o)
      BY <1>10, <2>2 DEF AdminInv
    <3>2. q # r
      BY <1>5, <3>1, AdminAssumption DEF Blames
    <3>3. QED
      BY <1>1, <3>1, <3>2
  <2>3. QED
    BY <2>1, <2>2
<1>11. QED
  BY <1>1, <1>4, <1>7, <1>8, <1>9, <1>10 DEF AdminInv, AdminFits, Blames

LEMMA AdminStarts ==
    ASSUME AdminInv, NEW r \in Request, StartInvite(r) \/ StartManage(r)
    PROVE  AdminInv'
<1>1. account \in [Person -> {"absent", "invited", "confirmed"}]
  BY DEF AdminInv, AdminTypeOK
<1>2. CASE StartInvite(r)
  <2>1. PICK p \in Person, t \in Tenant, role \in Grantable \cup {PlatformRole}, ok \in BOOLEAN :
          /\ ok => role \in Grantable
          /\ Begin(r, "invite", p, [tenant |-> t, role |-> role], None,
                   IF ok THEN "invite_lookup" ELSE "refused")
          /\ account' = IF ok THEN [account EXCEPT ![p] = "invited"] ELSE account
    <3>1. PICK p \in Person, t \in Tenant, role \in Grantable \cup {PlatformRole} :
            LET ok == role \in Grantable /\ account[p] # "confirmed" IN
            /\ Begin(r, "invite", p, [tenant |-> t, role |-> role], None,
                     IF ok THEN "invite_lookup" ELSE "refused")
            /\ account' = IF ok THEN [account EXCEPT ![p] = "invited"] ELSE account
      BY <1>2 DEF StartInvite
    <3>2. PICK ok \in BOOLEAN : ok = (role \in Grantable /\ account[p] # "confirmed")
      OBVIOUS
    <3>3. QED
      BY <3>1, <3>2
  <2>2. PICK arg, stage, x :
          /\ arg = [tenant |-> t, role |-> role]
          /\ stage = IF ok THEN "invite_lookup" ELSE "refused"
          /\ x = [pc |-> stage, op |-> "invite", on |-> p, arg |-> arg, seen |-> None]
    OBVIOUS
  <2>3. arg \in AdminArg /\ stage \in AdminStage \cup Ended
    BY <2>2 DEF AdminArg, AdminStage, Ended
  <2>4. /\ x.pc = stage /\ x.op = "invite" /\ x.on = p /\ x.arg = arg
        /\ ok => x.arg.role \in Grantable
    BY <2>1, <2>2
  <2>5. AdminFits(x) /\ AdminKnows(x) /\ Blames(x, p)
    BY <2>2, <2>3, <2>4 DEF AdminFits, AdminKnows, Blames
  <2>6. /\ account' \in [Person -> {"absent", "invited", "confirmed"}]
        /\ \A o \in Person \ {p} : account'[o] = account[o]
    BY <1>1, <2>1
  <2>7. Begin(r, "invite", p, arg, None, stage)
    BY <2>1, <2>2
  <2>8. QED
    BY <1>2, <2>2, <2>3, <2>5, <2>6, <2>7, AdminArrives DEF StartInvite
<1>3. CASE StartManage(r)
  <2>1. PICK p \in Person, t \in Tenant, op \in ManageOp :
          \E role \in RoleArgument(op) :
            Begin(r, op, p, [tenant |-> t, role |-> role], None,
                  IF op \in {"assign_tenant", "repair"}
                  THEN IF account[p] # "absent" THEN "check_tenants" ELSE "refused"
                  ELSE IF profile[p] # t \/ role = PlatformRole THEN "refused"
                  ELSE "find_role")
    BY <1>3 DEF StartManage
  <2>2. PICK role \in RoleArgument(op) :
          \E stage :
            /\ stage = IF op \in {"assign_tenant", "repair"}
                       THEN IF account[p] # "absent" THEN "check_tenants" ELSE "refused"
                       ELSE IF profile[p] # t \/ role = PlatformRole THEN "refused"
                       ELSE "find_role"
            /\ Begin(r, op, p, [tenant |-> t, role |-> role], None, stage)
    BY <2>1
  <2>3. PICK stage :
          /\ stage = IF op \in {"assign_tenant", "repair"}
                     THEN IF account[p] # "absent" THEN "check_tenants" ELSE "refused"
                     ELSE IF profile[p] # t \/ role = PlatformRole THEN "refused"
                     ELSE "find_role"
          /\ Begin(r, op, p, [tenant |-> t, role |-> role], None, stage)
    BY <2>2
  <2>4. role \in Grantable \cup {PlatformRole, None}
        /\ (op \in {"assign_role", "change_role"} => role \in Grantable \cup {PlatformRole})
    BY DEF RoleArgument, ManageOp
  <2>5. PICK arg, x : /\ arg = [tenant |-> t, role |-> role]
                      /\ x = [pc |-> stage, op |-> op, on |-> p, arg |-> arg, seen |-> None]
    OBVIOUS
  <2>6. arg \in AdminArg /\ stage \in {"check_tenants", "refused", "find_role"}
        /\ stage \in AdminStage \cup Ended
    BY <2>3, <2>4, <2>5 DEF AdminArg, AdminStage, Ended
  <2>7. x.pc = stage /\ x.op = op /\ x.on = p /\ x.arg = arg /\ x.arg.role = role
        /\ x.arg.tenant = t
    BY <2>5
  <2>8. stage = "find_role" => /\ profile[p] = t
                               /\ op # "revoke_role" => role \in Grantable
    BY <2>3, <2>4 DEF ManageOp
  <2>9. AdminFits(x) /\ AdminKnows(x)
    BY <2>6, <2>7, <2>8 DEF AdminFits, AdminKnows, ManageOp
  <2>10. UNCHANGED <<trail, account, profile, grants, granted>>
    BY <1>3 DEF StartManage, adminRows
  <2>11. Begin(r, op, p, arg, None, stage)
    BY <2>3, <2>5
  <2>12. QED
    BY <1>1, <2>5, <2>6, <2>9, <2>10, <2>11, AdminArrives
<1>4. QED
  BY <1>2, <1>3

\* The invitation, before its grant.
LEMMA InviteKeeps ==
    ASSUME AdminInv, NEW r \in Request, InviteLookup(r) \/ InviteUpsert(r) \/ InviteRole(r)
    PROVE  AdminInv'
<1>1. Underway(r) /\ UNCHANGED <<trail, account, grants, granted>>
  BY DEF InviteLookup, InviteUpsert, InviteRole, At, Underway, Ended, adminRows
<1>2. PICK p \in Person, t \in Tenant : p = req[r].on /\ t = req[r].arg.tenant
  BY <1>1, AdminUnderway
<1>3. PICK stage \in {"invite_upsert", "invite_role", "invite_grant", "audit_invited", "refused"} :
        Goto(r, stage)
  BY DEF InviteLookup, InviteUpsert, InviteRole
<1>4. PICK x \in AdminRequest :
        /\ req' = [req EXCEPT ![r] = x] /\ crossed' = crossed
        /\ x.pc = stage /\ x.op = req[r].op /\ x.on = req[r].on /\ x.arg = req[r].arg
  BY <1>1, <1>3, AdminUnderway, AdminGoto DEF AdminStage, Ended
<1>5. req'[r].pc = stage
  BY <1>1, <1>4, AdminUnderway
<1>6. x.arg.role \in Grantable /\ AdminFits(x)
  <2>1. req[r].pc \in {"invite_lookup", "invite_upsert", "invite_role"}
    BY DEF InviteLookup, InviteUpsert, InviteRole, At
  <2>2. req[r].arg.role \in Grantable
    BY <1>1, <2>1, AdminUnderway DEF AdminFits
  <2>3. QED
    BY <1>1, <1>4, <2>2, AdminUnderway DEF AdminFits
<1>7. CASE InviteLookup(r)
  <2>1. UNCHANGED adminRows /\ Goto(r, IF profile[p] \in {None, t} THEN "invite_upsert" ELSE "refused")
    BY <1>2, <1>7 DEF InviteLookup, Who, Home
  <2>2. (IF profile[p] \in {None, t} THEN "invite_upsert" ELSE "refused") \in AdminStage \cup Ended
    BY DEF AdminStage, Ended
  <2>3. stage = IF profile[p] \in {None, t} THEN "invite_upsert" ELSE "refused"
    BY <1>1, <1>5, <2>1, AdminUnderway DEF Goto, AdminRequest
  <2>4. AdminKnows(x) /\ (Blames(req[r], x.on) => Blames(x, x.on))
    BY <1>2, <1>4, <2>3 DEF AdminKnows, Blames
  <2>5. QED
    BY <1>1, <1>3, <1>4, <1>6, <2>1, <2>4, AdminUnderway, AdminGoes
<1>8. CASE InviteUpsert(r)
  <2>1. At(r, "invite_upsert") /\ profile' = [profile EXCEPT ![p] = t] /\ Goto(r, "invite_role")
    BY <1>2, <1>8 DEF InviteUpsert, Settle, Who, Home
  <2>2. stage = "invite_role"
    BY <1>1, <1>5, <2>1, AdminUnderway DEF Goto, AdminRequest
  <2>3. /\ profile' \in [Person -> Tenant \cup {None}] /\ profile'[p] = t
        /\ \A o \in Person \ {p} : profile'[o] = profile[o]
    BY <1>1, <2>1, AdminUnderway
  <2>4. Quiet(p) => \A g \in grants[p] : g.tenant = t
    <3>1. Quiet(p) => profile[p] \in {None, t}
      BY <1>1, <1>2, <2>1, AdminUnderway DEF AdminKnows, At
    <3>2. \A g \in grants[p] : g.tenant # None
      BY <1>1, AdminUnderway, AdminAssumption DEF Grant
    <3>3. QED
      BY <3>1, <3>2 DEF AdminInv
  <2>5. AdminKnows(x)' /\ (Blames(req[r], p) => Blames(x, p))
    BY <1>2, <1>4, <2>2, <2>3 DEF AdminKnows, Blames
  <2>6. account[p] # "absent" /\ grants'[p] = {} =>
          Blames(x, p) \/ \E q \in Request \ {r} : Blames(req[q], p)
    BY <1>1, <2>5 DEF AdminInv
  <2>7. QED
    BY <1>1, <1>2, <1>3, <1>4, <1>6, <2>3, <2>4, <2>5, <2>6, AdminUnderway, AdminMoves, ZenonT(60)
<1>9. CASE InviteRole(r)
  <2>1. /\ At(r, "invite_role") /\ UNCHANGED adminRows
        /\ Goto(r, IF Held(p, t) = {} THEN "invite_grant"
                   ELSE IF \E g \in Held(p, t) : g.role = req[r].arg.role THEN "audit_invited"
                   ELSE "refused")
    BY <1>2, <1>9 DEF InviteRole, Who, Home, Wanted
  <2>2. stage \in {"invite_grant", "audit_invited", "refused"}
        /\ (stage = "audit_invited" => grants[p] # {})
    BY <1>1, <1>5, <2>1, AdminUnderway DEF Goto, AdminRequest, Held
  <2>3. Quiet(p) => profile[p] = t
    BY <1>1, <1>2, <2>1, AdminUnderway DEF AdminKnows, At
  <2>4. Quiet(x.on) => AdminKnows(x)
    BY <1>2, <1>4, <2>2, <2>3 DEF AdminKnows
  <2>5. grants[x.on] = {} /\ Blames(req[r], x.on) => Blames(x, x.on)
    BY <1>2, <1>4, <2>2 DEF Blames
  <2>6. QED
    BY <1>1, <1>3, <1>4, <1>6, <2>1, <2>4, <2>5, AdminUnderway, AdminGoes
<1>10. QED
  BY <1>7, <1>8, <1>9

\* user_roles_one_active_per_user_tenant; both ways to a grant.
LEMMA InsertKeeps ==
    ASSUME AdminInv, NEW r \in Request, InviteGrant(r) \/ GrantRole(r)
    PROVE  AdminInv'
<1>1. Underway(r) /\ UNCHANGED <<trail, account, profile>> /\ req[r].pc \in {"invite_grant", "grant"}
  BY DEF InviteGrant, GrantRole, At, Underway, Ended
<1>2. PICK p \in Person, t \in Tenant, role \in Grantable :
        p = req[r].on /\ t = req[r].arg.tenant /\ role = req[r].arg.role
  BY <1>1, AdminUnderway DEF AdminFits
<1>3. CASE Held(p, t) # {}
  <2>1. Goto(r, "refused") /\ UNCHANGED adminRows /\ "refused" \in Ended
    BY <1>1, <1>2, <1>3 DEF InviteGrant, GrantRole, Insert, Who, Home, adminRows, Ended
  <2>2. PICK x \in AdminRequest :
          /\ req' = [req EXCEPT ![r] = x] /\ crossed' = crossed
          /\ x.pc = "refused" /\ x.op = req[r].op /\ x.on = req[r].on /\ x.arg = req[r].arg
    BY <1>1, <2>1, AdminUnderway, AdminGoto
  <2>3. AdminFits(x) /\ AdminKnows(x) /\ (Blames(req[r], x.on) => Blames(x, x.on))
    BY <1>1, <2>2, AdminUnderway DEF AdminFits, AdminKnows, Blames
  <2>4. QED
    BY <1>1, <2>1, <2>2, <2>3, AdminUnderway, AdminGoes
<1>4. CASE Held(p, t) = {}
  <2>1. PICK stage \in {"audit_invited", "audit_assigned"}, grant \in Grant :
          /\ grant = [tenant |-> t, role |-> role, at |-> granted + 1]
          /\ Goto(r, stage) /\ granted' = granted + 1
          /\ grants' = [grants EXCEPT ![p] = grants[p] \cup {grant}]
    <3>1. [tenant |-> t, role |-> role, at |-> granted + 1] \in Grant
      BY <1>1, AdminUnderway DEF Grant
    <3>2. QED
      BY <1>1, <1>2, <1>4, <3>1 DEF InviteGrant, GrantRole, Insert, Who, Home, Wanted
  <2>2. PICK x \in AdminRequest :
          /\ req' = [req EXCEPT ![r] = x] /\ crossed' = crossed
          /\ x.pc = stage /\ x.op = req[r].op /\ x.on = req[r].on /\ x.arg = req[r].arg
    BY <1>1, <2>1, AdminUnderway, AdminGoto DEF AdminStage
  <2>3. /\ grants'[p] = grants[p] \cup {grant}
        /\ grants' \in [Person -> SUBSET Grant] /\ granted' \in Nat
        /\ \A o \in Person \ {p} : grants'[o] = grants[o]
    <3>1. grants[p] \cup {grant} \in SUBSET Grant
      BY <1>1, AdminUnderway
    <3>2. QED
      BY <1>1, <2>1, <3>1, AdminUnderway
  <2>4. Quiet(p) => profile[p] = t
    BY <1>1, <1>2, AdminUnderway DEF AdminKnows
  <2>5. Quiet(p) => \A g \in grants'[p] : g.tenant = profile'[p]
    BY <1>1, <2>1, <2>3, <2>4 DEF AdminInv
  <2>6. AdminFits(x) /\ AdminKnows(x)'
    BY <1>1, <2>2, AdminUnderway DEF AdminFits, AdminKnows
  <2>7. grants'[p] # {}
    BY <2>3
  <2>8. QED
    BY <1>1, <1>2, <2>2, <2>3, <2>5, <2>6, <2>7, AdminUnderway, AdminMoves, ZenonT(60)
<1>5. QED
  BY <1>3, <1>4

\* ensureNoCrossTenantActiveRole and the upsert of users.
LEMMA SettleKeeps ==
    ASSUME AdminInv, NEW r \in Request, CheckTenants(r) \/ Upsert(r)
    PROVE  AdminInv'
<1>1. /\ Underway(r) /\ UNCHANGED <<trail, account, grants, granted>>
      /\ req[r].pc \in {"check_tenants", "upsert"}
  BY DEF CheckTenants, Upsert, At, Underway, Ended, adminRows
<1>2. PICK p \in Person, t \in Tenant : p = req[r].on /\ t = req[r].arg.tenant
  BY <1>1, AdminUnderway
<1>3. req[r].op # "invite"
  BY <1>1, AdminUnderway DEF AdminFits
<1>4. CASE CheckTenants(r)
  <2>1. UNCHANGED adminRows /\ \/ Goto(r, "refused")
                               \/ Goto(r, "upsert") /\ \A g \in grants[p] : g.tenant = t
    BY <1>2, <1>4 DEF CheckTenants, Who, Home
  <2>2. PICK stage \in {"refused", "upsert"} :
          Goto(r, stage) /\ (stage = "upsert" => \A g \in grants[p] : g.tenant = t)
    BY <2>1
  <2>3. PICK x \in AdminRequest :
          /\ req' = [req EXCEPT ![r] = x] /\ crossed' = crossed
          /\ x.pc = stage /\ x.op = req[r].op /\ x.on = req[r].on /\ x.arg = req[r].arg
    BY <1>1, <2>2, AdminUnderway, AdminGoto DEF AdminStage, Ended
  <2>4. AdminFits(x) /\ AdminKnows(x) /\ (Blames(req[r], x.on) => Blames(x, x.on))
    BY <1>1, <1>2, <1>3, <2>2, <2>3, AdminUnderway DEF AdminFits, AdminKnows, Blames
  <2>5. QED
    BY <1>1, <2>1, <2>2, <2>3, <2>4, AdminUnderway, AdminGoes
<1>5. CASE Upsert(r)
  <2>1. At(r, "upsert") /\ profile' = [profile EXCEPT ![p] = t]
    BY <1>2, <1>5 DEF Upsert, Settle, Who, Home
  <2>2. PICK stage \in {"audit_activated", "find_role", "refused"} :
          /\ Goto(r, stage)
          /\ stage = "audit_activated" => req[r].op = "assign_tenant"
          /\ stage = "find_role" => req[r].arg.role \in Grantable
    BY <1>5 DEF Upsert, Wanted
  <2>3. PICK x \in AdminRequest :
          /\ req' = [req EXCEPT ![r] = x] /\ crossed' = crossed
          /\ x.pc = stage /\ x.op = req[r].op /\ x.on = req[r].on /\ x.arg = req[r].arg
    BY <1>1, <2>2, AdminUnderway, AdminGoto DEF AdminStage, Ended
  <2>4. /\ profile' \in [Person -> Tenant \cup {None}] /\ profile'[p] = t
        /\ \A o \in Person \ {p} : profile'[o] = profile[o]
    BY <1>1, <2>1, AdminUnderway
  <2>5. Quiet(p) => \A g \in grants'[p] : g.tenant = profile'[p]
    BY <1>1, <1>2, <2>1, <2>4, AdminUnderway DEF AdminKnows, At
  <2>6. AdminFits(x)
    BY <1>1, <1>3, <2>2, <2>3, AdminUnderway DEF AdminFits
  <2>7. AdminKnows(x)' /\ (Blames(req[r], p) => Blames(x, p))
    BY <1>2, <2>2, <2>3, <2>4 DEF AdminKnows, Blames
  <2>8. account[p] # "absent" /\ grants'[p] = {} =>
          Blames(x, p) \/ \E q \in Request \ {r} : Blames(req[q], p)
    BY <1>1, <2>7 DEF AdminInv
  <2>9. QED
    BY <1>1, <1>2, <2>2, <2>3, <2>4, <2>5, <2>6, <2>7, <2>8, AdminUnderway, AdminMoves
<1>6. QED
  BY <1>4, <1>5

\* getActiveRoleForTenant: a role found means the user has one.
LEMMA FindRoleKeeps ==
    ASSUME AdminInv, NEW r \in Request, FindRole(r)
    PROVE  AdminInv'
<1>1. Underway(r) /\ UNCHANGED <<trail, adminRows>> /\ req[r].pc = "find_role"
  BY DEF FindRole, At, Underway, Ended
<1>2. PICK p \in Person, t \in Tenant : p = req[r].on /\ t = req[r].arg.tenant
  BY <1>1, AdminUnderway
<1>3. /\ req[r].op # "invite" /\ (req[r].op # "revoke_role" => req[r].arg.role \in Grantable)
      /\ Quiet(p) => profile[p] = t
  BY <1>1, <1>2, AdminUnderway DEF AdminFits, AdminKnows
<1>4. ASSUME NEW stage \in {"grant", "revoke", "refused", "done", "audit_activated"},
             NEW x \in AdminRequest, req' = [req EXCEPT ![r] = x], crossed' = crossed,
             x.pc = stage, x.op = req[r].op, x.on = req[r].on, x.arg = req[r].arg,
             stage = "grant" => x.op \in {"assign_role", "repair"},
             stage = "revoke" => x.op \in {"revoke_role", "change_role"},
             stage = "audit_activated" => x.op # "change_role",
             stage = "done" => grants[p] # {}
      PROVE  AdminInv'
  <2>1. AdminFits(x)
    BY <1>1, <1>3, <1>4, AdminUnderway DEF AdminFits
  <2>2. Quiet(x.on) => AdminKnows(x)
    BY <1>2, <1>3, <1>4 DEF AdminKnows
  <2>3. grants[x.on] = {} /\ Blames(req[r], x.on) => Blames(x, x.on)
    BY <1>1, <1>2, <1>4 DEF Blames
  <2>4. QED
    BY <1>1, <1>4, <2>1, <2>2, <2>3, AdminUnderway, AdminGoes
<1>5. CASE Held(p, t) = {} /\ Goto(r, IF req[r].op \in {"assign_role", "repair"} THEN "grant"
                                      ELSE "refused")
  <2>1. PICK stage \in {"grant", "refused"} :
          Goto(r, stage) /\ (stage = "grant" => req[r].op \in {"assign_role", "repair"})
    BY <1>5
  <2>2. PICK x \in AdminRequest :
          /\ req' = [req EXCEPT ![r] = x] /\ crossed' = crossed
          /\ x.pc = stage /\ x.op = req[r].op /\ x.on = req[r].on /\ x.arg = req[r].arg
    BY <1>1, <2>1, AdminUnderway, AdminGoto DEF AdminStage, Ended
  <2>3. QED
    BY <1>4, <2>1, <2>2
<1>6. ASSUME NEW g \in Held(p, t),
             Keep(r, g.at,
                  CASE req[r].op = "revoke_role" -> "revoke"
                    [] req[r].op = "assign_role" -> "refused"
                    [] req[r].op = "change_role" ->
                         IF g.role = req[r].arg.role THEN "done" ELSE "revoke"
                    [] OTHER -> IF g.role = req[r].arg.role THEN "audit_activated" ELSE "refused")
      PROVE  AdminInv'
  <2>1. g.at \in Nat /\ grants[p] # {}
    BY <1>1, <1>6, AdminUnderway DEF Held, Grant
  <2>2. PICK stage \in {"revoke", "refused", "done", "audit_activated"} :
          /\ Keep(r, g.at, stage)
          /\ stage = "revoke" => req[r].op \in {"revoke_role", "change_role"}
          /\ stage = "audit_activated" => req[r].op # "change_role"
    <3>1. CASE req[r].op \in {"revoke_role", "assign_role", "change_role"}
      BY <1>6, <3>1
    <3>2. CASE req[r].op \notin {"revoke_role", "assign_role", "change_role"}
      BY <1>6, <3>2
    <3>3. QED
      BY <3>1, <3>2
  <2>3. PICK x \in AdminRequest :
          /\ x = [req[r] EXCEPT !.pc = stage, !.seen = g.at]
          /\ x.pc = stage /\ x.op = req[r].op /\ x.on = req[r].on /\ x.arg = req[r].arg
    <3>1. req[r] \in AdminRequest
      BY <1>1, AdminUnderway
    <3>2. stage \in AdminStage \cup Ended
      BY <2>2 DEF AdminStage, Ended
    <3>3. g.at \in Nat \cup {None}
      BY <2>1
    <3>4. QED
      BY <3>1, <3>2, <3>3, AdminRecord, ZenonT(60)
  <2>4. req' = [req EXCEPT ![r] = x] /\ crossed' = crossed
    BY <2>2, <2>3 DEF Keep
  <2>5. QED
    BY <1>4, <2>1, <2>2, <2>3, <2>4
<1>7. QED
  BY <1>2, <1>5, <1>6 DEF FindRole, Who, Home, Wanted

\* The old role is revoked: whoever does it explains what is missing.
LEMMA RevokeKeeps ==
    ASSUME AdminInv, NEW r \in Request, Revoke(r)
    PROVE  AdminInv'
<1>1. /\ Underway(r) /\ UNCHANGED <<trail, account, profile, granted>> /\ req[r].pc = "revoke"
      /\ Goto(r, "audit_revoked") /\ "audit_revoked" \in AdminStage
  BY DEF Revoke, At, Underway, Ended, AdminStage
<1>2. PICK p \in Person : p = req[r].on
  BY <1>1, AdminUnderway
<1>3. PICK x \in AdminRequest :
        /\ req' = [req EXCEPT ![r] = x] /\ crossed' = crossed
        /\ x.pc = "audit_revoked" /\ x.op = req[r].op /\ x.on = req[r].on /\ x.arg = req[r].arg
  BY <1>1, AdminUnderway, AdminGoto
<1>4. PICK left \in SUBSET grants[p] : grants' = [grants EXCEPT ![p] = left]
  <2>1. PICK left : left = {g \in grants[p] : ~(g.tenant = Home(r) /\ g.at = req[r].seen)}
    OBVIOUS
  <2>2. QED
    BY <1>2, <2>1 DEF Revoke, Who
<1>5. /\ grants'[p] = left /\ grants' \in [Person -> SUBSET Grant]
      /\ \A o \in Person \ {p} : grants'[o] = grants[o]
  BY <1>1, <1>4, AdminUnderway
<1>6. Quiet(p) => \A g \in grants'[p] : g.tenant = profile'[p]
  BY <1>1, <1>4, <1>5 DEF AdminInv
<1>7. AdminFits(x) /\ Blames(x, p)
  BY <1>1, <1>2, <1>3, AdminUnderway DEF AdminFits, Blames
<1>8. Quiet(p) => AdminKnows(x)'
  BY <1>1, <1>2, <1>3, AdminUnderway DEF AdminKnows
<1>9. QED
  BY <1>1, <1>2, <1>3, <1>5, <1>6, <1>7, <1>8, AdminUnderway, AdminMoves

LEMMA AdminAuditKeeps ==
    ASSUME AdminInv, NEW r \in Request, AdminAudit(r) \/ (Kill(r) /\ UNCHANGED adminRows)
    PROVE  AdminInv'
<1>1. /\ Underway(r) /\ UNCHANGED adminRows
      /\ trail' \subseteq {"invited", "revoked", "assigned", "activated"} \X Request
  <2>1. Underway(r) /\ UNCHANGED adminRows
    BY DEF AdminAudit, Emit, Kill, At, Underway, Ended
  <2>2. QED
    BY <2>1, AdminUnderway DEF AdminAudit, Emit, Kill
<1>2. PICK stage \in {"done", "grant", "audit_activated", "killed"} :
        /\ Goto(r, stage)
        /\ stage = "grant" => req[r].pc = "audit_revoked" /\ req[r].op = "change_role"
        /\ stage = "audit_activated" => req[r].op = "repair"
        /\ stage = "done" =>
             \/ req[r].pc \in {"audit_invited", "audit_assigned", "audit_activated"}
             \/ req[r].pc = "audit_revoked" /\ req[r].op # "change_role"
  <2>1. CASE AdminAudit(r)
    BY <2>1 DEF AdminAudit, Emit, At
  <2>2. CASE Kill(r)
    BY <2>2 DEF Kill
  <2>3. QED
    BY <2>1, <2>2
<1>3. PICK x \in AdminRequest :
        /\ req' = [req EXCEPT ![r] = x] /\ crossed' = crossed
        /\ x.pc = stage /\ x.op = req[r].op /\ x.on = req[r].on /\ x.arg = req[r].arg
  BY <1>1, <1>2, AdminUnderway, AdminGoto DEF AdminStage, Ended
<1>4. AdminFits(x)
  BY <1>1, <1>2, <1>3, AdminUnderway DEF AdminFits
<1>5. Quiet(x.on) => AdminKnows(x)
  BY <1>1, <1>2, <1>3, AdminUnderway DEF AdminKnows
<1>6. Blames(req[r], x.on) => Blames(x, x.on)
  BY <1>1, <1>2, <1>3, AdminUnderway DEF AdminFits, Blames
<1>7. QED
  BY <1>1, <1>3, <1>4, <1>5, <1>6, AdminGoes

LEMMA AdminStepKeeps ==
    ASSUME AdminInv, [AdminNext]_<<calls, adminRows>>
    PROVE  AdminInv'
<1>1. CASE UNCHANGED <<calls, adminRows>>
  BY <1>1 DEF AdminInv, AdminTypeOK, Met, Underway, Quiet, AdminFits, AdminKnows, Blames,
              calls, adminRows
<1>2. ASSUME NEW p \in Person, Confirm(p) PROVE AdminInv'
  <2>1. /\ account' \in [Person -> {"absent", "invited", "confirmed"}]
        /\ \A o \in Person : account'[o] # "absent" => account[o] # "absent"
    BY <1>2 DEF Confirm, AdminInv, AdminTypeOK
  <2>2. QED
    BY <1>2, <2>1 DEF Confirm, AdminInv, AdminTypeOK, Met, Underway, Quiet, AdminFits, AdminKnows,
                      Blames, calls
<1>3. CASE AdminNext
  <2>1. ASSUME NEW r \in Request, StartInvite(r) \/ StartManage(r) PROVE AdminInv'
    BY <2>1, AdminStarts
  <2>2. ASSUME NEW r \in Request, InviteLookup(r) \/ InviteUpsert(r) \/ InviteRole(r) PROVE AdminInv'
    BY <2>2, InviteKeeps
  <2>3. ASSUME NEW r \in Request, InviteGrant(r) \/ GrantRole(r) PROVE AdminInv'
    BY <2>3, InsertKeeps
  <2>4. ASSUME NEW r \in Request, CheckTenants(r) \/ Upsert(r) PROVE AdminInv'
    BY <2>4, SettleKeeps
  <2>5. ASSUME NEW r \in Request, FindRole(r) PROVE AdminInv'
    BY <2>5, FindRoleKeeps
  <2>6. ASSUME NEW r \in Request, Revoke(r) PROVE AdminInv'
    BY <2>6, RevokeKeeps
  <2>7. ASSUME NEW r \in Request, AdminAudit(r) \/ (Kill(r) /\ UNCHANGED adminRows) PROVE AdminInv'
    BY <2>7, AdminAuditKeeps
  <2>8. QED
    BY <1>2, <1>3, <2>1, <2>2, <2>3, <2>4, <2>5, <2>6, <2>7 DEF AdminNext
<1>4. QED
  BY <1>1, <1>3

LEMMA InitAdmin == RequestsInit /\ AdminInit => AdminInv
<1>1. SUFFICES ASSUME RequestsInit, AdminInit PROVE AdminInv
  OBVIOUS
<1>2. /\ req \in [Request -> AdminRequest] /\ crossed = {}
      /\ \A r \in Request : req[r].pc = "idle" /\ req[r].on = None /\ ~Underway(r)
  BY <1>1 DEF RequestsInit, Idle, AdminRequest, Underway
<1>3. PICK t \in Tenant, role \in Grantable :
        /\ profile = [p \in Person |-> IF account[p] = "absent" THEN None ELSE t]
        /\ grants = [p \in Person |-> IF account[p] = "absent" THEN {}
                                      ELSE {[tenant |-> t, role |-> role, at |-> 0]}]
  BY <1>1 DEF AdminInit
<1>4. [tenant |-> t, role |-> role, at |-> 0] \in Grant
  BY DEF Grant
<1>5. AdminTypeOK
  BY <1>1, <1>2, <1>3, <1>4 DEF RequestsInit, AdminInit, AdminTypeOK
<1>6. ASSUME NEW p \in Person
      PROVE  /\ \A g \in grants[p] : g.tenant = profile[p]
             /\ account[p] # "absent" => grants[p] # {}
  <2>1. PICK first \in Grant : first = [tenant |-> t, role |-> role, at |-> 0]
    BY <1>4
  <2>2. first.tenant = t
    BY <2>1
  <2>3. CASE account[p] = "absent"
    BY <1>3, <2>3
  <2>4. CASE account[p] # "absent"
    <3>1. profile[p] = t /\ grants[p] = {first}
      BY <1>3, <2>1, <2>4
    <3>2. QED
      BY <2>2, <3>1
  <2>5. QED
    BY <2>3, <2>4
<1>7. \A r \in Request : AdminFits(req[r])
  BY <1>2 DEF AdminFits
<1>8. QED
  BY <1>2, <1>5, <1>6, <1>7 DEF AdminInv, Met

\* Whoever is shown as complete has roles of that tenant only, or several were at work.
LEMMA AdminExplains ==
    ASSUME AdminInv
    PROVE  ProvisioningExplained
<1>1. CompleteMeansSignedIn
  <2>1. SUFFICES ASSUME NEW p \in Person, NEW t \in Tenant, ListedAs(p, t) = "complete",
                        ~ \E r \in crossed : Who(r) = p,
                        NEW g \in Claims(p)
                 PROVE  g.tenant = t
    BY DEF CompleteMeansSignedIn
  <2>2. profile[p] = t
    BY <2>1 DEF ListedAs
  <2>3. QED
    BY <2>1, <2>2 DEF AdminInv, Quiet, Who, Claims
<1>2. RoleLossExplained
  BY DEF RoleLossExplained, AdminInv, Blames, Who, At
<1>3. QED
  BY <1>1, <1>2 DEF ProvisioningExplained
-----------------------------------------------------------------------------
\* Only one area is at work; the others are as they were at the start.
BackOfficeInv ==
    /\ area \in Area
    /\ area = "users" => AdminInv
    /\ area # "users" => account = [p \in Person |-> "absent"]
    /\ area = "sar" => SarInv /\ CountsInv /\ VersionsInv /\ MarkedInv
    /\ area # "sar" => sar = [p \in Report |-> None]
    /\ area = "workflows" => WorkflowInv
    /\ area = "hits" => HitsInv
    /\ area # "hits" => hitStatus = [h \in Hit |-> "pending"]
    /\ area = "records" => VersionedInv /\ SettingsInv
    /\ area # "records" => rows = {}
    /\ area = "documents" => DocumentsInv
    /\ area # "documents" => doc = [d \in Doc |-> None]

LEMMA InitBackOffice == BackOfficeInit => BackOfficeInv
<1>1. SUFFICES ASSUME BackOfficeInit PROVE BackOfficeInv
  OBVIOUS
<1>2. SarInv /\ CountsInv /\ VersionsInv /\ MarkedInv
  BY <1>1, InitSar, InitCounts, InitMarked DEF BackOfficeInit
<1>3. area # "sar" => sar = [p \in Report |-> None]
  BY <1>1 DEF BackOfficeInit, SarInit
<1>4. WorkflowInv
  <2>1. req \in [Request -> WorkflowRequest] /\ \A r \in Request : req[r].pc = "idle"
    BY <1>1 DEF BackOfficeInit, RequestsInit, Idle, WorkflowRequest
  <2>2. WorkflowTypeOK
    BY <1>1, <2>1, WorkflowAssumption
       DEF BackOfficeInit, RequestsInit, WorkflowInit, WorkflowTypeOK
  <2>3. QED
    BY <2>1, <2>2 DEF WorkflowInv, At
<1>5. HitsInv
  <2>1. Idle \in HitRequest
    BY DEF Idle, HitRequest
  <2>2. HitsTypeOK /\ \A r \in Request : req[r].pc = "idle"
    BY <1>1, <2>1 DEF BackOfficeInit, RequestsInit, Idle, HitsInit, HitsTypeOK
  <2>3. StatusIsARecordedResolution
    BY <1>1 DEF BackOfficeInit, HitsInit, StatusIsARecordedResolution
  <2>4. QED
    BY <2>2, <2>3 DEF HitsInv, At
<1>6. hitStatus = [h \in Hit |-> "pending"]
  BY <1>1 DEF BackOfficeInit, HitsInit
<1>7. VersionedInv /\ SettingsInv
  BY <1>1, InitVersioned, InitSettings DEF BackOfficeInit
<1>8. DocumentsInv /\ doc = [d \in Doc |-> None]
  BY <1>1, InitDocuments DEF BackOfficeInit, DocumentsInit
<1>9. AdminInv
  BY <1>1, InitAdmin DEF BackOfficeInit
<1>10. /\ area \in Area
       /\ area # "users" => account = [p \in Person |-> "absent"]
       /\ area # "records" => rows = {}
  BY <1>1 DEF BackOfficeInit
<1>11. QED
  BY <1>2, <1>3, <1>4, <1>5, <1>6, <1>7, <1>8, <1>9, <1>10 DEF BackOfficeInv

\* What a step of the back office is for each area proved about.
LEMMA AreaSteps ==
    ASSUME [BackOfficeNext]_backOffice
    PROVE  /\ area' = area
           /\ area = "users" => [AdminNext]_<<calls, adminRows>>
           /\ area # "users" => account' = account
           /\ area = "sar" => [SarNext]_<<calls, sarRows>>
           /\ area # "sar" => sar' = sar
           /\ area = "workflows" => [WorkflowNext]_<<calls, workflowRows>>
           /\ area # "workflows" => UNCHANGED workflowRows
           /\ area = "hits" => [HitsNext]_<<calls, hitRows>>
           /\ area # "hits" => hitStatus' = hitStatus
           /\ area = "records" => [VersionedNext]_<<calls, rows>>
           /\ area # "records" => rows' = rows
           /\ area = "documents" => [DocumentsNext]_<<calls, documentRows>>
           /\ area # "documents" => doc' = doc
  BY DEF BackOfficeNext, backOffice, adminRows, sarRows, hitRows, documentRows

LEMMA BackOfficeInvariant == BackOfficeSpec => []BackOfficeInv
<1>1. ASSUME BackOfficeInv, [BackOfficeNext]_backOffice PROVE BackOfficeInv'
  <2>1. area = "sar" => SarInv' /\ CountsInv' /\ VersionsInv' /\ MarkedInv'
    BY <1>1, AreaSteps, SarStepKeeps, SarStepCounts, SarStepMarks DEF BackOfficeInv
  <2>2. area = "workflows" => WorkflowInv'
    BY <1>1, AreaSteps, WorkflowStepKeeps DEF BackOfficeInv
  <2>3. area = "hits" => HitsInv'
    BY <1>1, AreaSteps, HitsStepKeeps DEF BackOfficeInv
  <2>4. area = "records" => VersionedInv' /\ SettingsInv'
    BY <1>1, AreaSteps, VersionedStepKeeps, SettingsStep DEF BackOfficeInv
  <2>5. area = "documents" => DocumentsInv'
    BY <1>1, AreaSteps, DocumentsStepKeeps DEF BackOfficeInv
  <2>6. area = "users" => AdminInv'
    BY <1>1, AreaSteps, AdminStepKeeps DEF BackOfficeInv
  <2>7. QED
    BY <1>1, <2>1, <2>2, <2>3, <2>4, <2>5, <2>6, AreaSteps DEF BackOfficeInv
<1>2. QED
  BY <1>1, InitBackOffice, PTL DEF BackOfficeSpec

\* Each area keeps to the values its rows and its requests may have.
THEOREM BackOfficeTypes == BackOfficeSpec => []BackOfficeTypeOK
<1>1. BackOfficeInv => BackOfficeTypeOK
  BY DEF BackOfficeInv, BackOfficeTypeOK, Area, AdminInv, HitsInv, SarInv, VersionedInv,
         WorkflowInv, DocumentsInv
<1>2. QED
  BY <1>1, BackOfficeInvariant, PTL

\* generate_sar_reference and createSarDraft: the counter of a year hands out 1 twice, and
\* yet, however many reports are drafted at once and whatever is cut off, the unique index of
\* the references refuses at most one of them while the numbers fit into the reference;
\* there is no report at all where callers may not write the counter.  exportSarAsXml: the
\* version counts the exports of a report on which no two requests were at work at once.
THEOREM NumbersCountReports == BackOfficeSpec => []SarNumbersCount
<1>1. BackOfficeInv => SarNumbersCount
  <2>1. SUFFICES ASSUME BackOfficeInv, area # "sar" PROVE SarNumbersCount
    BY CountsCount DEF BackOfficeInv
  <2>2. ASSUME NEW r \in Request PROVE req[r].op # "create"
    <3>1. CASE area = "users"
      BY <2>1, <3>1, SarNoneAssumption
         DEF BackOfficeInv, AdminInv, AdminTypeOK, AdminRequest, ManageOp
    <3>2. CASE area = "hits"
      BY <2>1, <3>2, SarNoneAssumption DEF BackOfficeInv, HitsInv, HitsTypeOK, HitRequest
    <3>3. CASE area = "records"
      BY <2>1, <3>3, SarNoneAssumption
         DEF BackOfficeInv, VersionedInv, VersionedTypeOK, VersionRequest
    <3>4. CASE area = "workflows"
      BY <2>1, <3>4, SarNoneAssumption
         DEF BackOfficeInv, WorkflowInv, WorkflowTypeOK, WorkflowRequest
    <3>5. CASE area = "documents"
      BY <2>1, <3>5, SarNoneAssumption
         DEF BackOfficeInv, DocumentsInv, DocumentsTypeOK, DocumentRequest
    <3>6. QED
      BY <2>1, <3>1, <3>2, <3>3, <3>4, <3>5 DEF BackOfficeInv, Area
  <2>3. Clashes = {}
    BY <2>2 DEF Clashes
  <2>4. OneDraftRefusedPerYear
    BY <2>3, FS_EmptySet DEF OneDraftRefusedPerYear
  <2>5. VersionCountsExports
    BY <2>1 DEF BackOfficeInv, VersionCountsExports
  <2>6. NoReportWithoutCounter
    BY <2>1 DEF BackOfficeInv, NoReportWithoutCounter
  <2>7. QED
    BY <2>4, <2>5, <2>6 DEF SarNumbersCount
<1>2. QED
  BY <1>1, BackOfficeInvariant, PTL

\* saveTenantConfig and the EDD form: a save starts from what its form was opened with, so
\* a version can lack what the one before it holds only if both were in hand at once, or
\* its form had been filled with the defaults.
THEOREM SettingsAreKept == BackOfficeSpec => []SettingsKeptUnlessCrossed
<1>1. BackOfficeInv => SettingsKeptUnlessCrossed
  <2>1. CASE area = "records"
    BY <2>1 DEF BackOfficeInv, SettingsInv
  <2>2. CASE area # "records"
    BY <2>2 DEF BackOfficeInv, SettingsKeptUnlessCrossed
  <2>3. QED
    BY <2>1, <2>2
<1>2. QED
  BY <1>1, BackOfficeInvariant, PTL

\* inviteUser and manageUserAccess: a user listed as complete signs in to that tenant unless
\* two requests worked on the user at once, and a user is without a role only by a request
\* that revoked it or got no further.
THEOREM AccountsExplained == BackOfficeSpec => []ProvisioningExplained
<1>1. BackOfficeInv => ProvisioningExplained
  <2>1. CASE area = "users"
    BY <2>1, AdminExplains DEF BackOfficeInv
  <2>2. CASE area # "users"
    <3>1. BackOfficeInv => \A p \in Person : account[p] = "absent"
      BY <2>2 DEF BackOfficeInv
    <3>2. QED
      BY <3>1 DEF ProvisioningExplained, CompleteMeansSignedIn, RoleLossExplained, ListedAs
  <2>3. QED
    BY <2>1, <2>2
<1>2. QED
  BY <1>1, BackOfficeInvariant, PTL

\* submitSarReport asks for an export, exportSarAsXml for an accepted text: whatever the
\* order of the calls of any number of requests, a filed report has the hash of a text that
\* was accepted; one whose status says "submitted" was filed, or patched to say so.
THEOREM NothingFiledUnvalidated == BackOfficeSpec => []FiledWasValidated
<1>1. BackOfficeInv => FiledWasValidated
  <2>1. SUFFICES ASSUME BackOfficeInv, NEW p \in Report, sar[p] # None
                 PROVE  /\ sar[p].filed => sar[p].hash # None /\ sar[p].hash.valid
                        /\ Marked(p)
    BY DEF FiledWasValidated, Marked
  <2>2. area = "sar"
    BY <2>1 DEF BackOfficeInv
  <2>3. QED
    BY <2>1, <2>2 DEF BackOfficeInv, SarInv, Sound, MarkedInv
<1>2. QED
  BY <1>1, BackOfficeInvariant, PTL

\* assert_workflow_ack: whatever the handlers read before, no definition of a tenant is
\* switched on while no acknowledgement is valid.
THEOREM NoSwitchWithoutAck == BackOfficeSpec => SwitchedOnWithAck
<1>1. ASSUME BackOfficeInv, [BackOfficeNext]_backOffice
      PROVE  [\A w \in TenantWorkflow :
                ~active[w] /\ active'[w] => acknowledged[w] > 0]_workflowRows
  <2>1. CASE area = "workflows"
    BY <1>1, <2>1, AreaSteps, SwitchAsks DEF BackOfficeInv
  <2>2. CASE area # "workflows"
    BY <1>1, <2>2, AreaSteps
  <2>3. QED
    BY <2>1, <2>2
<1>2. QED
  BY <1>1, BackOfficeInvariant, PTL DEF BackOfficeSpec, SwitchedOnWithAck

\* resolveHit: however many analysts resolve a hit at once, its status is a resolution
\* that somebody recorded first.
THEOREM StatusWasResolved == BackOfficeSpec => []StatusIsARecordedResolution
<1>1. BackOfficeInv => StatusIsARecordedResolution
  <2>1. CASE area = "hits"
    BY <2>1 DEF BackOfficeInv, HitsInv
  <2>2. CASE area # "hits"
    BY <2>2 DEF BackOfficeInv, StatusIsARecordedResolution
  <2>3. QED
    BY <2>1, <2>2
<1>2. QED
  BY <1>1, BackOfficeInvariant, PTL

\* documents.service.ts and compute-document-hash: with any number of uploads, confirmations,
\* verdicts and hash jobs, cut off anywhere, a hash is of an object that exists and a status
\* is one that some request wrote, and both left their trace.
THEOREM DocumentsAccountedFor == BackOfficeSpec => []DocumentHistory
<1>1. BackOfficeInv => DocumentHistory
  <2>1. CASE area = "documents"
    BY <2>1, AccountedHistory DEF BackOfficeInv
  <2>2. CASE area # "documents"
    BY <2>2 DEF BackOfficeInv, DocumentHistory, HashHasHistory, StatusHasHistory, Exists
  <2>3. QED
    BY <2>1, <2>2
<1>2. QED
  BY <1>1, BackOfficeInvariant, PTL

LEMMA RegisterStarts == BackOfficeInit => Register!Init
<1>1. BackOfficeInit => Book \in [Series -> {<<>>, <<None>>}]
  BY InitBook DEF BackOfficeInit
<1>2. QED
  BY <1>1 DEF Register!Init, Book

LEMMA RegisterSteps ==
    BackOfficeInv /\ [BackOfficeNext]_backOffice => [Register!Enter]_Book
<1>1. SUFFICES ASSUME BackOfficeInv, [BackOfficeNext]_backOffice
               PROVE  \/ Book' = Book
                      \/ \E s \in Series, r \in Request : Book' = [Book EXCEPT ![s] = Append(@, r)]
  BY DEF Register!Enter, Book
<1>2. CASE area = "records"
  BY <1>1, <1>2, AreaSteps, VersionedStepEnters DEF BackOfficeInv
<1>3. CASE area # "records"
  BY <1>1, <1>3, AreaSteps, BookKept
<1>4. QED
  BY <1>2, <1>3

\* The configuration, the EDD records and the cloned definitions: for any number of saves
\* that read a number and insert it later, every series is an append-only register.
THEOREM TablesAreRegisters == BackOfficeSpec => AppendOnly
<1>1. BackOfficeSpec => Register!Init
  BY RegisterStarts DEF BackOfficeSpec
<1>2. BackOfficeSpec => []BackOfficeInv /\ [][BackOfficeNext]_backOffice
  BY BackOfficeInvariant, PTL DEF BackOfficeSpec
<1>3. []BackOfficeInv /\ [][BackOfficeNext]_backOffice => [][Register!Enter]_Book
  BY RegisterSteps, PTL
<1>4. QED
  BY <1>1, <1>2, <1>3, PTL DEF AppendOnly, Register!Spec, Book
=============================================================================
