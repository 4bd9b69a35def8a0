------------------------- MODULE CaseReview_proofs -------------------------
(***************************************************************************)
(* Theorems about CaseReview, for any cases, users, requests and callers:  *)
(* its type invariant, the agreement of status, timeline and emails with   *)
(* the approvals table, and the refinement of DecisionRegister.            *)
(***************************************************************************)
EXTENDS CaseReview, TLAPS

RequestState == [pc : {"idle"} \cup Running \cup Ended, op : Op, case : Case \cup {None},
                 arg : Decision \cup Flag \cup User \cup {None}]

\* The stages of a decision after its approval was stored, and of an email.
Recorded == {"close_case", "decision_event", "audit_decision", "lookup_case"}
Mailing == {"send_mail", "record_notice", "audit_notice"}

\* What the stage of a request tells of its operation.
Shape(r) ==
    /\ req[r].pc # "idle" => req[r].case \in Case
    /\ req[r].pc \in Recorded \cup {"insert_approval"} => req[r].op = "decide"
    /\ req[r].pc \in {"set_pending", "rai_event", "audit_rai"} => req[r].op = "rai"
    /\ req[r].pc = "set_assignee" => req[r].op = "assign"
    /\ req[r].pc \in Mailing => req[r].op \in {"decide", "rai"}
    /\ req[r].op = "decide" => req[r].arg \in Decision
    /\ req[r].op = "assign" => req[r].arg \in User \cup {None}

Announcing(r) == req[r].pc \in Mailing /\ req[r].op = "decide"

\* A request past the insert is the author of the decision on its case.
OnRecord(r) ==
    req[r].pc \in Recorded \/ Announcing(r)
      => approval[req[r].case] = [decision |-> req[r].arg, by |-> r]

\* What a request has told by the time it reaches a stage.
Written(r) ==
    /\ req[r].pc \in {"audit_decision", "lookup_case"} \/ Announcing(r)
         => <<req[r].arg, r>> \in events
    /\ req[r].pc = "lookup_case" \/ Announcing(r) => <<req[r].arg, r>> \in trail
    /\ req[r].pc = "audit_rai" \/ (req[r].pc \in Mailing /\ req[r].op = "rai")
         => <<"request_additional_info", r>> \in events
    /\ req[r].pc \in Mailing /\ req[r].op = "rai"
         => <<"request_additional_info", r>> \in trail

\* A request that told of a decision is its author; one that has not begun told nothing.
Told(r) ==
    /\ \A d \in Decision : <<d, r>> \in events \cup trail
                             => approval[req[r].case] = [decision |-> d, by |-> r]
    /\ req[r].pc = "idle" => \A k \in AuditType : <<k, r>> \notin events \cup trail

Sound(r) == Shape(r) /\ OnRecord(r) /\ Written(r) /\ Told(r)

\* The inductive invariant.
ReviewInv == TypeOK /\ StatusNeedsApproval /\ MailAfterRecord /\ \A r \in Request : Sound(r)

\* A decision on record is never replaced.
Frozen == \A c \in Case : approval[c].decision # None => approval'[c] = approval[c]

\* The step is r's: only r moves, and only r writes to the timeline and the log.
By(r) ==
    /\ \A q \in Request \ {r} : req'[q] = req[q]
    /\ events \subseteq events' /\ trail \subseteq trail'
    /\ \A e \in (events' \ events) \cup (trail' \ trail) : e[2] = r
-----------------------------------------------------------------------------
\* The other requests are as sound as before.
LEMMA OthersSound ==
    ASSUME ReviewInv, NEW r \in Request, By(r), Frozen, NEW q \in Request, q # r
    PROVE  Sound(q)'
<1>1. req'[q] = req[q] /\ Sound(q)
  BY DEF By, ReviewInv
<1>2. \A k : /\ <<k, q>> \in events' <=> <<k, q>> \in events
             /\ <<k, q>> \in trail' <=> <<k, q>> \in trail
  BY DEF By
<1>3. Shape(q)' /\ Written(q)'
  BY <1>1, <1>2 DEF Sound, Shape, Written, Announcing
<1>4. \A d \in Decision : approval[req[q].case] = [decision |-> d, by |-> q] /\ req[q].case \in Case
        => approval'[req[q].case] = [decision |-> d, by |-> q]
  BY CaseReviewAssumption DEF Frozen
<1>5. OnRecord(q)'
  BY <1>1, <1>4 DEF Sound, Shape, OnRecord, Announcing, Recorded, Mailing
<1>6. Told(q)'
  <2>1. ASSUME NEW d \in Decision, <<d, q>> \in events' \cup trail'
        PROVE  approval'[req'[q].case] = [decision |-> d, by |-> q]
    <3>1. <<d, q>> \in events \cup trail
      BY <2>1, <1>2
    <3>2. req[q].pc # "idle"
      BY <3>1, <1>1 DEF Sound, Told, AuditType, Kind
    <3>3. QED
      BY <3>1, <3>2, <1>1, <1>4 DEF Sound, Told, Shape
  <2>2. QED
    BY <2>1, <1>1, <1>2 DEF Sound, Told
<1>7. QED
  BY <1>3, <1>5, <1>6 DEF Sound

\* Emails that were sent keep the record they rest on.
LEMMA MailKept ==
    ASSUME ReviewInv, NEW r \in Request, By(r), Frozen, req[r].pc # "idle" => req'[r].case = req[r].case,
           NEW m \in mail
    PROVE  IF m.kind \in Decision
           THEN approval'[m.case].decision = m.kind
                /\ <<m.kind, approval'[m.case].by>> \in events' \cap trail'
           ELSE \E q \in Request : /\ Caller[q] = m.actor /\ req'[q].case = m.case
                                   /\ <<"request_additional_info", q>> \in events' \cap trail'
<1>1. m.case \in Case
  BY DEF ReviewInv, TypeOK
<1>2. CASE m.kind \in Decision
  <2>1. approval[m.case].decision = m.kind /\ <<m.kind, approval[m.case].by>> \in events \cap trail
    BY <1>2 DEF ReviewInv, MailAfterRecord
  <2>2. approval'[m.case] = approval[m.case]
    BY <2>1, <1>1, <1>2, CaseReviewAssumption DEF Frozen
  <2>3. QED
    BY <2>1, <2>2, <1>2 DEF By
<1>3. CASE m.kind \notin Decision
  <2>1. PICK q \in Request : /\ Caller[q] = m.actor /\ req[q].case = m.case
                             /\ <<"request_additional_info", q>> \in events \cap trail
    BY <1>3 DEF ReviewInv, MailAfterRecord
  <2>2. req[q].pc # "idle"
    BY <2>1 DEF ReviewInv, Sound, Told, AuditType, Kind
  <2>3. req'[q].case = req[q].case
    BY <2>2 DEF By
  <2>4. QED
    BY <2>1, <2>3, <1>3 DEF By
<1>4. QED
  BY <1>2, <1>3

\* A step that leaves emails and decisions alone keeps the invariant if it keeps the
\* types, if its own request stays sound, and if the status it writes is on record.
LEMMA StepKeeps ==
    ASSUME ReviewInv, NEW r \in Request, By(r), Frozen, TypeOK', Sound(r)',
           StatusNeedsApproval', req[r].pc # "idle" => req'[r].case = req[r].case,
           UNCHANGED mail
    PROVE  ReviewInv'
<1>1. MailAfterRecord'
  BY MailKept DEF MailAfterRecord
<1>2. \A q \in Request : Sound(q)'
  BY OthersSound
<1>3. QED
  BY <1>1, <1>2 DEF ReviewInv
-----------------------------------------------------------------------------
\* Where a request stands after Goto, and after Begin.
LEMMA GotoMoves ==
    ASSUME TypeOK, NEW r \in Request, NEW stage \in Running \cup Ended, Goto(r, stage)
    PROVE  /\ req' \in [Request -> RequestState]
           /\ \A q \in Request \ {r} : req'[q] = req[q]
           /\ req'[r].pc = stage /\ req'[r].op = req[r].op
           /\ req'[r].case = req[r].case /\ req'[r].arg = req[r].arg
<1>1. req \in [Request -> RequestState] /\ req[r] \in RequestState
  BY DEF TypeOK, RequestState
<1>2. [req[r] EXCEPT !.pc = stage] \in RequestState
  BY <1>1 DEF RequestState
<1>3. req' = [req EXCEPT ![r] = [req[r] EXCEPT !.pc = stage]]
  BY DEF Goto
<1>4. QED
  BY <1>1, <1>2, <1>3 DEF RequestState

LEMMA BeginMoves ==
    ASSUME TypeOK, NEW r \in Request, NEW op \in Op, NEW c \in Case,
           NEW arg \in Decision \cup Flag \cup User \cup {None},
           NEW stage \in Running \cup Ended, Begin(r, op, c, arg, stage)
    PROVE  /\ req' \in [Request -> RequestState]
           /\ \A q \in Request \ {r} : req'[q] = req[q]
           /\ req[r].pc = "idle"
           /\ req'[r] = [pc |-> stage, op |-> op, case |-> c, arg |-> arg]
<1>1. req \in [Request -> RequestState]
  BY DEF TypeOK, RequestState
<1>2. [pc |-> stage, op |-> op, case |-> c, arg |-> arg] \in RequestState
  BY DEF RequestState
<1>3. req' = [req EXCEPT ![r] = [pc |-> stage, op |-> op, case |-> c, arg |-> arg]] /\ req[r].pc = "idle"
  BY DEF Begin, At
<1>4. QED
  BY <1>1, <1>2, <1>3

\* A new request is sound: it has told nothing, and holds no decision.
LEMMA BegunSound ==
    ASSUME ReviewInv, NEW r \in Request, NEW op \in Op, NEW c \in Case,
           NEW arg \in Decision \cup Flag \cup User \cup {None},
           NEW stage \in (Running \cup Ended) \ (Recorded \cup Mailing \cup {"audit_rai", "rai_event"}),
           Begin(r, op, c, arg, stage),
           stage = "insert_approval" => op = "decide",
           stage = "set_pending" => op = "rai", stage = "set_assignee" => op = "assign",
           op = "decide" => arg \in Decision, op = "assign" => arg \in User \cup {None},
           UNCHANGED <<events, trail>>
    PROVE  Sound(r)'
<1>1. /\ req[r].pc = "idle"
      /\ req'[r] = [pc |-> stage, op |-> op, case |-> c, arg |-> arg]
  BY BeginMoves DEF ReviewInv
<1>2. \A k \in AuditType : <<k, r>> \notin events \cup trail
  BY <1>1 DEF ReviewInv, Sound, Told
<1>3. stage # "idle"
  BY DEF Running, Ended
<1>4. Shape(r)'
  BY <1>1, <1>3 DEF Shape, Recorded, Mailing
<1>5. OnRecord(r)' /\ Written(r)'
  BY <1>1 DEF OnRecord, Written, Announcing, Recorded, Mailing
<1>6. Told(r)'
  BY <1>1, <1>2, <1>3 DEF Told, AuditType, Kind
<1>7. QED
  BY <1>4, <1>5, <1>6 DEF Sound

\* A step of a request that starts, and changes no row, keeps the invariant.
LEMMA BeginKeeps ==
    ASSUME ReviewInv, NEW r \in Request, NEW op \in Op, NEW c \in Case,
           NEW arg \in Decision \cup Flag \cup User \cup {None},
           NEW stage \in (Running \cup Ended) \ (Recorded \cup Mailing \cup {"audit_rai", "rai_event"}),
           Begin(r, op, c, arg, stage),
           stage = "insert_approval" => op = "decide",
           stage = "set_pending" => op = "rai", stage = "set_assignee" => op = "assign",
           op = "decide" => arg \in Decision, op = "assign" => arg \in User \cup {None},
           UNCHANGED <<rows, approval, events, trail, mail, notices>>
    PROVE  ReviewInv'
<1>1. Sound(r)'
  BY BegunSound
<1>2. By(r) /\ Frozen
  BY BeginMoves DEF ReviewInv, By, Frozen
<1>3. TypeOK'
  BY BeginMoves DEF ReviewInv, TypeOK, rows, RequestState
<1>4. StatusNeedsApproval'
  BY DEF ReviewInv, StatusNeedsApproval, rows
<1>5. req[r].pc = "idle"
  BY DEF Begin, At
<1>6. QED
  BY <1>1, <1>2, <1>3, <1>4, <1>5, StepKeeps

LEMMA LookupKeeps ==
    ASSUME ReviewInv, NEW r \in Request,
           NEW op \in Op, NEW stage \in Running, Lookup(r, op, stage),
           <<op, stage>> \in {<<"rai", "set_pending">>, <<"note", "note_event">>,
                             <<"assign", "set_assignee">>, <<"flag", "set_flag">>}
    PROVE  ReviewInv'
<1>1. PICK c \in Case, arg \in CASE op = "assign" -> User \cup {None}
                                  [] op = "flag"   -> Flag
                                  [] OTHER         -> {None} :
         Begin(r, op, c, arg, IF Sees(r, c) THEN stage ELSE "not_found")
  BY DEF Lookup
<1>2. /\ arg \in Decision \cup Flag \cup User \cup {None}
      /\ op # "decide" /\ (op = "assign" => arg \in User \cup {None})
  <2>1. CASE op = "assign"
    BY <1>1, <2>1
  <2>2. CASE op = "flag"
    BY <1>1, <2>2
  <2>3. CASE op \in {"rai", "note"}
    BY <1>1, <2>3
  <2>4. QED
    BY <2>1, <2>2, <2>3
<1>3. DEFINE to == IF Sees(r, c) THEN stage ELSE "not_found"
<1>4. /\ to \in (Running \cup Ended) \ (Recorded \cup Mailing \cup {"audit_rai", "rai_event"})
      /\ to # "insert_approval" /\ (to = "set_pending" => op = "rai")
      /\ (to = "set_assignee" => op = "assign")
  BY DEF Running, Ended, Recorded, Mailing
<1>5. Begin(r, op, c, arg, to)
  BY <1>1
<1>6. UNCHANGED <<rows, approval, events, trail, mail, notices>>
  BY DEF Lookup
<1>7. HIDE DEF to
<1>8. QED
  BY <1>2, <1>4, <1>5, <1>6, BeginKeeps
-----------------------------------------------------------------------------
\* A request that has begun and goes on: its own soundness is a matter of where it
\* goes and of what it told.
LEMMA GoneOnSound ==
    ASSUME ReviewInv, NEW r \in Request, NEW stage \in Running \cup Ended, Goto(r, stage),
           req[r].pc # "idle", UNCHANGED approval,
           \A k \in Decision : <<k, r>> \in (events' \cup trail') \ (events \cup trail)
              => approval[req[r].case] = [decision |-> k, by |-> r],
           stage \in Recorded \cup {"insert_approval"} => req[r].op = "decide",
           stage \in {"set_pending", "rai_event", "audit_rai"} => req[r].op = "rai",
           stage = "set_assignee" => req[r].op = "assign",
           stage \in Mailing => req[r].op \in {"decide", "rai"},
           stage \in Recorded \/ (stage \in Mailing /\ req[r].op = "decide")
              => req[r].pc \in Recorded \/ Announcing(r),
           Written(r)'
    PROVE  Sound(r)'
<1>1. /\ req'[r].pc = stage /\ req'[r].op = req[r].op
      /\ req'[r].case = req[r].case /\ req'[r].arg = req[r].arg
  BY GotoMoves DEF ReviewInv
<1>2. Sound(r)
  BY DEF ReviewInv
<1>3. stage # "idle"
  BY DEF Running, Ended
<1>4. Shape(r)'
  BY <1>1, <1>2 DEF Shape, Sound
<1>5. OnRecord(r)'
  BY <1>1, <1>2 DEF OnRecord, Sound, Announcing
<1>6. Told(r)'
  BY <1>1, <1>2, <1>3 DEF Told, Sound
<1>7. QED
  BY <1>4, <1>5, <1>6 DEF Sound

\* The step of a request that has begun, and writes neither decisions nor emails.
LEMMA GoOnKeeps ==
    ASSUME ReviewInv, NEW r \in Request, NEW stage \in Running \cup Ended, Goto(r, stage),
           req[r].pc # "idle", UNCHANGED <<approval, mail>>, Sound(r)',
           events \subseteq events', trail \subseteq trail',
           \A e \in (events' \ events) \cup (trail' \ trail) : e[2] = r,
           TypeOK', StatusNeedsApproval'
    PROVE  ReviewInv'
<1>1. By(r) /\ req'[r].case = req[r].case
  BY GotoMoves DEF ReviewInv, By
<1>2. Frozen
  BY DEF Frozen
<1>3. QED
  BY <1>1, <1>2, StepKeeps

\* caseEvents.insert
LEMMA EventKeeps ==
    ASSUME ReviewInv, NEW r \in Request, NEW stage, NEW kind \in Kind,
           NEW next \in Running, Event(r, stage, kind, next),
           <<stage, next>> \in {<<"decision_event", "audit_decision">>,
             <<"escalate_event", "audit_escalate">>, <<"rai_event", "audit_rai">>,
             <<"note_event", "audit_note">>},
           kind = CASE stage = "decision_event" -> req[r].arg
                    [] stage = "escalate_event" -> "escalated"
                    [] stage = "rai_event" -> "request_additional_info"
                    [] stage = "note_event" -> "note"
    PROVE  ReviewInv'
<1>1. req[r].pc = stage /\ events' = events \cup {<<kind, r>>} /\ Goto(r, next)
      /\ UNCHANGED <<rows, approval, trail, mail, notices>>
  BY DEF Event, At
<1>2. /\ req' \in [Request -> RequestState]
      /\ req'[r].pc = next /\ req'[r].op = req[r].op
      /\ req'[r].case = req[r].case /\ req'[r].arg = req[r].arg
  BY <1>1, GotoMoves DEF ReviewInv
<1>3. Sound(r)
  BY DEF ReviewInv
<1>4. kind \in Decision => stage = "decision_event" /\ kind = req[r].arg
  BY DEF Decision
<1>5. kind \in Decision => approval[req[r].case] = [decision |-> kind, by |-> r]
  BY <1>1, <1>3, <1>4 DEF Sound, OnRecord, Recorded
<1>6. Written(r)'
  BY <1>1, <1>2, <1>3 DEF Written, Announcing, Mailing, Sound, Shape, Recorded
<1>7. Sound(r)'
  BY <1>1, <1>3, <1>5, <1>6, GoneOnSound DEF Sound, Shape, Recorded, Mailing
<1>8. TypeOK'
  BY <1>1, <1>2 DEF ReviewInv, TypeOK, rows, RequestState
<1>9. StatusNeedsApproval'
  BY <1>1 DEF ReviewInv, StatusNeedsApproval, rows
<1>10. QED
  BY <1>1, <1>7, <1>8, <1>9, GoOnKeeps

\* audit.service emit
LEMMA EmitKeeps ==
    ASSUME ReviewInv, NEW r \in Request, NEW stage, NEW type \in AuditType,
           NEW next \in Running \cup Ended, Emit(r, stage, type, next),
           <<stage, next>> \in {<<"audit_decision", "lookup_case">>,
             <<"audit_escalate", "done">>, <<"audit_rai", "send_mail">>,
             <<"audit_note", "done">>, <<"audit_assign", "done">>, <<"audit_flag", "done">>},
           stage = "audit_decision" => type = req[r].arg,
           stage = "audit_rai" => type = "request_additional_info",
           stage # "audit_decision" => type \notin Decision
    PROVE  ReviewInv'
<1>1. req[r].pc = stage /\ trail' = trail \cup {<<type, r>>} /\ Goto(r, next)
      /\ UNCHANGED <<rows, approval, events, mail, notices>>
  BY DEF Emit, At
<1>2. /\ req' \in [Request -> RequestState]
      /\ req'[r].pc = next /\ req'[r].op = req[r].op
      /\ req'[r].case = req[r].case /\ req'[r].arg = req[r].arg
  BY <1>1, GotoMoves DEF ReviewInv
<1>3. Sound(r)
  BY DEF ReviewInv
<1>4. type \in Decision => approval[req[r].case] = [decision |-> type, by |-> r]
  BY <1>1, <1>3 DEF Sound, OnRecord, Recorded
<1>5. Written(r)'
  BY <1>1, <1>2, <1>3 DEF Written, Announcing, Mailing, Sound, Shape, Recorded
<1>6. Sound(r)'
  BY <1>1, <1>3, <1>4, <1>5, GoneOnSound DEF Sound, Shape, Recorded, Mailing, Announcing
<1>7. TypeOK'
  BY <1>1, <1>2 DEF ReviewInv, TypeOK, rows, RequestState
<1>8. StatusNeedsApproval'
  BY <1>1 DEF ReviewInv, StatusNeedsApproval, rows
<1>9. QED
  BY <1>1, <1>6, <1>7, <1>8, GoOnKeeps
-----------------------------------------------------------------------------
(* POST /api/approvals/[caseId]                                            *)

LEMMA StartDecideKeeps ==
    ASSUME ReviewInv, NEW r \in Request, StartDecide(r)
    PROVE  ReviewInv'
<1>1. PICK c \in Case, d \in Decision :
        Begin(r, "decide", c, d,
              IF approval[c].decision = None THEN "insert_approval" ELSE "conflict")
  BY DEF StartDecide
<1>2. DEFINE to == IF approval[c].decision = None THEN "insert_approval" ELSE "conflict"
<1>3. /\ to \in (Running \cup Ended) \ (Recorded \cup Mailing \cup {"audit_rai", "rai_event"})
      /\ to \notin {"set_pending", "set_assignee"}
  BY DEF Running, Ended, Recorded, Mailing
<1>4. "decide" \in Op /\ Begin(r, "decide", c, d, to)
  BY <1>1 DEF Op
<1>5. UNCHANGED <<rows, approval, events, trail, mail, notices>>
  BY DEF StartDecide
<1>6. HIDE DEF to
<1>7. QED
  BY <1>3, <1>4, <1>5, BeginKeeps

\* The one action that writes a decision: the unique constraint freezes the others.
LEMMA InsertApprovalKeeps ==
    ASSUME ReviewInv, NEW r \in Request, InsertApproval(r)
    PROVE  ReviewInv'
<1>1. /\ req[r].pc = "insert_approval" /\ approval[req[r].case].decision = None
      /\ approval' = [approval EXCEPT ![req[r].case] = [decision |-> req[r].arg, by |-> r]]
      /\ Goto(r, "close_case") /\ UNCHANGED <<rows, events, trail, mail, notices>>
  BY DEF InsertApproval, StoreApproval, At
<1>2. Sound(r) /\ req[r].case \in Case /\ req[r].op = "decide" /\ req[r].arg \in Decision
  BY <1>1 DEF ReviewInv, Sound, Shape
<1>3. "close_case" \in Running \cup Ended
  BY DEF Running
<1>4. /\ req' \in [Request -> RequestState]
      /\ \A q \in Request \ {r} : req'[q] = req[q]
      /\ req'[r].pc = "close_case" /\ req'[r].op = req[r].op
      /\ req'[r].case = req[r].case /\ req'[r].arg = req[r].arg
  BY <1>1, <1>3, GotoMoves DEF ReviewInv
<1>5. /\ approval'[req[r].case] = [decision |-> req[r].arg, by |-> r]
      /\ \A c \in Case \ {req[r].case} : approval'[c] = approval[c]
      /\ approval' \in [Case -> [decision : Decision \cup {None}, by : Request \cup {None}]]
  BY <1>1, <1>2 DEF ReviewInv, TypeOK
<1>6. By(r) /\ Frozen
  BY <1>1, <1>4, <1>5 DEF By, Frozen
\* r has told nothing of a decision yet, or there would be one.
<1>7. ASSUME NEW d \in Decision, <<d, r>> \in events \cup trail
      PROVE  FALSE
  <2>1. approval[req[r].case] = [decision |-> d, by |-> r]
    BY <1>2, <1>7 DEF Sound, Told
  <2>2. d = None
    BY <1>1, <2>1
  <2>3. QED
    BY <2>2, CaseReviewAssumption
<1>8. Sound(r)'
  <2>1. Shape(r)'
    BY <1>2, <1>4 DEF Shape, Recorded, Mailing
  <2>2. OnRecord(r)'
    BY <1>4, <1>5 DEF OnRecord
  <2>3. Written(r)'
    BY <1>4 DEF Written, Announcing, Mailing
  <2>4. Told(r)'
    <3>1. req'[r].pc # "idle"
      BY <1>4
    <3>2. events' = events /\ trail' = trail
      BY <1>1
    <3>3. QED
      BY <3>1, <3>2, <1>7 DEF Told
  <2>5. QED
    BY <2>1, <2>2, <2>3, <2>4 DEF Sound
<1>9. TypeOK'
  BY <1>1, <1>4, <1>5 DEF ReviewInv, TypeOK, rows, RequestState
<1>10. StatusNeedsApproval'
  BY <1>1, <1>2, <1>5, CaseReviewAssumption DEF ReviewInv, StatusNeedsApproval, rows
<1>11. QED
  BY <1>1, <1>4, <1>6, <1>8, <1>9, <1>10, StepKeeps

\* A step that only moves the request.
LEMMA MoveKeeps ==
    ASSUME ReviewInv, NEW r \in Request, NEW stage \in Ended \cup {"send_mail"},
           Goto(r, stage), req[r].pc # "idle",
           stage = "send_mail" => req[r].pc = "lookup_case",
           UNCHANGED <<rows, approval, events, trail, mail, notices>>
    PROVE  ReviewInv'
<1>1. stage \in Running \cup Ended /\ stage \notin Recorded
      /\ stage \notin {"insert_approval", "set_pending", "rai_event", "audit_rai", "set_assignee",
                      "lookup_case", "audit_decision", "idle"}
      /\ (stage \in Mailing => stage = "send_mail")
  BY DEF Running, Ended, Recorded, Mailing
<1>2. /\ req' \in [Request -> RequestState]
      /\ req'[r].pc = stage /\ req'[r].op = req[r].op
      /\ req'[r].case = req[r].case /\ req'[r].arg = req[r].arg
  BY <1>1, GotoMoves DEF ReviewInv
<1>3. Sound(r)
  BY DEF ReviewInv
<1>4. stage = "send_mail" => req[r].op = "decide" /\ req[r].pc \in Recorded
  BY <1>3 DEF Sound, Shape, Recorded
<1>5. Written(r)'
  BY <1>1, <1>2, <1>3, <1>4 DEF Written, Announcing, Sound
<1>6. Sound(r)'
  BY <1>1, <1>4, <1>5, GoneOnSound
<1>7. TypeOK'
  BY <1>2 DEF ReviewInv, TypeOK, rows, RequestState
<1>8. StatusNeedsApproval'
  BY DEF ReviewInv, StatusNeedsApproval, rows
<1>9. QED
  BY <1>1, <1>6, <1>7, <1>8, GoOnKeeps

LEMMA CloseCaseKeeps ==
    ASSUME ReviewInv, NEW r \in Request, CloseCase(r)
    PROVE  ReviewInv'
<1>1. /\ req[r].pc = "close_case" /\ Goto(r, "decision_event")
      /\ UpdateStatus(r, req[r].case, req[r].arg)
  BY DEF CloseCase, At
<1>2. /\ Sound(r) /\ req[r].case \in Case /\ req[r].op = "decide" /\ req[r].arg \in Decision
      /\ approval[req[r].case] = [decision |-> req[r].arg, by |-> r]
  BY <1>1 DEF ReviewInv, Sound, Shape, OnRecord, Recorded
<1>3. "decision_event" \in Running \cup Ended
  BY DEF Running
<1>4. /\ req' \in [Request -> RequestState]
      /\ req'[r].pc = "decision_event" /\ req'[r].op = req[r].op
      /\ req'[r].case = req[r].case /\ req'[r].arg = req[r].arg
  BY <1>1, <1>3, GotoMoves DEF ReviewInv
<1>5. UNCHANGED <<assigned, flagged, approval, events, trail, mail, notices>>
  BY <1>1 DEF UpdateStatus
<1>6. Written(r)'
  BY <1>4 DEF Written, Announcing, Mailing
<1>7. Sound(r)'
  BY <1>1, <1>2, <1>3, <1>5, <1>6, GoneOnSound DEF Recorded, Mailing
<1>8. TypeOK'
  BY <1>1, <1>2, <1>4, <1>5 DEF ReviewInv, TypeOK, UpdateStatus, Status, RequestState
<1>9. StatusNeedsApproval'
  BY <1>1, <1>2, <1>5, CaseReviewAssumption DEF ReviewInv, TypeOK, StatusNeedsApproval, UpdateStatus
<1>10. QED
  BY <1>1, <1>3, <1>5, <1>7, <1>8, <1>9, GoOnKeeps
-----------------------------------------------------------------------------
(* The other operations on a case                                          *)

LEMMA StartEscalateKeeps ==
    ASSUME ReviewInv, NEW r \in Request, StartEscalate(r)
    PROVE  ReviewInv'
<1>1. PICK c \in Case : /\ Begin(r, "escalate", c, None, "escalate_event")
                        /\ UpdateStatus(r, c, "escalated")
  BY DEF StartEscalate
<1>2. /\ "escalate_event" \in (Running \cup Ended)
                               \ (Recorded \cup Mailing \cup {"audit_rai", "rai_event"})
      /\ "escalate" \in Op /\ "escalated" \notin Decision
  BY DEF Running, Recorded, Mailing, Op, Decision
<1>3. UNCHANGED <<assigned, flagged, approval, events, trail, mail, notices>>
  BY <1>1 DEF UpdateStatus
<1>4. Sound(r)'
  BY <1>1, <1>2, <1>3, BegunSound
<1>5. /\ req' \in [Request -> RequestState] /\ req[r].pc = "idle"
      /\ \A q \in Request \ {r} : req'[q] = req[q]
  BY <1>1, <1>2, BeginMoves DEF ReviewInv
<1>6. By(r) /\ Frozen
  BY <1>3, <1>5 DEF By, Frozen
<1>7. TypeOK'
  BY <1>1, <1>3, <1>5 DEF ReviewInv, TypeOK, UpdateStatus, Status, RequestState
<1>8. StatusNeedsApproval'
  BY <1>1, <1>2, <1>3 DEF ReviewInv, TypeOK, StatusNeedsApproval, UpdateStatus
<1>9. QED
  BY <1>3, <1>4, <1>5, <1>6, <1>7, <1>8, StepKeeps

LEMMA SetPendingKeeps ==
    ASSUME ReviewInv, NEW r \in Request, SetPending(r)
    PROVE  ReviewInv'
<1>1. /\ req[r].pc = "set_pending" /\ Goto(r, "rai_event")
      /\ UpdateStatus(r, req[r].case, "pending_info")
  BY DEF SetPending, At
<1>2. Sound(r) /\ req[r].case \in Case /\ req[r].op = "rai"
  BY <1>1 DEF ReviewInv, Sound, Shape
<1>3. "rai_event" \in Running \cup Ended /\ "pending_info" \notin Decision
  BY DEF Running, Decision
<1>4. /\ req' \in [Request -> RequestState]
      /\ req'[r].pc = "rai_event" /\ req'[r].op = req[r].op
  BY <1>1, <1>3, GotoMoves DEF ReviewInv
<1>5. UNCHANGED <<assigned, flagged, approval, events, trail, mail, notices>>
  BY <1>1 DEF UpdateStatus
<1>6. Written(r)'
  BY <1>4 DEF Written, Announcing, Mailing
<1>7. Sound(r)'
  BY <1>1, <1>2, <1>3, <1>5, <1>6, GoneOnSound DEF Recorded, Mailing
<1>8. TypeOK'
  BY <1>1, <1>2, <1>4, <1>5 DEF ReviewInv, TypeOK, UpdateStatus, Status, RequestState
<1>9. StatusNeedsApproval'
  BY <1>1, <1>2, <1>3, <1>5 DEF ReviewInv, TypeOK, StatusNeedsApproval, UpdateStatus
<1>10. QED
  BY <1>1, <1>3, <1>5, <1>7, <1>8, <1>9, GoOnKeeps

\* Assigning and flagging touch neither status nor decisions.
LEMMA RowKeeps ==
    ASSUME ReviewInv, NEW r \in Request, SetAssignee(r) \/ SetFlag(r)
    PROVE  ReviewInv'
<1>1. PICK stage \in {"audit_assign", "denied", "audit_flag"} :
        Goto(r, stage) /\ req[r].pc # "idle"
  BY DEF SetAssignee, SetFlag, At
<1>2. UNCHANGED <<status, closed, approval, events, trail, mail, notices>>
  BY DEF SetAssignee, SetFlag
<1>3. stage \in Running \cup Ended
  BY DEF Running, Ended
<1>4. req' \in [Request -> RequestState] /\ req'[r].pc = stage
  BY <1>1, <1>3, GotoMoves DEF ReviewInv
<1>5. assigned' \in [Case -> User \cup {None}] /\ flagged' \in [Case -> BOOLEAN]
  <2>1. CASE SetAssignee(r)
    <3>1. req[r].arg \in User \cup {None} /\ flagged' = flagged
      BY <2>1 DEF ReviewInv, Sound, Shape, SetAssignee, At
    <3>2. assigned' = [assigned EXCEPT ![req[r].case] = req[r].arg] \/ assigned' = assigned
      BY <2>1 DEF SetAssignee
    <3>3. QED
      BY <3>1, <3>2 DEF ReviewInv, TypeOK
  <2>2. CASE SetFlag(r)
    BY <2>2 DEF SetFlag, ReviewInv, TypeOK
  <2>3. QED
    BY <2>1, <2>2
<1>6. TypeOK'
  BY <1>2, <1>4, <1>5 DEF ReviewInv, TypeOK, RequestState
<1>7. StatusNeedsApproval'
  BY <1>2 DEF ReviewInv, StatusNeedsApproval
<1>8. Written(r)'
  BY <1>4 DEF Written, Announcing, Mailing
<1>9. Sound(r)'
  BY <1>1, <1>2, <1>3, <1>8, GoneOnSound DEF Recorded, Mailing
<1>10. QED
  BY <1>1, <1>2, <1>3, <1>6, <1>7, <1>9, GoOnKeeps
-----------------------------------------------------------------------------
(* commonSend                                                              *)

\* What a request that sends an email holds.
LEMMA Sender ==
    ASSUME ReviewInv, NEW r \in Request, req[r].pc \in Mailing
    PROVE  /\ req[r].case \in Case
           /\ \/ /\ req[r].op = "decide" /\ req[r].arg \in Decision /\ MailKind(r) = req[r].arg
                 /\ approval[req[r].case] = [decision |-> req[r].arg, by |-> r]
                 /\ <<req[r].arg, r>> \in events \cap trail
              \/ /\ req[r].op = "rai" /\ MailKind(r) = "rai"
                 /\ <<"request_additional_info", r>> \in events \cap trail
<1>1. Sound(r) /\ req[r].pc # "idle"
  BY DEF ReviewInv, Mailing
<1>2. req[r].case \in Case /\ req[r].op \in {"decide", "rai"}
  BY <1>1 DEF Sound, Shape
<1>3. QED
  BY <1>1, <1>2 DEF Sound, Shape, OnRecord, Written, Announcing, MailKind

\* Going on from one of these stages to the next, or to the end.
LEMMA MailStepSound ==
    ASSUME ReviewInv, NEW r \in Request, req[r].pc \in Mailing,
           NEW stage \in Mailing \cup {"done"}, Goto(r, stage),
           UNCHANGED <<approval, events>>, trail \subseteq trail',
           \A k \in Decision : <<k, r>> \in trail' => <<k, r>> \in trail
    PROVE  Sound(r)'
<1>1. stage \in Running \cup Ended /\ stage \notin Recorded /\ req[r].pc # "idle"
      /\ stage \notin {"insert_approval", "set_pending", "rai_event", "audit_rai", "set_assignee",
                      "lookup_case", "audit_decision"}
  BY DEF Running, Ended, Recorded, Mailing
<1>2. /\ req'[r].pc = stage /\ req'[r].op = req[r].op
      /\ req'[r].case = req[r].case /\ req'[r].arg = req[r].arg
  BY <1>1, GotoMoves DEF ReviewInv
<1>3. Sound(r)
  BY DEF ReviewInv
<1>4. Written(r)'
  BY <1>1, <1>2, <1>3 DEF Written, Announcing, Sound
<1>5. QED
  BY <1>1, <1>3, <1>4, GoneOnSound DEF Announcing, Sound, Shape

\* The email tells what is on record, because its sender put it there.
LEMMA SendMailKeeps ==
    ASSUME ReviewInv, NEW r \in Request, SendMail(r)
    PROVE  ReviewInv'
<1>1. /\ req[r].pc = "send_mail" /\ req[r].pc \in Mailing /\ Goto(r, "record_notice")
      /\ UNCHANGED <<rows, approval, events, trail, notices>>
  BY DEF SendMail, At, Mailing
<1>2. "record_notice" \in Running \cup Ended /\ "record_notice" \in Mailing
  BY DEF Running, Mailing
<1>3. /\ req' \in [Request -> RequestState]
      /\ \A q \in Request \ {r} : req'[q] = req[q]
      /\ req'[r].case = req[r].case
  BY <1>1, <1>2, GotoMoves DEF ReviewInv
<1>4. Sound(r)'
  BY <1>1, <1>2, MailStepSound
<1>5. By(r) /\ Frozen
  BY <1>1, <1>3 DEF By, Frozen
<1>6. DEFINE new == [kind |-> MailKind(r), case |-> req[r].case,
                     actor |-> IF req[r].op = "decide" THEN None ELSE Caller[r]]
<1>7. mail' \subseteq mail \cup {new}
  BY DEF SendMail
<1>8. "rai" \notin Decision /\ Caller[r] \in User
  BY CaseReviewAssumption DEF Decision
<1>9. TypeOK'
  <2>1. new \in [kind : Decision \cup {"rai"}, case : Case, actor : User \cup {None}]
    BY <1>1, <1>8, Sender
  <2>2. QED
    BY <1>1, <1>3, <1>7, <2>1 DEF ReviewInv, TypeOK, rows, RequestState
<1>10. StatusNeedsApproval'
  BY <1>1 DEF ReviewInv, StatusNeedsApproval, rows
<1>11. MailAfterRecord'
  <2>1. SUFFICES ASSUME NEW m \in mail'
                 PROVE  IF m.kind \in Decision
                        THEN approval'[m.case].decision = m.kind
                             /\ <<m.kind, approval'[m.case].by>> \in events' \cap trail'
                        ELSE \E q \in Request :
                               /\ Caller[q] = m.actor /\ req'[q].case = m.case
                               /\ <<"request_additional_info", q>> \in events' \cap trail'
    BY DEF MailAfterRecord
  <2>2. CASE m \in mail
    BY <1>3, <1>5, <2>2, MailKept
  <2>3. CASE m = new
    <3>1. CASE req[r].op = "decide"
      <4>1. /\ req[r].arg \in Decision /\ MailKind(r) = req[r].arg
            /\ approval[req[r].case] = [decision |-> req[r].arg, by |-> r]
            /\ <<req[r].arg, r>> \in events \cap trail
        BY <1>1, <3>1, Sender
      <4>2. m.kind = req[r].arg /\ m.case = req[r].case
        BY <2>3, <4>1
      <4>3. approval'[m.case].decision = m.kind /\ approval'[m.case].by = r
        BY <1>1, <4>1, <4>2
      <4>4. QED
        BY <1>1, <4>1, <4>2, <4>3
    <3>2. CASE req[r].op = "rai"
      BY <1>1, <1>3, <1>8, <2>3, <3>2, Sender
    <3>3. QED
      BY <1>1, <3>1, <3>2, Sender
  <2>4. QED
    BY <1>7, <2>2, <2>3
<1>12. \A q \in Request : Sound(q)'
  BY <1>4, <1>5, OthersSound
<1>13. QED
  BY <1>9, <1>10, <1>11, <1>12 DEF ReviewInv

LEMMA NoticeKeeps ==
    ASSUME ReviewInv, NEW r \in Request, RecordNotice(r) \/ AuditNotice(r)
    PROVE  ReviewInv'
<1>1. PICK stage \in {"audit_notice", "done"} :
        Goto(r, stage) /\ req[r].pc \in Mailing
  BY DEF RecordNotice, AuditNotice, At, Mailing
<1>2. UNCHANGED <<rows, approval, events, mail>> /\ notices' \subseteq notices \cup {r}
  BY DEF RecordNotice, AuditNotice
<1>3. stage \in Running \cup Ended /\ stage \in Mailing \cup {"done"} /\ req[r].pc # "idle"
  BY <1>1 DEF Running, Ended, Mailing
<1>4. req' \in [Request -> RequestState]
  BY <1>1, <1>3, GotoMoves DEF ReviewInv
<1>5. trail' \subseteq trail \cup {<<MailAudit[MailKind(r)], r>>} /\ trail \subseteq trail'
  BY DEF RecordNotice, AuditNotice
<1>6. MailAudit[MailKind(r)] \in AuditType \ Decision
  <2>1. MailKind(r) \in {"approved", "rejected", "rai"}
    BY <1>1, Sender DEF Decision
  <2>2. QED
    BY <2>1 DEF MailAudit, AuditType, Decision
<1>7. Sound(r)'
  BY <1>1, <1>2, <1>3, <1>5, <1>6, MailStepSound
<1>8. TypeOK'
  BY <1>2, <1>4, <1>5, <1>6 DEF ReviewInv, TypeOK, rows, RequestState
<1>9. StatusNeedsApproval'
  BY <1>2 DEF ReviewInv, StatusNeedsApproval, rows
<1>10. \A e \in (events' \ events) \cup (trail' \ trail) : e[2] = r
  BY <1>2, <1>5
<1>11. QED
  BY <1>1, <1>2, <1>3, <1>5, <1>7, <1>8, <1>9, <1>10, GoOnKeeps
-----------------------------------------------------------------------------
LEMMA InitSound == Init => ReviewInv
<1>1. SUFFICES ASSUME Init PROVE ReviewInv
  OBVIOUS
<1>2. TypeOK
  BY <1>1 DEF Init, TypeOK, Op, Status
<1>3. StatusNeedsApproval
  BY <1>1 DEF Init, StatusNeedsApproval, Decision
<1>4. MailAfterRecord
  BY <1>1 DEF Init, MailAfterRecord
<1>5. ASSUME NEW r \in Request PROVE Sound(r)
  BY <1>1 DEF Init, Sound, Shape, OnRecord, Written, Told, Announcing, Recorded, Mailing
<1>6. QED
  BY <1>2, <1>3, <1>4, <1>5 DEF ReviewInv

LEMMA DecideStepKeeps ==
    ASSUME ReviewInv, NEW r \in Request, DecideStep(r)
    PROVE  ReviewInv'
<1>1. CASE StartDecide(r)
  BY <1>1, StartDecideKeeps
<1>2. CASE InsertApproval(r)
  BY <1>2, InsertApprovalKeeps
<1>3. CASE ApprovalConflict(r)
  BY <1>3, MoveKeeps DEF ApprovalConflict, At, Ended
<1>4. CASE CloseCase(r)
  BY <1>4, CloseCaseKeeps
<1>5. CASE DecisionEvent(r)
  <2>1. req[r].arg \in Kind /\ "audit_decision" \in Running
    BY <1>5 DEF DecisionEvent, Event, At, ReviewInv, Sound, Shape, Recorded, Kind, Running
  <2>2. QED
    BY <1>5, <2>1, EventKeeps DEF DecisionEvent
<1>6. CASE AuditDecision(r)
  <2>1. req[r].arg \in AuditType /\ "lookup_case" \in Running \cup Ended
    BY <1>6 DEF AuditDecision, Emit, At, ReviewInv, Sound, Shape, Recorded, Kind, AuditType,
                Running
  <2>2. QED
    BY <1>6, <2>1, EmitKeeps DEF AuditDecision
<1>7. CASE LookupDecided(r)
  BY <1>7, MoveKeeps DEF LookupDecided, At, Ended
<1>8. QED
  BY <1>1, <1>2, <1>3, <1>4, <1>5, <1>6, <1>7 DEF DecideStep

LEMMA EventStepKeeps ==
    ASSUME ReviewInv, NEW r \in Request, EventStep(r)
    PROVE  ReviewInv'
<1>1. CASE StartEscalate(r)
  BY <1>1, StartEscalateKeeps
<1>2. CASE EscalateEvent(r)
  BY <1>2, EventKeeps DEF EscalateEvent, Kind, Running
<1>3. CASE AuditEscalate(r)
  BY <1>3, EmitKeeps DEF AuditEscalate, AuditType, Kind, Ended, Decision
<1>4. CASE StartRai(r)
  BY <1>4, LookupKeeps DEF StartRai, Op, Running
<1>5. CASE SetPending(r)
  BY <1>5, SetPendingKeeps
<1>6. CASE RaiEvent(r)
  BY <1>6, EventKeeps DEF RaiEvent, Kind, Running
<1>7. CASE AuditRai(r)
  BY <1>7, EmitKeeps DEF AuditRai, AuditType, Kind, Running, Decision
<1>8. CASE StartNote(r)
  BY <1>8, LookupKeeps DEF StartNote, Op, Running
<1>9. CASE NoteEvent(r)
  BY <1>9, EventKeeps DEF NoteEvent, Kind, Running
<1>10. CASE AuditNote(r)
  BY <1>10, EmitKeeps DEF AuditNote, AuditType, Kind, Ended, Decision
<1>11. QED
  BY <1>1, <1>2, <1>3, <1>4, <1>5, <1>6, <1>7, <1>8, <1>9, <1>10 DEF EventStep

LEMMA RowStepKeeps ==
    ASSUME ReviewInv, NEW r \in Request, RowStep(r)
    PROVE  ReviewInv'
<1>1. CASE StartAssign(r)
  BY <1>1, LookupKeeps DEF StartAssign, Op, Running
<1>2. CASE SetAssignee(r) \/ SetFlag(r)
  BY <1>2, RowKeeps
<1>3. CASE AuditAssign(r)
  BY <1>3, EmitKeeps DEF AuditAssign, AuditType, Ended, Decision
<1>4. CASE StartFlag(r)
  BY <1>4, LookupKeeps DEF StartFlag, Op, Running
<1>5. CASE AuditFlag(r)
  BY <1>5, EmitKeeps DEF AuditFlag, AuditType, Ended, Decision
<1>6. QED
  BY <1>1, <1>2, <1>3, <1>4, <1>5 DEF RowStep

\* Every step of every request keeps the invariant.
LEMMA NextKeeps == ReviewInv /\ [Next]_vars => ReviewInv'
<1>1. SUFFICES ASSUME ReviewInv, [Next]_vars PROVE ReviewInv'
  OBVIOUS
<1>2. CASE UNCHANGED vars
  BY <1>1, <1>2 DEF vars, rows, ReviewInv, TypeOK, StatusNeedsApproval, MailAfterRecord, Sound,
                    Shape, OnRecord, Written, Told, Announcing
<1>3. ASSUME NEW r \in Request,
             DecideStep(r) \/ EventStep(r) \/ RowStep(r) \/ MailStep(r) \/ Abort(r)
      PROVE  ReviewInv'
  <2>1. CASE DecideStep(r)
    BY <1>1, <2>1, DecideStepKeeps
  <2>2. CASE EventStep(r)
    BY <1>1, <2>2, EventStepKeeps
  <2>3. CASE RowStep(r)
    BY <1>1, <2>3, RowStepKeeps
  <2>4. CASE MailStep(r)
    BY <1>1, <2>4, SendMailKeeps, NoticeKeeps DEF MailStep
  <2>5. CASE Abort(r)
    <3>1. req[r].pc # "idle" /\ "aborted" \in Ended
      BY <2>5 DEF Abort, Running, Ended
    <3>2. QED
      BY <1>1, <2>5, <3>1, MoveKeeps DEF Abort
  <2>6. QED
    BY <1>3, <2>1, <2>2, <2>3, <2>4, <2>5
<1>4. QED
  BY <1>1, <1>2, <1>3 DEF Next

LEMMA ReviewInvariant == Spec => []ReviewInv
  BY InitSound, NextKeeps, PTL DEF Spec
-----------------------------------------------------------------------------
\* The rows, requests and logs of the review keep their types (approvals.service.ts,
\* cases.service.ts, the assign and sar routes).
THEOREM ReviewTypeCorrect == Spec => []TypeOK
<1>1. ReviewInv => TypeOK
  BY DEF ReviewInv
<1>2. QED
  BY <1>1, ReviewInvariant, PTL

\* recordDecision and updateCaseStatus: whatever the order of any number of requests on
\* any number of cases, no case shows a decision that is not on record.
THEOREM StatusIsOnRecord == Spec => []StatusNeedsApproval
<1>1. ReviewInv => StatusNeedsApproval
  BY DEF ReviewInv
<1>2. QED
  BY <1>1, ReviewInvariant, PTL

\* recordDecision: case events and audit entries name the decision on record and its
\* author, however many reviewers decide at once.
THEOREM TimelineIsOnRecord == Spec => []TimelineMatchesDecision
<1>1. ReviewInv => TimelineMatchesDecision
  BY DEF ReviewInv, Sound, Told, TimelineMatchesDecision
<1>2. QED
  BY <1>1, ReviewInvariant, PTL

\* notifications/index.ts: no email about a case leaves before, or differs from, what
\* the approvals table, the timeline and the audit log say.
THEOREM MailIsOnRecord == Spec => []MailAfterRecord
<1>1. ReviewInv => MailAfterRecord
  BY DEF ReviewInv
<1>2. QED
  BY <1>1, ReviewInvariant, PTL
-----------------------------------------------------------------------------
(* The refinement of DecisionRegister                                      *)

\* What the register sees of the review.
Decisions == [c \in Case |-> approval[c].decision]
Announcements == [c \in Case |-> Announced(c)]

\* Actions that touch neither the approvals nor the emails are steps it does not see.
LEMMA Unseen ==
    ASSUME UNCHANGED <<approval, mail>>
    PROVE  UNCHANGED <<Decisions, Announcements>>
  BY DEF Decisions, Announcements, Announced

\* insertApproval decides a case that was not decided.
LEMMA InsertDecides ==
    ASSUME ReviewInv, NEW r \in Request, InsertApproval(r)
    PROVE  \E c \in Case : Register!Decide(c)
<1>1. PICK c : c = req[r].case
  OBVIOUS
<1>2. /\ req[r].pc = "insert_approval" /\ approval[c].decision = None
      /\ approval' = [approval EXCEPT ![c] = [decision |-> req[r].arg, by |-> r]]
      /\ UNCHANGED mail
  BY <1>1 DEF InsertApproval, StoreApproval, At
<1>3. c \in Case /\ req[r].arg \in Decision
  BY <1>1, <1>2 DEF ReviewInv, Sound, Shape
<1>4. approval \in [Case -> [decision : Decision \cup {None}, by : Request \cup {None}]]
  BY DEF ReviewInv, TypeOK
<1>5. Decisions[c] = None
  BY <1>2, <1>3 DEF Decisions
<1>6. Decisions' = [Decisions EXCEPT ![c] = req[r].arg]
  BY <1>2, <1>3, <1>4 DEF Decisions
<1>7. Announcements' = Announcements
  BY <1>2 DEF Announcements, Announced
<1>8. Register!Decide(c)
  BY <1>3, <1>5, <1>6, <1>7 DEF Register!Decide, Register!Decision, Decisions, Announcements, Decision
<1>9. QED
  BY <1>3, <1>8

\* An email about a decision is a new announcement of what is on record, or one the
\* provider had already.
LEMMA SendAnnounces ==
    ASSUME ReviewInv, NEW r \in Request, SendMail(r)
    PROVE  \/ UNCHANGED <<Decisions, Announcements>>
           \/ \E c \in Case : Register!Announce(c)
<1>1. /\ req[r].pc \in Mailing /\ UNCHANGED approval
      /\ \/ mail' = mail \cup {[kind |-> MailKind(r), case |-> req[r].case,
                              actor |-> IF req[r].op = "decide" THEN None ELSE Caller[r]]}
         \/ UNCHANGED mail
  BY DEF SendMail, At, Mailing
<1>2. Decisions' = Decisions
  BY <1>1 DEF Decisions
<1>3. CASE UNCHANGED mail
  BY <1>1, <1>3, Unseen
<1>4. CASE /\ req[r].op = "rai" /\ MailKind(r) = "rai"
           /\ mail' = mail \cup {[kind |-> "rai", case |-> req[r].case, actor |-> Caller[r]]}
  <2>1. \A c \in Case : Announced(c)' = Announced(c)
    BY <1>4 DEF Announced
  <2>2. Announcements' = Announcements
    BY <2>1 DEF Announcements
  <2>3. QED
    BY <1>2, <2>2
<1>5. CASE req[r].op = "decide" /\ ~UNCHANGED mail
  <2>1. PICK c, d : c = req[r].case /\ d = req[r].arg
    OBVIOUS
  <2>2. req[r].op # "rai"
    BY <1>5
  <2>3. c \in Case /\ d \in Decision /\ MailKind(r) = d /\ approval[c].decision = d
    <3>1. /\ req[r].case \in Case /\ req[r].arg \in Decision /\ MailKind(r) = req[r].arg
          /\ approval[req[r].case] = [decision |-> req[r].arg, by |-> r]
      BY <1>1, <2>2, Sender
    <3>2. approval[c] = [decision |-> d, by |-> r]
      BY <2>1, <3>1
    <3>3. QED
      BY <2>1, <3>1, <3>2
  <2>4. mail' = mail \cup {[kind |-> d, case |-> c, actor |-> None]}
    BY <1>1, <1>5, <2>1, <2>3
  \* Nothing was announced: it could only have been the decision on record.
  <2>5. \A e \in Decision : [kind |-> e, case |-> c, actor |-> None] \notin mail
    <3>1. ASSUME NEW e \in Decision, [kind |-> e, case |-> c, actor |-> None] \in mail
          PROVE  e = d
      BY <2>3, <3>1 DEF ReviewInv, MailAfterRecord
    <3>2. [kind |-> d, case |-> c, actor |-> None] \notin mail
      BY <1>5, <2>4
    <3>3. QED
      BY <3>1, <3>2
  <2>6. Announced(c) = None
    BY <2>5 DEF Announced, Decision
  <2>7. \A e \in Decision : [kind |-> e, case |-> c, actor |-> None] \in mail' => e = d
    BY <2>4, <2>5
  <2>8. Announced(c)' = d
    <3>1. CASE d = "approved"
      BY <2>4, <3>1 DEF Announced
    <3>2. CASE d = "rejected"
      <4>1. [kind |-> "approved", case |-> c, actor |-> None] \notin mail'
        BY <2>7, <3>2 DEF Decision
      <4>2. [kind |-> "rejected", case |-> c, actor |-> None] \in mail'
        BY <2>4, <3>2
      <4>3. QED
        BY <3>2, <4>1, <4>2 DEF Announced
    <3>3. QED
      BY <2>3, <3>1, <3>2 DEF Decision
  <2>9. \A b \in Case \ {c} : Announced(b)' = Announced(b)
    BY <2>4 DEF Announced
  <2>10. Announcements' = [Announcements EXCEPT ![c] = d]
    BY <2>8, <2>9 DEF Announcements
  <2>11. Register!Announce(c)
    <3>1. Decisions[c] = d /\ d # None
      BY <2>3, CaseReviewAssumption DEF Decisions
    <3>2. Announcements[c] = None
      BY <2>3, <2>6 DEF Announcements
    <3>3. QED
      BY <1>2, <2>10, <3>1, <3>2 DEF Register!Announce, Decisions, Announcements
  <2>12. QED
    BY <2>3, <2>11
<1>6. QED
  BY <1>1, <1>3, <1>4, <1>5, Sender

LEMMA RegisterInit == Init => Register!Init
<1>1. SUFFICES ASSUME Init PROVE Register!Init
  OBVIOUS
<1>2. \A c \in Case : approval[c].decision = None /\ Announced(c) = None
  BY <1>1 DEF Init, Announced
<1>3. QED
  BY <1>2 DEF Register!Init

LEMMA RegisterStep == ReviewInv /\ [Next]_vars => [Register!Next]_(Register!vars)
<1>1. SUFFICES ASSUME ReviewInv, [Next]_vars
               PROVE  \/ UNCHANGED <<Decisions, Announcements>>
                      \/ \E c \in Case : Register!Decide(c) \/ Register!Announce(c)
  BY DEF Register!Next, Register!vars, Decisions, Announcements
<1>2. CASE UNCHANGED vars
  BY <1>2, Unseen DEF vars
<1>3. ASSUME NEW r \in Request,
             DecideStep(r) \/ EventStep(r) \/ RowStep(r) \/ MailStep(r) \/ Abort(r)
      PROVE  \/ UNCHANGED <<Decisions, Announcements>>
             \/ \E c \in Case : Register!Decide(c) \/ Register!Announce(c)
  <2>1. CASE InsertApproval(r)
    BY <1>1, <2>1, InsertDecides
  <2>2. CASE SendMail(r)
    BY <1>1, <2>2, SendAnnounces
  <2>3. CASE ~InsertApproval(r) /\ ~SendMail(r)
    <3>1. CASE DecideStep(r)
      BY <2>3, <3>1, Unseen DEF DecideStep, StartDecide, ApprovalConflict, CloseCase, UpdateStatus,
                                DecisionEvent, Event, AuditDecision, Emit, LookupDecided
    <3>2. CASE EventStep(r)
      BY <3>2, Unseen DEF EventStep, StartEscalate, UpdateStatus, EscalateEvent, Event,
                          AuditEscalate, Emit, StartRai, Lookup, SetPending, RaiEvent, AuditRai,
                          StartNote, NoteEvent, AuditNote
    <3>3. CASE RowStep(r)
      BY <3>3, Unseen DEF RowStep, StartAssign, Lookup, SetAssignee, AuditAssign, Emit, StartFlag,
                          SetFlag, AuditFlag
    <3>4. CASE MailStep(r) \/ Abort(r)
      BY <2>3, <3>4, Unseen DEF MailStep, RecordNotice, AuditNotice, Abort
    <3>5. QED
      BY <1>3, <3>1, <3>2, <3>3, <3>4
  <2>4. QED
    BY <2>1, <2>2, <2>3
<1>4. QED
  BY <1>1, <1>2, <1>3 DEF Next

\* recordDecision with its unique constraint, and the emails after it: for any number of
\* cases, users and requests, a case is decided at most once, never again, and announced
\* at most once, as decided.
THEOREM ReviewImplementsRegister == Spec => RegisterSpec
<1>1. Spec => []ReviewInv /\ [][Next]_vars
  BY ReviewInvariant, PTL DEF Spec
<1>2. Spec => Register!Init
  BY RegisterInit DEF Spec
<1>3. []ReviewInv /\ [][Next]_vars => [][Register!Next]_(Register!vars)
  BY RegisterStep, PTL
<1>4. QED
  BY <1>1, <1>2, <1>3, PTL DEF RegisterSpec, Register!Spec
-----------------------------------------------------------------------------
(* A decision of compliance staff closes the case.                         *)

\* r's decision has been applied to its case.
Applied(r) ==
    req[r].op = "decide" /\ req[r].pc \in {"decision_event", "audit_decision", "lookup_case", "done"}
                                            \cup Mailing

\* Nobody escalates the case or requests information on it.
Quiet(c) ==
    \A q \in Request : req[q].case = c /\ req[q].op \in {"escalate", "rai"} => At(q, "not_found")

\* The stages of the other operations that end without an email.
Aside == {"escalate_event", "audit_escalate", "note_event", "audit_note", "set_assignee",
          "audit_assign", "set_flag", "audit_flag"}

\* The inductive form of ComplianceDecisionCloses: it names the author of the decision,
\* whom nobody else about to close the case can be.
ClosingInv ==
    \A r \in Request :
      /\ At(r, "idle") => req[r].op = "note"
      /\ req[r].pc \in Aside => req[r].op # "decide"
      /\ Applied(r) => /\ approval[req[r].case] = [decision |-> req[r].arg, by |-> r]
                       /\ Caller[r] \in Compliance /\ Quiet(req[r].case)
                            => status[req[r].case] = req[r].arg /\ closed[req[r].case]

\* How a step moves its request: it begins, or goes on from where it was.
Begun(r) ==
    /\ req[r].pc = "idle"
    /\ req'[r].pc \in {"insert_approval", "conflict", "set_pending", "not_found",
                       "escalate_event", "note_event", "set_assignee", "set_flag"}
    /\ req'[r].pc \in Aside => req'[r].op # "decide"

GoneOn(r) ==
    /\ req[r].pc \notin {"idle"} \cup Ended
    /\ req'[r].op = req[r].op /\ req'[r].case = req[r].case /\ req'[r].arg = req[r].arg
    /\ req'[r].pc \notin {"idle", "not_found"}
    /\ req'[r].pc \in Aside => req[r].pc \in Aside
    /\ Applied(r)' => Applied(r) \/ CloseCase(r)

LEMMA Moves ==
    ASSUME ReviewInv, ClosingInv, NEW r \in Request,
           DecideStep(r) \/ EventStep(r) \/ RowStep(r) \/ MailStep(r) \/ Abort(r)
    PROVE  /\ \A q \in Request \ {r} : req'[q] = req[q]
           /\ Begun(r) \/ GoneOn(r)
<1>1. req \in [Request -> RequestState] /\ Shape(r) /\ (req[r].pc \in Aside => req[r].op # "decide")
  BY DEF ReviewInv, TypeOK, RequestState, Sound, ClosingInv
<1>2. ASSUME NEW stage \in Running \cup Ended, Goto(r, stage)
      PROVE  /\ \A q \in Request \ {r} : req'[q] = req[q]
             /\ req'[r].op = req[r].op /\ req'[r].case = req[r].case /\ req'[r].arg = req[r].arg
             /\ req'[r].pc = stage
  BY <1>2, GotoMoves DEF ReviewInv
<1>3. ASSUME NEW op \in Op, NEW c, NEW arg, NEW stage, Begin(r, op, c, arg, stage)
      PROVE  /\ \A q \in Request \ {r} : req'[q] = req[q]
             /\ req[r].pc = "idle" /\ req'[r].pc = stage /\ req'[r].op = op
  BY <1>1, <1>3 DEF Begin, At
<1>4. CASE StartDecide(r)
  BY <1>3, <1>4 DEF StartDecide, Begun, Aside, Op
<1>5. CASE StartEscalate(r)
  BY <1>3, <1>5 DEF StartEscalate, Begun, Op
<1>6. ASSUME NEW op \in {"rai", "note", "assign", "flag"},
             NEW stage \in {"set_pending", "note_event", "set_assignee", "set_flag"},
             Lookup(r, op, stage)
      PROVE  (\A q \in Request \ {r} : req'[q] = req[q]) /\ Begun(r)
  <2>1. PICK c, arg : Begin(r, op, c, arg, IF Sees(r, c) THEN stage ELSE "not_found")
    BY <1>6 DEF Lookup
  <2>2. /\ \A q \in Request \ {r} : req'[q] = req[q]
        /\ req[r].pc = "idle" /\ req'[r].pc \in {stage, "not_found"} /\ req'[r].op = op
    BY <1>3, <2>1 DEF Op
  <2>3. QED
    BY <2>2 DEF Begun, Aside
<1>7. CASE StartRai(r) \/ StartNote(r) \/ StartAssign(r) \/ StartFlag(r)
  BY <1>6, <1>7 DEF StartRai, StartNote, StartAssign, StartFlag
<1>8. ASSUME NEW stage \in Running \cup Ended, Goto(r, stage), req[r].pc \notin {"idle"} \cup Ended,
             stage # "not_found", stage \in Aside => req[r].pc \in Aside,
             stage \in {"decision_event", "audit_decision", "lookup_case", "done"} \cup Mailing
               => \/ CloseCase(r) \/ req[r].op # "decide"
                  \/ req[r].pc \in {"decision_event", "audit_decision", "lookup_case"} \cup Mailing
      PROVE  (\A q \in Request \ {r} : req'[q] = req[q]) /\ GoneOn(r)
  <2>1. stage # "idle"
    BY DEF Running, Ended
  <2>2. QED
    BY <1>2, <1>8, <2>1 DEF GoneOn, Applied
<1>9. CASE InsertApproval(r) \/ ApprovalConflict(r) \/ CloseCase(r) \/ LookupDecided(r)
  BY <1>8, <1>9 DEF InsertApproval, StoreApproval, ApprovalConflict, CloseCase, LookupDecided, At, Ended,
                    Running, Aside, Mailing
<1>10. CASE DecisionEvent(r) \/ AuditDecision(r)
  BY <1>8, <1>10 DEF DecisionEvent, AuditDecision, Event, Emit, At, Ended, Running, Aside, Mailing
<1>11. CASE EscalateEvent(r) \/ AuditEscalate(r) \/ NoteEvent(r) \/ AuditNote(r)
  BY <1>1, <1>8, <1>11 DEF EscalateEvent, AuditEscalate, NoteEvent, AuditNote, Event, Emit, At, Ended,
                           Running, Aside, Mailing
<1>12. CASE SetPending(r) \/ RaiEvent(r) \/ AuditRai(r)
  BY <1>1, <1>8, <1>12 DEF SetPending, RaiEvent, AuditRai, Event, Emit, At, Ended, Running, Aside,
                           Mailing, Shape
<1>13. CASE SetAssignee(r) \/ AuditAssign(r) \/ SetFlag(r) \/ AuditFlag(r)
  BY <1>1, <1>8, <1>13 DEF SetAssignee, AuditAssign, SetFlag, AuditFlag, Emit, At, Ended, Running,
                           Aside, Mailing
<1>14. CASE MailStep(r) \/ Abort(r)
  BY <1>8, <1>14 DEF MailStep, SendMail, RecordNotice, AuditNotice, Abort, At, Ended, Running, Aside,
                     Mailing
<1>15. QED
  BY <1>4, <1>5, <1>7, <1>9, <1>10, <1>11, <1>12, <1>13, <1>14
     DEF DecideStep, EventStep, RowStep

\* Three actions write the status of a case, and one the approvals.
LEMMA WhoWrites ==
    ASSUME ReviewInv, NEW r \in Request,
           DecideStep(r) \/ EventStep(r) \/ RowStep(r) \/ MailStep(r) \/ Abort(r)
    PROVE  /\ UNCHANGED <<status, closed>> \/ CloseCase(r) \/ StartEscalate(r) \/ SetPending(r)
           /\ Frozen
<1>1. CASE DecideStep(r)
  <2>1. CASE InsertApproval(r)
    <3>1. /\ approval' = [approval EXCEPT ![req[r].case] = [decision |-> req[r].arg, by |-> r]]
          /\ approval[req[r].case].decision = None /\ UNCHANGED rows
      BY <2>1 DEF InsertApproval, StoreApproval
    <3>2. QED
      BY <3>1 DEF Frozen, rows, ReviewInv, TypeOK
  <2>2. CASE ~InsertApproval(r)
    BY <1>1, <2>2 DEF DecideStep, StartDecide, ApprovalConflict, CloseCase, UpdateStatus, DecisionEvent,
                      Event, AuditDecision, Emit, LookupDecided, rows, Frozen
  <2>3. QED
    BY <2>1, <2>2
<1>2. CASE EventStep(r)
  BY <1>2 DEF EventStep, StartEscalate, UpdateStatus, EscalateEvent, Event, AuditEscalate, Emit, StartRai,
              Lookup, SetPending, RaiEvent, AuditRai, StartNote, NoteEvent, AuditNote, rows, Frozen
<1>3. CASE RowStep(r)
  BY <1>3 DEF RowStep, StartAssign, Lookup, SetAssignee, AuditAssign, Emit, StartFlag, SetFlag, AuditFlag,
              rows, Frozen
<1>4. CASE MailStep(r) \/ Abort(r)
  BY <1>4 DEF MailStep, SendMail, RecordNotice, AuditNotice, Abort, rows, Frozen
<1>5. QED
  BY <1>1, <1>2, <1>3, <1>4

\* A case that is quiet after a step was quiet before it.
LEMMA QuietBefore ==
    ASSUME ClosingInv, NEW r \in Request, \A q \in Request \ {r} : req'[q] = req[q],
           Begun(r) \/ GoneOn(r), NEW c, Quiet(c)'
    PROVE  Quiet(c)
<1>1. ASSUME NEW q \in Request, req[q].case = c, req[q].op \in {"escalate", "rai"}
      PROVE  At(q, "not_found")
  <2>1. CASE q # r
    BY <1>1, <2>1 DEF Quiet, At
  <2>2. CASE q = r /\ GoneOn(r)
    BY <1>1, <2>2 DEF Quiet, GoneOn, At
  <2>3. CASE q = r /\ Begun(r)
    BY <1>1, <2>3 DEF ClosingInv, Begun, At
  <2>4. QED
    BY <2>1, <2>2, <2>3
<1>2. QED
  BY <1>1 DEF Quiet

\* A step on a case that stays quiet writes its status only as its decision.
LEMMA QuietStep ==
    ASSUME ReviewInv, ClosingInv, NEW r \in Request,
           DecideStep(r) \/ EventStep(r) \/ RowStep(r) \/ MailStep(r) \/ Abort(r),
           NEW c \in Case, Quiet(c)'
    PROVE  \/ status'[c] = status[c] /\ closed'[c] = closed[c]
           \/ CloseCase(r) /\ req[r].case = c
<1>1. UNCHANGED <<status, closed>> \/ CloseCase(r) \/ StartEscalate(r) \/ SetPending(r)
  BY WhoWrites
<1>2. req \in [Request -> RequestState] /\ status \in [Case -> Status] /\ closed \in [Case -> BOOLEAN]
  BY DEF ReviewInv, TypeOK, RequestState
<1>3. CASE CloseCase(r)
  BY <1>2, <1>3 DEF CloseCase, UpdateStatus
<1>4. CASE StartEscalate(r)
  <2>1. PICK b \in Case : /\ Begin(r, "escalate", b, None, "escalate_event")
                          /\ UpdateStatus(r, b, "escalated")
    BY <1>4 DEF StartEscalate
  <2>2. req'[r].case = b /\ req'[r].op = "escalate" /\ req'[r].pc = "escalate_event"
    BY <1>2, <2>1 DEF Begin
  <2>3. b # c
    BY <2>2 DEF Quiet, At
  <2>4. QED
    BY <1>2, <2>1, <2>3 DEF UpdateStatus
<1>5. CASE SetPending(r)
  <2>1. /\ UpdateStatus(r, req[r].case, "pending_info") /\ Goto(r, "rai_event") /\ req[r].op = "rai"
    BY <1>5 DEF SetPending, At, ReviewInv, Sound, Shape
  <2>2. req'[r].case = req[r].case /\ req'[r].op = "rai" /\ req'[r].pc = "rai_event"
    BY <2>1, GotoMoves DEF ReviewInv, Running
  <2>3. req[r].case # c
    BY <2>2 DEF Quiet, At
  <2>4. QED
    BY <1>2, <2>1, <2>3 DEF UpdateStatus
<1>6. QED
  BY <1>1, <1>3, <1>4, <1>5

LEMMA ClosingKept ==
    ASSUME ReviewInv, ClosingInv, NEW r \in Request,
           DecideStep(r) \/ EventStep(r) \/ RowStep(r) \/ MailStep(r) \/ Abort(r)
    PROVE  ClosingInv'
<1>1. (\A q \in Request \ {r} : req'[q] = req[q]) /\ (Begun(r) \/ GoneOn(r))
  BY Moves
<1>2. Frozen
  BY WhoWrites
<1>3. ASSUME NEW q \in Request
      PROVE  (At(q, "idle") => req[q].op = "note")' /\ (req[q].pc \in Aside => req[q].op # "decide")'
  <2>1. CASE q # r
    BY <1>1, <2>1 DEF ClosingInv, At
  <2>2. CASE q = r
    BY <1>1, <2>2 DEF ClosingInv, Begun, GoneOn, At
  <2>3. QED
    BY <2>1, <2>2
<1>4. ASSUME NEW q \in Request, Applied(q)'
      PROVE  /\ approval'[req'[q].case] = [decision |-> req'[q].arg, by |-> q]
             /\ Caller[q] \in Compliance /\ Quiet(req[q].case)'
                  => status'[req'[q].case] = req'[q].arg /\ closed'[req'[q].case]
  <2>1. PICK c : c = req'[q].case
    OBVIOUS
  <2>2. CASE Applied(q) /\ req'[q].case = req[q].case /\ req'[q].arg = req[q].arg
    <3>1. c \in Case /\ req[q].arg \in Decision /\ approval[c] = [decision |-> req[q].arg, by |-> q]
      BY <2>1, <2>2 DEF ClosingInv, ReviewInv, Sound, Shape, Applied, Mailing
    <3>2. approval'[c] = approval[c]
      BY <1>2, <3>1, CaseReviewAssumption DEF Frozen
    <3>3. ASSUME Caller[q] \in Compliance, Quiet(c)'
          PROVE  status'[c] = req[q].arg /\ closed'[c]
      <4>1. status[c] = req[q].arg /\ closed[c]
        BY <1>1, <2>1, <2>2, <3>3, QuietBefore DEF ClosingInv
      \* Nobody else is about to close the case: the approval names q.
      <4>2. ~(CloseCase(r) /\ req[r].case = c)
        <5>1. SUFFICES ASSUME CloseCase(r), req[r].case = c PROVE FALSE
          OBVIOUS
        <5>2. approval[c] = [decision |-> req[r].arg, by |-> r] /\ req[r].pc = "close_case"
          BY <5>1 DEF CloseCase, At, ReviewInv, Sound, OnRecord, Recorded
        <5>3. q = r
          BY <3>1, <5>2
        <5>4. QED
          BY <2>2, <5>2, <5>3 DEF Applied, Mailing
      <4>3. QED
        BY <3>1, <3>3, <4>1, <4>2, QuietStep
    <3>4. QED
      BY <2>1, <2>2, <3>1, <3>2, <3>3
  <2>3. CASE q = r /\ CloseCase(r) /\ req'[r].case = req[r].case /\ req'[r].arg = req[r].arg
    <3>1. /\ UpdateStatus(r, c, req[r].arg) /\ c \in Case /\ req[r].arg \in Decision
          /\ approval[c] = [decision |-> req[r].arg, by |-> r] /\ UNCHANGED approval
      BY <2>1, <2>3 DEF CloseCase, UpdateStatus, At, ReviewInv, Sound, Shape, OnRecord, Recorded
    <3>2. Caller[r] \in Compliance => status'[c] = req[r].arg /\ closed'[c]
      BY <3>1 DEF UpdateStatus, Sees, ReviewInv, TypeOK
    <3>3. QED
      BY <2>1, <2>3, <3>1, <3>2
  <2>4. CASE q # r
    BY <1>1, <1>4, <2>2, <2>4 DEF Applied
  <2>5. CASE q = r
    <3>1. GoneOn(r)
      BY <1>1, <1>4, <2>5 DEF Begun, Applied, Mailing
    <3>2. QED
      BY <1>4, <2>2, <2>3, <2>5, <3>1 DEF GoneOn
  <2>6. QED
    BY <2>4, <2>5
<1>5. QED
  BY <1>3, <1>4 DEF ClosingInv

\* updateCaseStatus for those who see every case: a decision of compliance staff answered
\* 201 closes the case with its outcome, whatever is assigned, flagged or decided meanwhile.
THEOREM ComplianceDecides == Spec => []ComplianceDecisionCloses
<1>1. Init => ClosingInv
  BY DEF Init, ClosingInv, At, Applied, Aside, Mailing
<1>2. ReviewInv /\ ClosingInv /\ [Next]_vars => ClosingInv'
  <2>1. SUFFICES ASSUME ReviewInv, ClosingInv, [Next]_vars PROVE ClosingInv'
    OBVIOUS
  <2>2. CASE UNCHANGED vars
    BY <2>1, <2>2 DEF vars, rows, ClosingInv, At, Applied, Quiet
  <2>3. CASE Next
    BY <2>1, <2>3, ClosingKept DEF Next
  <2>4. QED
    BY <2>1, <2>2, <2>3
<1>3. ClosingInv => ComplianceDecisionCloses
  BY DEF ClosingInv, ComplianceDecisionCloses, DecisionCloses, Applied, Quiet, At
<1>4. QED
  BY <1>1, <1>2, <1>3, ReviewInvariant, PTL DEF Spec
=============================================================================

