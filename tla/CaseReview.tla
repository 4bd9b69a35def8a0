----------------------------- MODULE CaseReview -----------------------------
(***************************************************************************)
(* The review of cases: recording a decision (modules/approvals), escalat- *)
(* ing, requesting information and adding notes (modules/cases), assigning *)
(* and SAR-flagging a case (app/api/cases/[id]/assign and sar), with the   *)
(* customer emails of modules/notifications.                               *)
(*                                                                         *)
(* A request is one HTTP call of one user; each supabase call it awaits is *)
(* a transaction, hence an action.  Row-level security shows a case to     *)
(* compliance staff and to the user it is assigned to; an UPDATE of a row  *)
(* that its author cannot see changes nothing and reports no error, and    *)
(* updateCaseStatus does not look at the number of rows it changed.        *)
(***************************************************************************)
EXTENDS Naturals

CONSTANTS
    Case,        \* review cases, all open at the start
    Analyst,     \* users by role
    Senior,
    Compliance,  \* mlro and tenant_admin, who have the same rights here
    Request,     \* HTTP requests
    Caller,      \* the user who makes each request
    Calls,       \* the operations each request may be
    None         \* no value

User == Analyst \cup Senior \cup Compliance
Decision == {"approved", "rejected"}
Flag == {"flagged", "clear"}
Op == {"decide", "escalate", "rai", "note", "assign", "flag"}

\* ROLE_PERMISSIONS: cases:approve_standard, cases:assign, cases:flag_sar; every
\* one of these roles has the permissions of the other operations.
Allowed(u) == {"escalate", "rai", "note"}
              \cup (IF u \in Senior \cup Compliance THEN {"decide", "assign"} ELSE {})
              \cup (IF u \in Compliance THEN {"flag"} ELSE {})

ASSUME CaseReviewAssumption ==
    /\ Caller \in [Request -> User] /\ Calls \in [Request -> SUBSET Op]
    /\ None \notin User \cup Decision
    /\ Analyst \cap (Senior \cup Compliance) = {} /\ Senior \cap Compliance = {}

VARIABLES
    req,       \* the requests: stage, operation, case, argument
    status,    \* cases.status
    assigned,  \* cases.assigned_to
    closed,    \* cases.closed_at is set
    flagged,   \* cases.sar_flagged
    approval,  \* approvals: the decision on each case and who recorded it
    events,    \* case_events: type and request
    trail,     \* audit_log: type and request
    mail,      \* emails the provider accepted, by idempotency key
    notices    \* notification_events, by request

vars == <<req, status, assigned, closed, flagged, approval, events, trail, mail,
          notices>>
rows == <<status, assigned, closed, flagged>>
-----------------------------------------------------------------------------
Running == {"insert_approval", "close_case", "decision_event", "audit_decision",
            "lookup_case", "escalate_event", "audit_escalate", "set_pending",
            "rai_event", "audit_rai", "note_event", "audit_note", "set_assignee",
            "audit_assign", "set_flag", "audit_flag", "send_mail", "record_notice",
            "audit_notice"}
\* 2xx; decided before; 404; an RLS error; killed or 500.
Ended == {"done", "conflict", "not_found", "denied", "aborted"}

Status == {"open", "pending_info", "escalated"} \cup Decision
Kind == Decision \cup {"escalated", "request_additional_info", "note"}
AuditType == Kind \cup {"assigned", "sar_flag", "email_approved", "email_rejected",
                        "email_rai"}

TypeOK ==
    /\ req \in [Request -> [pc : {"idle"} \cup Running \cup Ended, op : Op,
                            case : Case \cup {None},
                            arg : Decision \cup Flag \cup User \cup {None}]]
    /\ status \in [Case -> Status]
    /\ assigned \in [Case -> User \cup {None}]
    /\ closed \in [Case -> BOOLEAN] /\ flagged \in [Case -> BOOLEAN]
    /\ approval \in [Case -> [decision : Decision \cup {None},
                              by : Request \cup {None}]]
    /\ events \subseteq Kind \X Request
    /\ trail \subseteq AuditType \X Request
    /\ mail \subseteq [kind : Decision \cup {"rai"}, case : Case, actor : User \cup {None}]
    /\ notices \subseteq Request

Init ==
    /\ req = [r \in Request |-> [pc |-> "idle", op |-> "note", case |-> None, arg |-> None]]
    /\ status = [c \in Case |-> "open"]
    /\ assigned \in [Case -> User \cup {None}]
    /\ closed = [c \in Case |-> FALSE] /\ flagged = [c \in Case |-> FALSE]
    /\ approval = [c \in Case |-> [decision |-> None, by |-> None]]
    /\ events = {} /\ trail = {} /\ mail = {} /\ notices = {}
-----------------------------------------------------------------------------
At(r, stage) == req[r].pc = stage
Goto(r, stage) == req' = [req EXCEPT ![r].pc = stage]

\* A new call passes assertPermission for its operation.
Begin(r, op, c, arg, stage) ==
    /\ At(r, "idle") /\ op \in Calls[r] \cap Allowed(Caller[r])
    /\ req' = [req EXCEPT ![r] = [pc |-> stage, op |-> op, case |-> c, arg |-> arg]]

\* cases_select_analyst
Sees(r, c) == Caller[r] \in Compliance \/ assigned[c] = Caller[r]

Event(r, stage, kind, next) ==
    /\ At(r, stage)
    /\ events' = events \cup {<<kind, r>>}
    /\ Goto(r, next)
    /\ UNCHANGED <<rows, approval, trail, mail, notices>>

Emit(r, stage, type, next) ==
    /\ At(r, stage)
    /\ trail' = trail \cup {<<type, r>>}
    /\ Goto(r, next)
    /\ UNCHANGED <<rows, approval, events, mail, notices>>

\* updateCaseStatus: a row the caller cannot see is not updated, silently.
UpdateStatus(r, c, s) ==
    /\ status' = IF Sees(r, c) THEN [status EXCEPT ![c] = s] ELSE status
    /\ closed' = IF Sees(r, c) /\ s \in Decision THEN [closed EXCEPT ![c] = TRUE]
                 ELSE closed
    /\ UNCHANGED <<assigned, flagged, approval, events, trail, mail, notices>>

\* getCaseById: null, and a 404, for a case the caller cannot see.
Lookup(r, op, stage) ==
    /\ \E c \in Case, arg \in CASE op = "assign" -> User \cup {None}
                                [] op = "flag"   -> Flag
                                [] OTHER         -> {None} :
         Begin(r, op, c, arg, IF Sees(r, c) THEN stage ELSE "not_found")
    /\ UNCHANGED <<rows, approval, events, trail, mail, notices>>
-----------------------------------------------------------------------------
(* POST /api/approvals/[caseId] : recordDecision, then the email.          *)

\* getApprovalByCaseId
StartDecide(r) ==
    /\ \E c \in Case, d \in Decision :
         Begin(r, "decide", c, d,
               IF approval[c].decision = None THEN "insert_approval" ELSE "conflict")
    /\ UNCHANGED <<rows, approval, events, trail, mail, notices>>

StoreApproval(r) ==
    /\ approval' = [approval EXCEPT ![req[r].case] = [decision |-> req[r].arg, by |-> r]]
    /\ Goto(r, "close_case")
    /\ UNCHANGED <<rows, events, trail, mail, notices>>

\* Mutant: no UNIQUE (case_id), so the check made by StartDecide is all there is.
InsertApprovalNoUniqueBug(r) == At(r, "insert_approval") /\ StoreApproval(r)

\* insertApproval, under UNIQUE (case_id).
InsertApproval(r) ==
    /\ At(r, "insert_approval") /\ approval[req[r].case].decision = None
    /\ StoreApproval(r)

ApprovalConflict(r) ==
    /\ At(r, "insert_approval") /\ approval[req[r].case].decision # None
    /\ Goto(r, "conflict")
    /\ UNCHANGED <<rows, approval, events, trail, mail, notices>>

\* Mutants: every decision closes the case as approved; closing it is left to a
\* later sweep.
CloseCaseApprovesBug(r) ==
    /\ At(r, "close_case")
    /\ UpdateStatus(r, req[r].case, "approved")
    /\ Goto(r, "decision_event")

CloseCaseSkippedBug(r) ==
    /\ At(r, "close_case")
    /\ Goto(r, "decision_event")
    /\ UNCHANGED <<rows, approval, events, trail, mail, notices>>

CloseCase(r) ==
    /\ At(r, "close_case")
    /\ UpdateStatus(r, req[r].case, req[r].arg)
    /\ Goto(r, "decision_event")

\* Mutant: the email leaves before the decision is audited.
DecisionEventMailsBug(r) == Event(r, "decision_event", req[r].arg, "send_mail")

DecisionEvent(r) == Event(r, "decision_event", req[r].arg, "audit_decision")

AuditDecision(r) == Emit(r, "audit_decision", req[r].arg, "lookup_case")

\* The route reads the case back for its customer; without it no email is sent.
LookupDecided(r) ==
    /\ At(r, "lookup_case")
    /\ Goto(r, IF Sees(r, req[r].case) THEN "send_mail" ELSE "done")
    /\ UNCHANGED <<rows, approval, events, trail, mail, notices>>
-----------------------------------------------------------------------------
(* POST /api/cases/[id]/events : escalateCase, requestAdditionalInfo,      *)
(* addNote.                                                                *)

\* Mutant: the event type written to the status column.
StartEscalateTypoBug(r) ==
    \E c \in Case : /\ Begin(r, "escalate", c, None, "escalate_event")
                    /\ UpdateStatus(r, c, "escalation")

StartEscalate(r) ==
    \E c \in Case : /\ Begin(r, "escalate", c, None, "escalate_event")
                    /\ UpdateStatus(r, c, "escalated")

EscalateEvent(r) == Event(r, "escalate_event", "escalated", "audit_escalate")

AuditEscalate(r) == Emit(r, "audit_escalate", "escalated", "done")

StartRai(r) == Lookup(r, "rai", "set_pending")

SetPending(r) ==
    /\ At(r, "set_pending")
    /\ UpdateStatus(r, req[r].case, "pending_info")
    /\ Goto(r, "rai_event")

RaiEvent(r) == Event(r, "rai_event", "request_additional_info", "audit_rai")

AuditRai(r) == Emit(r, "audit_rai", "request_additional_info", "send_mail")

StartNote(r) == Lookup(r, "note", "note_event")

NoteEvent(r) == Event(r, "note_event", "note", "audit_note")

AuditNote(r) == Emit(r, "audit_note", "note", "done")
-----------------------------------------------------------------------------
(* PATCH /api/cases/[id]/assign and /api/cases/[id]/sar                    *)

StartAssign(r) == Lookup(r, "assign", "set_assignee")

\* The row must be visible to the caller after the UPDATE as well as before it.
MayAssign(r) == Caller[r] \in Compliance \/ req[r].arg = Caller[r]

SetAssignee(r) ==
    /\ At(r, "set_assignee")
    /\ LET c == req[r].case IN
         \/ /\ Sees(r, c) /\ MayAssign(r)
            /\ assigned' = [assigned EXCEPT ![c] = req[r].arg]
            /\ Goto(r, "audit_assign")
         \/ /\ Sees(r, c) /\ ~MayAssign(r)
            /\ Goto(r, "denied") /\ UNCHANGED assigned
         \/ /\ ~Sees(r, c)
            /\ Goto(r, "audit_assign") /\ UNCHANGED assigned
    /\ UNCHANGED <<status, closed, flagged, approval, events, trail, mail, notices>>

AuditAssign(r) == Emit(r, "audit_assign", "assigned", "done")

StartFlag(r) == Lookup(r, "flag", "set_flag")

SetFlag(r) ==
    /\ At(r, "set_flag")
    /\ flagged' = [flagged EXCEPT ![req[r].case] = (req[r].arg = "flagged")]
    /\ Goto(r, "audit_flag")
    /\ UNCHANGED <<status, assigned, closed, approval, events, trail, mail, notices>>

AuditFlag(r) == Emit(r, "audit_flag", "sar_flag", "done")
-----------------------------------------------------------------------------
(* sendApprovalEmail, sendRejectionEmail, sendRaiEmail: commonSend.        *)

\* Mutant: one template for both decisions.
MailKindApprovedBug(r) == IF req[r].op = "decide" THEN "approved" ELSE "rai"

MailKind(r) == IF req[r].op = "decide" THEN req[r].arg ELSE "rai"

\* Resend, or no address to send to.  The provider keeps one message per
\* idempotency key: case and kind, and for a request for information the actor.
SendMail(r) ==
    /\ At(r, "send_mail")
    /\ \/ mail' = mail \cup {[kind |-> MailKind(r), case |-> req[r].case,
                              actor |-> IF req[r].op = "decide" THEN None ELSE Caller[r]]}
       \/ UNCHANGED mail
    /\ Goto(r, "record_notice")
    /\ UNCHANGED <<rows, approval, events, trail, notices>>

MailAudit == [approved |-> "email_approved", rejected |-> "email_rejected",
              rai |-> "email_rai"]

\* recordNotificationEvent and the audit that follows swallow their errors.
RecordNotice(r) ==
    /\ At(r, "record_notice")
    /\ notices' \in {notices, notices \cup {r}}
    /\ Goto(r, "audit_notice")
    /\ UNCHANGED <<rows, approval, events, trail, mail>>

AuditNotice(r) ==
    /\ At(r, "audit_notice")
    /\ trail' \in {trail, trail \cup {<<MailAudit[MailKind(r)], r>>}}
    /\ Goto(r, "done")
    /\ UNCHANGED <<rows, approval, events, mail, notices>>
-----------------------------------------------------------------------------
\* The function is killed, or the next call fails: nothing is rolled back.
Abort(r) ==
    /\ req[r].pc \in Running
    /\ Goto(r, "aborted")
    /\ UNCHANGED <<rows, approval, events, trail, mail, notices>>

DecideStep(r) == \/ StartDecide(r) \/ InsertApproval(r) \/ ApprovalConflict(r)
                 \/ CloseCase(r) \/ DecisionEvent(r) \/ AuditDecision(r)
                 \/ LookupDecided(r)

EventStep(r) == \/ StartEscalate(r) \/ EscalateEvent(r) \/ AuditEscalate(r)
                \/ StartRai(r) \/ SetPending(r) \/ RaiEvent(r) \/ AuditRai(r)
                \/ StartNote(r) \/ NoteEvent(r) \/ AuditNote(r)

RowStep(r) == \/ StartAssign(r) \/ SetAssignee(r) \/ AuditAssign(r)
              \/ StartFlag(r) \/ SetFlag(r) \/ AuditFlag(r)

MailStep(r) == SendMail(r) \/ RecordNotice(r) \/ AuditNotice(r)

Next == \E r \in Request :
          DecideStep(r) \/ EventStep(r) \/ RowStep(r) \/ MailStep(r) \/ Abort(r)

Spec == Init /\ [][Next]_vars
-----------------------------------------------------------------------------
\* A case shows a decision, or a closing date, only if that decision is in the
\* approvals table: no order of requests lets the case run ahead of, or disagree
\* with, the immutable record.  (It may lag behind it, or be overwritten.)
StatusNeedsApproval ==
    \A c \in Case : /\ status[c] \in Decision => approval[c].decision = status[c]
                    /\ closed[c] => approval[c].decision # None

\* The timeline and the audit log never tell of a decision other than the one on
\* record, nor name another request as its author, though two reviewers may
\* decide at once and both read "no decision yet".
TimelineMatchesDecision ==
    \A r \in Request, d \in Decision :
      <<d, r>> \in events \cup trail =>
        approval[req[r].case] = [decision |-> d, by |-> r]

\* "Dispatch the customer notification AFTER the approval is durably written": an
\* email about a decision was preceded by the approval, its event and its audit,
\* all of that decision, and a request for information by its audit.
MailAfterRecord ==
    \A m \in mail :
      IF m.kind \in Decision
      THEN LET a == approval[m.case] IN
           a.decision = m.kind /\ <<m.kind, a.by>> \in events \cap trail
      ELSE \E r \in Request : /\ Caller[r] = m.actor /\ req[r].case = m.case
                              /\ <<"request_additional_info", r>> \in events \cap trail

\* A decision answered 201 to one of the users closes the case with that outcome,
\* as long as nobody escalates the case or requests information on it.
DecisionCloses(users) ==
    \A r \in Request :
      LET c == req[r].case IN
      /\ At(r, "done") /\ req[r].op = "decide" /\ Caller[r] \in users
      /\ \A q \in Request : req[q].case = c /\ req[q].op \in {"escalate", "rai"}
                             => At(q, "not_found")
      => status[c] = req[r].arg /\ closed[c]

\* Decisions of compliance staff take effect, whatever is assigned meanwhile.
ComplianceDecisionCloses == DecisionCloses(Compliance)

\* docs/TEST_SCENARIOS.md R-11: "Senior Reviewer | Approve standard-risk case |
\* Approval recorded; case closed".
SeniorDecisionCloses == DecisionCloses(Senior)

\* The review implements the register of decisions.
Announced(c) ==
    IF [kind |-> "approved", case |-> c, actor |-> None] \in mail THEN "approved"
    ELSE IF [kind |-> "rejected", case |-> c, actor |-> None] \in mail THEN "rejected"
    ELSE None

Register == INSTANCE DecisionRegister
    WITH decision <- [c \in Case |-> approval[c].decision],
         announced <- [c \in Case |-> Announced(c)]

\* At most one decision per case, never changed, announced at most once and as
\* recorded: recordDecision with its UNIQUE constraint and the emails after it.
RegisterSpec == Register!Spec
=============================================================================
