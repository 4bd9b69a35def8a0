------------------------------ MODULE CasePage ------------------------------
(***************************************************************************)
(* The page of a case (app/(platform)/cases/[caseId]) in the browsers of   *)
(* several officers: what it offers to whom, what the panels keep in the   *)
(* browser, what a click asks of the server, and the Realtime channels     *)
(* that re-render the page when somebody else changed the case.            *)
(*                                                                         *)
(* A render on the server replaces what the page got as props; what a      *)
(* panel copied into its own state when it was mounted stays.  The server  *)
(* reads the case, and only then, in the browser, the channels are joined; *)
(* they drop and are joined again, and joining does not refresh.  The      *)
(* two channels share a websocket and are taken as one.  The route         *)
(* handlers, which CaseReview follows call by call, answer in one step     *)
(* here.                                                                   *)
(***************************************************************************)
CONSTANTS
    Officer,
    Nobody    \* no assignee

VARIABLES
    role,       \* user_roles of the officers
    published,  \* the tables are in the publication that Realtime reads
    case,       \* cases: status, assigned_to, sar_flagged
    decision,   \* approvals: the decision on the case
    item,       \* status of a screening hit, or of a document
    page        \* per officer: what the browser shows

caseRows == <<role, published, case, decision, item, page>>

CompletedStatus == {"approved", "rejected"}
SettledItem == {"positive", "negative"}  \* confirmed or false positive; verified or rejected

CaseStatus == {"open"} \cup CompletedStatus

\* live: the channels are joined.  due: a refresh is to be asked for; fetched: what the
\* server read for one that is not shown yet.  form: the assignee may be changed, or could
\* be when the page was opened.  missed: history, the case changed while the page was open
\* without its channels, and was not read since.
Shut == [open |-> FALSE, live |-> FALSE, due |-> FALSE, fetched |-> "none", form |-> FALSE,
         missed |-> FALSE, status |-> "open", flag |-> FALSE, item |-> "pending"]

CasePageTypeOK ==
    /\ role \in [Officer -> {"mlro", "senior_reviewer", "analyst"}]  \* tenant_admin as mlro
    /\ published \in BOOLEAN
    /\ case \in [status : CaseStatus, who : Officer \cup {Nobody}, flag : BOOLEAN]
    /\ decision \in {"none"} \cup CompletedStatus
    /\ item \in {"pending"} \cup SettledItem
    /\ page \in [Officer -> [open : BOOLEAN, live : BOOLEAN, due : BOOLEAN,
                             fetched : {"none"} \cup CaseStatus, form : BOOLEAN,
                             missed : BOOLEAN, status : CaseStatus, flag : BOOLEAN,
                             item : {"pending"} \cup SettledItem]]

CasePageInit ==
    /\ role \in [Officer -> {"mlro", "senior_reviewer", "analyst"}]
    /\ published \in BOOLEAN
    /\ case \in [status : {"open"}, who : Officer \cup {Nobody}, flag : {FALSE}]
    /\ decision = "none" /\ item = "pending"
    /\ page = [o \in Officer |-> Shut]
-----------------------------------------------------------------------------
(* Rendering                                                               *)

\* isRestrictedRole, and cases_select_analyst.
SeesCase(o) == role[o] = "mlro" \/ case.who = o

\* CaseDetailPage, on the server: the props of the panels become their state.
OpenPage(o) ==
    /\ ~page[o].open /\ SeesCase(o)
    /\ page' = [page EXCEPT ![o] =
         [Shut EXCEPT !.open = TRUE, !.status = case.status, !.flag = case.flag,
                      !.item = item,
                      !.form = role[o] # "analyst" /\ case.status \notin CompletedStatus]]
    /\ UNCHANGED <<role, published, case, decision, item>>

LeavePage(o) ==
    /\ page[o].open
    /\ page' = [page EXCEPT ![o] = Shut]
    /\ UNCHANGED <<role, published, case, decision, item>>

\* router.refresh(), on the server; a case that is no longer theirs is not found.
Refresh(o) ==
    /\ page[o].due /\ page[o].fetched = "none"
    /\ page' = [page EXCEPT ![o] = IF SeesCase(o)
                                   THEN [@ EXCEPT !.due = FALSE, !.missed = FALSE,
                                                  !.fetched = case.status]
                                   ELSE Shut]
    /\ UNCHANGED <<role, published, case, decision, item>>

\* Its answer in the browser: the new props.
ShowRefreshed(o) ==
    /\ page[o].fetched # "none"
    /\ page' = [page EXCEPT ![o].status = page[o].fetched, ![o].fetched = "none"]
    /\ UNCHANGED <<role, published, case, decision, item>>

\* CaseRealtime and CaseEventsRealtime are mounted, or the websocket is back: what happened
\* before is not told, and subscribe() asks for no refresh.
Subscribe(o) ==
    /\ page[o].open /\ ~page[o].live /\ published
    /\ page' = [page EXCEPT ![o].live = TRUE]
    /\ UNCHANGED <<role, published, case, decision, item>>

\* The websocket is gone.
Disconnect(o) ==
    /\ page[o].live
    /\ page' = [page EXCEPT ![o].live = FALSE]
    /\ UNCHANGED <<role, published, case, decision, item>>

\* Bug: the page listens to its case_events only.
NudgedByCaseBug(o) == FALSE

\* CaseRealtime: a change of the case reaches those who may see the new row.
NudgedByCase(o) == page[o].live /\ (role[o] = "mlro" \/ case'.who = o)

\* CaseEventsRealtime: an entry of the timeline reaches everybody.
NudgedByEvent(o) == page[o].live

\* What a refresh would bring: who may see the case, and its status.
CaseMoves == case'.status # case.status \/ case'.who # case.who

\* The pages after a click of o, which leaves the page of o as given.
After(o, own, Nudged(_)) ==
    page' = [p \in Officer |->
               LET shown == IF p = o THEN own ELSE page[p] IN
               [shown EXCEPT !.due = @ \/ Nudged(p),
                             !.missed = @ \/ (shown.open /\ ~shown.live /\ CaseMoves)]]

Refreshed(o) == [page[o] EXCEPT !.due = TRUE]
-----------------------------------------------------------------------------
(* What the page offers                                                    *)

IsClosed(o) == page[o].status \in CompletedStatus

\* Bug: the actions stay when the case is closed.
OffersActionsBug(o) == page[o].open

\* AnalystActions: not on a closed case.
OffersActions(o) == page[o].open /\ ~IsClosed(o)

OffersDecision(o) == OffersActions(o) /\ role[o] # "analyst"

\* CaseAssignPanel: a form opened before the case was closed stays.
OffersAssign(o) == page[o].open /\ page[o].form

OffersFlag(o) == page[o].open /\ role[o] = "mlro"

\* ScreeningHitsPanel and DocumentVerifyPanel: what their own state shows as pending.
OffersItem(o) == page[o].open /\ ~IsClosed(o) /\ page[o].item = "pending"
-----------------------------------------------------------------------------
(* What the routes behind it accept                                        *)

AcceptsNote(o) == SeesCase(o)

AcceptsDecision(o) == decision = "none"

\* The new row must be visible to the caller too.
AcceptsAssign(o, who) == SeesCase(o) /\ (role[o] = "mlro" \/ who = o)

AcceptsFlag(o) == SeesCase(o)
-----------------------------------------------------------------------------
(* Clicks.  A refused one shows its message and leaves the page as it is.  *)

SubmitNote(o) ==
    /\ OffersActions(o)
    /\ UNCHANGED <<role, published, case, decision, item>>
    /\ IF AcceptsNote(o) THEN After(o, Refreshed(o), NudgedByEvent) ELSE UNCHANGED page

\* Without a row that it may see, the status of the case is not updated.
Decided(o, d) ==
    /\ decision' = d
    /\ case' = IF SeesCase(o) THEN [case EXCEPT !.status = d] ELSE case

SubmitDecision(o) ==
    /\ OffersDecision(o)
    /\ \/ ~AcceptsDecision(o) /\ UNCHANGED <<case, decision, page>>
       \/ /\ AcceptsDecision(o)
          /\ \E d \in CompletedStatus : Decided(o, d)
          /\ After(o, Refreshed(o), NudgedByEvent)
    /\ UNCHANGED <<role, published, item>>

\* The route dies after the update of the case, before the entry in the timeline.
DecisionCutShort(o) ==
    /\ OffersDecision(o) /\ AcceptsDecision(o)
    /\ \E d \in CompletedStatus : Decided(o, d)
    /\ IF SeesCase(o) THEN After(o, page[o], NudgedByCase) ELSE UNCHANGED page
    /\ UNCHANGED <<role, published, item>>

\* CaseAssignPanel
SubmitAssign(o) ==
    /\ OffersAssign(o)
    /\ \E who \in Officer \cup {Nobody} :
         IF AcceptsAssign(o, who)
         THEN /\ case' = [case EXCEPT !.who = who]
              /\ After(o, Refreshed(o), NudgedByCase)
         ELSE UNCHANGED <<case, page>>
    /\ UNCHANGED <<role, published, decision, item>>

\* SarFlagToggle: the opposite of what it shows; it does not refresh.
ToggleFlag(o) ==
    /\ OffersFlag(o)
    /\ case' = [case EXCEPT !.flag = ~page[o].flag]
    /\ After(o, [page[o] EXCEPT !.flag = ~@], NudgedByCase)
    /\ UNCHANGED <<role, published, decision, item>>

\* Whatever the status of the item, or of the case, is by now.
SettleItem(o) ==
    /\ OffersItem(o)
    /\ item' \in SettledItem
    /\ page' = [page EXCEPT ![o].item = item']
    /\ UNCHANGED <<role, published, case, decision>>

CasePageNext ==
    \E o \in Officer : \/ OpenPage(o) \/ LeavePage(o) \/ Refresh(o) \/ ShowRefreshed(o)
                       \/ Subscribe(o) \/ Disconnect(o) \/ SubmitNote(o) \/ SubmitDecision(o)
                       \/ DecisionCutShort(o) \/ SubmitAssign(o) \/ ToggleFlag(o)
                       \/ SettleItem(o)

CasePageSpec == CasePageInit /\ [][CasePageNext]_caseRows
-----------------------------------------------------------------------------
\* A page that is not about to be refreshed shows the status that the case has, whoever
\* changed it and whether or not the change got into the timeline: unless its officer may
\* not see the case any more, or the case changed while the page had no channel (between
\* the render and the subscription, or while the websocket was gone).  Such a change is
\* never told, so that a page with its channels up may stay behind for good.
ShownStatusIsCurrent ==
    \A o \in Officer :
      /\ page[o].open /\ SeesCase(o)
      /\ ~page[o].due /\ page[o].fetched = "none" /\ ~page[o].missed
      => page[o].status = case.status

\* Every button of a page that shows the status of the case works, but for two: a decision
\* was recorded and its author could not close the case (who lost it while the page was
\* open, or whose route was cut short before), and a senior reviewer gives a case away.
OffersAreAccepted ==
    \A o \in Officer : page[o].open /\ page[o].status = case.status /\ SeesCase(o) =>
      /\ OffersActions(o) => AcceptsNote(o)
      /\ OffersDecision(o) => AcceptsDecision(o) \/ case.status = "open"
      /\ OffersAssign(o) => \A who \in Officer \cup {Nobody} :
                              AcceptsAssign(o, who) \/ (role[o] = "senior_reviewer" /\ who # o)
      /\ OffersFlag(o) => AcceptsFlag(o)

CasePageSound == ShownStatusIsCurrent /\ OffersAreAccepted
=============================================================================
