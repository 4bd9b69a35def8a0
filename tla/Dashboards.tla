----------------------------- MODULE Dashboards -----------------------------
(***************************************************************************)
(* The numbers of the dashboards and of the reporting page, each counted   *)
(* by a query of its own over rows that the handlers of onboarding and     *)
(* case review go on changing.  The handlers are those of Onboarding and   *)
(* CaseReview, here one step each: what they leave in the columns read.    *)
(*                                                                         *)
(* Time passes in half days.  Row-level security shows the managers (mlro, *)
(* tenant_admin) every case of the tenant, everybody else those assigned   *)
(* to them.  No handler writes the states in_review and closed of a case,  *)
(* or paused and expired of a session.                                     *)
(*                                                                         *)
(* A query that fetches rows to count them gets all of them here.  The API *)
(* gives it 1000 at most (max_rows in supabase/config.toml), and the code  *)
(* does not notice: what is said of bars, months and times is said of a    *)
(* tenant with no more rows than that in the period.                       *)
(***************************************************************************)
EXTENDS Integers, FiniteSetsExt

CONSTANTS
    CaseId, SessionId,
    Staff,      \* users a case may be assigned to
    Unset,      \* NULL
    MaxClock,   \* bound: half days that pass
    MonthLength, Days  \* half days in a month; bars of a sparkline

\* NULL is no user and no time.
ASSUME DashboardsAssumption ==
    /\ MaxClock \in Nat
    /\ MonthLength \in Nat \ {0} /\ Days \in Nat \ {0}
    /\ IsFiniteSet(Staff) /\ Unset \notin Staff /\ Unset \notin Nat

VARIABLES
    clock,     \* now
    caseRow,   \* cases: a row, or Unset
    approvals, \* the cases with a row in approvals
    started    \* onboarding_sessions: a row, or Unset

dashboardRows == <<clock, caseRow, approvals, started>>

Band == {"medium", "high", "unacceptable"}
OpenStatus == {"open", "pending_info", "escalated"}
DecidedStatus == {"approved", "rejected"}

RiskBandToQueue == [medium |-> "standard", high |-> "edd", unacceptable |-> "escalation"]

DashboardsTypeOK ==
    /\ clock \in 0..MaxClock
    /\ caseRow \in [CaseId -> [status : OpenStatus \cup DecidedStatus,
                               owner : Staff \cup {Unset}, flagged : BOOLEAN, band : Band,
                               opened : 0..clock, closed : (0..clock) \cup {Unset}]
                              \cup {Unset}]
    /\ approvals \subseteq CaseId
    /\ started \in [SessionId -> [status : {"in_progress", "submitted"}, at : 0..clock]
                                \cup {Unset}]

DashboardsInit ==
    /\ clock = 0 /\ approvals = {}
    /\ caseRow = [c \in CaseId |-> Unset] /\ started = [s \in SessionId |-> Unset]
-----------------------------------------------------------------------------
(* The handlers.                                                           *)

Tick == /\ clock < MaxClock /\ clock' = clock + 1
        /\ UNCHANGED <<caseRow, approvals, started>>

InsertSession(s) ==
    /\ started[s] = Unset
    /\ started' = [started EXCEPT ![s] = [status |-> "in_progress", at |-> clock]]
    /\ UNCHANGED <<clock, caseRow, approvals>>

MarkSubmitted(s) ==
    /\ started[s] # Unset
    /\ started' = [started EXCEPT ![s].status = "submitted"]
    /\ UNCHANGED <<clock, caseRow, approvals>>

\* openCase, for a band that has a queue.
CreateCase(c, band) ==
    /\ caseRow[c] = Unset
    /\ caseRow' = [caseRow EXCEPT ![c] =
          [status |-> "open", owner |-> Unset, flagged |-> FALSE, band |-> band,
           opened |-> clock, closed |-> Unset]]
    /\ UNCHANGED <<clock, approvals, started>>

WriteCase(c, row) ==
    /\ caseRow' = [caseRow EXCEPT ![c] = row]
    /\ UNCHANGED <<clock, approvals, started>>

\* The assign route.
AssignCase(c, owner) == caseRow[c] # Unset /\ WriteCase(c, [caseRow[c] EXCEPT !.owner = owner])

\* escalateCase, requestAdditionalInfo: whatever the status; closed_at stays as it is.
SetOpenStatus(c, status) ==
    caseRow[c] # Unset /\ WriteCase(c, [caseRow[c] EXCEPT !.status = status])

\* The sar route.
FlagCase(c, flag) == caseRow[c] # Unset /\ WriteCase(c, [caseRow[c] EXCEPT !.flagged = flag])

\* Bug: a decision closes the case for good.
CloseCaseBug(c, decision) ==
    caseRow' = [caseRow EXCEPT ![c].status = "closed", ![c].closed = clock]

\* updateCaseStatus
CloseCase(c, decision) ==
    caseRow' = [caseRow EXCEPT ![c].status = decision, ![c].closed = clock]

\* recordDecision, once a case.  A case that its author cannot see is not updated.
DecideCase(c, decision) ==
    /\ caseRow[c] # Unset /\ c \notin approvals
    /\ approvals' = approvals \cup {c}
    /\ CloseCase(c, decision) \/ UNCHANGED caseRow
    /\ UNCHANGED <<clock, started>>

DashboardsNext ==
    \/ Tick
    \/ \E s \in SessionId : InsertSession(s) \/ MarkSubmitted(s)
    \/ \E c \in CaseId :
          \/ \E band \in Band : CreateCase(c, band)
          \/ \E owner \in Staff : AssignCase(c, owner)
          \/ \E status \in {"escalated", "pending_info"} : SetOpenStatus(c, status)
          \/ \E flag \in BOOLEAN : FlagCase(c, flag)
          \/ \E decision \in DecidedStatus : DecideCase(c, decision)

DashboardsSpec == DashboardsInit /\ [][DashboardsNext]_dashboardRows
-----------------------------------------------------------------------------
(* dashboards/queries.ts.                                                  *)

Total(f) == MapThenSumSet(LAMBDA key : f[key], DOMAIN f)
Sum(rows, Field(_)) == Total([key \in DOMAIN rows |-> Field(rows[key])])

CaseRows == {c \in CaseId : caseRow[c] # Unset}
Sessions == {s \in SessionId : started[s] # Unset}

CountCasesByStatus(statuses) == Cardinality({c \in CaseRows : caseRow[c].status \in statuses})
CountOpenCases == CountCasesByStatus(OpenStatus)
CountUnassignedOpenCases ==
    Cardinality({c \in CaseRows : caseRow[c].status = "open" /\ caseRow[c].owner = Unset})
CountCasesAssignedToWithStatus(user, statuses) ==
    Cardinality({c \in CaseRows : caseRow[c].owner = user /\ caseRow[c].status \in statuses})
\* My Open Cases
CountCasesAssignedTo(user) == CountCasesAssignedToWithStatus(user, {"open", "pending_info"})
CountOverdueAssignedCases(user, days) ==
    Cardinality({c \in CaseRows : /\ caseRow[c].owner = user
                              /\ caseRow[c].status \in {"open", "pending_info"}
                              /\ caseRow[c].opened < clock - 2 * days})

CountSarFlagged ==
    Cardinality({c \in CaseRows : caseRow[c].flagged /\ caseRow[c].status # "closed"})
CountCasesByQueue(queues) ==
    Cardinality({c \in CaseRows : /\ RiskBandToQueue[caseRow[c].band] \in queues
                              /\ caseRow[c].status # "closed"})
CountOpenCasesByRiskBand(bands) ==
    Cardinality({c \in CaseRows : caseRow[c].band \in bands /\ caseRow[c].status # "closed"})
GetOldestOpenInQueue(queues) ==
    {c \in CaseRows : /\ RiskBandToQueue[caseRow[c].band] \in queues
                  /\ caseRow[c].status # "closed"
                  /\ \A d \in CaseRows : /\ RiskBandToQueue[caseRow[d].band] \in queues
                                     /\ caseRow[d].status # "closed"
                                     => caseRow[c].opened <= caseRow[d].opened}

StartOfToday == 2 * (clock \div 2)
CountSessionsSince(t) == Cardinality({s \in Sessions : started[s].at >= t})
CountActiveSessions == Cardinality({s \in Sessions : started[s].status = "in_progress"})

\* Bug: a period before its time.
DailyVolumeBug(at) ==
    [d \in 1..Days |->
       Cardinality({x \in DOMAIN at : d = Days - (clock - at[x] + 1) \div 2})]

\* getDailySessionVolume, getDailyCaseVolume: by age in periods of 24 hours, oldest first.
DailyVolume(at) ==
    [d \in 1..Days |-> Cardinality({x \in DOMAIN at : d = Days - (clock - at[x]) \div 2})]
GetDailySessionVolume == DailyVolume([s \in Sessions |-> started[s].at])
GetDailyCaseVolume == DailyVolume([c \in CaseRows |-> caseRow[c].opened])
-----------------------------------------------------------------------------
(* reporting/queries.ts, under the row-level security of the reader.       *)

\* The viewer Unset is any manager.
VisibleTo(viewer) == {c \in CaseRows : viewer = Unset \/ caseRow[c].owner = viewer}

MonthKey(t) == t \div MonthLength
InRange(t, monthsBack) == MonthKey(t) >= MonthKey(clock) - monthsBack + 1

\* One record per month in which a session started.
GetMonthlyOnboardingVolume(monthsBack) ==
    LET found == {s \in Sessions : InRange(started[s].at, monthsBack)}
        In(month, statuses) == Cardinality({s \in found : /\ MonthKey(started[s].at) = month
                                                          /\ started[s].status \in statuses})
    IN [month \in {MonthKey(started[s].at) : s \in found} |->
          [received  |-> In(month, {"in_progress", "submitted"}),
           completed |-> In(month, {"submitted"})]]

\* One record per month in which a case was opened.
GetApprovalRateByMonth(viewer, monthsBack) ==
    LET found == {c \in VisibleTo(viewer) : InRange(caseRow[c].opened, monthsBack)}
        In(month, statuses) ==
            Cardinality({c \in found : /\ MonthKey(caseRow[c].opened) = month
                                       /\ caseRow[c].status \in statuses})
    IN [month \in {MonthKey(caseRow[c].opened) : c \in found} |->
          [approved |-> In(month, {"approved"}), rejected |-> In(month, {"rejected"}),
           pending  |-> In(month, OpenStatus \cup {"closed"})]]

\* Per risk band, over the cases that have closed_at.
GetAvgTimeToDecision(viewer, monthsBack) ==
    LET found == {c \in VisibleTo(viewer) : /\ InRange(caseRow[c].opened, monthsBack)
                                          /\ caseRow[c].closed # Unset}
        Of(band) == {c \in found : caseRow[c].band = band}
    IN [band \in {caseRow[c].band : c \in found} |->
          [total_days |-> Total([c \in Of(band) |-> caseRow[c].closed - caseRow[c].opened]),
           decisions  |-> Cardinality(Of(band))]]

\* Bug: the newer rows.
PriorPeriodBug(rows, monthsBack) ==
    [key \in {k \in DOMAIN rows : Cardinality({l \in DOMAIN rows : l > k}) < monthsBack} |->
       rows[key]]

\* ReadOnlyDashboard: rows.slice(0, monthsBack) of twice the period.
PriorPeriod(rows, monthsBack) ==
    [key \in {k \in DOMAIN rows : Cardinality({l \in DOMAIN rows : l < k}) < monthsBack} |->
       rows[key]]
-----------------------------------------------------------------------------
\* Every open case is on the tile of the unassigned or on one of its owner, unless it was
\* escalated or sent back to the customer before it had an owner: then it is on neither.
\* And the tiles of the MLRO that are called open count every case ever opened: nothing
\* leaves them when it is decided.
TilesAgree ==
    /\ CountOpenCases
         = CountUnassignedOpenCases
           + Total([user \in Staff |-> CountCasesAssignedTo(user)
                              + CountCasesAssignedToWithStatus(user, {"escalated"})])
           + CountCasesAssignedToWithStatus(Unset, {"pending_info", "escalated"})
    /\ \A user \in Staff : CountOverdueAssignedCases(user, 1) <= CountCasesAssignedTo(user)
    /\ CountCasesByQueue({"standard", "edd", "escalation"}) = Cardinality(CaseRows)
    /\ CountOpenCasesByRiskBand(Band) = CountOpenCases + CountCasesByStatus(DecidedStatus)
    /\ CountSarFlagged = Cardinality({c \in CaseRows : caseRow[c].flagged})
    /\ \A band \in Band :
         GetOldestOpenInQueue({RiskBandToQueue[band]}) = {}
           <=> CountOpenCasesByRiskBand({band}) = 0

\* A decision is counted in the headline by the status of its case, in the table of times
\* by closed_at, and recorded in approvals.  The table exceeds the headline by the decided
\* cases that were opened again; the approvals exceed the table by the decisions whose
\* update of the case found no row.
ReportsAgree ==
    \A viewer \in Staff \cup {Unset} :
      LET every == MonthKey(clock) + 1
          headline == Sum(GetApprovalRateByMonth(viewer, every),
                          LAMBDA r : r.approved + r.rejected)
          table == GetAvgTimeToDecision(viewer, every)
      IN /\ Sum(table, LAMBDA r : r.decisions)
              = headline + Cardinality({c \in VisibleTo(viewer) :
                                          /\ caseRow[c].closed # Unset
                                          /\ caseRow[c].status \in OpenStatus})
         /\ Cardinality(approvals \cap VisibleTo(viewer))
              = Sum(table, LAMBDA r : r.decisions)
                + Cardinality({c \in VisibleTo(viewer) \cap approvals :
                                 caseRow[c].closed = Unset})
         /\ \A band \in DOMAIN table : table[band].total_days >= 0

\* The bars are the last days, the last bar being 24 hours rather than the day of the tile.
BarsAdd ==
    /\ Sum(GetDailySessionVolume, LAMBDA n : n) = CountSessionsSince(clock - 2 * Days + 1)
    /\ Sum(GetDailyCaseVolume, LAMBDA n : n)
         = Cardinality({c \in CaseRows : caseRow[c].opened > clock - 2 * Days})
    /\ GetDailySessionVolume[Days] >= CountSessionsSince(StartOfToday)
    /\ CountActiveSessions <= CountSessionsSince(0)

\* What the badges call the period before is that, if no month of it is without a row.
PriorIsBefore ==
    LET volume == GetMonthlyOnboardingVolume(2)
        approval == GetApprovalRateByMonth(Unset, 2)
        before == MonthKey(clock) - 1
    IN /\ before \in DOMAIN volume =>
            Sum(PriorPeriod(volume, 1), LAMBDA r : r.received)
              = Cardinality({s \in Sessions : MonthKey(started[s].at) = before})
       /\ before \in DOMAIN approval =>
            Sum(PriorPeriod(approval, 1), LAMBDA r : r.approved + r.rejected)
              = Cardinality({c \in CaseRows : /\ MonthKey(caseRow[c].opened) = before
                                          /\ caseRow[c].status \in DecidedStatus})

DashboardsSound == TilesAgree /\ ReportsAgree /\ BarsAdd /\ PriorIsBefore
=============================================================================
