------------------------------ MODULE SarPages ------------------------------
(***************************************************************************)
(* The pages on suspicious activity reports in the browsers of those who   *)
(* may see them: the register (app/(platform)/sar), its button that drafts *)
(* a report for a flagged case, and the editor of one report.  A route     *)
(* handler, which SarReports follows call by call, is one step here.  What *)
(* an editor posts gets there some time later, even when the editor was    *)
(* left or opened again meanwhile, or not at all, and the answer comes     *)
(* later still, or gets lost.                                              *)
(*                                                                         *)
(* The editor copies the text of the report into its own state when it is  *)
(* mounted.  Only the status of the report comes again with a refresh.  A  *)
(* text is the set of the reporters whose changes it contains.  Whether it *)
(* is valid for an export is left open.                                    *)
(***************************************************************************)
EXTENDS Integers, FiniteSets

CONSTANTS
    Reporter,      \* browsers of the MLRO and the tenant admins
    Suspicion,     \* cases that are or will be flagged
    Nothing,       \* no case
    MaxReports,    \* bound: reports
    PageSize       \* reports on one page of the register, 50

ASSUME SarPagesAssumption ==
    MaxReports \in Nat /\ PageSize \in Nat \ {0} /\ Nothing \notin Suspicion

VARIABLES
    flagged,   \* cases.sar_flagged
    drafted,   \* how many reports there are; they are numbered as they are created
    dossier,   \* sar_reports, by that number
    desk,      \* per reporter: what the browser shows
    posts,     \* saves and submissions that are underway
    saved,     \* history: per report, whose changes were saved in it
    shared     \* history: reports that two editors had open at once, or that an editor
               \* opened while a post of another one was underway

sarPageRows == <<flagged, drafted, dossier, desk, posts, saved, shared>>

ReportNo == 1..MaxReports
Unwritten == [about |-> Nothing, status |-> "draft", text |-> {}, exported |-> FALSE]

RegisterTab == {"all", "draft", "submitted"}

\* In the register: the tab, whether it is its first page, the cases that it says have no
\* report, and how many reports there were.  In the editor: the report, its status as
\* rendered, the text, whether a refresh is on its way, and whether it shows an error.
Away == [view |-> "away", tab |-> "all", first |-> TRUE, pending |-> {}, upto |-> 0,
         on |-> 0, status |-> "draft", form |-> {}, due |-> FALSE, failed |-> FALSE]

\* The text is that of the editor when it was posted.  "here": that editor is still open;
\* "landed": the answer is all that is missing.
SarPost == [by : Reporter, on : ReportNo, kind : {"save", "file"}, text : SUBSET Reporter,
            here : BOOLEAN, landed : BOOLEAN]

SarPagesTypeOK ==
    /\ flagged \subseteq Suspicion
    /\ drafted \in 0..MaxReports
    /\ dossier \in [ReportNo -> [about : Suspicion \cup {Nothing}, exported : BOOLEAN,
                                 status : {"draft", "submitted"}, text : SUBSET Reporter]]
    /\ desk \in [Reporter -> [view : {"away", "register", "editor"}, tab : RegisterTab,
                              first : BOOLEAN, pending : SUBSET Suspicion,
                              upto : 0..MaxReports, on : 0..MaxReports,
                              status : {"draft", "submitted"}, form : SUBSET Reporter,
                              due : BOOLEAN, failed : BOOLEAN]]
    /\ posts \subseteq SarPost
    /\ saved \in [ReportNo -> SUBSET Reporter]
    /\ shared \subseteq ReportNo

SarPagesInit ==
    /\ flagged = {} /\ drafted = 0 /\ shared = {} /\ posts = {}
    /\ dossier = [k \in ReportNo |-> Unwritten]
    /\ desk = [o \in Reporter |-> Away]
    /\ saved = [k \in ReportNo |-> {}]
-----------------------------------------------------------------------------
(* The register.                                                           *)

\* listSarReports: newest first, one more than fits on the page.
Matching(tab) == {k \in 1..drafted : tab = "all" \/ dossier[k].status = tab}
Newer(k, tab) == Cardinality({j \in Matching(tab) : j > k})
Fetched(tab, offset) ==
    {k \in Matching(tab) : Newer(k, tab) >= offset /\ Newer(k, tab) <= offset + PageSize}

\* Bug: only the reports that are shown count as reports.
PendingDraftBug(tab, offset) ==
    flagged \ {dossier[k].about : k \in {j \in Fetched(tab, offset) :
                                           Newer(j, tab) < offset + PageSize}}

\* Of the flagged cases, those without a report among the fetched ones.
PendingDraft(tab, offset) == flagged \ {dossier[k].about : k \in Fetched(tab, offset)}

\* SARRegisterPage.  The link to another page is there if the one before it was full.
OpenRegister(o) ==
    /\ desk[o].view = "away"
    /\ \E tab \in RegisterTab, offset \in {n * PageSize : n \in 0..MaxReports} :
         /\ offset = 0 \/ Cardinality(Fetched(tab, offset - PageSize)) > PageSize
         /\ desk' = [desk EXCEPT ![o] = [Away EXCEPT !.view = "register", !.tab = tab,
                                          !.first = (offset = 0), !.upto = drafted,
                                          !.pending = PendingDraft(tab, offset)]]
    /\ UNCHANGED <<flagged, drafted, dossier, posts, saved, shared>>

\* SarFlagToggle of the case page.
ToggleSuspicion(c) ==
    /\ flagged' = IF c \in flagged THEN flagged \ {c} ELSE flagged \cup {c}
    /\ UNCHANGED <<drafted, dossier, desk, posts, saved, shared>>

\* Bug: the fields start empty.
EditorBlankBug(k) == [Away EXCEPT !.view = "editor", !.on = k, !.status = dossier[k].status]

Editor(k) == [Away EXCEPT !.view = "editor", !.on = k, !.status = dossier[k].status,
                          !.form = dossier[k].text]

\* CreateSarFromCaseButton: the list is on the tab "all" only.  The new report opens, or
\* the answer is lost and the button is there again.
DraftFromCase(o) ==
    /\ desk[o].view = "register" /\ desk[o].tab = "all" /\ drafted < MaxReports
    /\ \E c \in desk[o].pending :
         dossier' = [dossier EXCEPT ![drafted + 1] = [Unwritten EXCEPT !.about = c]]
    /\ drafted' = drafted + 1
    /\ desk' = [desk EXCEPT ![o] = Editor(drafted + 1)] \/ UNCHANGED desk
    /\ UNCHANGED <<flagged, posts, saved, shared>>
-----------------------------------------------------------------------------
(* The editor of one report.                                               *)

\* Somebody else has the report open, or a post for it is underway.
Met(o, k) == \/ \E p \in Reporter \ {o} : desk[p].view = "editor" /\ desk[p].on = k
             \/ \E m \in posts : m.on = k

\* SarDetailPage: the props become the state of the editor.
OpenReport(o) ==
    /\ desk[o].view # "editor"
    /\ \E k \in 1..drafted :
         /\ desk' = [desk EXCEPT ![o] = Editor(k)]
         /\ shared' = IF Met(o, k) THEN shared \cup {k} ELSE shared
    /\ UNCHANGED <<flagged, drafted, dossier, posts, saved>>

\* Another page, or a reload: the posts go on, but nobody waits for their answers.
LeaveDesk(o) ==
    /\ desk[o].view # "away"
    /\ desk' = [desk EXCEPT ![o] = Away]
    /\ posts' = {m \in posts : m.by # o}
                \cup {[m EXCEPT !.here = FALSE] : m \in {m \in posts : m.by = o /\ ~m.landed}}
    /\ UNCHANGED <<flagged, drafted, dossier, saved, shared>>

\* router.refresh(): the new props reach the lock, and not the text.
RefreshEditor(o) ==
    /\ desk[o].due
    /\ desk' = [desk EXCEPT ![o].due = FALSE, ![o].status = dossier[desk[o].on].status]
    /\ UNCHANGED <<flagged, drafted, dossier, posts, saved, shared>>

\* Every field and button of an editor that is not locked.
Unlocked(o) == desk[o].view = "editor" /\ desk[o].status # "submitted"

ChangeText(o) ==
    /\ Unlocked(o)
    /\ desk' = [desk EXCEPT ![o].form = @ \cup {o}]
    /\ UNCHANGED <<flagged, drafted, dossier, posts, saved, shared>>

\* save and submitSar: the button is disabled until the answer, the rest of the page is not,
\* and the error of an earlier call disappears.
StartPost(o, kind) ==
    /\ Unlocked(o)
    /\ \A m \in posts : m.by = o /\ m.here => m.kind # kind
    /\ posts' = posts \cup {[by |-> o, on |-> desk[o].on, kind |-> kind, here |-> TRUE,
                             text |-> IF kind = "save" THEN desk[o].form ELSE {},
                             landed |-> FALSE]}
    /\ desk' = [desk EXCEPT ![o].failed = FALSE]
    /\ UNCHANGED <<flagged, drafted, dossier, saved, shared>>

\* The handler ran; what is left of the post is its answer.
Lands(m) ==
    /\ m \in posts /\ ~m.landed
    /\ posts' = (posts \ {m}) \cup {[n EXCEPT !.landed = TRUE] : n \in {n \in {m} : n.here}}

\* PATCH of the whole text; updateSarDraft does not ask for the status.
SaveText(m) ==
    /\ m.kind = "save" /\ Lands(m)
    /\ dossier' = [dossier EXCEPT ![m.on].text = m.text]
    /\ saved' = [saved EXCEPT ![m.on] = @ \cup (m.text \cap {m.by})]
    /\ UNCHANGED <<flagged, drafted, desk, shared>>

\* submitSar, of the stored text; without an export it is refused.
FileReport(m) ==
    /\ m.kind = "file" /\ dossier[m.on].exported /\ Lands(m)
    /\ dossier' = [dossier EXCEPT ![m.on].status = "submitted"]
    /\ UNCHANGED <<flagged, drafted, desk, saved, shared>>

\* The editor that waits for the answer shows an error, or asks for a refresh if it did
\* (refresh) and there was none.  A post that did not land was lost or refused.
Answered(m, refresh) ==
    /\ m \in posts /\ posts' = posts \ {m}
    /\ \E ok \in BOOLEAN :
         /\ ok => m.landed
         /\ desk' = IF m.here THEN [desk EXCEPT ![m.by].due = @ \/ (ok /\ refresh),
                                                ![m.by].failed = @ \/ ~ok]
                    ELSE desk
    /\ UNCHANGED <<flagged, drafted, dossier, saved, shared>>

\* Bug: the page does not ask for the new status.
ReceiveNoRefreshBug(m) == Answered(m, FALSE)

ReceiveAnswer(m) == Answered(m, TRUE)

\* The link to the XML, locked or not; an invalid text is refused.
DownloadXml(o) ==
    /\ desk[o].view = "editor"
    /\ dossier' = [dossier EXCEPT ![desk[o].on].exported = TRUE]
    /\ UNCHANGED <<flagged, drafted, desk, posts, saved, shared>>

SarPagesNext ==
    \/ \E c \in Suspicion : ToggleSuspicion(c)
    \/ \E m \in posts : SaveText(m) \/ FileReport(m) \/ ReceiveAnswer(m)
    \/ \E o \in Reporter : \/ OpenRegister(o) \/ DraftFromCase(o) \/ OpenReport(o)
                           \/ LeaveDesk(o) \/ RefreshEditor(o) \/ ChangeText(o)
                           \/ StartPost(o, "save") \/ StartPost(o, "file") \/ DownloadXml(o)

SarPagesSpec == SarPagesInit /\ [][SarPagesNext]_sarPageRows
-----------------------------------------------------------------------------
\* No save takes back what another one put into a report, unless two editors had the
\* report open at once, or one opened it while a post of another was underway: their text
\* is never refreshed.  Without that, an editor shows what is stored and its reporter's own
\* changes; those that were not saved before the report was filed stay on the locked page,
\* though they are not in the report.
SavedTextStays ==
    \A k \in ReportNo \ shared :
      /\ saved[k] \subseteq dossier[k].text
      /\ \A o \in Reporter : desk[o].view = "editor" /\ desk[o].on = k =>
           dossier[k].text \subseteq desk[o].form /\ desk[o].form \subseteq dossier[k].text \cup {o}

\* sar-editor.tsx:96, "You will not be able to edit it after": a filed report is open to
\* changes only in an editor that waits for an answer, is about to be refreshed or shows an
\* error, or if another editor met it.
FiledIsLocked ==
    \A o \in Reporter : Unlocked(o) /\ dossier[desk[o].on].status = "submitted" =>
      \/ desk[o].due \/ desk[o].failed \/ desk[o].on \in shared
      \/ \E m \in posts : m.by = o /\ m.here

\* page.tsx:59, "Cases flagged for SAR that don't yet have a draft report": the register
\* offers to draft a second report on a case only if the first one is younger than what is
\* shown, or was not fetched: older than the last PageSize + 1, or not on a first page.
DraftsOffered ==
    \A o \in Reporter, k \in 1..drafted :
      /\ desk[o].view = "register" /\ desk[o].tab = "all"
      /\ dossier[k].about \in desk[o].pending
      => k > desk[o].upto \/ ~desk[o].first \/ k < desk[o].upto - PageSize

SarPagesSound == SavedTextStays /\ FiledIsLocked /\ DraftsOffered
=============================================================================
