------------------------------ MODULE MCPortal ------------------------------
(***************************************************************************)
(* Small instance of the portal.  The areas do not meet, so they may call  *)
(* their two tabs, applicants, officers, cases and so on by the same       *)
(* names: x1 and x2, and y1 and y2 where an area has a second pair.        *)
(***************************************************************************)
EXTENDS Portal, TLC

CONSTANTS x1, x2, y1, y2, z1, none, lost

MCPair == {x1, x2}
MCOther == {y1, y2}
MCSingle == {z1}

Symmetric == Permutations(MCPair) \cup Permutations(MCOther)

\* Bounds.  A business is onboarded in one tab, and one tab shows an error.  Two deliveries of
\* Sumsub, and two of Nomod's webhook, are underway; the status of a check is asked for once,
\* at the end; one event is not Nomod's, names a tenant and a payment, and touches this
\* company; there is one sign-up once there are events.  UAE Pass is switched off, or the
\* session submitted, only before an attempt is begun, for nobody looks at it later.  An item
\* of a case is settled, or the case flagged, while no page has its channels up; a flagged
\* case, and one without channels, has one page open.  No tile reads both sessions and cases;
\* of two cases one is in the queue edd, the other there or in the first, and one has no
\* owner; the flag is on a tile of its own: one flagged case, of the last queue.  One call of
\* an editor is underway; while one is, or once a change was saved or two editors met, there
\* is one report and the register stays shut.  Where there are several reports, none is
\* exported or changed.
Bounded ==
    /\ session.type = "corporate" => \E t \in Tab : tab[t].page = "start"
    /\ Cardinality({t \in Tab : tab[t].error # "none"}) <= 1
    /\ Cardinality(delivery) <= 2 /\ told = "nothing"
    /\ Cardinality(event) <= 2
    /\ \A e \in happened : \/ e.genuine
                           \/ /\ e.tenant # Missing /\ e.type # "link.expired"
                              /\ {e.link, e.tenant} # {Foreign}
    /\ Cardinality({e \in happened : ~e.genuine}) <= 1
    /\ happened # {} => \A c \in SignUp \ tenant : signUp[c] = "none"
    /\ (complete \/ ~policy.enabled) =>
          \A a \in Attempt : attempt[a].stage \in {"none", "refused"}
    /\ (item # "pending" \/ case.flag) =>
          \A o \in Officer : ~page[o].live /\ page[o].fetched = "none"
    /\ (~published \/ case.flag) => Cardinality({o \in Officer : page[o].open}) <= 1
    /\ CaseRows = {} \/ Sessions = {}
    /\ CaseRows = CaseId =>
          /\ {caseRow[c].band : c \in CaseId} \in {{"high"}, {"medium", "high"}}
          /\ \E c \in CaseId : caseRow[c].owner = Unset
    /\ \A c \in CaseRows : caseRow[c].flagged =>
          CaseRows = {c} /\ caseRow[c].band = "unacceptable"
    /\ Cardinality(posts) <= 1
    /\ posts # {} \/ shared # {} \/ (\E k \in ReportNo : saved[k] # {}) =>
          drafted = 1 /\ flagged = {} /\ \A o \in Reporter : desk[o].view # "register"
    /\ drafted > 1 => \A k \in ReportNo : ~dossier[k].exported
    /\ drafted > 1 => \A o \in Reporter : desk[o].form = {}
=============================================================================
