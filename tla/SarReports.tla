----------------------------- MODULE SarReports -----------------------------
(***************************************************************************)
(* Suspicious activity reports of one tenant and one year (modules/sar):   *)
(* createSarDraft with the reference counter of 0036_sar_reports.sql,      *)
(* updateSarDraft, exportSarAsXml and submitSarReport.                     *)
(*                                                                         *)
(* The text of a report is represented by the request that wrote it last   *)
(* and by whether validateForGoaml accepts it; the hash of an exported     *)
(* document by the text it was rendered from.                              *)
(***************************************************************************)
EXTENDS Requests, Integers, FiniteSets

CONSTANTS
    Report,  \* identities of reports
    Base,    \* 10
    Limit    \* 10000: a reference has room for four digits

ASSUME SarAssumption == Base \in Nat \ {0} /\ Limit \in Nat \ {0, 1}

VARIABLES
    counterWritable,  \* the deployment lets callers write sar_reference_counters
    counter,          \* sar_reference_counters.next_seq, 0 when there is no row
    sar,              \* sar_reports
    stored            \* history: report and request of the exports written to the row

sarRows == <<counterWritable, counter, sar, stored>>

SarStatus == {"draft", "ready", "submitted", "acknowledged", "rejected"}
SarStage == {"reserve", "insert_draft", "audit_drafted", "write_patch", "audit_updated",
             "validate", "store_hash", "audit_exported", "file", "audit_submitted"}

Text == [by : Request \cup {None}, valid : BOOLEAN]
SarReport == [number : Nat, text : Text, status : SarStatus, filed : BOOLEAN,
              hash : Text \cup {None}, version : Nat]

\* on: the report; arg: the new text and status; seen: the row read, or to insert.
SarRequest == [pc : {"idle"} \cup SarStage \cup Ended,
               op : {"create", "update", "export", "submit", None},
               on : Report \cup {None},
               arg : [valid : BOOLEAN, status : SarStatus \cup {None}] \cup {None},
               seen : SarReport \cup {None}]

\* NULL is neither a report nor a text, nor what a request came to do.
ASSUME SarNoneAssumption ==
    /\ None \notin SarReport /\ None \notin Text /\ None \notin Report
    /\ None # "create" /\ None # "update"

SarTypeOK ==
    /\ req \in [Request -> SarRequest]
    /\ trail \subseteq {"drafted", "updated", "exported", "submitted"} \X Request
    /\ crossed \subseteq Request
    /\ counterWritable \in BOOLEAN
    /\ counter \in Nat
    /\ sar \in [Report -> SarReport \cup {None}]
    /\ stored \subseteq Report \X Request

Draft(n, text) == [number |-> n, text |-> text, status |-> "draft", filed |-> FALSE,
                   hash |-> None, version |-> 0]

\* A year without reports, or with one draft.  The migrations let nobody write the
\* counters: a deployment may have added a policy.
SarInit ==
    /\ counterWritable \in BOOLEAN
    /\ \/ counter = 0 /\ sar = [p \in Report |-> None]
       \/ /\ counterWritable /\ counter = 1
          /\ \E first \in Report, valid \in BOOLEAN :
               sar = [p \in Report |->
                        IF p = first THEN Draft(1, [by |-> None, valid |-> valid]) ELSE None]
    /\ stored = {}
-----------------------------------------------------------------------------
SarTaken(n) == \E p \in Report : sar[p] # None /\ sar[p].number = n

(* POST /api/sar : createSarDraft                                          *)

\* The case was found.
StartDraft(r) ==
    /\ \E valid \in BOOLEAN :
         Begin(r, "create", None, [valid |-> valid, status |-> None], None, "reserve")
    /\ UNCHANGED <<trail, counter, sar, stored>>

\* LPAD(v_seq::TEXT, 4, '0') keeps the first four digits of a longer number: the last one
\* is cut off until it fits.  An INT has ten, and loses six at most.
CutLast(n) == IF n < Limit THEN n ELSE n \div Base
Shown(n) == CutLast(CutLast(CutLast(CutLast(CutLast(CutLast(n))))))

\* Bug: the function returns the value before the one it should.
ReserveOffByOneBug(r) ==
    /\ At(r, "reserve") /\ counterWritable
    /\ counter' = counter + 1
    /\ Keep(r, Draft(IF counter <= 1 THEN 1 ELSE Shown(counter - 1),
                     [by |-> r, valid |-> req[r].arg.valid]), "insert_draft")
    /\ UNCHANGED <<trail, sar, stored>>

\* generate_sar_reference, with the rights of its caller: RETURNING next_seq - 1, and 1
\* for 0.
Reserve(r) ==
    /\ At(r, "reserve")
    /\ IF counterWritable
       THEN /\ counter' = counter + 1
            /\ Keep(r, Draft(IF counter = 0 THEN 1 ELSE Shown(counter),
                             [by |-> r, valid |-> req[r].arg.valid]), "insert_draft")
       ELSE Goto(r, "refused") /\ UNCHANGED counter
    /\ UNCHANGED <<trail, sar, stored>>

\* UNIQUE (tenant_id, reference_number)
InsertDraft(r) ==
    /\ At(r, "insert_draft")
    /\ \/ SarTaken(req[r].seen.number) /\ Goto(r, "refused") /\ UNCHANGED sar
       \/ /\ ~SarTaken(req[r].seen.number)
          /\ \E p \in Report : sar[p] = None /\ sar' = [sar EXCEPT ![p] = req[r].seen]
          /\ Goto(r, "audit_drafted")
    /\ UNCHANGED <<trail, counter, stored>>
-----------------------------------------------------------------------------
(* PATCH /api/sar/[id] : updateSarDraft                                    *)

StartUpdate(r) ==
    /\ \E p \in Report, valid \in BOOLEAN, s \in SarStatus \cup {None} :
         /\ sar[p] # None
         /\ Begin(r, "update", p, [valid |-> valid, status |-> s], None, "write_patch")
    /\ UNCHANGED <<trail, counter, sar, stored>>

\* One UPDATE, whatever the status of the report; only the fields of the patch.
WritePatch(r) ==
    /\ At(r, "write_patch")
    /\ sar' = [sar EXCEPT ![req[r].on].text = [by |-> r, valid |-> req[r].arg.valid],
                          ![req[r].on].status =
                             IF req[r].arg.status = None THEN @ ELSE req[r].arg.status]
    /\ Goto(r, "audit_updated")
    /\ UNCHANGED <<trail, counter, stored>>
-----------------------------------------------------------------------------
(* POST /api/sar/[id]/export : exportSarAsXml                              *)

\* getSarReport
StartExport(r) ==
    /\ \E p \in Report :
         sar[p] # None /\ Begin(r, "export", p, None, sar[p], "validate")
    /\ UNCHANGED <<trail, counter, sar, stored>>

\* Reading customer and tenant, validateForGoaml, buildSarXml, validateGoamlXml.
Validate(r) ==
    /\ At(r, "validate")
    /\ Goto(r, IF req[r].seen.text.valid THEN "store_hash" ELSE "refused")
    /\ UNCHANGED <<trail, counter, sar, stored>>

\* Hash of the text read and the version read plus one; an error is not noticed.
StoreHash(r) ==
    /\ At(r, "store_hash")
    /\ \/ /\ sar' = [sar EXCEPT ![req[r].on].hash = req[r].seen.text,
                                ![req[r].on].version = req[r].seen.version + 1]
          /\ stored' = stored \cup {<<req[r].on, r>>}
       \/ UNCHANGED <<sar, stored>>
    /\ Goto(r, "audit_exported")
    /\ UNCHANGED <<trail, counter>>
-----------------------------------------------------------------------------
(* POST /api/sar/[id]/submit : submitSarReport                             *)

\* Bug: a report may be filed without an export.
StartSubmitUncheckedBug(r) ==
    /\ \E p \in Report : sar[p] # None /\ Begin(r, "submit", p, None, None, "file")
    /\ UNCHANGED <<trail, counter, sar, stored>>

\* getSarReport; 422 when the report was never exported.
StartSubmit(r) ==
    /\ \E p \in Report :
         /\ sar[p] # None
         /\ Begin(r, "submit", p, None, None, IF sar[p].hash = None THEN "refused" ELSE "file")
    /\ UNCHANGED <<trail, counter, sar, stored>>

File(r) ==
    /\ At(r, "file")
    /\ sar' = [sar EXCEPT ![req[r].on].status = "submitted", ![req[r].on].filed = TRUE]
    /\ Goto(r, "audit_submitted")
    /\ UNCHANGED <<trail, counter, stored>>

SarAudit(r) ==
    /\ \/ Emit(r, "audit_drafted", "drafted", "done")
       \/ Emit(r, "audit_updated", "updated", "done")
       \/ Emit(r, "audit_exported", "exported", "done")
       \/ Emit(r, "audit_submitted", "submitted", "done")
    /\ UNCHANGED <<counter, sar, stored>>

SarNext ==
    /\ UNCHANGED counterWritable
    /\ \E r \in Request :
         \/ StartDraft(r) \/ Reserve(r) \/ InsertDraft(r) \/ StartUpdate(r) \/ WritePatch(r)
         \/ StartExport(r) \/ Validate(r) \/ StoreHash(r) \/ StartSubmit(r) \/ File(r)
         \/ SarAudit(r)
         \/ Kill(r) /\ UNCHANGED <<counter, sar, stored>>

SarSpec == RequestsInit /\ SarInit /\ [][SarNext]_<<calls, sarRows>>
-----------------------------------------------------------------------------
\* Drafts refused because their reference number was already used.
Clashes == {r \in Request : req[r].op = "create" /\ At(r, "refused") /\ req[r].seen # None}

\* 0036_sar_reports.sql:20 wants references that are monotonic per tenant.  The
\* counter hands out 1 twice, so one draft of the year can be refused; whatever is
\* created at the same time and whatever is killed, it is at most one, as long as the
\* numbers fit: the tenthousandth report is shown the number 1000 again.
OneDraftRefusedPerYear == counter <= Limit => Cardinality(Clashes) <= 1

\* service.ts:150 and 0036_sar_reports.sql:163 take the function for SECURITY DEFINER.  It
\* is not, and no policy lets a caller write the counters: then no report is ever created.
NoReportWithoutCounter == ~counterWritable => \A p \in Report : sar[p] = None

\* Somebody asked, by a PATCH, for the status "submitted".
Patched(r, p) == req[r].op = "update" /\ req[r].on = p /\ req[r].arg.status = "submitted"

\* submitSarReport: "The MLRO must have rendered (and therefore validated) the goAML
\* XML at least once before submission."  No order of updates, exports and
\* submissions files a report of which no accepted text was ever rendered; but a PATCH
\* may set the status "submitted" on any report, rendered or not, and it is the only other
\* way to that status.
FiledWasValidated ==
    \A p \in Report : sar[p] # None =>
      /\ sar[p].filed => sar[p].hash # None /\ sar[p].hash.valid
      /\ sar[p].status = "submitted" => sar[p].filed \/ \E r \in Request : Patched(r, p)

\* Exports of p that were written to the row.
Stored(p) == {r \in Request : <<p, r>> \in stored}

\* 0036_sar_reports.sql:52, "bumped each time exported": goaml_xml_version counts the
\* exports that were stored, unless two requests worked on the report at once.
VersionCountsExports ==
    \A p \in Report : sar[p] # None =>
        /\ sar[p].version <= Cardinality(Stored(p))
        /\ Stored(p) \cap crossed = {} => sar[p].version = Cardinality(Stored(p))

\* The two counters of the register of reports count what they say they count.
SarNumbersCount == OneDraftRefusedPerYear /\ NoReportWithoutCounter /\ VersionCountsExports
=============================================================================
