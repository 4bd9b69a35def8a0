-------------------------- MODULE VersionedRecords --------------------------
(***************************************************************************)
(* Three append-only tables that are versioned the same way: tenant_config *)
(* (admin-config.service.ts), customer_edd_records (edd.repository.ts) and *)
(* the workflow definitions a tenant clones from a rule pack (clone.ts).   *)
(* Each save reads the highest version and inserts the next one, in two    *)
(* calls, under a unique constraint.                                       *)
(*                                                                         *)
(* A save holds the whole record.  The forms send back what the page held  *)
(* when it was opened together with the user's change; the form of the     *)
(* tenant configuration stays open after a save and keeps what it sent.    *)
(***************************************************************************)
EXTENDS Requests, Integers, Sequences, FiniteSets

CONSTANTS
    MaxVersions,    \* bound: versions of one series
    ConfigWritable  \* whether tenant_config_insert_admin lets the caller in

ASSUME VersionedAssumption == MaxVersions \in Nat /\ ConfigWritable \in BOOLEAN

VARIABLE rows  \* the rows of the three tables

Series == {"config", "edd", "rule_pack"}
Forms == {"config", "edd"}

\* NULL is not a table.
ASSUME VersionedNoneAssumption == None \notin Series

VersionStage == {"form", "check_documents", "read_max", "insert", "audit_saved", "audit_renamed"}

\* by: the request that inserted the row; keeps: whose changes its content holds.
Row == [series : Series, version : Nat, by : Request \cup {None}, keeps : SUBSET Request]

\* on: the series; arg: what the form was filled with; seen: its content, and the
\* version to insert.
VersionRequest == [pc : {"idle"} \cup VersionStage \cup Ended,
                   op : {"save", "clone", "rename", None}, on : Series \cup {None},
                   arg : {"latest", "defaults", None},
                   seen : [content : SUBSET Request, next : Nat] \cup {None}]

VersionedTypeOK ==
    /\ req \in [Request -> VersionRequest]
    /\ trail \subseteq {"saved", "renamed"} \X Request
    /\ crossed \subseteq Request
    /\ rows \subseteq Row

VersionedInit ==
    \E old \in SUBSET Series :
      rows = {[series |-> s, version |-> 1, by |-> None, keeps |-> {}] : s \in old}
-----------------------------------------------------------------------------
RowsOf(s) == {x \in rows : x.series = s}
Top(s) == {x \in RowsOf(s) : \A y \in RowsOf(s) : y.version <= x.version}
Settings(s) == UNION {x.keeps : x \in Top(s)}
Highest(s) == IF RowsOf(s) = {} THEN 0 ELSE (CHOOSE x \in Top(s) : TRUE).version

\* Bug: the form sends only what the user changed.
OpenFormBlankBug(r) ==
    /\ \E s \in Forms : Begin(r, "save", s, "latest", [content |-> {}, next |-> 0], "form")
    /\ UNCHANGED <<trail, rows>>

\* The page reads the latest row.  getLatestTenantConfig answers the defaults when
\* the read fails; getLatestEddRecord throws and no form is shown.
OpenForm(r) ==
    /\ \E s \in Forms, filled \in {"latest", "defaults"} :
         /\ s = "edd" => filled = "latest"
         /\ Begin(r, "save", s, filled,
                  [content |-> IF filled = "latest" THEN Settings(s) ELSE {}, next |-> 0],
                  "form")
    /\ UNCHANGED <<trail, rows>>

\* The user changes something and saves.
Submit(r) ==
    /\ At(r, "form") /\ Cardinality(RowsOf(req[r].on)) < MaxVersions
    /\ Keep(r, [req[r].seen EXCEPT !.content = @ \cup {r}],
            IF req[r].on = "edd" THEN "check_documents" ELSE "read_max")
    /\ UNCHANGED <<trail, rows>>

\* assertDocumentsBelongToCustomer
CheckDocuments(r) ==
    /\ At(r, "check_documents")
    /\ \E verdict \in {"read_max", "refused"} : Goto(r, verdict)
    /\ UNCHANGED <<trail, rows>>

\* cloneRulePack: the pack is known, and its row exists and is platform-level.
StartClone(r) ==
    /\ \E verdict \in {"read_max", "refused"} :
         Begin(r, "clone", "rule_pack", None, [content |-> {r}, next |-> 0], verdict)
    /\ Cardinality(RowsOf("rule_pack")) < MaxVersions
    /\ UNCHANGED <<trail, rows>>

\* A failed read counts as "no versions" for the configuration and ends the others.
ReadMax(r) ==
    /\ At(r, "read_max")
    /\ \/ Keep(r, [req[r].seen EXCEPT !.next = Highest(req[r].on) + 1], "insert")
       \/ IF req[r].on = "config"
          THEN Keep(r, [req[r].seen EXCEPT !.next = 1], "insert")
          ELSE Goto(r, "refused")
    /\ UNCHANGED <<trail, rows>>

\* UNIQUE (tenant_id, version), (customer_id, version) and
\* (tenant_id, customer_type, version).
VersionUsed(s, n) == \E x \in RowsOf(s) : x.version = n

\* Bug: the unique constraints are missing.
RefusedNoUniqueBug(s, n) == s = "config" /\ ~ConfigWritable

Refused(s, n) == VersionUsed(s, n) \/ (s = "config" /\ ~ConfigWritable)

\* After an error the form of the configuration is still there.
InsertRow(r) ==
    /\ At(r, "insert")
    /\ LET s == req[r].on  n == req[r].seen.next IN
       IF Refused(s, n)
       THEN Goto(r, IF s = "config" THEN "form" ELSE "refused") /\ UNCHANGED rows
       ELSE /\ rows' = rows \cup
                 {[series |-> s, version |-> n, by |-> r, keeps |-> req[r].seen.content]}
            /\ Goto(r, "audit_saved")
    /\ UNCHANGED trail

AuditSaved(r) ==
    /\ Emit(r, "audit_saved", "saved", IF req[r].on = "config" THEN "form" ELSE "done")
    /\ UNCHANGED rows

\* PATCH /api/admin/config: no policy lets a user update tenants, so the UPDATE
\* changes no row, reports no error, and is audited all the same.
StartRename(r) ==
    /\ Begin(r, "rename", None, None, None, "audit_renamed")
    /\ UNCHANGED <<trail, rows>>

AuditRenamed(r) == Emit(r, "audit_renamed", "renamed", "done") /\ UNCHANGED rows

VersionedNext ==
    \E r \in Request :
      \/ OpenForm(r) \/ Submit(r) \/ CheckDocuments(r) \/ StartClone(r) \/ ReadMax(r)
      \/ InsertRow(r) \/ AuditSaved(r) \/ StartRename(r) \/ AuditRenamed(r)
      \/ Kill(r) /\ UNCHANGED rows

VersionedSpec == RequestsInit /\ VersionedInit /\ [][VersionedNext]_<<calls, rows>>
-----------------------------------------------------------------------------
\* A setting that is in one version of a series is in the next one too: a save of the
\* whole record takes nothing back, unless the two forms were open at the same time
\* or the later one was filled with the defaults because its page could not read the
\* configuration.
SettingsKeptUnlessCrossed ==
    \A x, y \in rows :
      x.series = y.series /\ x.series \in Forms /\ y.version = x.version + 1
      => \/ x.keeps \subseteq y.keeps
         \/ {x.by, y.by} \subseteq crossed
         \/ req[y.by].arg = "defaults"

\* The entry of a series with a given version.
EntryAt(s, n) ==
    IF VersionUsed(s, n) THEN (CHOOSE x \in RowsOf(s) : x.version = n).by ELSE None

Register == INSTANCE AppendOnlyRegister WITH
    Writer <- Request, NoOne <- None,
    book <- [s \in Series |-> [n \in 1..Cardinality(RowsOf(s)) |-> EntryAt(s, n)]]

\* The three tables are registers: whoever saves at the same time and whatever
\* call fails, versions are numbered 1, 2, 3 without a gap or a duplicate, and no
\* version ever changes (0030_create_tenant_config.sql:3-5, edd.repository.ts:46).
AppendOnly == Register!Spec
=============================================================================
