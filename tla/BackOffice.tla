----------------------------- MODULE BackOffice -----------------------------
(***************************************************************************)
(* The back office: the requests of the staff against the components that  *)
(* share no row with each other.  A behaviour takes place in one area,     *)
(* since requests of different areas commute; within an area every call    *)
(* of every request interleaves with every other.                          *)
(***************************************************************************)
EXTENDS UserAdmin, ScreeningHits, SarReports, VersionedRecords, WorkflowActivation, Documents

VARIABLE area  \* where the requests of this behaviour arrive

Area == {"users", "hits", "sar", "records", "workflows", "documents"}

backOffice == <<calls, adminRows, hitRows, sarRows, rows, workflowRows, documentRows, area>>

\* The other areas start, and stay, empty.
BackOfficeInit ==
    /\ RequestsInit
    /\ AdminInit /\ HitsInit /\ SarInit /\ VersionedInit /\ WorkflowInit /\ DocumentsInit
    /\ area \in Area
    /\ area # "users" => account = [p \in Person |-> "absent"]
    /\ area # "sar" => counterWritable /\ counter = 0
    /\ area # "records" => rows = {}

BackOfficeNext ==
    /\ UNCHANGED area
    /\ \/ area = "users" /\ AdminNext
          /\ UNCHANGED <<hitRows, sarRows, rows, workflowRows, documentRows>>
       \/ area = "hits" /\ HitsNext
          /\ UNCHANGED <<adminRows, sarRows, rows, workflowRows, documentRows>>
       \/ area = "sar" /\ SarNext
          /\ UNCHANGED <<adminRows, hitRows, rows, workflowRows, documentRows>>
       \/ area = "records" /\ VersionedNext
          /\ UNCHANGED <<adminRows, hitRows, sarRows, workflowRows, documentRows>>
       \/ area = "workflows" /\ WorkflowNext
          /\ UNCHANGED <<adminRows, hitRows, sarRows, rows, documentRows>>
       \/ area = "documents" /\ DocumentsNext
          /\ UNCHANGED <<adminRows, hitRows, sarRows, rows, workflowRows>>

BackOfficeSpec == BackOfficeInit /\ [][BackOfficeNext]_backOffice

BackOfficeTypeOK ==
    CASE area = "users"     -> AdminTypeOK
      [] area = "hits"      -> HitsTypeOK
      [] area = "sar"       -> SarTypeOK
      [] area = "records"   -> VersionedTypeOK
      [] area = "workflows" -> WorkflowTypeOK
      [] area = "documents" -> DocumentsTypeOK
=============================================================================
