--------------------------- MODULE ScreeningHits ---------------------------
(***************************************************************************)
(* Resolving screening hits: POST /api/screening/hits/[hitId]/resolve, a   *)
(* row in screening_hit_resolutions and then the status of the hit, with   *)
(* the service-role client; the error of the second write is not looked    *)
(* at.  The panel of the case page offers to resolve the hits it shows as  *)
(* pending, but the handler does not read the status, and a panel that was *)
(* opened earlier still offers a hit that somebody else resolved.          *)
(***************************************************************************)
EXTENDS Requests

CONSTANT Hit  \* hits of one customer, pending at the start

VARIABLES
    hitStatus,   \* screening_hits.status
    resolutions  \* screening_hit_resolutions: hit, resolution, request

hitRows == <<hitStatus, resolutions>>

Resolution == {"confirmed_match", "false_positive", "escalated"}
HitStage == {"insert_resolution", "set_status", "audit_resolved"}

HitRequest == [pc : {"idle"} \cup HitStage \cup Ended, op : {"resolve", None},
               on : Hit \cup {None}, arg : Resolution \cup {None}, seen : {None}]

HitsTypeOK ==
    /\ req \in [Request -> HitRequest]
    /\ trail \subseteq {"hit_resolved"} \X Request
    /\ crossed \subseteq Request
    /\ hitStatus \in [Hit -> Resolution \cup {"pending"}]
    /\ resolutions \subseteq [hit : Hit, resolution : Resolution, by : Request]

HitsInit == hitStatus = [h \in Hit |-> "pending"] /\ resolutions = {}
-----------------------------------------------------------------------------
\* Any user with screening:resolve_hit; the hit is looked up by id and tenant.
StartResolve(r) ==
    /\ \E h \in Hit, d \in Resolution : Begin(r, "resolve", h, d, None, "insert_resolution")
    /\ UNCHANGED <<trail, hitRows>>

\* Bug: the error of the insert is not looked at.
InsertResolutionUncheckedBug(r) ==
    /\ At(r, "insert_resolution")
    /\ \/ resolutions' = resolutions \cup
            {[hit |-> req[r].on, resolution |-> req[r].arg, by |-> r]}
       \/ UNCHANGED resolutions
    /\ Goto(r, "set_status")
    /\ UNCHANGED <<trail, hitStatus>>

InsertResolution(r) ==
    /\ At(r, "insert_resolution")
    /\ resolutions' = resolutions \cup
         {[hit |-> req[r].on, resolution |-> req[r].arg, by |-> r]}
    /\ Goto(r, "set_status")
    /\ UNCHANGED <<trail, hitStatus>>

\* The update may fail without the handler noticing.
SetHitStatus(r) ==
    /\ At(r, "set_status")
    /\ \/ hitStatus' = [hitStatus EXCEPT ![req[r].on] = req[r].arg]
       \/ UNCHANGED hitStatus
    /\ Goto(r, "audit_resolved")
    /\ UNCHANGED <<trail, resolutions>>

AuditResolved(r) == Emit(r, "audit_resolved", "hit_resolved", "done") /\ UNCHANGED hitRows

HitsNext ==
    \E r \in Request :
      \/ StartResolve(r) \/ InsertResolution(r) \/ SetHitStatus(r) \/ AuditResolved(r)
      \/ Kill(r) /\ UNCHANGED hitRows

HitsSpec == RequestsInit /\ HitsInit /\ [][HitsNext]_<<calls, hitRows>>
-----------------------------------------------------------------------------
Resolved(h) == {x \in resolutions : x.hit = h}

\* screening_hits.status, which the case page shows, is never ahead of the
\* append-only record of resolutions (0013_create_screening.sql), and it leaves
\* "pending" for good: whatever two analysts do at once, the status is one of the
\* resolutions that somebody gave a rationale for.
StatusIsARecordedResolution ==
    \A h \in Hit : \/ hitStatus[h] = "pending"
                   \/ \E x \in Resolved(h) : x.resolution = hitStatus[h]
=============================================================================
