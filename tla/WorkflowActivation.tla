------------------------- MODULE WorkflowActivation -------------------------
(***************************************************************************)
(* Switching workflow definitions on and off: PATCH                        *)
(* /api/admin/workflows/[id] with the trigger of                           *)
(* 0031_workflow_activation_acks.sql, which wants an acknowledgement by an *)
(* MLRO that is not revoked.                                               *)
(*                                                                         *)
(* The acknowledge route asks for the role mlro and for the permission     *)
(* admin:activate_workflow, which only a tenant_admin has: it refuses      *)
(* everybody, and the policies of the table would refuse the insert.       *)
(* Acknowledgements are rows an operator writes and revokes in the         *)
(* database.                                                               *)
(***************************************************************************)
EXTENDS Requests, Integers

CONSTANTS
    TenantWorkflow,    \* definitions of one tenant, cloned and inactive
    PlatformWorkflow,  \* definitions of the platform, active
    MaxAcks            \* bound: valid acknowledgements of one definition

ASSUME WorkflowAssumption == MaxAcks \in Nat /\ TenantWorkflow \cap PlatformWorkflow = {}

VARIABLES
    active,       \* workflow_definitions.is_active
    acknowledged  \* how many rows of workflow_activation_acks are not revoked

workflowRows == <<active, acknowledged>>

Workflow == TenantWorkflow \cup PlatformWorkflow
WorkflowStage == {"preflight", "switch", "audit_switched"}

\* on: the definition; arg: the state wanted.
WorkflowRequest == [pc : {"idle"} \cup WorkflowStage \cup Ended,
                    op : {"switch", "acknowledge", None}, on : Workflow \cup {None},
                    arg : BOOLEAN \cup {None}, seen : {None}]

WorkflowTypeOK ==
    /\ req \in [Request -> WorkflowRequest]
    /\ trail \subseteq {"activated", "deactivated"} \X Request
    /\ crossed \subseteq Request
    /\ active \in [Workflow -> BOOLEAN]
    /\ acknowledged \in [Workflow -> 0..MaxAcks]

WorkflowInit ==
    /\ active = [w \in Workflow |-> w \in PlatformWorkflow]
    /\ acknowledged = [w \in Workflow |-> 0]
-----------------------------------------------------------------------------
\* The definition is read.  Platform definitions are for platform_super_admin, who
\* does not hold the permission.  The preflight is for definitions read as inactive.
StartSwitch(r) ==
    /\ \E w \in Workflow, on \in BOOLEAN :
         Begin(r, "switch", w, on, None,
               IF w \in PlatformWorkflow THEN "refused"
               ELSE IF on /\ ~active[w] THEN "preflight" ELSE "switch")
    /\ UNCHANGED <<trail, workflowRows>>

\* A count of zero, or none because the query failed, is answered 409.
Preflight(r) ==
    /\ At(r, "preflight")
    /\ \/ acknowledged[req[r].on] > 0 /\ Goto(r, "switch")
       \/ Goto(r, "refused")
    /\ UNCHANGED <<trail, workflowRows>>

\* Bug: only the preflight of the handler asks for an acknowledgement.
GateMissingBug(w, on) == TRUE

\* assert_workflow_ack: false to true needs an acknowledgement.
Gate(w, on) == on /\ ~active[w] => acknowledged[w] > 0

Switch(r) ==
    /\ At(r, "switch")
    /\ LET w == req[r].on IN
       IF Gate(w, req[r].arg)
       THEN active' = [active EXCEPT ![w] = req[r].arg] /\ Goto(r, "audit_switched")
       ELSE UNCHANGED active /\ Goto(r, "refused")
    /\ UNCHANGED <<trail, acknowledged>>

AuditSwitched(r) ==
    /\ Emit(r, "audit_switched", IF req[r].arg THEN "activated" ELSE "deactivated", "done")
    /\ UNCHANGED workflowRows

StartAcknowledge(r) ==
    /\ \E w \in Workflow : Begin(r, "acknowledge", w, None, None, "refused")
    /\ UNCHANGED <<trail, workflowRows>>

\* restrict_workflow_ack_updates lets a row be revoked once, and never deleted.
OperatorAcknowledges(w) ==
    /\ acknowledged[w] < MaxAcks
    /\ acknowledged' = [acknowledged EXCEPT ![w] = @ + 1]
    /\ UNCHANGED <<calls, active>>

OperatorRevokes(w) ==
    /\ acknowledged[w] > 0
    /\ acknowledged' = [acknowledged EXCEPT ![w] = @ - 1]
    /\ UNCHANGED <<calls, active>>

WorkflowNext ==
    \/ \E r \in Request :
         \/ StartSwitch(r) \/ Preflight(r) \/ Switch(r) \/ AuditSwitched(r)
         \/ StartAcknowledge(r)
         \/ Kill(r) /\ UNCHANGED workflowRows
    \/ \E w \in TenantWorkflow : OperatorAcknowledges(w) \/ OperatorRevokes(w)

WorkflowSpec == RequestsInit /\ WorkflowInit /\ [][WorkflowNext]_<<calls, workflowRows>>
-----------------------------------------------------------------------------
\* 0031_workflow_activation_acks.sql:3-4: "A workflow_definition cannot transition
\* is_active = true without a matching un-revoked ack".  The handler looks for it
\* only when it read the definition as inactive, and before it writes: a revocation
\* or a deactivation by somebody else in between must not get around the rule.
SwitchedOnWithAck ==
    [][\A w \in TenantWorkflow : ~active[w] /\ active'[w] => acknowledged[w] > 0]_workflowRows
=============================================================================
