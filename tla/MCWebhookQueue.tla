-------------------------- MODULE MCWebhookQueue --------------------------
(***************************************************************************)
(* Two notifications about one screening job, one with hits and one that   *)
(* reports a failed search, drained by two overlapping invocations.        *)
(***************************************************************************)
EXTENDS WebhookQueue, TLC

CONSTANTS job1

MCEvent == {1, 2}
MCJob == {job1}
MCJobOf == [e \in MCEvent |-> job1]
MCKinds == (1 :> {"hits"}) @@ (2 :> {"failed"})
MCHits == [e \in MCEvent |-> {"hits"}]
MCFailures == {"error", "lost_reply"}
MCNoFailures == {}
=============================================================================
