---------------------------- MODULE MCCaseReview ----------------------------
(***************************************************************************)
(* One case, one user of each role, and three requests: one by the senior  *)
(* reviewer and two by the MLRO.  The case starts unassigned or assigned   *)
(* to any of the three users.                                              *)
(***************************************************************************)
EXTENDS CaseReview, TLC

CONSTANTS case1, ana, sen, mlro, r1, r2, r3, none

MCCase == {case1}
MCAnalyst == {ana}
MCSenior == {sen}
MCCompliance == {mlro}
MCRequest == {r1, r2, r3}
MCCaller == (r1 :> sen) @@ (r2 :> mlro) @@ (r3 :> mlro)
MCCalls == (r1 :> {"decide", "rai", "assign"}) @@ (r2 :> {"decide", "assign", "escalate"})
             @@ (r3 :> {"decide", "flag", "note"})
=============================================================================
