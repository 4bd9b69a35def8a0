---------------------------- MODULE MCBackOffice ----------------------------
(***************************************************************************)
(* Small instance of the back office.  Three requests arrive; where they   *)
(* have many arguments, two of them.                                       *)
(***************************************************************************)
EXTENDS BackOffice, TLC

CONSTANTS r1, r2, r3, p1, t1, t2, h1, s1, s2, w1, wp, d1, analyst, mlro, none

MCRequest == {r1, r2, r3}
MCPerson == {p1}
MCTenant == {t1, t2}
MCGrantable == {analyst, mlro}
MCHit == {h1}
MCReport == {s1, s2}
MCTenantWorkflow == {w1}
MCPlatformWorkflow == {wp}
MCDoc == {d1}

\* Requests, reports, tenants and roles are interchangeable.
Symmetric == Permutations(MCRequest) \cup Permutations(MCReport)
             \cup Permutations(MCTenant) \cup Permutations(MCGrantable)

\* Bound: how many requests arrive in an area.
Arrivals == [users |-> 2, hits |-> 3, sar |-> 3, records |-> 2, workflows |-> 3,
             documents |-> 3]
Bounded == Cardinality({r \in Request : req[r].pc # "idle"}) <= Arrivals[area]
=============================================================================
