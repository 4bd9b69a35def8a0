---------------------------- MODULE MCOnboarding ----------------------------
(***************************************************************************)
(* Small instances of Onboarding, with the history of which requests       *)
(* overlapped.                                                             *)
(***************************************************************************)
EXTENDS RequestOverlap, TLC

CONSTANTS ind, corp, r1, r2, r3, none

MCSession == {ind, corp}
MCCorporate == {corp}
MCOpened == {ind}
MCRequest == {r1, r2, r3}
MCWriters == {"tenant_admin"}
NoWriters == {}
MCCaller == [r \in MCRequest |-> IF r = r3 THEN "onboarding_agent" ELSE "tenant_admin"]
MCCalls == [r \in MCRequest |-> IF r = r3 THEN {"initiate", "step"} ELSE {"edit", "step"}]
MCOffered == [s \in MCSession |-> IF s = corp THEN {"consent", "complete"}
                                 ELSE {"consent", "documents"}]
Symmetric == Permutations({r1, r2})

\* A low-risk customer and a medium-risk one whose name is blank or not.
Customer(pep, named) ==
    [input |-> [pep |-> pep, riskyOccupation |-> pep, dualNationality |-> FALSE,
                corporate |-> FALSE, residence |-> "standard",
                nationality |-> IF pep THEN "high_risk" ELSE "standard",
                riskyProduct |-> FALSE, volume |-> "under_100k"],
     named |-> named]
MCRecorded == [s \in MCOpened |-> Customer(TRUE, TRUE)]
MCProfile == {Customer(FALSE, TRUE), Customer(TRUE, TRUE), Customer(TRUE, FALSE)}
-----------------------------------------------------------------------------
\* 0024_fix_cases_rls_insert.sql: "All staff roles that can finalize an onboarding
\* session may open a case", so that a session's finalisation is not blocked.
StaffMayFinalize == \A r \in Request : ~At(r, "denied")
=============================================================================
