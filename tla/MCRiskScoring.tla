--------------------------- MODULE MCRiskScoring ---------------------------
(***************************************************************************)
(* Runs the risk engine over every input: a behaviour starts from the      *)
(* least risky one and worsens one attribute at a time, as edits of the    *)
(* customer's data do between two assessments.                             *)
(***************************************************************************)
EXTENDS RiskScoring

VARIABLE input

Init == input = [pep |-> FALSE, riskyOccupation |-> FALSE, dualNationality |-> FALSE,
                 corporate |-> FALSE, residence |-> "standard",
                 nationality |-> "standard", riskyProduct |-> FALSE,
                 volume |-> "under_100k"]

DeclarePep == ~input.pep /\ input' = [input EXCEPT !.pep = TRUE]

ChangeOccupation == /\ ~input.riskyOccupation
                    /\ input' = [input EXCEPT !.riskyOccupation = TRUE]

AddNationality == /\ ~input.dualNationality
                  /\ input' = [input EXCEPT !.dualNationality = TRUE]

Incorporate == ~input.corporate /\ input' = [input EXCEPT !.corporate = TRUE]

Riskier(j) == CASE j = "standard" -> {"monitored", "high_risk"}
                [] j = "monitored" -> {"high_risk"}
                [] OTHER -> {}

Relocate == \E j \in Riskier(input.residence) :
                input' = [input EXCEPT !.residence = j]

ChangeNationality == \E j \in Riskier(input.nationality) :
                         input' = [input EXCEPT !.nationality = j]

ChangeProduct == /\ ~input.riskyProduct
                 /\ input' = [input EXCEPT !.riskyProduct = TRUE]

RaiseVolume == \E v \in Volumes :
                  /\ VolumeScore(v) > VolumeScore(input.volume)
                  /\ input' = [input EXCEPT !.volume = v]

Next == \/ DeclarePep \/ ChangeOccupation \/ AddNationality \/ Incorporate
        \/ Relocate \/ ChangeNationality \/ ChangeProduct \/ RaiseVolume

Spec == Init /\ [][Next]_input
-----------------------------------------------------------------------------
\* RISK_BAND_THRESHOLDS of lib/constants/risk.ts, "source of truth" for bands.
Thresholds == [low |-> 0..30, medium |-> 31..60, high |-> 61..80,
               unacceptable |-> 81..100]

\* determineBand, a second copy of the thresholds, agrees with the published table on
\* every score the engine can give, and no score leaves the table.  Some composites are
\* exact ties (a corporate high-risk national scores 20.5), which the floating-point sum
\* of computeRiskScore may round either way; no input comes within a ten-thousandth of
\* a tie that decides the band, and so the review queue.
BandMatchesTable ==
    \A error \in {-1, 0, 1} :
        Round(RawComposite(input) + error) \in Thresholds[BandOf(input)]

\* Worsening one attribute never lowers the score: a customer cannot leave the
\* review queue by declaring something riskier.
ScoreIsMonotone == [][CompositeScore(input') >= CompositeScore(input)]_input

\* An assessment made by onboarding is at most "medium": finalizeSubmittedSession
\* passes neither entity_type, product_type nor expected_transaction_volume, so
\* no individual session is ever routed to the "edd" or "escalation" queue,
\* whatever it declares (PEP status included).
OnboardingNeverAboveMedium ==
    input \in OnboardingInput => RiskBandToQueue(BandOf(input)) \in {"none", "standard"}

\* The band of every assessment is the published one, and where onboarding's lead to.
BandsSound == BandMatchesTable /\ OnboardingNeverAboveMedium
=============================================================================
