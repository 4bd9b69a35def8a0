---------------------------- MODULE RiskScoring ----------------------------
(***************************************************************************)
(* The risk engine: modules/risk/dimensions/*.dimension.ts and             *)
(* computeRiskScore of modules/risk/risk.service.ts, as pure operators.    *)
(*                                                                         *)
(* The code adds products of small decimals in floating point and rounds.  *)
(* Here a dimension score is kept in hundredths and the composite in       *)
(* ten-thousandths, so the sum is exact; BandMatchesTable of               *)
(* MCRiskScoring shows that a floating-point error cannot change a band.   *)
(***************************************************************************)
EXTENDS Integers

\* FATF_HIGH_RISK, FATF_MONITORED and every other country code.
Jurisdictions == {"standard", "monitored", "high_risk"}

\* Every value of expected_transaction_volume the score tells apart.
Volumes == {"under_100k", "100k_500k", "over_500k"}

\* What the three dimensions read from a RiskInput: each attribute by the
\* class that its score depends on.
RiskInput == [pep: BOOLEAN, riskyOccupation: BOOLEAN, dualNationality: BOOLEAN,
              corporate: BOOLEAN, residence: Jurisdictions,
              nationality: Jurisdictions, riskyProduct: BOOLEAN, volume: Volumes]

\* The inputs finalizeSubmittedSession passes: entity_type, product_type and
\* expected_transaction_volume are left undefined, and score as the defaults.
OnboardingInput == {input \in RiskInput : /\ ~input.corporate
                                          /\ ~input.riskyProduct
                                          /\ input.volume = "under_100k"}
-----------------------------------------------------------------------------
Points(condition, yes, no) == IF condition THEN yes ELSE no

JurisdictionScore(j) == CASE j = "high_risk" -> 100
                          [] j = "monitored" -> 65
                          [] OTHER           -> 10

VolumeScore(v) == CASE v = "over_500k" -> 70
                    [] v = "100k_500k" -> 40
                    [] OTHER           -> 10

\* Mutant: the PEP flag read the wrong way round.
InvertedPepBug(input) ==
    40 * Points(input.pep, 0, 85) + 30 * Points(input.riskyOccupation, 70, 10)
      + 15 * Points(input.dualNationality, 20, 0)
      + 15 * Points(input.corporate, 30, 5)

\* The dimension scores, in hundredths.
ScoreCustomerDimension(input) ==
    40 * Points(input.pep, 85, 0) + 30 * Points(input.riskyOccupation, 70, 10)
      + 15 * Points(input.dualNationality, 20, 0)
      + 15 * Points(input.corporate, 30, 5)

ScoreGeographicDimension(input) ==
    50 * JurisdictionScore(input.residence)
      + 50 * JurisdictionScore(input.nationality)

ScoreProductDimension(input) ==
    60 * Points(input.riskyProduct, 75, 10) + 40 * VolumeScore(input.volume)
-----------------------------------------------------------------------------
\* Mutants: the customer dimension given twice its weight; the flat 25% lost.
DoubleCustomerWeightBug(input) ==
    60 * ScoreCustomerDimension(input) + 25 * ScoreGeographicDimension(input)
      + 20 * ScoreProductDimension(input) + 25 * 10 * 100

\* The composite before rounding, in ten-thousandths: 30%, 25% and 20% for the
\* dimensions, the remaining 25% at a flat score of 10.
RawComposite(input) ==
    30 * ScoreCustomerDimension(input) + 25 * ScoreGeographicDimension(input)
      + 20 * ScoreProductDimension(input) + 25 * 10 * 100

\* Math.round
Round(raw) == (raw + 5000) \div 10000

CompositeScore(input) == Round(RawComposite(input))

\* Mutant: the band thresholds taken as exclusive.
ExclusiveThresholdBug(score) == IF score < 30 THEN "low"
                                ELSE IF score < 60 THEN "medium"
                                ELSE IF score < 80 THEN "high"
                                ELSE "unacceptable"

DetermineBand(score) == IF score <= 30 THEN "low"
                        ELSE IF score <= 60 THEN "medium"
                        ELSE IF score <= 80 THEN "high"
                        ELSE "unacceptable"

RiskBands == {"low", "medium", "high", "unacceptable"}

BandOf(input) == DetermineBand(CompositeScore(input))

Queues == {"standard", "edd", "escalation"}

\* riskBandToQueue of cases.service.ts: null, here "none", opens no case.
RiskBandToQueue(band) == CASE band = "medium"       -> "standard"
                           [] band = "high"         -> "edd"
                           [] band = "unacceptable" -> "escalation"
                           [] OTHER                 -> "none"
=============================================================================
