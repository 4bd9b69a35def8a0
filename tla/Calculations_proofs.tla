------------------------ MODULE Calculations_proofs ------------------------
(***************************************************************************)
(* What the pure functions guarantee for every input: the score and the    *)
(* band of the risk engine, proved from the weights, and the two checks of *)
(* a goAML report, with any fields and any number of transactions; then    *)
(* the same of the behaviours of MCCalculations, and the check digit of an *)
(* Emirates ID, whatever is typed.                                         *)
(***************************************************************************)
EXTENDS MCCalculations, FiniteSetTheorems, SequenceTheorems, TLAPS

\* Math.round over the composites onboarding can reach.
LEMMA RoundRange ==
    ASSUME NEW raw \in Int, 81250 <= raw, raw <= 471250
    PROVE  Round(raw) \in 8..47
<1>1. Round(raw) \in Int
  BY DEF Round
<1>2. 8 <= Round(raw)
  BY DEF Round
<1>3. Round(raw) <= 47
  BY DEF Round
<1>4. QED
  BY <1>1, <1>2, <1>3

\* The range of each dimension over what onboarding passes to it.
LEMMA CustomerDimensionRange ==
    ASSUME NEW data \in OnboardingInput
    PROVE  /\ ScoreCustomerDimension(data) \in Int
           /\ 375 <= ScoreCustomerDimension(data)
           /\ ScoreCustomerDimension(data) <= 5875
<1>1. /\ Points(data.pep, 85, 0) \in 0..85
      /\ Points(data.riskyOccupation, 70, 10) \in 10..70
      /\ Points(data.dualNationality, 20, 0) \in 0..20
  BY DEF Points
<1>2. Points(data.corporate, 30, 5) = 5
  BY DEF OnboardingInput, Points
<1> DEFINE pep == Points(data.pep, 85, 0)
           occupation == Points(data.riskyOccupation, 70, 10)
           dual == Points(data.dualNationality, 20, 0)
           entity == Points(data.corporate, 30, 5)
<1>3. ScoreCustomerDimension(data) = 40 * pep + 30 * occupation + 15 * dual + 15 * entity
  BY DEF ScoreCustomerDimension
<1>4. pep \in 0..85 /\ occupation \in 10..70 /\ dual \in 0..20 /\ entity = 5
  BY <1>1, <1>2
<1> HIDE DEF pep, occupation, dual, entity
<1>5. QED
  BY <1>3, <1>4

\* Whatever the two countries are.
LEMMA GeographicDimensionRange ==
    ASSUME NEW data \in RiskInput
    PROVE  /\ ScoreGeographicDimension(data) \in Int
           /\ 1000 <= ScoreGeographicDimension(data)
           /\ ScoreGeographicDimension(data) <= 10000
<1>1. JurisdictionScore(data.residence) \in {10, 65, 100}
  BY DEF RiskInput, Jurisdictions, JurisdictionScore
<1>2. JurisdictionScore(data.nationality) \in {10, 65, 100}
  BY DEF RiskInput, Jurisdictions, JurisdictionScore
<1>3. QED
  BY <1>1, <1>2 DEF ScoreGeographicDimension

\* Onboarding leaves the product inputs out, so they score as the defaults.
LEMMA ProductDimensionDefault ==
    ASSUME NEW data \in OnboardingInput
    PROVE  ScoreProductDimension(data) = 1000
  BY DEF OnboardingInput, ScoreProductDimension, Points, VolumeScore
-----------------------------------------------------------------------------
\* An assessment made by onboarding scores between 8 and 47, so it is at most
\* "medium", and a session it opens a case for goes to the standard queue: the
\* EDD and escalation queues are out of finalizeSubmittedSession's reach.
THEOREM OnboardingScoreRange ==
    ASSUME NEW data \in OnboardingInput
    PROVE  /\ CompositeScore(data) \in 8..47
           /\ RiskBandToQueue(BandOf(data)) \in {"none", "standard"}
<1>1. data \in RiskInput
  BY DEF OnboardingInput
<1> DEFINE customer == ScoreCustomerDimension(data)
           geographic == ScoreGeographicDimension(data)
           product == ScoreProductDimension(data)
           raw == RawComposite(data)
<1>2. raw = 30 * customer + 25 * geographic + 20 * product + 25 * 10 * 100
  BY DEF RawComposite
<1>3. CompositeScore(data) \in 8..47
  <2>1. customer \in Int /\ 375 <= customer /\ customer <= 5875
    BY CustomerDimensionRange
  <2>2. geographic \in Int /\ 1000 <= geographic /\ geographic <= 10000
    BY <1>1, GeographicDimensionRange
  <2>3. product = 1000
    BY ProductDimensionDefault
  <2>4. CompositeScore(data) = Round(raw)
    BY DEF CompositeScore
  <2> HIDE DEF customer, geographic, product, raw
  <2>5. raw \in Int /\ 81250 <= raw /\ raw <= 471250
    BY <1>2, <2>1, <2>2, <2>3
  <2>6. QED
    BY <2>4, <2>5, RoundRange
<1>4. BandOf(data) \in {"low", "medium"}
  BY <1>3 DEF BandOf, DetermineBand
<1>5. QED
  BY <1>3, <1>4 DEF RiskBandToQueue

\* The order of the bands.
BandRank(band) == CASE band = "low" -> 0 [] band = "medium" -> 1
                    [] band = "high" -> 2 [] OTHER -> 3

\* determineBand never lowers the band of a higher score, on every pair of
\* integers and not only on scores the engine gives.
THEOREM BandIsMonotone ==
    ASSUME NEW a \in Int, NEW b \in Int, a <= b
    PROVE  BandRank(DetermineBand(a)) <= BandRank(DetermineBand(b))
  BY DEF BandRank, DetermineBand
-----------------------------------------------------------------------------
\* The composite as a sum of the points of each attribute, by its weight.
LEMMA WeightOfAttributes ==
    ASSUME NEW data \in RiskInput
    PROVE  /\ RawComposite(data) =
                1200 * Points(data.pep, 85, 0) + 900 * Points(data.riskyOccupation, 70, 10)
                + 450 * Points(data.dualNationality, 20, 0) + 450 * Points(data.corporate, 30, 5)
                + 1250 * JurisdictionScore(data.residence)
                + 1250 * JurisdictionScore(data.nationality)
                + 1200 * Points(data.riskyProduct, 75, 10) + 800 * VolumeScore(data.volume)
                + 25000
           /\ Points(data.pep, 85, 0) \in {0, 85}
           /\ Points(data.riskyOccupation, 70, 10) \in {10, 70}
           /\ Points(data.dualNationality, 20, 0) \in {0, 20}
           /\ Points(data.corporate, 30, 5) \in {5, 30}
           /\ JurisdictionScore(data.residence) \in {10, 65, 100}
           /\ JurisdictionScore(data.nationality) \in {10, 65, 100}
           /\ Points(data.riskyProduct, 75, 10) \in {10, 75}
           /\ VolumeScore(data.volume) \in {10, 40, 70}
<1> DEFINE pep == Points(data.pep, 85, 0)
           occupation == Points(data.riskyOccupation, 70, 10)
           dual == Points(data.dualNationality, 20, 0)
           entity == Points(data.corporate, 30, 5)
           residence == JurisdictionScore(data.residence)
           nationality == JurisdictionScore(data.nationality)
           product == Points(data.riskyProduct, 75, 10)
           volume == VolumeScore(data.volume)
<1>1. /\ pep \in {0, 85} /\ occupation \in {10, 70} /\ dual \in {0, 20} /\ entity \in {5, 30}
      /\ product \in {10, 75}
  BY DEF Points
<1>2. residence \in {10, 65, 100} /\ nationality \in {10, 65, 100} /\ volume \in {10, 40, 70}
  BY DEF JurisdictionScore, VolumeScore
<1>3. /\ ScoreCustomerDimension(data) = 40 * pep + 30 * occupation + 15 * dual + 15 * entity
      /\ ScoreGeographicDimension(data) = 50 * residence + 50 * nationality
      /\ ScoreProductDimension(data) = 60 * product + 40 * volume
  BY DEF ScoreCustomerDimension, ScoreGeographicDimension, ScoreProductDimension
<1>4. RawComposite(data) =
        30 * ScoreCustomerDimension(data) + 25 * ScoreGeographicDimension(data)
          + 20 * ScoreProductDimension(data) + 25 * 10 * 100
  BY DEF RawComposite
<1> HIDE DEF pep, occupation, dual, entity, residence, nationality, product, volume
<1>5. RawComposite(data) =
        1200 * pep + 900 * occupation + 450 * dual + 450 * entity + 1250 * residence
        + 1250 * nationality + 1200 * product + 800 * volume + 25000
  BY <1>1, <1>2, <1>3, <1>4
<1>6. QED
  BY <1>1, <1>2, <1>5 DEF pep, occupation, dual, entity, residence, nationality, product, volume

\* The sums of two attributes each, among which no four make a tie.
LEMMA NoSumTies ==
    ASSUME NEW person \in Int, NEW entity \in Int, NEW country \in Int, NEW product \in Int,
           person = 9000 \/ person = 63000 \/ person = 111000 \/ person = 165000,
           entity = 2250 \/ entity = 11250 \/ entity = 13500 \/ entity = 22500,
           \/ country = 25000 \/ country = 93750 \/ country = 137500
           \/ country = 162500 \/ country = 206250 \/ country = 250000,
           \/ product = 20000 \/ product = 44000 \/ product = 68000
           \/ product = 98000 \/ product = 122000 \/ product = 146000
    PROVE  LET raw == person + entity + country + product + 25000 IN
           /\ raw \in Int /\ 60000 <= raw /\ raw <= 610000
           /\ raw < 304999 \/ (305001 < raw /\ raw < 604999) \/ 605001 < raw
  OBVIOUS

\* No composite is the half that decides a band, nor next to one, and none reaches 62.
LEMMA NoTieDecides ==
    ASSUME NEW data \in RiskInput
    PROVE  LET raw == RawComposite(data) IN
           /\ raw \in Int /\ 60000 <= raw /\ raw <= 610000
           /\ raw < 304999 \/ (305001 < raw /\ raw < 604999) \/ 605001 < raw
<1> DEFINE pep == Points(data.pep, 85, 0)
           occupation == Points(data.riskyOccupation, 70, 10)
           dual == Points(data.dualNationality, 20, 0)
           entity == Points(data.corporate, 30, 5)
           residence == JurisdictionScore(data.residence)
           nationality == JurisdictionScore(data.nationality)
           product == Points(data.riskyProduct, 75, 10)
           volume == VolumeScore(data.volume)
<1>1. /\ RawComposite(data) =
           1200 * pep + 900 * occupation + 450 * dual + 450 * entity + 1250 * residence
           + 1250 * nationality + 1200 * product + 800 * volume + 25000
      /\ pep = 0 \/ pep = 85
      /\ occupation = 10 \/ occupation = 70
      /\ dual = 0 \/ dual = 20
      /\ entity = 5 \/ entity = 30
      /\ residence = 10 \/ residence = 65 \/ residence = 100
      /\ nationality = 10 \/ nationality = 65 \/ nationality = 100
      /\ product = 10 \/ product = 75
      /\ volume = 10 \/ volume = 40 \/ volume = 70
  BY WeightOfAttributes
<1> HIDE DEF pep, occupation, dual, entity, residence, nationality, product, volume
<1> DEFINE ofPerson == 1200 * pep + 900 * occupation
           ofEntity == 450 * dual + 450 * entity
           ofCountry == 1250 * residence + 1250 * nationality
           ofProduct == 1200 * product + 800 * volume
<1>2. /\ ofPerson \in Int
      /\ ofPerson = 9000 \/ ofPerson = 63000 \/ ofPerson = 111000 \/ ofPerson = 165000
  BY <1>1
<1>3. /\ ofEntity \in Int
      /\ ofEntity = 2250 \/ ofEntity = 11250 \/ ofEntity = 13500 \/ ofEntity = 22500
  BY <1>1
<1>4. /\ ofCountry \in Int
      /\ \/ ofCountry = 25000 \/ ofCountry = 93750 \/ ofCountry = 137500
         \/ ofCountry = 162500 \/ ofCountry = 206250 \/ ofCountry = 250000
  BY <1>1
<1>5. /\ ofProduct \in Int
      /\ \/ ofProduct = 20000 \/ ofProduct = 44000 \/ ofProduct = 68000
         \/ ofProduct = 98000 \/ ofProduct = 122000 \/ ofProduct = 146000
  BY <1>1
<1>6. RawComposite(data) = ofPerson + ofEntity + ofCountry + ofProduct + 25000
  BY <1>1
<1> HIDE DEF ofPerson, ofEntity, ofCountry, ofProduct
<1>7. QED
  BY <1>2, <1>3, <1>4, <1>5, <1>6, NoSumTies

\* Math.round is the whole number at most a half away.
LEMMA RoundIsNear ==
    ASSUME NEW raw \in Int
    PROVE  /\ Round(raw) \in Int
           /\ 10000 * Round(raw) <= raw + 5000
           /\ raw + 5000 < 10000 * Round(raw) + 10000
  BY DEF Round

\* The score is rounded into the band that the published table gives it, even if the sum
\* of small decimals was a ten-thousandth off.
LEMMA BandOfRounded ==
    ASSUME NEW raw \in Int, 60000 <= raw, raw <= 610000,
           raw < 304999 \/ (305001 < raw /\ raw < 604999) \/ 605001 < raw,
           NEW error \in {-1, 0, 1}
    PROVE  Round(raw + error) \in Thresholds[DetermineBand(Round(raw))]
<1>1. raw + error \in Int /\ raw - 1 <= raw + error /\ raw + error <= raw + 1
  OBVIOUS
<1>2. CASE raw < 304999
  <2>1. raw + error < 305000 /\ 0 <= raw + error
    BY <1>1, <1>2
  <2>2. Round(raw) \in 0..30
    <3>1. /\ Round(raw) \in Int /\ 10000 * Round(raw) <= raw + 5000
          /\ raw + 5000 < 10000 * Round(raw) + 10000
      BY RoundIsNear
    <3>2. QED
      BY <1>2, <3>1
  <2>3. Round(raw + error) \in 0..30
    <3> DEFINE near == Round(raw + error)
               off == raw + error
    <3>1. near \in Int /\ 10000 * near <= off + 5000 /\ off + 5000 < 10000 * near + 10000
      BY <1>1, RoundIsNear
    <3>2. off \in Int
      BY <1>1
    <3> HIDE DEF near, off
    <3>3. near \in 0..30
      BY <2>1, <3>1, <3>2 DEF off
    <3>4. QED
      BY <3>3 DEF near
  <2>4. DetermineBand(Round(raw)) = "low"
    BY <2>2 DEF DetermineBand
  <2>5. QED
    BY <2>3, <2>4 DEF Thresholds
<1>3. CASE 305001 < raw /\ raw < 604999
  <2>1. raw + error < 605000 /\ 305000 <= raw + error
    BY <1>1, <1>3
  <2>2. Round(raw) \in 31..60
    <3>1. /\ Round(raw) \in Int /\ 10000 * Round(raw) <= raw + 5000
          /\ raw + 5000 < 10000 * Round(raw) + 10000
      BY RoundIsNear
    <3>2. QED
      BY <1>3, <3>1
  <2>3. Round(raw + error) \in 31..60
    <3> DEFINE near == Round(raw + error)
               off == raw + error
    <3>1. near \in Int /\ 10000 * near <= off + 5000 /\ off + 5000 < 10000 * near + 10000
      BY <1>1, RoundIsNear
    <3>2. off \in Int
      BY <1>1
    <3> HIDE DEF near, off
    <3>3. near \in 31..60
      BY <2>1, <3>1, <3>2 DEF off
    <3>4. QED
      BY <3>3 DEF near
  <2>4. DetermineBand(Round(raw)) = "medium"
    BY <2>2 DEF DetermineBand
  <2>5. QED
    BY <2>3, <2>4 DEF Thresholds
<1>4. CASE 605001 < raw
  <2>1. raw + error < 805000 /\ 605000 <= raw + error
    BY <1>1, <1>4
  <2>2. Round(raw) \in 61..80
    <3>1. /\ Round(raw) \in Int /\ 10000 * Round(raw) <= raw + 5000
          /\ raw + 5000 < 10000 * Round(raw) + 10000
      BY RoundIsNear
    <3>2. QED
      BY <1>4, <3>1
  <2>3. Round(raw + error) \in 61..80
    <3> DEFINE near == Round(raw + error)
               off == raw + error
    <3>1. near \in Int /\ 10000 * near <= off + 5000 /\ off + 5000 < 10000 * near + 10000
      BY <1>1, RoundIsNear
    <3>2. off \in Int
      BY <1>1
    <3> HIDE DEF near, off
    <3>3. near \in 61..80
      BY <2>1, <3>1, <3>2 DEF off
    <3>4. QED
      BY <3>3 DEF near
  <2>4. DetermineBand(Round(raw)) = "high"
    BY <2>2 DEF DetermineBand
  <2>5. QED
    BY <2>3, <2>4 DEF Thresholds
<1>5. QED
  BY <1>2, <1>3, <1>4

LEMMA RoundIsMonotone ==
    ASSUME NEW a \in Int, NEW b \in Int, a <= b
    PROVE  Round(a) <= Round(b)
  BY RoundIsNear

\* Whatever gets riskier, the score does not fall.
LEMMA RiskierScoresMore ==
    ASSUME NEW data \in RiskInput, NEW worse \in RiskInput,
           data.pep => worse.pep,
           data.riskyOccupation => worse.riskyOccupation,
           data.dualNationality => worse.dualNationality,
           data.corporate => worse.corporate,
           data.riskyProduct => worse.riskyProduct,
           JurisdictionScore(data.residence) <= JurisdictionScore(worse.residence),
           JurisdictionScore(data.nationality) <= JurisdictionScore(worse.nationality),
           VolumeScore(data.volume) <= VolumeScore(worse.volume)
    PROVE  CompositeScore(data) <= CompositeScore(worse)
<1>1. /\ Points(data.pep, 85, 0) <= Points(worse.pep, 85, 0)
      /\ Points(data.riskyOccupation, 70, 10) <= Points(worse.riskyOccupation, 70, 10)
      /\ Points(data.dualNationality, 20, 0) <= Points(worse.dualNationality, 20, 0)
      /\ Points(data.corporate, 30, 5) <= Points(worse.corporate, 30, 5)
      /\ Points(data.riskyProduct, 75, 10) <= Points(worse.riskyProduct, 75, 10)
  BY DEF Points
<1> DEFINE a1 == Points(data.pep, 85, 0)               b1 == Points(worse.pep, 85, 0)
           a2 == Points(data.riskyOccupation, 70, 10)  b2 == Points(worse.riskyOccupation, 70, 10)
           a3 == Points(data.dualNationality, 20, 0)   b3 == Points(worse.dualNationality, 20, 0)
           a4 == Points(data.corporate, 30, 5)         b4 == Points(worse.corporate, 30, 5)
           a5 == JurisdictionScore(data.residence)     b5 == JurisdictionScore(worse.residence)
           a6 == JurisdictionScore(data.nationality)   b6 == JurisdictionScore(worse.nationality)
           a7 == Points(data.riskyProduct, 75, 10)     b7 == Points(worse.riskyProduct, 75, 10)
           a8 == VolumeScore(data.volume)              b8 == VolumeScore(worse.volume)
<1>2. /\ a1 \in Int /\ a2 \in Int /\ a3 \in Int /\ a4 \in Int
      /\ a5 \in Int /\ a6 \in Int /\ a7 \in Int /\ a8 \in Int
      /\ RawComposite(data) = 1200 * a1 + 900 * a2 + 450 * a3 + 450 * a4 + 1250 * a5
                              + 1250 * a6 + 1200 * a7 + 800 * a8 + 25000
  BY WeightOfAttributes
<1>3. /\ b1 \in Int /\ b2 \in Int /\ b3 \in Int /\ b4 \in Int
      /\ b5 \in Int /\ b6 \in Int /\ b7 \in Int /\ b8 \in Int
      /\ RawComposite(worse) = 1200 * b1 + 900 * b2 + 450 * b3 + 450 * b4 + 1250 * b5
                               + 1250 * b6 + 1200 * b7 + 800 * b8 + 25000
  BY WeightOfAttributes
<1>4. /\ a1 <= b1 /\ a2 <= b2 /\ a3 <= b3 /\ a4 <= b4
      /\ a5 <= b5 /\ a6 <= b6 /\ a7 <= b7 /\ a8 <= b8
  BY <1>1
<1> HIDE DEF a1, a2, a3, a4, a5, a6, a7, a8, b1, b2, b3, b4, b5, b6, b7, b8
<1>5. /\ RawComposite(data) \in Int /\ RawComposite(worse) \in Int
      /\ RawComposite(data) <= RawComposite(worse)
  BY <1>2, <1>3, <1>4
<1>6. QED
  BY <1>5, RoundIsMonotone DEF CompositeScore

-----------------------------------------------------------------------------
\* Every instrument, the unknown one included, gets a transmode code of the schema.
LEMMA TransmodeListed ==
    ASSUME NEW instrument
    PROVE  MapInstrumentToTransmodeCode(instrument) \in TransmodeCode
BY DEF MapInstrumentToTransmodeCode, TransmodeCode

\* Every set of reasons gets a report code of the schema.
LEMMA ReportCodeListed ==
    ASSUME NEW reasons
    PROVE  MapReasonToReportCode(reasons) \in ReportCode
BY DEF MapReasonToReportCode, ReportCode

\* A transaction without errors is rendered with a well-formed date and an amount of
\* at most eighteen digits.
LEMMA TransactionAccepted ==
    ASSUME NEW t, TransactionErrors(t) = {}
    PROVE  RecheckTransaction(RenderTransaction(t)) = {}
<1>1. t.date = "datetime" /\ t.amount \in {"small", "max"}
  BY DEF TransactionErrors, Error
<1>2. RenderTransaction(t).digits \in 1..18
  BY <1>1 DEF RenderTransaction, PrintedDigits
<1>3. /\ RenderTransaction(t).children = TransactionRequiredChildren
      /\ RenderTransaction(t).date = "datetime"
      /\ RenderTransaction(t).transmode \in TransmodeCode
  BY <1>1, TransmodeListed DEF RenderTransaction
<1> QED
  BY <1>2, <1>3 DEF RecheckTransaction, Error

\* The entity id is demanded on export, so its element is always written.
LEMMA EntityWritten ==
    ASSUME NEW f \in Filing, InstitutionErrors(f, "export") = {}
    PROVE  BuildSarXml(f).children = ReportRequiredChildren
<1>1. Error("rentity_id_required", f.entity # "set" /\ "export" \in {"submit", "export"}) = {}
  BY DEF InstitutionErrors
<1>2. f.entity = "set"
  BY <1>1 DEF Error
<1>3. Error("rentity_id", f.entity # "absent") = {"rentity_id"}
  BY <1>2 DEF Error
<1> QED
  BY <1>3 DEF BuildSarXml, ReportRequiredChildren

\* The comment of exportSarAsXml on drift between builder and validator: for every
\* report the three parts agree.
THEOREM ExportRechecked ==
    ASSUME NEW f \in Filing
    PROVE  ExportPassesRecheck(f)
<1> SUFFICES ASSUME ValidateForGoaml(f, "export") = {}
             PROVE  ValidateGoamlXml(BuildSarXml(f)) = {}
  BY DEF ExportPassesRecheck
<1> DEFINE x == BuildSarXml(f)
<1>1. InstitutionErrors(f, "export") = {} /\ ValidateTransactions(f) = {}
  BY DEF ValidateForGoaml
<1>2. /\ x.raw = {}
      /\ x.children = ReportRequiredChildren
      /\ x.code \in ReportCode
  BY <1>1, EntityWritten, ReportCodeListed DEF BuildSarXml, XmlEscape
<1>3. /\ DOMAIN x.transactions = DOMAIN f.transactions
      /\ \A i \in DOMAIN f.transactions :
            x.transactions[i] = RenderTransaction(f.transactions[i])
  BY DEF BuildSarXml
<1>4. ASSUME NEW i \in DOMAIN x.transactions
      PROVE  RecheckTransaction(x.transactions[i]) = {}
  <2>1. TransactionErrors(f.transactions[i]) = {}
    BY <1>1, <1>3 DEF ValidateTransactions
  <2> QED
    BY <1>3, <2>1, TransactionAccepted
<1> HIDE DEF x
<1>5. UNION {RecheckTransaction(x.transactions[i]) : i \in DOMAIN x.transactions} = {}
  BY <1>4
<1>6. ValidateGoamlXml(x) = {}
  BY <1>2, <1>5 DEF ValidateGoamlXml, Error
<1> QED
  BY <1>6 DEF x
-----------------------------------------------------------------------------
(* The behaviours of MCCalculations.                                       *)

FormsOK == input \in RiskInput /\ filing \in Filing

LEMMA InitForms == CalculationsInit => FormsOK
<1>1. SUFFICES ASSUME CalculationsInit PROVE FormsOK
  OBVIOUS
<1>2. input \in RiskInput
  BY <1>1 DEF CalculationsInit, Init, RiskInput, Jurisdictions, Volumes
<1>3. filing \in Filing
  <2>1. CompleteTransaction \in Transaction
    BY DEF CompleteTransaction, Transaction, Instrument
  <2>2. <<CompleteTransaction>> \in Seq(Transaction)
    BY <2>1
  <2>3. CompleteFiling \in Filing
    BY <2>2 DEF CompleteFiling, Filing, Presence, ReasonCode
  <2>4. QED
    BY <1>1, <2>3 DEF CalculationsInit
<1>4. QED
  BY <1>2, <1>3 DEF FormsOK

\* Worsening one attribute leaves a risk input that is riskier in it and equal elsewhere.
LEMMA WorsenedInput ==
    ASSUME input \in RiskInput, Next
    PROVE  input' \in RiskInput /\ CompositeScore(input') >= CompositeScore(input)
<1>1. /\ input' \in RiskInput
      /\ input.pep => input'.pep
      /\ input.riskyOccupation => input'.riskyOccupation
      /\ input.dualNationality => input'.dualNationality
      /\ input.corporate => input'.corporate
      /\ input.riskyProduct => input'.riskyProduct
      /\ JurisdictionScore(input.residence) <= JurisdictionScore(input'.residence)
      /\ JurisdictionScore(input.nationality) <= JurisdictionScore(input'.nationality)
      /\ VolumeScore(input.volume) <= VolumeScore(input'.volume)
  <2>0. /\ JurisdictionScore(input.residence) \in Int
        /\ JurisdictionScore(input.nationality) \in Int
        /\ VolumeScore(input.volume) \in Int
    BY DEF JurisdictionScore, VolumeScore
  <2>1. CASE \/ DeclarePep \/ ChangeOccupation \/ AddNationality \/ Incorporate
             \/ ChangeProduct
    <3>1. /\ input' \in RiskInput
          /\ input.pep => input'.pep
          /\ input.riskyOccupation => input'.riskyOccupation
          /\ input.dualNationality => input'.dualNationality
          /\ input.corporate => input'.corporate
          /\ input.riskyProduct => input'.riskyProduct
          /\ input'.residence = input.residence /\ input'.nationality = input.nationality
          /\ input'.volume = input.volume
      BY <2>1 DEF DeclarePep, ChangeOccupation, AddNationality, Incorporate, ChangeProduct,
                  RiskInput
    <3>2. QED
      BY <2>0, <3>1
  <2>2. CASE Relocate
    BY <2>2 DEF Relocate, Riskier, RiskInput, Jurisdictions, JurisdictionScore, VolumeScore
  <2>3. CASE ChangeNationality
    BY <2>3 DEF ChangeNationality, Riskier, RiskInput, Jurisdictions, JurisdictionScore, VolumeScore
  <2>4. CASE RaiseVolume
    BY <2>4 DEF RaiseVolume, RiskInput, Volumes, JurisdictionScore, VolumeScore
  <2>5. QED
    BY <2>1, <2>2, <2>3, <2>4 DEF Next
<1>2. CompositeScore(input) <= CompositeScore(input') /\ CompositeScore(input) \in Int
                                                      /\ CompositeScore(input') \in Int
  <2>1. CompositeScore(input) <= CompositeScore(input')
    BY <1>1, RiskierScoresMore
  <2>2. RawComposite(input) \in Int
    BY NoTieDecides
  <2>3. RawComposite(input') \in Int
    BY <1>1, NoTieDecides
  <2>4. QED
    BY <2>1, <2>2, <2>3, RoundIsNear DEF CompositeScore
<1>3. QED
  BY <1>1, <1>2

\* Every edit of the form leaves a report of the type that the checks are proved for.
LEMMA EditedFiling ==
    ASSUME filing \in Filing, FilingNext
    PROVE  filing' \in Filing
<1>1. CASE FillPresence
  <2>1. CASE \E value \in Presence : \/ filing' = [filing EXCEPT !["institution"] = value]
                                     \/ filing' = [filing EXCEPT !["entity"] = value]
    BY <2>1 DEF Filing
  <2>2. CASE \E value \in Presence : \/ filing' = [filing EXCEPT !["reference"] = value]
                                     \/ filing' = [filing EXCEPT !["subject"] = value]
    BY <2>2 DEF Filing
  <2>3. QED
    BY <1>1, <2>1, <2>2 DEF FillPresence, Edit
<1>2. CASE FillContact
  <2>1. CASE \E value \in {"absent", "malformed"} : filing' = [filing EXCEPT !["email"] = value]
    BY <2>1 DEF Filing
  <2>2. CASE filing' = [filing EXCEPT !["phone"] = FALSE]
    BY <2>2 DEF Filing
  <2>3. CASE filing' = [filing EXCEPT !["address"] = FALSE]
    BY <2>3 DEF Filing
  <2>4. QED
    BY <1>2, <2>1, <2>2, <2>3 DEF FillContact, Edit
<1>3. CASE PickReasons
  <2>1. PICK reasons \in SUBSET (ReasonCode \cup {"unlisted"}) :
          filing' = [filing EXCEPT !["reasons"] = reasons]
    BY <1>3 DEF PickReasons, Edit, ReasonCode
  <2>2. QED
    BY <2>1 DEF Filing
<1>4. CASE WriteNarrative
  <2>1. CASE \E value \in {"short", "draft", "huge"} :
               filing' = [filing EXCEPT !["narrative"] = value]
    BY <2>1 DEF Filing
  <2>2. CASE \E value \in {"open", "malformed", "inverted"} :
               filing' = [filing EXCEPT !["window"] = value]
    BY <2>2 DEF Filing
  <2>3. QED
    BY <1>4, <2>1, <2>2 DEF WriteNarrative, Edit
<1>5. CASE DescribeSubject
  <2>1. CASE \E value \in {"absent", "malformed", "future"} :
               filing' = [filing EXCEPT !["birth"] = value]
    BY <2>1 DEF Filing
  <2>2. CASE \E value \in {"absent", "malformed"} :
               filing' = [filing EXCEPT !["nationality"] = value]
    BY <2>2 DEF Filing
  <2>3. CASE \E value \in {"absent", "unlisted"} :
               filing' = [filing EXCEPT !["idType"] = value]
    BY <2>3 DEF Filing
  <2>4. CASE filing' = [filing EXCEPT !["idNumber"] = FALSE]
    BY <2>4 DEF Filing
  <2>5. QED
    BY <1>5, <2>1, <2>2, <2>3, <2>4 DEF DescribeSubject, Edit
<1>6. CASE EditTransactions
  <2>1. CASE \E list \in Seq(Transaction) : filing' = [filing EXCEPT !["transactions"] = list]
    BY <2>1 DEF Filing
  <2>2. CASE filing' = [filing EXCEPT !["total"] = FALSE]
    BY <2>2 DEF Filing
  <2>3. CompleteTransaction \in Transaction
    BY DEF CompleteTransaction, Transaction, Instrument
  <2>4. <<>> \in Seq(Transaction)
        /\ \A t \in Transaction : <<t, CompleteTransaction>> \in Seq(Transaction)
    BY <2>3
  <2>5. QED
    BY <1>6, <2>1, <2>2, <2>4 DEF EditTransactions, Edit
<1>7. CASE TypeMarkup
  <2>1. PICK typed \in Typed : filing' = [filing EXCEPT !["markup"] = filing.markup \cup {typed}]
    BY <1>7 DEF TypeMarkup, Edit
  <2>2. filing.markup \cup {typed} \in SUBSET Typed
    BY DEF Filing
  <2>3. QED
    BY <2>1, <2>2 DEF Filing
<1>8. QED
  BY <1>1, <1>2, <1>3, <1>4, <1>5, <1>6, <1>7 DEF FilingNext

LEMMA FormsStay == CalculationsSpec => []FormsOK
<1>1. FormsOK /\ [CalculationsNext]_calculations => FormsOK'
  BY WorsenedInput, EditedFiling DEF FormsOK, CalculationsNext, calculations
<1>2. QED
  BY <1>1, InitForms, PTL DEF CalculationsSpec

\* determineBand and the published table: the second copy of the thresholds gives every
\* input the band of the first, a rounding error of the floating-point sum included, and
\* no assessment of onboarding leads to a queue above the standard one.
THEOREM BandsAreSound == CalculationsSpec => []BandsSound
<1>1. FormsOK => BandsSound
  <2>1. ASSUME FormsOK PROVE BandMatchesTable
    <3> DEFINE raw == RawComposite(input)
    <3>1. /\ raw \in Int /\ 60000 <= raw /\ raw <= 610000
          /\ raw < 304999 \/ (305001 < raw /\ raw < 604999) \/ 605001 < raw
      BY <2>1, NoTieDecides DEF FormsOK
    <3> HIDE DEF raw
    <3>2. ASSUME NEW error \in {-1, 0, 1}
          PROVE  Round(raw + error) \in Thresholds[DetermineBand(Round(raw))]
      BY <3>1, BandOfRounded
    <3>3. QED
      BY <3>2 DEF BandMatchesTable, BandOf, CompositeScore, raw
  <2>2. OnboardingNeverAboveMedium
    BY OnboardingScoreRange DEF OnboardingNeverAboveMedium
  <2>3. QED
    BY <2>1, <2>2 DEF BandsSound
<1>2. QED
  BY <1>1, FormsStay, PTL

\* exportSarAsXml: in every state of the form, a report without errors is built into a
\* text that passes the second check.
THEOREM FilingsPassRecheck == CalculationsSpec => []FilingPassesRecheck
<1>1. FormsOK => FilingPassesRecheck
  BY ExportRechecked DEF FormsOK, FilingPassesRecheck
<1>2. QED
  BY <1>1, FormsStay, PTL

\* computeRiskScore: declaring something riskier never lowers the score.
THEOREM WorseScoresMore == CalculationsSpec => ScoreIsMonotone
<1>1. FormsOK /\ [CalculationsNext]_calculations
        => [CompositeScore(input') >= CompositeScore(input)]_input
  BY WorsenedInput DEF FormsOK, CalculationsNext, calculations
<1>2. QED
  BY <1>1, FormsStay, PTL DEF CalculationsSpec, ScoreIsMonotone
-----------------------------------------------------------------------------
(***************************************************************************)
(* The Emirates ID.  The text that is typed is followed one character at a *)
(* time: where the separators go, what one wrong character or two          *)
(* exchanged ones leave of it, and what that does to the check digit.      *)
(***************************************************************************)
Character == Digit \cup {Separator, Letter}

LEMMA SmallestNumber ==
    ASSUME NEW T, T \subseteq Nat, T # {}
    PROVE  \E n \in T : \A m \in T : n <= m
<1>1. PICK n \in T : \A m \in T : ~(<<m, n>> \in OpToRel(<, Nat))
  BY NatLessThanWellFounded, WFMin
<1>2. \A m \in T : n <= m
  <2>1. TAKE m \in T
  <2>2. m \in Nat /\ n \in Nat
    OBVIOUS
  <2>3. ~(m < n)
    BY <1>1, <2>2 DEF OpToRel
  <2>4. QED
    BY <2>2, <2>3
<1>3. QED
  BY <1>2

\* kept[i] is what is left of the first i characters, for i up to n.
Keeps(typed, kept, n) ==
    /\ kept \in [0..n -> Seq(Character)]
    /\ kept[0] = <<>>
    /\ \A i \in 1..n :
         kept[i] = IF typed[i] = Separator THEN kept[i - 1] ELSE Append(kept[i - 1], typed[i])

LEMMA KeptExists ==
    ASSUME NEW typed \in Seq(Character), NEW n \in 0..Len(typed)
    PROVE  \E kept : Keeps(typed, kept, n)
<1> DEFINE Lacking == {k \in 0..Len(typed) : ~ \E kept : Keeps(typed, kept, k)}
<1>1. SUFFICES ASSUME Lacking # {} PROVE FALSE
  OBVIOUS
<1>2. PICK k \in Lacking : \A m \in Lacking : k <= m
  <2>1. Lacking \subseteq Nat
    OBVIOUS
  <2> HIDE DEF Lacking
  <2>2. QED
    BY <1>1, <2>1, SmallestNumber
<1>3. CASE k = 0
  <2>1. Keeps(typed, [i \in 0..0 |-> <<>>], 0)
    BY DEF Keeps
  <2>2. QED
    BY <1>2, <1>3, <2>1
<1>4. CASE k # 0
  <2>1. k \in Nat /\ k - 1 \in 0..Len(typed) /\ ~(k <= k - 1)
    BY <1>2, <1>4
  <2>2. PICK kept : Keeps(typed, kept, k - 1)
    BY <1>2, <2>1
  <2> DEFINE last == IF typed[k] = Separator THEN kept[k - 1] ELSE Append(kept[k - 1], typed[k])
             more == [i \in 0..k |-> IF i = k THEN last ELSE kept[i]]
  <2>3. typed[k] \in Character /\ kept[k - 1] \in Seq(Character)
    BY <1>2, <1>4, <2>1, <2>2 DEF Keeps
  <2>4. last \in Seq(Character)
    BY <2>3
  <2> HIDE DEF last
  <2>5. more \in [0..k -> Seq(Character)] /\ more[0] = <<>>
    BY <1>4, <2>1, <2>2, <2>4 DEF Keeps
  <2>6. \A i \in 1..k : more[i] = IF typed[i] = Separator THEN more[i - 1]
                                  ELSE Append(more[i - 1], typed[i])
    <3>1. TAKE i \in 1..k
    <3>2. CASE i = k
      BY <2>1, <3>2 DEF last
    <3>3. CASE i # k
      <4>1. i \in 1..(k - 1) /\ more[i] = kept[i] /\ more[i - 1] = kept[i - 1]
        BY <2>1, <3>3
      <4>2. QED
        BY <2>2, <4>1 DEF Keeps
    <3>4. QED
      BY <3>2, <3>3
  <2>7. Keeps(typed, more, k)
    BY <2>5, <2>6 DEF Keeps
  <2>8. QED
    BY <1>2, <2>7
<1>5. QED
  BY <1>3, <1>4

LEMMA Stripped ==
    ASSUME NEW typed \in Seq(Character)
    PROVE  \E kept : Keeps(typed, kept, Len(typed)) /\ StripSeparators(typed) = kept[Len(typed)]
<1> DEFINE Is(f) == f = [i \in 0..Len(typed) |->
                           IF i = 0 THEN <<>>
                           ELSE IF typed[i] = Separator THEN f[i - 1]
                                ELSE Append(f[i - 1], typed[i])]
           kept == CHOOSE f : Is(f)
<1>1. StripSeparators(typed) = kept[Len(typed)]
  BY DEF StripSeparators
<1>2. PICK some : Keeps(typed, some, Len(typed))
  BY KeptExists
<1>3. Len(typed) \in Nat /\ some \in [0..Len(typed) -> Seq(Character)]
  BY <1>2 DEF Keeps
<1>4. Is(some)
  <2>1. \A i \in 0..Len(typed) : i # 0 => i \in 1..Len(typed)
    BY <1>3
  <2>2. QED
    BY <1>2, <1>3, <2>1 DEF Keeps
<1>5. Is(kept)
  BY <1>4
<1> HIDE DEF kept
<1>6. /\ kept[0] = <<>>
      /\ \A i \in 1..Len(typed) :
           kept[i] = IF typed[i] = Separator THEN kept[i - 1] ELSE Append(kept[i - 1], typed[i])
  <2>1. \A i \in 0..Len(typed) :
          kept[i] = IF i = 0 THEN <<>>
                    ELSE IF typed[i] = Separator THEN kept[i - 1]
                         ELSE Append(kept[i - 1], typed[i])
    <3>1. TAKE i \in 0..Len(typed)
    <3>2. QED
      BY <1>5
  <2>2. 0 \in 0..Len(typed) /\ \A i \in 1..Len(typed) : i \in 0..Len(typed) /\ i # 0
    BY <1>3
  <2>3. QED
    BY <2>1, <2>2
<1> HIDE DEF Is
<1> DEFINE Differ == {i \in 0..Len(typed) : kept[i] # some[i]}
<1>7. Differ = {}
  <2>1. SUFFICES ASSUME Differ # {} PROVE FALSE
    OBVIOUS
  <2>2. PICK k \in Differ : \A m \in Differ : k <= m
    <3>1. Differ \subseteq Nat
      OBVIOUS
    <3> HIDE DEF Differ
    <3>2. QED
      BY <2>1, <3>1, SmallestNumber
  <2>3. k # 0
    BY <1>2, <1>6, <2>2 DEF Keeps
  <2>4. k \in 1..Len(typed) /\ k - 1 \in 0..Len(typed) /\ kept[k - 1] = some[k - 1]
    <3>1. k \in Nat /\ k <= Len(typed) /\ ~(k <= k - 1)
      BY <1>3
    <3>2. k \in 1..Len(typed) /\ k - 1 \in 0..Len(typed)
      BY <1>3, <2>3, <3>1
    <3>3. QED
      BY <2>2, <3>1, <3>2
  <2>5. kept[k] = IF typed[k] = Separator THEN kept[k - 1] ELSE Append(kept[k - 1], typed[k])
    BY <1>6, <2>4
  <2>6. some[k] = IF typed[k] = Separator THEN some[k - 1] ELSE Append(some[k - 1], typed[k])
    BY <1>2, <2>4 DEF Keeps
  <2>7. QED
    BY <2>2, <2>4, <2>5, <2>6
<1>8. StripSeparators(typed) = some[Len(typed)]
  BY <1>1, <1>3, <1>7 DEF kept
<1>9. QED
  BY <1>2, <1>8

LEMMA Appended ==
    ASSUME NEW u \in Seq(Character), NEW c \in Character
    PROVE  /\ Len(u) \in Nat /\ Len(Append(u, c)) = Len(u) + 1
           /\ Append(u, c)[Len(u) + 1] = c
           /\ \A q \in 1..Len(u) : Append(u, c)[q] = u[q]
  OBVIOUS

\* After a wrong character at i the texts f and g kept so far: one more character
\* where a separator was meant, or as many, which differ at p only.
MistypedKept(s, i, f, g, p) ==
    /\ s[i] = Separator => \A k \in i..Len(s) : Len(g[k]) = Len(f[k]) + 1
    /\ s[i] # Separator =>
         \A k \in i..Len(s) : /\ Len(g[k]) = Len(f[k]) /\ p \in 1..Len(f[k])
                              /\ \A q \in 1..Len(f[k]) : q # p => g[k][q] = f[k][q]

\* One character typed for another, in the text s and in the text t that it became.
LEMMA KeptMistyped ==
    ASSUME NEW s \in Seq(Character), NEW i \in 1..Len(s), NEW c \in Digit \cup {Letter},
           NEW t \in Seq(Character), t = [s EXCEPT ![i] = c],
           NEW f, Keeps(s, f, Len(s)), NEW g, Keeps(t, g, Len(t)),
           NEW p, p = Len(f[i - 1]) + 1
    PROVE  MistypedKept(s, i, f, g, p)
<1>1. /\ Len(t) = Len(s) /\ Len(s) \in Nat /\ i - 1 \in 0..Len(s)
      /\ t[i] = c /\ c # Separator /\ \A k \in 1..Len(s) : k # i => t[k] = s[k]
  BY DEF Digit, Separator, Letter
<1>2. /\ f \in [0..Len(s) -> Seq(Character)] /\ f[0] = <<>>
      /\ \A k \in 1..Len(s) :
           f[k] = IF s[k] = Separator THEN f[k - 1] ELSE Append(f[k - 1], s[k])
  BY DEF Keeps
<1>3. /\ g \in [0..Len(s) -> Seq(Character)] /\ g[0] = <<>>
      /\ \A k \in 1..Len(s) :
           g[k] = IF t[k] = Separator THEN g[k - 1] ELSE Append(g[k - 1], t[k])
  BY <1>1 DEF Keeps
<1>4. \A k \in 0..Len(s) : Len(f[k]) \in Nat /\ Len(g[k]) \in Nat
  BY <1>2, <1>3
<1> DEFINE Same(k) == g[k] = f[k]
           Longer(k) == Len(g[k]) = Len(f[k]) + 1
           Alike(k) == /\ Len(g[k]) = Len(f[k]) /\ p \in 1..Len(f[k])
                       /\ \A q \in 1..Len(f[k]) : q # p => g[k][q] = f[k][q]
           Good(k) == IF k < i THEN Same(k) ELSE IF s[i] = Separator THEN Longer(k) ELSE Alike(k)
           Bad == {k \in 0..Len(s) : ~Good(k)}
<1>5. SUFFICES ASSUME Bad # {} PROVE FALSE
  <2>1. \A k \in i..Len(s) : k \in 0..Len(s) /\ ~(k < i)
    BY <1>1
  <2>2. QED
    BY <2>1 DEF MistypedKept
<1>6. PICK k \in Bad : \A m \in Bad : k <= m
  <2>1. Bad \subseteq Nat
    OBVIOUS
  <2> HIDE DEF Bad
  <2>2. QED
    BY <1>5, <2>1, SmallestNumber
<1>7. k # 0
  BY <1>1, <1>2, <1>3, <1>6
<1>8. k \in 1..Len(s) /\ k - 1 \in 0..Len(s) /\ Good(k - 1) /\ ~Good(k)
  <2>1. k \in 0..Len(s) /\ ~(k <= k - 1)
    BY <1>1
  <2>2. k \in 1..Len(s) /\ k - 1 \in 0..Len(s)
    BY <1>1, <1>7, <2>1
  <2>3. k - 1 \notin Bad
    BY <1>6, <2>1
  <2> HIDE DEF Good
  <2>4. QED
    BY <2>2, <2>3
<1>9. /\ f[k] = IF s[k] = Separator THEN f[k - 1] ELSE Append(f[k - 1], s[k])
      /\ g[k] = IF t[k] = Separator THEN g[k - 1] ELSE Append(g[k - 1], t[k])
      /\ f[k - 1] \in Seq(Character) /\ g[k - 1] \in Seq(Character)
  BY <1>2, <1>3, <1>8
<1>10. CASE k < i
  BY <1>1, <1>8, <1>9, <1>10
<1>11. CASE k = i
  <2>1. g[k - 1] = f[k - 1]
    BY <1>1, <1>8, <1>11
  <2>2. CASE s[i] = Separator
    BY <1>1, <1>8, <1>9, <1>11, <2>1, <2>2
  <2>3. CASE s[i] # Separator
    <3>1. f[k] = Append(f[k - 1], s[k]) /\ g[k] = Append(f[k - 1], c)
      BY <1>1, <1>9, <1>11, <2>1, <2>3
    <3>2. PICK n \in Nat : n = Len(f[k - 1])
      BY <1>9
    <3>3. /\ p = n + 1 /\ s[k] \in Character /\ c \in Character
          /\ f[k - 1] \in Seq(Character)
      BY <1>8, <1>9, <1>11, <3>2 DEF Character
    <3>4. /\ Len(f[k]) = n + 1 /\ Len(g[k]) = n + 1
          /\ \A q \in 1..n : g[k][q] = f[k][q]
      BY <3>1, <3>2, <3>3, Appended
    <3>5. p \in 1..(n + 1) /\ \A q \in 1..(n + 1) : q # p => q \in 1..n
      BY <3>3, n \in Nat
    <3>6. Alike(k)
      BY <3>4, <3>5
    <3>7. QED
      BY <1>1, <1>8, <1>11, <2>3, <3>6
  <2>4. QED
    BY <2>2, <2>3
<1>12. CASE k > i
  <2>1. t[k] = s[k] /\ ~(k - 1 < i) /\ ~(k < i)
    BY <1>1, <1>8, <1>12
  <2>2. CASE s[i] = Separator
    <3>1. Longer(k - 1)
      BY <1>8, <2>1, <2>2
    <3>2. CASE s[k] = Separator
      BY <1>8, <1>9, <2>1, <2>2, <3>1, <3>2
    <3>3. CASE s[k] # Separator
      <4>1. s[k] \in Character
        BY <1>8
      <4>2. Len(Append(f[k - 1], s[k])) = Len(f[k - 1]) + 1 /\ Len(f[k - 1]) \in Nat
        BY <1>9, <4>1, Appended
      <4>3. Len(Append(g[k - 1], s[k])) = Len(g[k - 1]) + 1
        BY <1>9, <4>1, Appended
      <4>4. f[k] = Append(f[k - 1], s[k]) /\ g[k] = Append(g[k - 1], s[k])
        BY <1>9, <2>1, <3>3
      <4>5. Longer(k)
        BY <3>1, <4>2, <4>3, <4>4
      <4>6. QED
        BY <1>8, <2>1, <2>2, <4>5
    <3>4. QED
      BY <3>2, <3>3
  <2>3. CASE s[i] # Separator
    <3>1. Alike(k - 1)
      BY <1>8, <2>1, <2>3
    <3>2. CASE s[k] = Separator
      BY <1>8, <1>9, <2>1, <2>3, <3>1, <3>2
    <3>3. CASE s[k] # Separator
      <4>1. PICK n \in Nat : n = Len(f[k - 1])
        BY <1>9
      <4>2. f[k] = Append(f[k - 1], s[k]) /\ g[k] = Append(g[k - 1], s[k])
        BY <1>9, <2>1, <3>3
      <4>3. s[k] \in Character /\ Len(g[k - 1]) = n /\ p \in 1..n
            /\ \A q \in 1..n : q # p => g[k - 1][q] = f[k - 1][q]
        BY <1>8, <3>1, <4>1
      <4>4. /\ Len(f[k]) = n + 1 /\ f[k][n + 1] = s[k]
            /\ \A q \in 1..n : f[k][q] = f[k - 1][q]
        BY <1>9, <4>1, <4>2, <4>3, Appended
      <4>5. /\ Len(g[k]) = n + 1 /\ g[k][n + 1] = s[k]
            /\ \A q \in 1..n : g[k][q] = g[k - 1][q]
        <5>1. PICK v \in Seq(Character) : v = g[k - 1]
          BY <1>9
        <5>2. g[k] = Append(v, s[k]) /\ Len(v) = n /\ s[k] \in Character
          BY <4>2, <4>3, <5>1
        <5>3. /\ Len(g[k]) = n + 1 /\ g[k][n + 1] = s[k]
              /\ \A q \in 1..n : g[k][q] = v[q]
          <6>1. /\ Len(Append(v, s[k])) = Len(v) + 1 /\ Append(v, s[k])[Len(v) + 1] = s[k]
                /\ \A q \in 1..Len(v) : Append(v, s[k])[q] = v[q]
            BY <5>2, Appended
          <6>2. QED
            BY <5>2, <6>1
        <5>4. QED
          BY <5>1, <5>3
      <4>6. p \in 1..(n + 1) /\ \A q \in 1..(n + 1) : q \in 1..n \/ q = n + 1
        BY <4>3, n \in Nat
      <4>7. \A q \in 1..(n + 1) : q # p => g[k][q] = f[k][q]
        BY <4>3, <4>4, <4>5, <4>6
      <4>8. Alike(k)
        BY <4>4, <4>5, <4>6, <4>7
      <4>9. QED
        BY <1>8, <2>1, <2>3, <4>8
    <3>4. QED
      BY <3>2, <3>3
  <2>4. QED
    BY <2>2, <2>3
<1>13. QED
  BY <1>1, <1>8, <1>10, <1>11, <1>12

\* u and v differ in two neighbours, which are a and b in u.
Exchanged(u, v, p, a, b) ==
    /\ Len(v) = Len(u) /\ p \in 1..(Len(u) - 1)
    /\ u[p] = a /\ u[p + 1] = b /\ v[p] = b /\ v[p + 1] = a
    /\ \A q \in 1..Len(u) : q # p /\ q # p + 1 => v[q] = u[q]

LEMMA ExchangedStarts ==
    ASSUME NEW h \in Seq(Character), NEW a \in Character, NEW b \in Character
    PROVE  Exchanged(Append(Append(h, a), b), Append(Append(h, b), a), Len(h) + 1, a, b)
<1> DEFINE p == Len(h) + 1
           ha == Append(h, a)
           hb == Append(h, b)
           u == Append(ha, b)
           v == Append(hb, a)
<1>1. /\ p \in Nat /\ p >= 1 /\ ha \in Seq(Character) /\ hb \in Seq(Character)
      /\ Len(ha) = p /\ Len(hb) = p /\ ha[p] = a /\ hb[p] = b
      /\ \A q \in 1..p : q # p => ha[q] = h[q] /\ hb[q] = h[q]
  OBVIOUS
<1> HIDE DEF ha, hb, p
<1>2. /\ Len(u) = p + 1 /\ Len(v) = p + 1 /\ u[p + 1] = b /\ v[p + 1] = a
      /\ \A q \in 1..p : u[q] = ha[q] /\ v[q] = hb[q]
  BY <1>1
<1> HIDE DEF u, v
<1>3. p \in 1..p /\ p \in 1..(p + 1 - 1)
      /\ \A q \in 1..(p + 1) : q # p /\ q # p + 1 => q \in 1..p
  BY <1>1
<1>4. u[p] = a /\ v[p] = b
      /\ \A q \in 1..(p + 1) : q # p /\ q # p + 1 => v[q] = u[q]
  BY <1>1, <1>2, <1>3
<1>5. Exchanged(u, v, p, a, b)
  BY <1>2, <1>3, <1>4 DEF Exchanged
<1>6. QED
  BY <1>5 DEF u, v, ha, hb, p

LEMMA ExchangedGrows ==
    ASSUME NEW u \in Seq(Character), NEW v \in Seq(Character), NEW p, NEW a, NEW b,
           Exchanged(u, v, p, a, b), NEW c \in Character
    PROVE  Exchanged(Append(u, c), Append(v, c), p, a, b)
<1> DEFINE n == Len(u)
           uc == Append(u, c)
           vc == Append(v, c)
<1>1. /\ n \in Nat /\ Len(uc) = n + 1 /\ Len(vc) = n + 1 /\ uc[n + 1] = c /\ vc[n + 1] = c
      /\ \A q \in 1..n : uc[q] = u[q] /\ vc[q] = v[q]
  BY DEF Exchanged
<1> HIDE DEF uc, vc
<1>2. p \in 1..n /\ p + 1 \in 1..n /\ p \in 1..(n + 1 - 1)
  BY <1>1 DEF Exchanged
<1>3. \A q \in 1..(n + 1) : q # p /\ q # p + 1 => vc[q] = uc[q]
  <2>1. \A q \in 1..(n + 1) : q = n + 1 \/ q \in 1..n
    BY <1>1
  <2>2. QED
    BY <1>1, <2>1 DEF Exchanged
<1>4. uc[p] = a /\ uc[p + 1] = b /\ vc[p] = b /\ vc[p + 1] = a
  BY <1>1, <1>2 DEF Exchanged
<1>5. Exchanged(uc, vc, p, a, b)
  BY <1>1, <1>2, <1>3, <1>4 DEF Exchanged
<1>6. QED
  BY <1>5 DEF uc, vc

LEMMA SwappedText ==
    ASSUME NEW s \in Seq(Character), NEW i \in 1..(Len(s) - 1)
    PROVE  /\ Swapped(s, i) \in Seq(Character) /\ Len(Swapped(s, i)) = Len(s)
           /\ Swapped(s, i)[i] = s[i + 1] /\ Swapped(s, i)[i + 1] = s[i]
           /\ \A k \in 1..Len(s) : k # i /\ k # i + 1 => Swapped(s, i)[k] = s[k]
<1> DEFINE t == Swapped(s, i)
<1>1. Len(s) \in Nat /\ i \in 1..Len(s) /\ i + 1 \in 1..Len(s) /\ i \in Nat
  OBVIOUS
<1>2. \A k \in 1..Len(s) : s[k] \in Character
  OBVIOUS
<1>3. t = [[s EXCEPT ![i] = s[i + 1]] EXCEPT ![i + 1] = s[i]]
  BY DEF Swapped
<1>4. s \in [1..Len(s) -> Character]
  OBVIOUS
<1>5. t \in [1..Len(s) -> Character]
  BY <1>1, <1>2, <1>3, <1>4
<1>6. t \in Seq(Character) /\ Len(t) = Len(s)
  BY <1>1, <1>5, SeqDef, LenProperties
<1>7. t[i] = s[i + 1] /\ t[i + 1] = s[i]
      /\ \A k \in 1..Len(s) : k # i /\ k # i + 1 => t[k] = s[k]
  BY <1>1, <1>3, <1>4
<1>8. QED
  BY <1>6, <1>7

\* Two neighbours typed in the wrong order.
LEMMA KeptSwapped ==
    ASSUME NEW s \in Seq(Character), NEW i \in 1..(Len(s) - 1), NEW t, t = Swapped(s, i),
           NEW f, Keeps(s, f, Len(s)), NEW g, Keeps(t, g, Len(t)),
           NEW p, p = Len(f[i - 1]) + 1
    PROVE  IF s[i] = Separator \/ s[i + 1] = Separator THEN g[Len(s)] = f[Len(s)]
           ELSE Exchanged(f[Len(s)], g[Len(s)], p, s[i], s[i + 1])
<1>1. /\ t \in Seq(Character) /\ Len(t) = Len(s) /\ Len(s) \in Nat /\ i \in 1..Len(s)
      /\ i + 1 \in 1..Len(s) /\ i - 1 \in 0..Len(s) /\ i \in Nat
      /\ t[i] = s[i + 1] /\ t[i + 1] = s[i]
      /\ \A k \in 1..Len(s) : s[k] \in Character /\ (k # i /\ k # i + 1 => t[k] = s[k])
  BY SwappedText
<1>2. /\ f \in [0..Len(s) -> Seq(Character)] /\ f[0] = <<>>
      /\ \A k \in 1..Len(s) :
           f[k] = IF s[k] = Separator THEN f[k - 1] ELSE Append(f[k - 1], s[k])
  BY DEF Keeps
<1>3. /\ g \in [0..Len(s) -> Seq(Character)] /\ g[0] = <<>>
      /\ \A k \in 1..Len(s) :
           g[k] = IF t[k] = Separator THEN g[k - 1] ELSE Append(g[k - 1], t[k])
  BY <1>1 DEF Keeps
<1> DEFINE Gone == s[i] = Separator \/ s[i + 1] = Separator
           Good(k) == IF k < i \/ Gone THEN g[k] = f[k]
                      ELSE Exchanged(f[k], g[k], p, s[i], s[i + 1])
           Bad == {k \in 0..Len(s) : k # i /\ ~Good(k)}
<1>4. Bad = {}
  <2>1. SUFFICES ASSUME Bad # {} PROVE FALSE
    OBVIOUS
  <2>2. PICK k \in Bad : \A m \in Bad : k <= m
    <3>1. Bad \subseteq Nat
      OBVIOUS
    <3> HIDE DEF Bad
    <3>2. QED
      BY <2>1, <3>1, SmallestNumber
  <2>3. k # 0 /\ k # i /\ ~Good(k)
    BY <1>1, <1>2, <1>3, <2>2
  <2>4. k \in 1..Len(s) /\ k - 1 \in 0..Len(s) /\ k \in Nat /\ ~(k <= k - 1)
    BY <1>1, <2>2, <2>3
  <2>5. k - 1 = i \/ Good(k - 1)
    <3>1. k - 1 \notin Bad
      BY <2>2, <2>4
    <3> HIDE DEF Good
    <3>2. QED
      BY <2>4, <3>1
  <2>6. /\ f[k] = IF s[k] = Separator THEN f[k - 1] ELSE Append(f[k - 1], s[k])
        /\ g[k] = IF t[k] = Separator THEN g[k - 1] ELSE Append(g[k - 1], t[k])
        /\ f[k - 1] \in Seq(Character) /\ g[k - 1] \in Seq(Character)
    BY <1>2, <1>3, <2>4
  <2>7. CASE k < i
    <3>1. t[k] = s[k] /\ k - 1 < i /\ k - 1 # i
      BY <1>1, <2>4, <2>7
    <3>2. QED
      BY <2>3, <2>5, <2>6, <2>7, <3>1
  <2>8. CASE k = i + 1
    <3> DEFINE h == f[i - 1]
    <3>1. /\ f[i] = IF s[i] = Separator THEN h ELSE Append(h, s[i])
          /\ g[i] = IF s[i + 1] = Separator THEN g[i - 1] ELSE Append(g[i - 1], s[i + 1])
          /\ f[k] = IF s[i + 1] = Separator THEN f[i] ELSE Append(f[i], s[i + 1])
          /\ g[k] = IF s[i] = Separator THEN g[i] ELSE Append(g[i], s[i])
      <4>1. k - 1 = i
        BY <1>1, <2>8
      <4>2. QED
        BY <1>1, <1>2, <1>3, <2>6, <2>8, <4>1
    <3>2. g[i - 1] = h /\ h \in Seq(Character) /\ p = Len(h) + 1 /\ Len(h) \in Nat
      <4>1. i - 1 \notin Bad
        BY <1>1, <2>2, <2>8
      <4>2. g[i - 1] = f[i - 1]
        BY <1>1, <4>1
      <4>3. h \in Seq(Character)
        BY <1>1, <1>2
      <4>4. QED
        BY <4>2, <4>3
    <3>3. CASE Gone
      BY <2>3, <3>1, <3>2, <3>3
    <3>4. CASE ~Gone
      <4>1. f[k] = Append(Append(h, s[i]), s[i + 1]) /\ g[k] = Append(Append(h, s[i + 1]), s[i])
        BY <3>1, <3>2, <3>4
      <4>2. s[i] \in Character /\ s[i + 1] \in Character
        BY <1>1
      <4> HIDE DEF h
      <4>3. Exchanged(f[k], g[k], p, s[i], s[i + 1])
        BY <3>2, <4>1, <4>2, ExchangedStarts
      <4>4. ~(k < i)
        BY <1>1, <2>8
      <4>5. QED
        BY <2>3, <3>4, <4>3, <4>4
    <3>5. QED
      BY <3>3, <3>4
  <2>9. CASE k > i + 1
    <3>1. k # i /\ k # i + 1 /\ ~(k - 1 < i) /\ k - 1 # i /\ ~(k < i)
      BY <1>1, <2>4, <2>9
    <3>2. t[k] = s[k] /\ s[k] \in Character
      BY <1>1, <2>4, <3>1
    <3>3. CASE Gone
      BY <2>3, <2>5, <2>6, <3>1, <3>2, <3>3
    <3>4. CASE ~Gone
      <4>1. Exchanged(f[k - 1], g[k - 1], p, s[i], s[i + 1])
        BY <2>5, <3>1, <3>4
      <4>2. Exchanged(f[k], g[k], p, s[i], s[i + 1])
        <5>1. CASE s[k] = Separator
          BY <2>6, <3>2, <4>1, <5>1
        <5>2. CASE s[k] # Separator
          <6>1. f[k] = Append(f[k - 1], s[k]) /\ g[k] = Append(g[k - 1], s[k])
            BY <2>6, <3>2, <5>2
          <6>2. QED
            BY <2>6, <3>2, <4>1, <6>1, ExchangedGrows
        <5>3. QED
          BY <5>1, <5>2
      <4>3. QED
        BY <2>3, <3>1, <3>4, <4>2
    <3>5. QED
      BY <3>3, <3>4
  <2>10. QED
    BY <1>1, <2>3, <2>4, <2>7, <2>8, <2>9
<1>5. Good(Len(s)) /\ ~(Len(s) < i)
  <2>1. Len(s) \in 0..Len(s) /\ Len(s) # i /\ ~(Len(s) < i)
    BY <1>1
  <2> HIDE DEF Good
  <2>2. QED
    BY <1>4, <2>1
<1>6. QED
  BY <1>5

\* Among sets of positions one has no other within it.
LEMMA SmallestSet ==
    ASSUME NEW S, IsFiniteSet(S), NEW F, F \subseteq SUBSET S, F # {}
    PROVE  \E A \in F : \A B \in F : B \subseteq A => B = A
<1>1. IsWellFoundedOn(StrictSubsetOrdering(S), SUBSET S)
  BY FS_StrictSubsetOrderingWellFounded, FS_FiniteSubsetsOfFinite
<1>2. PICK A \in F : \A B \in F : ~(<<B, A>> \in StrictSubsetOrdering(S))
  BY <1>1, WFMin
<1>3. ASSUME NEW B \in F, B \subseteq A PROVE B = A
  <2>1. A \in SUBSET S /\ B \in SUBSET S
    OBVIOUS
  <2>2. QED
    BY <1>2, <1>3, <2>1 DEF StrictSubsetOrdering
<1>4. QED
  BY <1>3

\* sum adds up f over every set of positions, one position at a time.
Adds(f, sum) ==
    sum = [s \in SUBSET DOMAIN f |->
             IF s = {} THEN 0
             ELSE f[CHOOSE x \in s : TRUE] + sum[s \ {CHOOSE x \in s : TRUE}]]

SumOf(f) == FoldSeq(+, 0, f)

\* The order of the digits does not matter for their sum.
LEMMA SumIsUnique ==
    ASSUME NEW f, IsFiniteSet(DOMAIN f), NEW g, DOMAIN g = SUBSET DOMAIN f, g[{}] = 0,
           \A s \in SUBSET DOMAIN f : \A x \in s : g[s] = f[x] + g[s \ {x}]
    PROVE  SumOf(f) = g[DOMAIN f]
<1> DEFINE sum == CHOOSE h : Adds(f, h)
<1>1. SumOf(f) = sum[DOMAIN f]
  BY DEF SumOf, FoldSeq, FoldFunction, FoldFunctionOnSet, MapThenFoldSet, Adds
<1>2. Adds(f, sum)
  <2> DEFINE h == [s \in SUBSET DOMAIN f |-> g[s]]
  <2>1. ASSUME NEW s \in SUBSET DOMAIN f, s # {}
        PROVE  h[s] = f[CHOOSE x \in s : TRUE] + h[s \ {CHOOSE x \in s : TRUE}]
    <3>1. (CHOOSE x \in s : TRUE) \in s
      BY <2>1
    <3>2. QED
      BY <3>1, s \ {CHOOSE x \in s : TRUE} \in SUBSET DOMAIN f
  <2>2. h[{}] = 0
    OBVIOUS
  <2>3. Adds(f, h)
    BY <2>1, <2>2 DEF Adds
  <2>4. QED
    BY <2>3
<1> DEFINE Differ == {s \in SUBSET DOMAIN f : sum[s] # g[s]}
<1>3. SUFFICES ASSUME Differ # {} PROVE FALSE
  BY <1>1
<1>4. PICK s \in Differ : \A t \in Differ : t \subseteq s => t = s
  <2>1. Differ \subseteq SUBSET DOMAIN f
    OBVIOUS
  <2> HIDE DEF Differ
  <2>2. QED
    BY <1>3, <2>1, SmallestSet
<1>5. s # {}
  BY <1>2, <1>4 DEF Adds
<1>6. PICK x \in s : x = (CHOOSE y \in s : TRUE)
  BY <1>5
<1>7. sum[s] = f[x] + sum[s \ {x}]
  BY <1>2, <1>5, <1>6 DEF Adds
<1>8. sum[s \ {x}] = g[s \ {x}]
  BY <1>4, <1>6
<1>9. QED
  BY <1>4, <1>7, <1>8

\* What the digit at position i adds to the sum of luhnCheck.
Weighed(n, i) == IF i % 2 = 0 THEN Doubled(n[i]) ELSE n[i]

Weight(n) ==
    Weighed(n, 1) + Weighed(n, 2) + Weighed(n, 3) + Weighed(n, 4) + Weighed(n, 5)
    + Weighed(n, 6) + Weighed(n, 7) + Weighed(n, 8) + Weighed(n, 9) + Weighed(n, 10)
    + Weighed(n, 11) + Weighed(n, 12) + Weighed(n, 13) + Weighed(n, 14) + Weighed(n, 15)

LEMMA WeighedIsDigit ==
    ASSUME NEW n, NEW i \in 1..15, n[i] \in Digit
    PROVE  Weighed(n, i) \in Digit
  BY DEF Weighed, Doubled, Digit

WeightsAreNumbers(n) ==
    /\ Weighed(n, 1) \in Int /\ Weighed(n, 2) \in Int /\ Weighed(n, 3) \in Int
    /\ Weighed(n, 4) \in Int /\ Weighed(n, 5) \in Int /\ Weighed(n, 6) \in Int
    /\ Weighed(n, 7) \in Int /\ Weighed(n, 8) \in Int /\ Weighed(n, 9) \in Int
    /\ Weighed(n, 10) \in Int /\ Weighed(n, 11) \in Int /\ Weighed(n, 12) \in Int
    /\ Weighed(n, 13) \in Int /\ Weighed(n, 14) \in Int /\ Weighed(n, 15) \in Int

LEMMA WeightsNumbers ==
    ASSUME NEW n, \A i \in 1..15 : n[i] \in Digit
    PROVE  WeightsAreNumbers(n) /\ Weight(n) \in Int
<1>1. \A i \in 1..15 : Weighed(n, i) \in Int
  BY WeighedIsDigit DEF Digit
<1>2. WeightsAreNumbers(n)
  BY <1>1 DEF WeightsAreNumbers
<1>3. QED
  BY <1>2 DEF WeightsAreNumbers, Weight

\* What the members of s weigh, position by position.
Part(n, s, i) == IF i \in s THEN Weighed(n, i) ELSE 0

WeightOf(n, s) ==
    Part(n, s, 1) + Part(n, s, 2) + Part(n, s, 3) + Part(n, s, 4) + Part(n, s, 5)
    + Part(n, s, 6) + Part(n, s, 7) + Part(n, s, 8) + Part(n, s, 9) + Part(n, s, 10)
    + Part(n, s, 11) + Part(n, s, 12) + Part(n, s, 13) + Part(n, s, 14) + Part(n, s, 15)

LEMMA WeightGrows ==
    ASSUME NEW n, \A i \in 1..15 : n[i] \in Digit,
           NEW s \in SUBSET (1..15), NEW x \in s
    PROVE  WeightOf(n, s) = Weighed(n, x) + WeightOf(n, s \ {x})
<1> DEFINE r == s \ {x}
           Here(i) == IF i = x THEN Weighed(n, x) ELSE 0
           Same(i) == /\ Part(n, s, i) = Part(n, r, i) + Here(i)
                      /\ Part(n, r, i) \in Int /\ Here(i) \in Int
<1>1. x \in 1..15 /\ Weighed(n, x) \in Int
  BY WeighedIsDigit DEF Digit
<1>2. \A i \in 1..15 : Same(i)
  BY WeighedIsDigit DEF Part, Digit
<1> HIDE DEF r
<1>3. Here(1) + Here(2) + Here(3) + Here(4) + Here(5) + Here(6) + Here(7) + Here(8) + Here(9)
        + Here(10) + Here(11) + Here(12) + Here(13) + Here(14) + Here(15) = Weighed(n, x)
  BY <1>1
<1> HIDE DEF Here
<1>4. /\ Same(1) /\ Same(2) /\ Same(3) /\ Same(4) /\ Same(5) /\ Same(6) /\ Same(7) /\ Same(8)
      /\ Same(9) /\ Same(10) /\ Same(11) /\ Same(12) /\ Same(13) /\ Same(14) /\ Same(15)
  <2> HIDE DEF Same
  <2>1. QED
    BY <1>2
<1> DEFINE Five(t, i) == Part(n, t, i) + Part(n, t, i + 1) + Part(n, t, i + 2)
                         + Part(n, t, i + 3) + Part(n, t, i + 4)
           HereFive(i) == Here(i) + Here(i + 1) + Here(i + 2) + Here(i + 3) + Here(i + 4)
           SameFive(i) == /\ Five(s, i) = Five(r, i) + HereFive(i)
                          /\ Five(r, i) \in Int /\ HereFive(i) \in Int
<1>5. SameFive(1) /\ SameFive(6) /\ SameFive(11)
  <2>1. SameFive(1)
    BY <1>4
  <2>2. SameFive(6)
    BY <1>4
  <2>3. SameFive(11)
    BY <1>4
  <2>4. QED
    BY <2>1, <2>2, <2>3
<1>6. WeightOf(n, s) = Weighed(n, x) + WeightOf(n, r)
  <2>1. WeightOf(n, s) = Five(s, 1) + Five(s, 6) + Five(s, 11)
    BY <1>4, SMTT(30) DEF WeightOf
  <2>2. WeightOf(n, r) = Five(r, 1) + Five(r, 6) + Five(r, 11)
    BY <1>4, SMTT(30) DEF WeightOf
  <2>3. HereFive(1) + HereFive(6) + HereFive(11) = Weighed(n, x)
    BY <1>3, <1>4
  <2> HIDE DEF Five, HereFive
  <2>4. QED
    BY <1>5, <2>1, <2>2, <2>3
<1>7. QED
  BY <1>6 DEF r

LEMMA LuhnAdds ==
    ASSUME NEW n, \A i \in 1..15 : n[i] \in Digit
    PROVE  LuhnCheck(n) <=> Weight(n) % 10 = 0
<1> DEFINE f == [i \in 1..15 |-> Weighed(n, i)]
           g == [s \in SUBSET (1..15) |-> WeightOf(n, s)]
<1>1. /\ DOMAIN f = 1..15 /\ DOMAIN g = SUBSET (1..15)
      /\ \A i \in 1..15 : f[i] = Weighed(n, i)
      /\ \A s \in SUBSET (1..15) : g[s] = WeightOf(n, s)
  OBVIOUS
<1> HIDE DEF f, g
<1>2. IsFiniteSet(DOMAIN f)
  BY <1>1, FS_Interval, 1 \in Int, 15 \in Int
<1>3. WeightOf(n, {}) = 0
  BY DEF WeightOf, Part
<1>4. g[{}] = 0
  BY <1>1, <1>3
<1>5. \A s \in SUBSET (1..15) : \A x \in s : g[s] = f[x] + g[s \ {x}]
  <2>1. SUFFICES ASSUME NEW s \in SUBSET (1..15), NEW x \in s
                 PROVE  g[s] = f[x] + g[s \ {x}]
    OBVIOUS
  <2>2. s \ {x} \in SUBSET (1..15) /\ x \in 1..15
    OBVIOUS
  <2>3. QED
    BY <1>1, <2>2, WeightGrows
<1>6. SumOf(f) = g[DOMAIN f]
  <2>1. DOMAIN g = SUBSET DOMAIN f
        /\ \A s \in SUBSET DOMAIN f : \A x \in s : g[s] = f[x] + g[s \ {x}]
    BY <1>1, <1>5
  <2>2. QED
    BY <1>2, <1>4, <2>1, SumIsUnique
<1>7. WeightOf(n, 1..15) = Weight(n)
  <2>1. \A i \in 1..15 : Part(n, 1..15, i) = Weighed(n, i)
    BY DEF Part
  <2>2. QED
    BY <2>1 DEF WeightOf, Weight
<1>8. SumOf(f) = Weight(n)
  BY <1>1, <1>6, <1>7
<1>9. f = [i \in 1..15 |-> IF i % 2 = 0 THEN Doubled(n[i]) ELSE n[i]]
  BY DEF f, Weighed
<1>10. QED
  BY <1>8, <1>9 DEF LuhnCheck, SumOf

\* Ten divides the difference of two sums that both pass.
LEMMA PassBoth ==
    ASSUME NEW r \in Int, NEW d \in -9..9, r % 10 = 0, (r + d) % 10 = 0
    PROVE  d = 0
  OBVIOUS

\* Two numbers that differ at one position at most.
LEMMA RestOfSum ==
    ASSUME NEW n, NEW m, \A i \in 1..15 : n[i] \in Digit /\ m[i] \in Digit,
           NEW p \in 1..15, \A i \in 1..15 : i # p => n[i] = m[i]
    PROVE  Weight(n) - Weighed(n, p)
             = Weight(m) - Weighed(m, p)
<1>1. \A i \in 1..15 : Weighed(n, i) \in Int /\ Weighed(m, i) \in Int
  BY WeighedIsDigit DEF Digit
<1>2. \A i \in 1..15 : i = p \/ Weighed(n, i) = Weighed(m, i)
  BY DEF Weighed
<1> DEFINE Same(i) == i = p \/ Weighed(n, i) = Weighed(m, i)
<1>3. /\ Same(1) /\ Same(2) /\ Same(3) /\ Same(4) /\ Same(5) /\ Same(6) /\ Same(7) /\ Same(8)
      /\ Same(9) /\ Same(10) /\ Same(11) /\ Same(12) /\ Same(13) /\ Same(14) /\ Same(15)
  BY <1>2
<1>4. QED
  BY <1>1, <1>3 DEF Weight

\* No digit can be replaced by another.
LEMMA LuhnSeesDigit ==
    ASSUME NEW n, NEW m, \A i \in 1..15 : n[i] \in Digit /\ m[i] \in Digit,
           NEW p \in 1..15, \A i \in 1..15 : i # p => n[i] = m[i],
           LuhnCheck(n), LuhnCheck(m)
    PROVE  n[p] = m[p]
<1>1. Weighed(n, p) \in Digit /\ Weighed(m, p) \in Digit /\ n[p] \in Digit /\ m[p] \in Digit
  BY WeighedIsDigit
<1>2. Weight(n) \in Int /\ Weight(m) \in Int
  BY WeightsNumbers
<1>3. Weight(n) - Weighed(n, p) = Weight(m) - Weighed(m, p)
  BY RestOfSum
<1>4. Weight(n) % 10 = 0 /\ Weight(m) % 10 = 0
  BY LuhnAdds
<1> DEFINE d == Weighed(m, p) - Weighed(n, p)
<1>5. d \in -9..9 /\ Weight(m) = Weight(n) + d
  BY <1>1, <1>2, <1>3 DEF Digit
<1> HIDE DEF d
<1>6. d = 0
  BY <1>2, <1>4, <1>5, PassBoth
<1>7. Weighed(n, p) = Weighed(m, p)
  BY <1>1, <1>6 DEF d, Digit
<1>8. QED
  BY <1>1, <1>7 DEF Weighed, Doubled, Digit

\* Nor can two different neighbours be exchanged, nine and zero excepted.
LEMMA LuhnSeesSwap ==
    ASSUME NEW n, NEW m, \A i \in 1..15 : n[i] \in Digit /\ m[i] \in Digit,
           NEW p, NEW a, NEW b, Exchanged(n, m, p, a, b), Len(n) = 15,
           LuhnCheck(n), LuhnCheck(m), ~NineZero(a, b)
    PROVE  a = b
<1> DEFINE mid == [i \in 1..15 |-> IF i = p THEN b ELSE n[i]]
           d == IF p % 2 = 0 THEN Doubled(b) + a - Doubled(a) - b
                ELSE b + Doubled(a) - a - Doubled(b)
<1>1. /\ p \in 1..14 /\ n[p] = a /\ n[p + 1] = b /\ m[p] = b /\ m[p + 1] = a
      /\ \A i \in 1..15 : i # p /\ i # p + 1 => n[i] = m[i]
  <2>1. Len(n) - 1 = 14
    OBVIOUS
  <2>2. QED
    BY <2>1 DEF Exchanged
<1>2. /\ \A i \in 1..15 : mid[i] \in Digit
      /\ \A i \in 1..15 : i # p => n[i] = mid[i]
      /\ \A i \in 1..15 : i # p + 1 => mid[i] = m[i]
      /\ p \in 1..15 /\ p + 1 \in 1..15 /\ mid[p] = b /\ mid[p + 1] = b
      /\ a \in Digit /\ b \in Digit
  BY <1>1
<1> HIDE DEF mid
<1>3. Weight(n) \in Int /\ Weight(m) \in Int /\ Weight(mid) \in Int
  BY <1>2, WeightsNumbers
<1>4. Weight(n) - Weighed(n, p) = Weight(mid) - Weighed(mid, p)
  BY <1>2, RestOfSum
<1>5. Weight(mid) - Weighed(mid, p + 1) = Weight(m) - Weighed(m, p + 1)
  BY <1>2, RestOfSum
<1>6. Weight(n) % 10 = 0 /\ Weight(m) % 10 = 0
  BY LuhnAdds
<1>7. Weight(m) = Weight(n) + d
  <2>1. /\ Weighed(n, p) = IF p % 2 = 0 THEN Doubled(a) ELSE a
        /\ Weighed(mid, p) = IF p % 2 = 0 THEN Doubled(b) ELSE b
        /\ Weighed(mid, p + 1) = IF p % 2 = 0 THEN b ELSE Doubled(b)
        /\ Weighed(m, p + 1) = IF p % 2 = 0 THEN a ELSE Doubled(a)
    BY <1>1, <1>2 DEF Weighed
  <2>2. Doubled(a) \in Int /\ Doubled(b) \in Int /\ a \in Int /\ b \in Int
    BY <1>2 DEF Doubled, Digit
  <2>3. CASE p % 2 = 0
    <3>1. Weight(n) - Doubled(a) = Weight(mid) - Doubled(b)
      BY <1>4, <2>1, <2>3
    <3>2. Weight(mid) - b = Weight(m) - a
      BY <1>5, <2>1, <2>3
    <3>3. Weight(m) = Weight(n) + (Doubled(b) + a - Doubled(a) - b)
      <4>1. Weight(n) = Weight(mid) - Doubled(b) + Doubled(a)
        BY <1>3, <2>2, <3>1
      <4>2. Weight(m) = Weight(mid) - b + a
        BY <1>3, <2>2, <3>2
      <4>3. QED
        BY <1>3, <2>2, <4>1, <4>2
    <3>4. d = Doubled(b) + a - Doubled(a) - b
      BY <2>3
    <3> HIDE DEF d
    <3>5. QED
      BY <3>3, <3>4
  <2>4. CASE p % 2 # 0
    <3>1. Weight(n) - a = Weight(mid) - b
      BY <1>4, <2>1, <2>4
    <3>2. Weight(mid) - Doubled(b) = Weight(m) - Doubled(a)
      BY <1>5, <2>1, <2>4
    <3>3. Weight(m) = Weight(n) + (b + Doubled(a) - a - Doubled(b))
      <4>1. Weight(n) = Weight(mid) - b + a
        BY <1>3, <2>2, <3>1
      <4>2. Weight(m) = Weight(mid) - Doubled(b) + Doubled(a)
        BY <1>3, <2>2, <3>2
      <4>3. QED
        BY <1>3, <2>2, <4>1, <4>2
    <3>4. d = b + Doubled(a) - a - Doubled(b)
      BY <2>4
    <3> HIDE DEF d
    <3>5. QED
      BY <3>3, <3>4
  <2>5. QED
    BY <2>3, <2>4
<1>8. d \in -9..9
  BY <1>2 DEF Doubled, Digit
<1>9. d = 0
  <2> HIDE DEF d
  <2>1. QED
    BY <1>3, <1>6, <1>7, <1>8, PassBoth
<1>10. QED
  BY <1>2, <1>9 DEF Doubled, Digit, NineZero

\* What an accepted text leaves when its separators are taken away.
LEMMA AcceptedNumber ==
    ASSUME NEW typed, Accepted(typed)
    PROVE  /\ NormaliseEmiratesId(typed) = StripSeparators(typed)
           /\ Len(StripSeparators(typed)) = 15
           /\ \A i \in 1..15 : StripSeparators(typed)[i] \in Digit
           /\ LuhnCheck(StripSeparators(typed))
<1>1. NormaliseEmiratesId(typed) # Invalid /\ LuhnCheck(NormaliseEmiratesId(typed))
  BY DEF Accepted
<1>2. /\ NormaliseEmiratesId(typed) = StripSeparators(typed)
      /\ Len(StripSeparators(typed)) = 15
      /\ \A i \in 1..15 : StripSeparators(typed)[i] \in Digit
  BY <1>1 DEF NormaliseEmiratesId
<1>3. QED
  BY <1>1, <1>2

LEMMA SameNumber ==
    ASSUME NEW n \in Seq(Character), NEW m \in Seq(Character), Len(n) = 15, Len(m) = 15,
           \A i \in 1..15 : n[i] = m[i]
    PROVE  n = m
  BY SeqEqual

\* Whatever was typed: one wrong character, or two neighbours in the wrong order.
LEMMA TypoAlwaysCaught ==
    ASSUME NEW typed \in Seq(Character)
    PROVE  TypoCaught(typed)
<1> DEFINE n == StripSeparators(typed)
<1>1. SUFFICES ASSUME Accepted(typed)
               PROVE  /\ \A other \in Mistyped(typed) :
                           Accepted(other) => NormaliseEmiratesId(other) = NormaliseEmiratesId(typed)
                      /\ \A i \in 1..(Len(typed) - 1) : ~NineZero(typed[i], typed[i + 1]) =>
                           (Accepted(Swapped(typed, i)) =>
                              NormaliseEmiratesId(Swapped(typed, i)) = NormaliseEmiratesId(typed))
  BY DEF TypoCaught
<1>2. /\ NormaliseEmiratesId(typed) = n /\ Len(n) = 15 /\ LuhnCheck(n)
      /\ \A q \in 1..15 : n[q] \in Digit
  BY <1>1, AcceptedNumber
<1>3. PICK f : Keeps(typed, f, Len(typed)) /\ n = f[Len(typed)]
  BY Stripped
<1>4. Len(typed) \in Nat /\ n \in Seq(Character)
  BY <1>3 DEF Keeps
<1> HIDE DEF n
<1>5. ASSUME NEW other \in Mistyped(typed), Accepted(other)
      PROVE  NormaliseEmiratesId(other) = n
  <2> DEFINE m == StripSeparators(other)
  <2>1. PICK i \in 1..Len(typed), c \in Digit \cup {Letter} : other = [typed EXCEPT ![i] = c]
    BY DEF Mistyped
  <2>2. other \in Seq(Character) /\ Len(other) = Len(typed)
    BY <2>1 DEF Character
  <2>3. NormaliseEmiratesId(other) = m /\ Len(m) = 15 /\ LuhnCheck(m)
        /\ \A q \in 1..15 : m[q] \in Digit
    BY <1>5, AcceptedNumber
  <2>4. PICK g : Keeps(other, g, Len(other)) /\ m = g[Len(other)]
    BY <2>2, Stripped
  <2>5. m \in Seq(Character)
    BY <1>4, <2>2, <2>4 DEF Keeps
  <2> HIDE DEF m
  <2>6. PICK p : p = Len(f[i - 1]) + 1
    OBVIOUS
  <2>7. /\ typed[i] = Separator => Len(m) = Len(n) + 1
        /\ typed[i] # Separator =>
             /\ p \in 1..Len(n)
             /\ \A q \in 1..Len(n) : q # p => m[q] = n[q]
    <3>1. Len(typed) \in i..Len(typed)
      BY <1>4, <2>1
    <3>2. MistypedKept(typed, i, f, g, p)
      BY <1>3, <2>1, <2>2, <2>4, <2>6, KeptMistyped
    <3>3. QED
      BY <1>3, <2>2, <2>4, <3>1, <3>2 DEF MistypedKept
  <2>8. p \in 1..15 /\ \A q \in 1..15 : q # p => n[q] = m[q]
    BY <1>2, <2>3, <2>7
  <2>9. n[p] = m[p]
    <3>1. \A q \in 1..15 : n[q] \in Digit /\ m[q] \in Digit
      BY <1>2, <2>3
    <3>2. QED
      BY <1>2, <2>3, <2>8, <3>1, LuhnSeesDigit, SMTT(30)
  <2>10. n = m
    BY <1>2, <1>4, <2>3, <2>5, <2>8, <2>9, SameNumber
  <2>11. QED
    BY <2>3, <2>10
<1>6. ASSUME NEW i \in 1..(Len(typed) - 1), ~NineZero(typed[i], typed[i + 1]),
             Accepted(Swapped(typed, i))
      PROVE  NormaliseEmiratesId(Swapped(typed, i)) = n
  <2> DEFINE t == Swapped(typed, i)
             m == StripSeparators(t)
  <2>1. t \in Seq(Character) /\ Len(t) = Len(typed)
    BY SwappedText
  <2>2. NormaliseEmiratesId(t) = m /\ Len(m) = 15 /\ LuhnCheck(m)
        /\ \A q \in 1..15 : m[q] \in Digit
    BY <1>6, AcceptedNumber
  <2>3. PICK g : Keeps(t, g, Len(t)) /\ m = g[Len(t)]
    BY <2>1, Stripped
  <2>4. m \in Seq(Character)
    BY <1>4, <2>1, <2>3 DEF Keeps
  <2> HIDE DEF m
  <2> DEFINE p == Len(f[i - 1]) + 1
  <2>5. IF typed[i] = Separator \/ typed[i + 1] = Separator THEN m = n
        ELSE Exchanged(n, m, p, typed[i], typed[i + 1])
    BY <1>3, <2>1, <2>3, KeptSwapped
  <2> HIDE DEF t, p
  <2>6. CASE typed[i] = Separator \/ typed[i + 1] = Separator
    BY <2>2, <2>5, <2>6 DEF t
  <2>7. CASE ~(typed[i] = Separator \/ typed[i + 1] = Separator)
    <3>1. Exchanged(n, m, p, typed[i], typed[i + 1])
      BY <2>5, <2>7
    <3>2. typed[i] = typed[i + 1]
      <4>1. \A q \in 1..15 : n[q] \in Digit /\ m[q] \in Digit
        BY <1>2, <2>2
      <4>2. QED
        BY <1>2, <1>6, <2>2, <3>1, <4>1, LuhnSeesSwap
    <3>3. \A q \in 1..15 : n[q] = m[q]
      BY <1>2, <3>1, <3>2 DEF Exchanged
    <3>4. n = m
      BY <1>2, <1>4, <2>2, <2>4, <3>3, SameNumber
    <3>5. QED
      BY <2>2, <3>4 DEF t
  <2>8. QED
    BY <2>6, <2>7
<1>7. QED
  BY <1>2, <1>5, <1>6

LEMMA Replaced ==
    ASSUME NEW u \in Seq(Character), NEW i \in 1..Len(u), NEW c \in Character
    PROVE  [u EXCEPT ![i] = c] \in Seq(Character) /\ Len([u EXCEPT ![i] = c]) = Len(u)
  OBVIOUS

\* The two numbers of the run have a check digit, which CHOOSE finds.
LEMMA RepairedNumbers ==
    ASSUME NEW number \in Numbers
    PROVE  Repaired(number) \in Seq(Character) /\ Len(Repaired(number)) = 15
<1> DEFINE Ends == {[number EXCEPT ![15] = d] : d \in 0..9}
<1>1. number \in Seq(Digit) /\ Len(number) = 15
  <2>1. CASE number = <<7,8,4,1,9,9,9,0,1,2,3,4,5,6,7>>
    BY <2>1 DEF Digit
  <2>2. CASE number = <<7,8,4,1,9,8,5,0,9,0,9,9,0,0,0>>
    BY <2>2 DEF Digit
  <2>3. QED
    BY <2>1, <2>2 DEF Numbers
<1>2. \E n \in Ends : LuhnCheck(n)
  <2>1. CASE number = <<7,8,4,1,9,9,9,0,1,2,3,4,5,6,7>>
    <3> DEFINE n == <<7,8,4,1,9,9,9,0,1,2,3,4,5,6,9>>
    <3>1. n = [number EXCEPT ![15] = 9]
      BY <2>1
    <3>2. \A i \in 1..15 : n[i] \in Digit
      BY DEF Digit
    <3>3. Weight(n) = 80
      BY DEF Weight, Weighed, Doubled
    <3>4. LuhnCheck(n)
      BY <3>2, <3>3, LuhnAdds
    <3>5. QED
      BY <3>1, <3>4
  <2>2. CASE number = <<7,8,4,1,9,8,5,0,9,0,9,9,0,0,0>>
    <3> DEFINE n == <<7,8,4,1,9,8,5,0,9,0,9,9,0,0,2>>
    <3>1. n = [number EXCEPT ![15] = 2]
      BY <2>2
    <3>2. \A i \in 1..15 : n[i] \in Digit
      BY DEF Digit
    <3>3. Weight(n) = 70
      BY DEF Weight, Weighed, Doubled
    <3>4. LuhnCheck(n)
      BY <3>2, <3>3, LuhnAdds
    <3>5. QED
      BY <3>1, <3>4
  <2>3. QED
    BY <2>1, <2>2 DEF Numbers
<1>3. Repaired(number) \in Ends
  BY <1>2 DEF Repaired
<1>4. \A d \in 0..9 : [number EXCEPT ![15] = d] \in Seq(Character)
                      /\ Len([number EXCEPT ![15] = d]) = 15
  <2>1. number \in Seq(Character) /\ 15 \in 1..Len(number)
        /\ \A d \in 0..9 : d \in Character
    BY <1>1 DEF Character, Digit
  <2>2. QED
    BY <1>1, <2>1, Replaced
<1>5. QED
  BY <1>3, <1>4

LEMMA SeparatorInserted ==
    ASSUME NEW u \in Seq(Character), NEW i \in 0..Len(u)
    PROVE  /\ InsertAt(u, i + 1, Separator) \in Seq(Character)
           /\ Len(InsertAt(u, i + 1, Separator)) = Len(u) + 1
<1> DEFINE before == SubSeq(u, 1, i)
           after == SubSeq(u, i + 1, Len(u))
<1>1. Len(u) \in Nat /\ i \in Nat /\ i <= Len(u)
      /\ (\A k \in 1..i : u[k] \in Character) /\ \A k \in (i + 1)..Len(u) : u[k] \in Character
  OBVIOUS
<1>2. before \in Seq(Character) /\ Len(before) = i
  BY <1>1, SubSeqProperties
<1>3. after \in Seq(Character) /\ Len(after) = Len(u) - i
  BY <1>1, SubSeqProperties
<1>4. InsertAt(u, i + 1, Separator) = before \o <<Separator>> \o after
  <2>1. (i + 1) - 1 = i
    BY <1>1
  <2>2. QED
    BY <2>1 DEF InsertAt
<1>5. Separator \in Character
  BY DEF Character
<1> HIDE DEF before, after
<1>6. <<Separator>> \in Seq(Character) /\ Len(<<Separator>>) = 1
  BY <1>5
<1>7. PICK ahead \in Seq(Character) : ahead = before \o <<Separator>> /\ Len(ahead) = i + 1
  <2>1. /\ before \o <<Separator>> \in Seq(Character)
        /\ Len(before \o <<Separator>>) = Len(before) + Len(<<Separator>>)
    BY <1>2, <1>6, ConcatProperties
  <2>2. QED
    BY <1>2, <1>6, <2>1
<1>8. ahead \o after \in Seq(Character) /\ Len(ahead \o after) = Len(ahead) + Len(after)
  BY <1>3, ConcatProperties
<1>9. Len(ahead) + Len(after) = Len(u) + 1
  <2>1. \A n \in Nat : i + 1 + (n - i) = n + 1
    BY <1>1
  <2>2. QED
    BY <1>1, <1>3, <1>7, <2>1
<1>10. QED
  BY <1>4, <1>7, <1>8, <1>9

EntryOK == text \in Seq(Character) /\ (form = "emirates_id" => Len(text) \in 15..18)

LEMMA EntryStays == CalculationsSpec => []EntryOK
<1>1. CalculationsInit => EntryOK
  <2>1. SUFFICES ASSUME CalculationsInit PROVE EntryOK
    OBVIOUS
  <2>2. CASE form = "emirates_id"
    <3>1. PICK number \in Numbers : text = Repaired(number)
      BY <2>1, <2>2 DEF CalculationsInit
    <3>2. text \in Seq(Character) /\ Len(text) = 15
      BY <3>1, RepairedNumbers
    <3>3. QED
      BY <3>2 DEF EntryOK
  <2>3. CASE form # "emirates_id"
    <3>1. text = <<>>
      BY <2>1, <2>3 DEF CalculationsInit
    <3>2. QED
      BY <2>3, <3>1 DEF EntryOK
  <2>4. QED
    BY <2>2, <2>3
<1>2. EntryOK /\ [CalculationsNext]_calculations => EntryOK'
  <2>1. SUFFICES ASSUME EntryOK, [CalculationsNext]_calculations PROVE EntryOK'
    OBVIOUS
  <2>2. CASE UNCHANGED <<text, form>>
    BY <2>1, <2>2 DEF EntryOK
  <2>3. ASSUME form = "emirates_id", form' = form, TypeSeparator PROVE EntryOK'
    <3>1. PICK i \in {0, 3, 7, 14, 15} : text' = InsertAt(text, i + 1, Separator)
      BY <2>3 DEF TypeSeparator
    <3>2. text \in Seq(Character) /\ Len(text) \in 15..18
      BY <2>1, <2>3 DEF EntryOK
    <3>3. Len(text) < 18
      BY <2>3 DEF TypeSeparator, MaxSeparators
    <3>4. text' \in Seq(Character) /\ Len(text') = Len(text) + 1
      <4>1. i \in 0..Len(text)
        <5>1. \A n \in 15..18 : i \in 0..n
          OBVIOUS
        <5>2. QED
          BY <3>2, <5>1
      <4>2. QED
        BY <3>1, <3>2, <4>1, SeparatorInserted
    <3>5. Len(text') \in 15..18
      <4>1. \A n \in 15..18 : n < 18 => n + 1 \in 15..18
        OBVIOUS
      <4>2. QED
        BY <3>2, <3>3, <3>4, <4>1
    <3>6. QED
      BY <2>3, <3>4, <3>5 DEF EntryOK
  <2>4. ASSUME form = "emirates_id", form' = form, TypeAnother PROVE EntryOK'
    <3>1. PICK d \in Digit : text' = [text EXCEPT ![15] = d]
      BY <2>4 DEF TypeAnother
    <3>2. text \in Seq(Character) /\ Len(text) \in 15..18 /\ d \in Character
      BY <2>1, <2>4 DEF EntryOK, Character
    <3>3. text' \in Seq(Character) /\ Len(text') = Len(text)
      <4>1. 15 \in 1..Len(text)
        <5>1. \A n \in 15..18 : 15 \in 1..n
          OBVIOUS
        <5>2. QED
          BY <3>2, <5>1
      <4>2. QED
        BY <3>1, <3>2, <4>1, Replaced
    <3>4. QED
      BY <2>4, <3>2, <3>3 DEF EntryOK
  <2>5. QED
    BY <2>1, <2>2, <2>3, <2>4 DEF CalculationsNext, calculations
<1>3. QED
  BY <1>1, <1>2, PTL DEF CalculationsSpec

\* parser.ts: whatever is typed with whatever separators, one wrong character or two
\* neighbours in the wrong order do not make another number of an accepted one.
THEOREM TyposAreCaught == CalculationsSpec => []TypoIsCaught
<1>1. EntryOK => TypoIsCaught
  BY TypoAlwaysCaught DEF EntryOK, TypoIsCaught
<1>2. QED
  BY <1>1, EntryStays, PTL
=============================================================================
