SPECIFICATION CalculationsSpec
INVARIANTS
    BandsSound
    FilingPassesRecheck
    TypoIsCaught
PROPERTY ScoreIsMonotone
CHECK_DEADLOCK FALSE
