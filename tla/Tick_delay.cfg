SPECIFICATION FairSpec
CONSTANTS
    Modulus = 16
    ReloadModulus = 6
    Prescale = 2
    Thousand = 2
    Frequency = 12
    Periods = {0, 3, 4, 5, 6, 7, 10, 12}
    Delays = {0, 1, 2}
    MayWrap = FALSE
INVARIANTS TypeOK PeriodKept
PROPERTIES DelayLongEnough DelayOnTime DelayEnds
