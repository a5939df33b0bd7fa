SPECIFICATION Spec
CONSTANTS
    Modulus = 16
    ReloadModulus = 8
    Prescale = 2
    Thousand = 2
    Frequency = 12
    Periods = {6}
    Delays = {1, 2}
    MayWrap = TRUE
PROPERTY DelayLongEnough
