SPECIFICATION Spec
CONSTANTS
    Word = 32
    Period = 6
    MaxLate = 5
INVARIANTS DueWithinPeriod NoSpuriousTick NoDrift
