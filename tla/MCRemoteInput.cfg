CONSTANTS
    Debounce = 3
    TicksPerMillisecond = 2
    SamplePeriod = 1
    LongThreshold = 4
    MaxMilliseconds = 6
    Rounds <- MCRounds
SPECIFICATION Spec
INVARIANTS
    TypeOK
    LongHoldsAreLong
    SteadyLevelsAreBelieved
PROPERTIES
    ReportsOncePerHold
