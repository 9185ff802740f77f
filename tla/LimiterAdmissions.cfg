SPECIFICATION Spec
CONSTANTS
    c1 = c1
    c2 = c2
    Null = Null
    Caller <- MCCaller
    LimitChoices <- MCLimitChoices
    MaximumLimits <- MCMaximumLimits
    Minute = 2
    Day = 4
    Second = 2
    Retention = 5
    Ahead = 0
    Behind = 1
    AlarmDelay = 1
    MaxVersion = 1
    MaxClock = 7
SYMMETRY CallerSymmetry
INVARIANTS
    WithinMaximum
    OneMeaningPerVersion
    UsageExpires
    RetryAfterHonest
PROPERTY FreshLimits
