SPECIFICATION Spec
CONSTANTS
    Adapters <- AllAdapters
    MaxTime = 3
    MaxRows = 2
    BAD = BAD
    NULL = NULL
INVARIANTS PointInTime ProviderErrorKept AsOfOnlyRestricts
    KlineComplete ReplayLatest
