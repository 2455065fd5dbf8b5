\* A run that fails after storing a window.
SPECIFICATION Spec
CONSTANTS
    r1 = r1
    r2 = r2
    usd = usd
    xdr = xdr
    Runs = {r1, r2}
    Quotes = {usd, xdr}
    ExcludedQuotes = {xdr}
    Modes = {"full", "daily_sync"}
    Overlap = FALSE
    CoverageStart = 1
    BackfillRange = 1
    DailySyncLookback = 1
    MaxRetries = 0
    FetchErrors <- Permanent
    Releases <- MCReleasesXdr
    FirstDay = 3
    LastDay = 4
    MaxRate = 1
PROPERTY MetricReportsLatest
SYMMETRY Symmetry
CHECK_DEADLOCK FALSE
