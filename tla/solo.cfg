\* Two runs one after the other, on a provider without an anchor.
SPECIFICATION FairSpec
CONSTANTS
    r1 = r1
    r2 = r2
    usd = usd
    xdr = xdr
    Runs = {r1, r2}
    Quotes = {usd, xdr}
    ExcludedQuotes = {xdr}
    Modes = {"full", "daily_sync"}
    Overlap = FALSE
    CoverageStart = 0
    BackfillRange = 1
    DailySyncLookback = 1
    MaxRetries = 1
    FetchErrors <- Transient
    Releases <- MCReleasesXdr
    FirstDay = 3
    LastDay = 4
    MaxRate = 1
INVARIANT SoloNeverSkips
PROPERTIES SuccessReportsLatest StepsUseUp RunTerminates
CHECK_DEADLOCK FALSE
