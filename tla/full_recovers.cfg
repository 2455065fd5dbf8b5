\* A capped daily_sync run, then a full run.
SPECIFICATION Spec
CONSTANTS
    r1 = r1
    r2 = r2
    usd = usd
    xdr = xdr
    Runs = {r1, r2}
    Quotes = {usd, xdr}
    ExcludedQuotes = {xdr}
    Modes = {"full", "daily_sync"}
    Overlap = FALSE
    CoverageStart = 0
    BackfillRange = 2
    DailySyncLookback = 1
    MaxRetries = 0
    FetchErrors <- Permanent
    Releases <- MCReleasesXdr
    FirstDay = 3
    LastDay = 4
    MaxRate = 1
INVARIANT FullRunRecovers
SYMMETRY Symmetry
CHECK_DEADLOCK FALSE
