\* Overlapping runs while the upstream restates rates it has published.
SPECIFICATION Spec
CONSTANTS
    r1 = r1
    r2 = r2
    usd = usd
    xdr = xdr
    Runs = {r1, r2}
    Quotes = {usd}
    ExcludedQuotes = {}
    Modes = {"full", "daily_sync"}
    Overlap = TRUE
    CoverageStart = 1
    BackfillRange = 1
    DailySyncLookback = 1
    MaxRetries = 1
    FetchErrors <- EveryError
    Releases <- MCReleases
    FirstDay = 3
    LastDay = 3
    MaxRate = 2
INVARIANT IInv
PROPERTY LedgerSpec
SYMMETRY Symmetry
CHECK_DEADLOCK FALSE
