\* Two runs that may overlap, over four days, with midnight between any two steps.
SPECIFICATION Spec
CONSTANTS
    r1 = r1
    r2 = r2
    usd = usd
    xdr = xdr
    Runs = {r1, r2}
    Quotes = {usd}
    ExcludedQuotes = {}
    Modes = {"full", "daily_sync"}
    Overlap = TRUE
    CoverageStart = 1
    BackfillRange = 2
    DailySyncLookback = 1
    MaxRetries = 1
    FetchErrors <- Transient
    Releases <- MCReleases
    FirstDay = 4
    LastDay = 5
    MaxRate = 1
INVARIANTS TypeOK NoSilentGap SuccessMeansCaughtUp RowsAccounted LastSyncedIsStored
PROPERTY LedgerSpec
SYMMETRY Symmetry
CHECK_DEADLOCK FALSE
