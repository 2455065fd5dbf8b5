\* One run of fx-validate against a reference that publishes meanwhile.
SPECIFICATION Spec
CONSTANTS
    Eur = Eur
    usd = usd
    xdr = xdr
    Currencies <- MCCurrencies
    Tables <- MCTables
    Flags <- MCFlags
    References <- MCReferences
    Lookback = 1
    MaxInt32 = 3
INVARIANTS TypeOK ReportIsWhole EarlierReportKept VerdictFromOneDay ReferencesAgree
