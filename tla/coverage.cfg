\* Two overlapping runs over two quotes, any batches of three days.
SPECIFICATION Spec
CONSTANTS
    r1 = r1
    r2 = r2
    eur = eur
    usd = usd
    gbp = gbp
    Runs = {r1, r2}
    Quotes = {usd, gbp}
    Base = eur
    LastDate = 3
    Histories <- MCHistories
INVARIANTS TypeOK SummariesExact SummariesNeverOverstate
SYMMETRY Symmetry
