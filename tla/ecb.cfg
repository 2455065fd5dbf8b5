\* One window, over answers that end, break, overflow the cap or never end.
SPECIFICATION Spec
CONSTANTS
    Size <- MCSize
    MaxLine = 3
    DefaultCap = 6
    MaxInt = 15
    Overrides = {0, 2, 7, 15}
    MaxRetries = 2
INVARIANTS TypeOK DeliveredIsWholeAnswer CapIsExact
PROPERTIES FetchIsAtomic LinesUseUp FetchEnds
