\* Two processes that migrate, roll back, seed and sync, and die anywhere.
SPECIFICATION Spec
CONSTANTS
    p1 = p1
    p2 = p2
    Nobody = Nobody
    Procs = {p1, p2}
INVARIANTS TypeOK SchemaMatchesVersion JobSeesSchema JobLoadsAnchor
PROPERTIES RatesOutliveSetup SummariesOutliveSeed
SYMMETRY Symmetry
