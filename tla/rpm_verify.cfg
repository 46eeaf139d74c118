SPECIFICATION Spec
CONSTANTS
    v = v
    other = other
    f1 = f1
    f2 = f2
    d1 = d1
    d2 = d2
    None = None
    Verifier = v
    Fetchers = {v, other}
    Files = {f1, f2}
    Digests = {d1, d2}
    Documents <- SmallDocuments
    Steps = 2
INVARIANTS
    TransfersAreResumed
    ReportIsTrue
PROPERTY CommandEnds
CHECK_DEADLOCK FALSE
