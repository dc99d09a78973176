\* Three starts, one poller, one restart: enough for an expired run, its
\* successor and a request that races with both.
CONSTANTS
    Req = {r1, r2, r3}
    Poller = {p1}
    None = None
    MaxCrashes = 1
SPECIFICATION Spec
SYMMETRY Symmetry
INVARIANTS
    TypeOK
    OneActive
    RowsCoherent
    NoFreshDuplicateRun
PROPERTIES
    DoneWithdrawnOnlyByExpiry
    ImplementsStore
