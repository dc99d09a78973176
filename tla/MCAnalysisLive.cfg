\* Two starts and one poller; no symmetry, because a liveness property is checked.
CONSTANTS
    Req = {r1, r2}
    Poller = {p1}
    None = None
    MaxCrashes = 1
SPECIFICATION FairSpec
PROPERTIES
    SlotFreed
