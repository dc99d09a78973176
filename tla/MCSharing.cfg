\* Three links, so that a revoked one has a successor and a rival; two rows, so
\* that a second analysis runs while the first result is shared.
CONSTANTS
    Req = {r1, r2}
    Issuer = {i1, i2, i3}
    Revoker = {k1, k2}
    Viewer = {v1}
    None = None
SPECIFICATION Spec
SYMMETRY Symmetry
CHECK_DEADLOCK FALSE
INVARIANTS
    IssueIsIdempotent
    RevokedLinkStaysShut
    LinkHasResult
