CONSTANTS
    Call = {c1, c2}
    First = First
    Email = {e1}
    Sub = {s1}
    Orid = {}
    Answer = {}
    None = None
SPECIFICATION Spec
CHECK_DEADLOCK FALSE
INVARIANTS
    RevokedStayRevoked
