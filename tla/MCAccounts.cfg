CONSTANTS
    Call = {c1, c2}
    First = First
    Email = {e1, e2}
    Sub = {s1}
    Orid = {o1}
    Answer = {n1, n2}
    None = None
SPECIFICATION Spec
SYMMETRY Symmetry
CHECK_DEADLOCK FALSE
INVARIANTS
    TypeOK
    KilledStayDead
    OneAccountPerIdentity
    AnswersBelong
    AccountsCameThroughTheGate
PROPERTIES
    LinkedAnswersStay
