\* As MCIngest.cfg, with one stop, for the claim that running again loses nothing.
CONSTANTS
    n1 = n1
    n2 = n2
    n3 = n3
    n4 = n4
    n5 = n5
    n6 = n6
    v1 = v1
    v2 = v2
    v3 = v3
    v4 = v4
    Note <- MCNote
    Bare = {n6}
    Review <- MCReview
    reviewsOf <- MCReviewsOf
    Pointed = {v1, v2, v4}
    FLUSH_EVERY = 2
    MaxStops = 1
SPECIFICATION Spec
CHECK_DEADLOCK FALSE
INVARIANTS
    ResumeLosesNothing
