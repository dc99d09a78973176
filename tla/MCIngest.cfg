\* Five papers in batches of two, two stops: a batch torn once, and once more.
CONSTANTS
    n1 = n1
    n2 = n2
    n3 = n3
    n4 = n4
    n5 = n5
    n6 = n6
    v1 = v1
    v2 = v2
    v3 = v3
    v4 = v4
    Note <- MCNote
    Bare = {n6}
    Review <- MCReview
    reviewsOf <- MCReviewsOf
    Pointed = {v1, v2, v4}
    FLUSH_EVERY = 2
    MaxStops = 2
SPECIFICATION FairSpec
CHECK_DEADLOCK FALSE
INVARIANTS
    TypeOK
    DoneIsComplete
    PointsMissingOnlyWhereTorn
    LossIsBounded
    ProcessedIsHonest
PROPERTIES
    EventuallyDone
