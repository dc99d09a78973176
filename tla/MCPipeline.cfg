SPECIFICATION PipelineSpec
CONSTANTS
    Call = {c1}
    Warmup = {w1, w2}
    Paper = {1, 2, 3}
    Invented = {4}
    Preference = {recent}
    Default = balanced
    RERANK_LIMIT = 2
    MAX_POINTS_PER_PAPER = 2
    MAX_META_REVIEWS = 1
    TOP_K = 2
    STRONG = 93
    MODERATE = 90
    MaxFailures = 2
    HasMetaReview = {2, 3}
    Found <- MCFound
    Reply <- MCReply
    Draft <- MCDraft
    PointsOf <- MCPoints
CHECK_DEADLOCK FALSE
INVARIANTS ReportGrounded SpendsOnlyOnReliable OneEmbedder
PROPERTY AnalysesEnd
