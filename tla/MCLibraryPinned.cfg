SPECIFICATION LibrarySpec
CONSTANTS
  Orid = {"oa", "ob"}
  LongOrid = {"ob"}
  Draft = {d1, d2}
  MaxAccounts = 2
  MaxRuns = 2
  Doc = {1, 2, 3, 4}
  Bias = {"balanced", "recent", "cited"}
  RRF_K = 1
  CANDIDATE_POOL = 3
  RERANK_CANDIDATES = 2
  Corpus <- MCCorpus
  Decay <- MCDecay
  VectorHits <- MCVectorHits
  TextHits <- MCTextHits
  Versions <- MCVersions
  Figures = {101, 102, 103}
  Boxes = {201, 202}
  Equations = {301}
  BoxText <- MCBoxText
  MATCH_PERCENT = 60
  BOX_PERCENT = 50
  MOVE_MIN_WORDS = 2
  MAX_SEGMENTS = 5
  MAX_BODY_SEGMENTS = 6
  MAX_PASSES = 5
  Reader = {r1, r2}
  Patch <- MCPatch
  Suffix = {{"Rebuttal_Revision", "Revision"}}
  Garbled = {3}
  Deleted = 99
  MaxEdits = 3
  MaxFailures = 1
  PaperOf <- MCPaperOf
  SimilarTitles <- MCSimilarTitles
  MAX_STOPS = 5
  FirstPapers = {1, 2, 4}
  Pages <- MCPages
  RecordOf <- MCRecordOf
  S2ByArxiv <- MCS2ByArxiv
  Queries <- MCQueries
  S2Of <- MCS2Of
  MAX_YEARS_AFTER = 1
  MAX_CONSECUTIVE_FAILURES = 2
  MaxFaults = 2
  Fetcher = {f1, f2}
  MAX_RETRIES = 2
  MaxDeaths = 1
  MaxOthers = 1
  MaxErrors = 1
  Req = {q1, q2}
  MaxWaits = 2
  Posting <- MCPosting
  MaxNotes = 3
  MaxAuthorEdits = 2
  MaxClock = 2
  Call = {c1, c2}
  NoStory = NoStory
  MaxVersion = 1
SYMMETRY Alike
CHECK_DEADLOCK FALSE
INVARIANT OutageNotCached
