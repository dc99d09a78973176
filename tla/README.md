# AICE backend: TLA+ specifications, model checking and proofs

AICE takes a draft paper as a PDF, finds reviewed papers close to it in a corpus
of OpenReview submissions, and reports what reviewers are likely to object to.
`app/` is a FastAPI server over Postgres (SQLAlchemy sessions), `paper_assistant/`
the analysis library with its own psycopg pool, its corpus queries and the batch
that fills the corpus, `scripts/` a handful of jobs run by hand or by cron.

The server is one process (`Dockerfile`: `--workers 1`) with many threads: sync
handlers and FastAPI `BackgroundTasks` run in a thread pool, each with its own
database session. Postgres runs at READ COMMITTED and the code takes no row
locks, so whatever is read in one statement may be false in the next. That is
where the interesting behaviour is, and what these modules are about.

## Inventory

| Part | State | Operations | Talks to | What is hard | What makes it correct |
|---|---|---|---|---|---|
| Analysis lifecycle: `services/analysis.py`, `routers/submissions.py` | `review_predictions` rows (status, report, error, created_at), `similar_paper_matches`, the tasks in the process | start, poll, expire, run, delete | the pipeline, sharing, submissions | check-then-insert, expiry against a slow task, restart that loses tasks, deletion under everybody's feet | one analysis in progress, rows coherent, the slot always freed |
| Public sharing: `services/shares.py`, `routers/shared.py` | `submission_shares` rows | issue, revoke, open | the rows above | two issues at once, revoke against issue, result withdrawn after the check | idempotent issue, a revoked link stays shut, a link has a result |
| Ingest batch: `ingest/run_ingest.py`, `db/load.py` | papers, reviews, review_points, `ingest_status`; buffer and counters of the process | take a venue, scan, flush, checkpoint, fail | OpenReview client, normalisation, embedder, extractor | stops between transactions, resumption, remainder of the buffer | a venue marked done is complete, interruption loses a bounded amount, progress is honest |
| Story cache: `query/story.py`, `query/narrative.py` | one `paper_stories` row per paper | look up, build, store | OpenReview, LLM, journey, timeline | concurrent misses, swallowed errors, a stub against an LLM story | an outage is not cached, a stub does not serve an LLM call, refresh is current, a better story is overwritten only in a race |
| Accounts and sessions: `routers/auth.py`, `core/security.py`, `core/deps.py` | `users` rows with `token_version`; stateless JWTs | sign up, log in, Google, refresh, log out, reset, delete | onboarding, mail | concurrent sign-ups and links, read-modify-write of the version | unique identities, a revoked token stays dead |
| Profile and onboarding: `routers/user.py`, `routers/onboarding.py`, `scripts/cleanup_stale_onboarding.py` | `onboarding_profiles` rows | anonymous create, link, upsert, clean up | accounts, preferences of a run | one row per user without a lock, clean-up against linking | answers belong to one account and are not cleaned up once linked |
| Analysis pipeline: `graph/pipeline.py`, `nodes.py`, `progress.py`, `evidence.py` | compiled graphs, embedder; per-run state | build, run nodes, notify | retrieval, LLM, OpenReview | double-checked build, builds that fail, nodes that degrade, answers nobody asked for | the report is of one piece and grounded in what was found; every call ends |
| Retrieval: `retrieval/hybrid_search.py` | none | two searches, fusion, ranking, twins, metadata | corpus, embedder | statements that see different corpora, weights, order of folding and cutting | no twins, the copy with reviews is kept, a good new paper can pass an old one |
| OpenReview client: `ingest/openreview_client.py`, `_http.py` | client cache, session header, token file | log in, request, retry | story, revisions, batch | 401 and 429 mixed, threads and processes on one token | logins stay rare, a dead token costs one attempt |
| Revisions: `query/revisions.py` | `paper_body_diffs` cache | fold edits, diff bodies, cache | OpenReview, PDF extraction | patches, deletions, images that move and are renumbered, concurrent misses | the diff reads as the new version and shows all of the old one, links open the files they stand for |
| Timeline, journey, linking: `timeline.py`, `journey.py`, `submission_linker.py` | `submission_links` | collect, order, link | story, enrichment | ties, forums that grow while they are read | cause before effect, the journey in order |
| Enrichment: `arxiv_client.py`, `arxiv_matcher.py`, `s2_*.py`, `citation_percentile.py`, `run_enrichment.py` | harvest file and checkpoint, columns of papers, links | harvest, match, ask, link, rank | arXiv, Semantic Scholar | stops between and inside the writes, failed searches, a corpus that grows | a run that ends makes good what stopped ones left |
| PDF retention: `scripts/purge_expired_pdfs.py` | `submissions.pdf_bytes` | purge | analysis | a start between condition and update, a slow or expired task | what a purge takes from an analysis is confined to its one statement |
| Migrations: `alembic/versions` | the schema | upgrade, downgrade | models, old rows | constraints over rows that break them | every revision goes back, the head is what the models say, and it is known which rows stop an upgrade |
| Submission intake, statistics cache, connection pool, normalisation, PDF extraction, embedding, LLM, mail, middleware, configuration, offline scripts | - | - | - | guards on one request, text heuristics, libraries, pure I/O | not modelled or only as what they may answer, see below |

`PROJECT.json` lists every part with its status, and the hazards each one has at
the line where it bites.

## Modules

    PredictionStore   what the rows of one submission promise (abstract)
      ^      ^   ^
      |      |   +-- Retention      the purge of PDFs next to the row store
      |      +-- Sharing            links on top of the row store
      |            ^-- SharingProofs
      +-- Analysis                  handlers and tasks; refines PredictionStore
            ^-- AnalysisProofs      (PredictionStore by INSTANCE)
    Ingest       one venue, run after run
      ^-- PipelineProofs
    StoryCache   concurrent get_paper_story calls on one cache row
      ^-- StoryCacheProofs
    Accounts     users, tokens, onboarding answers
      ^-- AccountsProofs
    Pipeline     analyze(): the graph cache and the five nodes
      ^-- PipelineProofs   (and about Ingest, which fills the corpus it searches)
    Retrieval    hybrid_search
    Revisions    edits folded, body cache        BodyDiff    the diff itself
    Resubmission links and journey   <- Enrichment   the batch that writes them
    Client       OpenReview sessions             Timeline    a forum told in order
    Migrations   the eighteen schema revisions
      ^-- LibraryProofs   about Retention, Client, Timeline, Retrieval, Revisions,
                          Migrations, Enrichment
      ^-- BodyDiffProofs  about BodyDiff
    Lists        sorted(), comprehensions, nested loops and sum() as definitions
      ^-- ListLemmas      (used by Pipeline, Client, Timeline, Retrieval, Revisions,
                           Resubmission, BodyDiff)

    MCAnalysis, MCSharing, MCIngest, MCAccounts, MCPipeline, MCLibrary:
    small instances for TLC

`MCLibrary` extends Migrations, Retrieval, BodyDiff, Revisions, Enrichment, Client,
Retention, Timeline and StoryCache. These share no state at run time, so a behaviour of the
instance picks one of them (`moving`) and leaves the others where they start:
their state spaces add up and do not multiply.

**The grain of a step.** A step reaches up to the next database round trip whose
answer another thread can invalidate. A SELECT and the COMMIT that acts on it are
separate steps; a COMMIT with the statements it flushes is one.

### PredictionStore and Analysis

A row is named by the POST call that inserts it. `status` is the column, with
`"absent"` for no row; `exists` is the submission. `PredictionStore` says which
changes a committed statement may make; `Analysis` has the code:

| Code | Actions |
|---|---|
| `start_analysis`, `start_prediction` | `StartBegin` (owner check, SELECT of `expire_stale`), `StartExpire` (its COMMIT), `StartLookup`, `StartInsert` (index and foreign key), `StartReread` (after IntegrityError), `StartRespond` (`refresh`, `add_task`), `StartAbort` (any round trip raises) |
| `get_analysis` | `PollBegin`, `PollExpire`, `PollAnswer`, `PollAbort` |
| `run_analysis` | `TaskLoad`, `TaskMarkRunning`, `TaskDone`, `TaskFail`, `TaskAbort` |
| `delete_submission` | `Delete` |
| `STALE_AFTER`, a restart | `GrowOld`, `Crash` |

The work of `analyze()` is the interval in which `task[r] = "analyzing"`.
Details that matter and are easy to miss: `expire_stale` and the task update by
primary key and never look at the status again, so each may overwrite the other;
a deleted row makes the update match nothing (SQLAlchemy raises StaleDataError);
a task that lost its slot is refused by the index when it marks the row running;
`created_at` is Postgres `now()`, the *start* of the transaction, which for a
start that expired something is the one after that commit; a done row keeps the
error an expiry wrote.

### Sharing

`link` is the table with `revoked_at`. `IssueBegin`, `IssueCheck`, `IssueInsert`,
`IssueReread`, `IssueRefresh` are `issue`; `RevokeBegin`, `RevokeCommit` are
`revoke`; `ViewToken`, `ViewResult` are `resolve`. The analyses underneath take any
step `PredictionStore` allows (`AnalysisStep`), which includes every step of
`Analysis` by the refinement; the deletion of the submission cascades to links.
`shutBy`, `openedShut`, `withdrawn` are history for the properties and guard
nothing.

### Ingest

`Start` is `main` taking a venue, `Open` the prologue of `ingest_venue`, `Scan` a
turn of its loop, `ScanEnds` the end of it, `FlushPapers` the one transaction of
`load_papers`, `FlushPoints` the transaction per review of `load_review_points`,
`Checkpoint` `set_status`. `Fail` is an exception caught by `main`, `Crash` a kill;
both forget the process and may come between any two transactions. The set of
notes a venue lists is fixed (it is a closed venue), in no particular order.
Venues are independent, so one is modelled.

### StoryCache

`Begin`, `Lookup`, `Reviews`, `Timeline`, `Narrative`, `Store` follow
`get_paper_story`. `Look` has what the SELECT of the cache row may come to: the story is
served, its payload cannot be read (another version of the code stored it; the code
counts it as a miss and makes a new one), it is not usable, or the SELECT fails and
leaves an aborted transaction (`ReviewsAborted`: the next statement raises). A story is
reduced to the version of its sources, whether an LLM wrote it, and whether OpenReview
could be asked. `SourcesChange` and `CacheAges` are the environment. `behind` (calls that
looked before the present row was stored) and `misread` (calls that could not read the
payload) are history.

### Accounts

One request is one call, one action per round trip whose answer another request can
spoil. `SignupCheck`, `SignupInsert`, `SignupFind`, `SignupLink` are `signup`;
`GoogleBySub`, `GoogleByEmail`, `GoogleLink`, `GoogleInsert`, `GoogleIssue` are
`google_login`; `Enter` is `get_current_user`, after which `Logout`, `Update` (the
e-mail, password or OpenReview id of the profile), `DeleteAccount`, `UpsertFind` and
`UpsertSave` go on with the row read there; `ResetCheck` and `Reset` are
`reset_password`. Login, refresh, the mail of a reset token, anonymous answers and
the clean-up take one round trip each. The unique columns are those of the models:
the database refuses a second row and the code does what it does with the error.
`killed` (tokens a revocation was to end) and `raced` (accounts whose version was
written over unseen) are history.

### Pipeline

`Begin` to `BuildFails` are `analyze`, `warmup` and `_get_graph` around the lock:
check, lock, check again, load the embedder, store the graph, and the exception that
has to give the lock back. `Input`, `Retrieve`, `Rerank`, `ReviewFetch`,
`Synthesize` are the nodes; a node is one step, since calls share nothing else.
`Found`, `Reply` and `Draft` are what the search and the LLM may answer, including
ids that do not exist, repetitions and citations of nothing. `NodeFails` is the
exception no node absorbs. Confidence looks at the cosines in the order of the
vector search, never of the result.

### The library

* `Retrieval` - `SearchVectors`, `SearchText`, `Rank`, `FetchMetadata` are the
  statements of `hybrid_search`, `Vanish` a paper deleted between them. Scores are
  integers in thousandths; `Decay` is the table of the half-life.
* `BodyDiff` - `AlignParagraphs` (difflib's longest match, paragraph by paragraph
  and word by word), `MovePass` (moved text, at most five passes),
  `MergePlaceholders` (figures, boxes and equations that were moved or renumbered).
  A word is a number, so a ratio counts words. difflib's recursion is the function
  `Opcodes`: after n rounds, what is left open is split by its longest match once more,
  and as a match takes a word at least, the length of the old text is rounds enough.
  `ReplaceWithMedia` goes through the diff of a stretch word by word, with the number of
  words behind it on either side, which is where the code cuts its segments. `cut` is
  history: a cap has thrown segments away; so is `rearranged`: text was moved or
  placeholders were merged, and the segments no longer stand in the order of the old version.
* `Revisions` - `BuildRevisions` folds the edits, `AttachBodyDiffs` adds the diffs of
  replaced PDFs; `LoadBodyCache`, `GetPaperRevisions`, `GetBodyRevisionCount`,
  `FetchVersions`, `ExtractRaises`, `StoreBodyCache` are the endpoint around them,
  `Publish` and `BodyCacheAges` the environment.
* `Resubmission` - `FindLinks`, `CollectEdges`, `Stops`, `Outcome`, over facts of papers.
* `Enrichment` - a step per transaction: `HarvestPage` and `SaveCheckpoint`,
  `MatchArxiv`, the two Semantic Scholar steps, `RunLinking`, `RefreshPercentiles`;
  `StopBatch`, `SearchFails` and `IngestPaper` come from outside. The two writes to files
  can be stopped inside: `StopInAppend` leaves some of the records of a page, or a gzip
  member without its end; `StopInSave` a checkpoint that is not JSON (`disk`). A run that
  meets such a file raises and is `"unreadable"`, until somebody removes the file.
* `Client` - `GetClient` with its lock, `ReadToken`, `Login`, `WriteToken`, `Send`,
  `Answered`, `Limited` (429), `Refused` (401), `Raises`; `TokenDies` and
  `OtherProcess` are OpenReview and the other processes at the same token file.
  `ReadToken` is two statements of the code, the reading of the file and the setting of the
  session's header; nothing but the file is shared in between.
* `Retention` - `Choose` is the snapshot of the UPDATE, `CommitPurge` its commit,
  `BeginAnalysis` and `ReadPdf` the ends of an analysis, `AnalysisGoesOn` any step the
  row store allows in between. `PeriodPasses` is ninety days.
* `Timeline` - `Post`, `EditNote`, `AuthorEdits` grow the forum, `GetForumReplies` and
  `GetNoteEdits` are the two reads, after which `BuildTimeline` sorts the events.
* `Migrations` - `Up0001` ... `Up0018` and their downgrades change columns, indexes and
  the rows whose constraints may not build; `Upgrade`, `Downgrade`, `LoadCorpus` (the
  corpus schema comes by another path, before or after), `AddAccount`, `AddRun`,
  `EndRun`. `LongOrid` are the OpenReview ids of 64 to 100 characters: `openreview_id` is
  `VARCHAR(100)` and 0006 appends 37 to all but the first of the accounts that share one.

## Runs

| Run | Checks | Bounds |
|---|---|---|
| `analysis` | types; `OneActive`; `RowsCoherent`; `NoFreshDuplicateRun`; `DoneWithdrawnOnlyByExpiry`; `ImplementsStore` (refinement) | 3 starts, 1 poller, 1 restart |
| `analysis_live` | `SlotFreed` under `FairSpec` | 2 starts, 1 poller, 1 restart |
| `sharing` | `IssueIsIdempotent`; `RevokedLinkStaysShut`; `LinkHasResult` | 2 rows, 3 issues, 2 revokes, 1 view |
| `ingest` | types; `DoneIsComplete`; `PointsMissingOnlyWhereTorn`; `LossIsBounded`; `ProcessedIsHonest`; `EventuallyDone` | 6 notes (one bare), 4 reviews (3 with points), batches of 2, 2 stops |
| `ingest_resume` | the claim that resuming loses nothing | as above, 1 stop |
| `accounts` | types; `KilledStayDead`; `OneAccountPerIdentity`; `AnswersBelong`; `AccountsCameThroughTheGate`; `LinkedAnswersStay` | 2 calls and an account that is there, 2 addresses, 1 Google subject, 1 OpenReview id, 2 answers |
| `accounts_revoked` | the claim that log-out and reset end every token issued before | as above |
| `pipeline` | `ReportGrounded`; `SpendsOnlyOnReliable`; `OneEmbedder`; `AnalysesEnd` | 1 analysis, 2 warm-ups, 3 papers and an invented one, 2 failures |
| `library` | `SchemaSound` | 2 OpenReview ids (one of them long), 2 drafts, 2 accounts, 2 runs |
| | `TwinsFolded`, `NewestBeatsNearest` | 4 papers, pool of 3, 2 corpora with twins |
| | `DiffFaithful` | the new version has up to 3 paragraphs, the old one 2 or 3, out of six sets of text, figures, boxes (also repeated), equations; caps of 5 and 6 segments |
| | `FileLinksMatch` | 2 readers, 3 edits out of 5, 1 failure |
| | `AsIfUninterrupted`, `JourneyChronological` | 3 papers and one that comes in, 2 pages, 2 searches, 2 stops or failures, journeys of 5 papers |
| | `ReauthenticationSettles` | 2 requests, 2 attempts, 1 dead token, 1 act of another process, 1 error |
| | `PurgeSparesAnalyses` | 2 analyses, 2 periods |
| | `TimelineTellsInOrder` | 3 notes of 4 sorts, 2 edits of the authors, 2 milliseconds |
| | `OutageNotPinned`; `StubOnlyFromOwnAttempt`; `RefreshIsCurrent`; `OverwritesOnlyUnseen` | 2 calls, 1 change of the sources |
| `revisions_pinned` | the claim that a failed lookup is not cached | as `library` |
| `diff_readback` | the claim that the old text is what the segments make without the inserted ones | as `library` |
| `enrichment_torn` | the claim that a run cut off anywhere carries on | as `library` |

**Why the bounds are enough to be interesting.** Three starts are an expired run,
its successor, and a request racing with both; more handlers only repeat these
roles, since at most one row is active and an expiry concerns one row. Three
links are a revoked one, its successor and a rival. Five eligible papers in
batches of two give two full batches and a short one; a run that resumes after
the last flush gives the empty remainder. Two stops
allow a stop in a run that resumes from a stop. Two story calls race for the row, with
the look of one on either side of the store of the other. Two requests on accounts are a race, and
the account that was there before is the third party; a single subject and
OpenReview id make them collide. Two warm-ups and an analysis are a builder, a
thread that waits for the lock, and one that finds the graph. The corpora of
Retrieval hold a pair of twins of which only one has reviews, on both sides of the
cut. Three paragraphs allow a swap, a move over a neighbour and a replacement next to
it, and caps of 5 and 6 segments cut some of these diffs and leave most whole.
Three papers are two submissions of one work within a year and one of another year at the same venue;
the fourth, of a similar title, comes in at any time. A long id and a short one are a pair that
0006 cannot tell apart and one that it can. Three edits are a baseline, a deletion or change, and what comes back. With one
more error or request `Client` has no new behaviour: three requests were checked on
their own. `MaxCrashes`, `MaxStops`, `MaxVersion`, `MaxFailures`, `MaxFaults`,
`MaxEdits`, `MaxDeaths`, `MaxOthers`, `MaxErrors`, `MaxWaits`, `MaxNotes`,
`MaxAuthorEdits`, `MaxClock`, `MaxAccounts` and `MaxRuns` are the cut-offs of what is
unbounded. The invariants and action properties are also proved for every value of
the constants, see Proofs.

The readers of revisions, the requests of the client and the story calls of `library` are
alike: nothing in their modules, the constants or the properties names one of them, so
`SYMMETRY` is sound for them; the run checks safety only. The requests of
Retention (`Req`) and the submissions (`Draft`) are left as they are.

`CHECK_DEADLOCK FALSE` is set where the system comes to rest: all calls answered,
the venue done, the batch over.

### What the violation runs show

* `ResumeLosesNothing` - a batch stopped between `load_papers` and
  `load_review_points` leaves papers that every later run skips; see
  `PointsMissingOnlyWhereTorn` for what does hold.
* `RevokedStayRevoked` - `token_version` is read, incremented in Python and written.
  Two requests that read the same version raise it once; a token issued between
  their commits outlives the second revocation. `KilledStayDead` is what does hold.
* `OutageNotCached` - a failed list of edits is not cached, a failed download of a PDF
  is: the revision stays without its diff for thirty days.
* `OldTextReadsBack` - the endpoint's documentation has clients rebuild the old text from the
  segments that are not inserted. Two paragraphs that changed places come out in the new
  order, in a diff that no cap has cut. `BeforeInOrder`, in `DiffFaithful`, says when it does
  hold (nothing moved, no placeholder merged), and `BeforeIsWhole` what holds otherwise: no
  word is lost or shown twice.
* `CarriesOn` - a run of the enrichment that is stopped inside `_save_checkpoint` or inside the
  append of a page leaves a file that every later run raises at. `AsIfUninterrupted` is about
  the runs that do end.

Disagreements that have no run of their own, because they are about a wording, lie in one
expression, or are the exception that a checked property names:

* Two accounts that share an OpenReview id of 64 to 100 characters stop the upgrade at 0006,
  which was to make duplicates distinct: `VARCHAR(100)` (`0004:31`) has no room for the "_"
  and the user id (`0006:26`). `SchemaSound` says that this is the one case.
* The purge runs without a lock, and its docstring says that submissions with an analysis in progress are
  left alone (`purge_expired_pdfs.py:27-29`); an analysis that begins between the condition
  and the commit of the UPDATE loses its PDF. `PurgeSparesAnalyses` says that no other does.
* When the cache cannot be read, the log says that the call goes on without it
  (`story.py:188`), but the transaction is aborted and the next statement raises.
* `used_llm` is said to be whether an LLM was asked (`pipeline.py:145-147`) and is the
  resolved setting: a weak or empty retrieval asks none.
* The headline of a review update (`timeline.py:133`) and the rule given to the LLM
  (`narrative.py:221`) say that the review was changed *after the authors' reply*; the code
  only knows that it was changed after it was posted.
* A row left in progress by a task that a restart lost, of a submission nobody polls, keeps
  its PDF from the purge for ever, past the ninety days of the privacy policy
  (`purge_expired_pdfs.py:66`).
* The docstring of `_diff_replace_with_media` (`revisions.py:368-371`) relies on the equal and
  inserted segments of `_word_diff` giving back the text "한 글자도 안 틀리고", but `_word_diff`
  keeps the first `MAX_SEGMENTS` of them (`revisions.py:139`): a stretch that was rewritten
  in more places than that loses its end in both versions. `DiffFaithful` is about diffs
  that no cap has cut.

## Fairness

`analysis_live`: time passes (`WF` on `GrowOld`), a client that is shown an analysis in
progress polls again (`WF` on its steps: that is what the front end is told to do
after the 202), and its requests do not fail for ever exactly at the commit of the
expiry (`SF` on `PollExpire`; weak fairness is not enough, as another handler may
abort or expire the same row in between). Nothing is assumed of the task: it may
hang or vanish. Starts and deletions need not happen.

`ingest`: `WF` on the steps of a run, `Start` included. It says that the operator runs
the batch again and a run that is not stopped goes on; stops are bounded by
`MaxStops`, since a batch that is stopped each time never finishes.

`pipeline`: `WF` on each thread's steps. Loading a model, searching and asking an LLM
end, if only by raising (the SDK and the driver give up by themselves), and a thread that waits
for the lock gets it, because every holder gives it back: that is what
`AnalysesEnd` is about. Nothing else in the project assumes fairness.

## Proofs

`AnalysisProofs` proves for any sets of requests and pollers and any number of
restarts: `TypeOK`, `OneActive`, `RowsCoherent`, `NoFreshDuplicateRun`,
`DoneWithdrawnOnlyByExpiry`, and that `Spec` implements `PredictionStore`.
`OneActive` alone would follow from the index; the others are not inductive. A row's
status can be anything as far as they know, for instance done with a task still
queued. `IInv` adds

* `RowFollowsTask` - where a row's status can be, given its request and its task;
* `VictimsAreStale` - what `expire_stale` read was over age, and age does not return;
* `FreshRunHoldsSlot` - a run that is not over age still holds the slot, because
  only an expiry of a stale row could have taken it.

Two fresh runs would both be active rows by the last of these, and by `OneActive`
they are the same. The refinement needs `RowFollowsTask` alone: it says that a task
that finishes finds its row running or failed, as `FinishRow` demands. One lemma per
group of actions (start, poll, task, environment) shows `IInv` preserved.

`SharingProofs` proves for any number of calls: `TypeOK`, `IssueIsIdempotent`,
`RevokedLinkStaysShut`, `LinkHasResult`. The heart of it is that a link that an
answered DELETE found live is never live again (`ShutIsNotLive`): names are given out
once, by the call's own insert (`LinkFollowsCall`), and the one link a DELETE stamps
is all that was live when it began (`OneLive`). That a live link has a result needs
the same of a call about to insert (`ResultBehindLink`), since the check and the
insert are steps apart.

`StoryCacheProofs` proves for any number of calls and source changes: `TypeOK`,
`OutageNotPinned`, `StubOnlyFromOwnAttempt`, `RefreshIsCurrent`; the last from the fact
that a refreshing call never comes near the cache and its draft is younger than the
call (`RefreshReadsSources`). The action property `OverwritesOnlyUnseen` needs to know
why a call makes a story at all: `MakesWhatIsMissing` says that it was told to refresh,
could not read the row, has had another row stored behind its back, or would still not be
served by the row that is there.

`AccountsProofs` proves for any sets of requests, addresses, subjects, ids and answers:
`TypeOK`, `KilledStayDead`, `OneAccountPerIdentity`, `AnswersBelong`,
`AccountsCameThroughTheGate` and the action property `LinkedAnswersStay`. None of the
last four is inductive alone. `IInv` adds

* `InsertersReady` - a request about to insert an account has an address and has passed
  the gate;
* `NotThereYet` - until it has inserted, the account that bears its name is not there
  and nobody holds a token of it;
* `UnbornUnowned` - an id of an onboarding row that was not given out has no owner;
* `VersionsBehind` - unless a version of the account was written over unseen (`raced`),
  no token is ahead of the row and the killed ones are behind it.

The last is why `raced` is there: a version that a request carries from its read to
its write is what lets a killed token come back, and the theorem says it is the only
way.

`PipelineProofs` proves for any number of threads `OneEmbedder`, and that two threads
are never inside the build together. `OneEmbedder` alone says nothing of the thread that
has loaded a model and not yet stored it. `CacheInv` adds

* `BuildersLock` - a thread in the build holds the lock;
* `BindsTheShared` - what a thread is about to store is the shared embedder if there is
  one, since nobody can have stored another while it held the lock;
* `LoadsAccounted` - loads are one ahead of failures at most, and only while a model is
  shared or about to be.

For any search results, answers of the LLM, thresholds and numbers of threads it also
proves `ReportGrounded` and `SpendsOnlyOnReliable`. Each node relies on what the nodes
before it left, and `CallInv` says what that is at every place of a call: `AskedInv`, that
the LLM was asked for a selection only after hits that are near enough on average and
with `use_llm` on; `FilledInv`, that the selection is of papers found and without
repetition (`SelectionSound`), the evidence of selected papers and numbered without a gap
or a label twice (`EvidenceSound`), and every claim of the text cites a label that is there
(`TextSound`). The lemmas about `ValidatedSelections`, `BuildEvidence` and
`ValidateCitations` are stated for any answer the LLM may give, a list of repetitions of
papers that do not exist included.

About the batch that fills the corpus it proves, for any finite venue, batch size and
number of stops: Ingest's `TypeOK`, `DoneIsComplete`, `PointsMissingOnlyWhereTorn`, `LossIsBounded`,
`ProcessedIsHonest`. `IngestInv` adds that each eligible note is still to be
listed, in the buffer, or in the table (`NotesAccountedFor`); that a short batch
comes only after the loop (`ShortBatchIsLast`), so `Checkpoint` may read the end of
the loop off the size of the buffer; that pending extractions belong to the batch
in hand (`UnpointedOfBuffer`); and that the counters add up to the table
(`CountersAddUp`), which needs facts about cardinalities of disjoint unions.

`LibraryProofs` is about the parts of the library that share no state. Each has its
own invariant:

* *Retention* - `PurgeSparesAnalyses` for any number of analyses. `PurgeInv` adds
  `BegunHasRow` (a name given to an analysis has its row, so it is not given out twice),
  `DueIsActivity` (while an analysis has yet to read, the submission is not quiet, so
  the purge passes it over; the retention period outlasts every task, which is in
  `PeriodPasses`, and without it the theorem is false) and `PromiseStands` (a PDF that was
  there when an analysis began, outside the UPDATE, is there until it is read, and no
  purge has picked it).
* *Client* - `ReauthenticationSettles` for any number of requests, attempts, tokens and
  errors. It is an account: `LoginsPaid` says that the logins, those under way and
  that of the client not yet built are paid by the first, an error or a refusal each; and
  `RefusedDiffer` that the refusals of one request can be told apart by the dead
  tokens they were for, which is why there are no more of them than dead tokens.
* *Timeline* - `TimelineTellsInOrder` for any forum, in whatever order the API lists it.
  `TimelineInv` types the forum and says that edits of the authors are in the order of
  their times; the sort does the rest (`TellsInOrder` of any events that are `Tellable`).
* *Retrieval* - `NewestBeatsNearest` and `TwinsFolded` for every corpus, all hits, any number
  of places and every pool small beside `RRF_K`. The first is arithmetic: the last place of
  one search keeps a seventh of the best similarity (`LastPlace`), and five years cost more
  than the six sevenths, whatever the weights. The second follows the loop of
  `_pick_without_duplicates` paper by paper: after `n` of them the picks have different
  keys and stand for the first papers up to the one that took the last place
  (`PickSound`, preserved by `PlacedSound`); at the end that is the statement.
* *Revisions* - `FileLinksMatch` for any edits, patches, readers, caches and failures.
  `Folding` says of the state of `build_revisions` after each edit that its links lead to
  edits that carried its files and that the chain of files is unbroken; `Linked` says the
  same of a list of revisions, and it survives `Publish`, because edits are only appended,
  and the body cache. That a body diff is between the files of a replacement of its revision,
  or the text of a file that was replaced later (`BodiesOfFiles`), goes by the
  places at which `AttachBodyDiffs` puts the bodies in.
* *Migrations* - `SchemaSound` for any number of accounts and analyses. `MigrationsInv` writes
  the schema of every revision out table by table (`ColumnsAt`, `IndexesAt`), says which
  corpus objects a loaded corpus has by then (`CorpusFits`) and which rows its constraints
  admit (`RowsOf`). An upgrade and a downgrade each take the written-out schema of one
  revision to that of its neighbour (`ColumnsUp`, `IndexesUp`, `ColumnsDown`, `IndexesDown`,
  `CorpusMoves`); `RowsUp` is why the rows let an upgrade through: 0002 leaves one analysis in progress per
  draft (`SettledRuns`), 0006 one account per id (`DistinctAccounts`) if there is room for
  the suffixes; `UpgradeFails` is that it fails exactly at 0006 and when two accounts share a
  long id. The second needs
  that an account's suffix is none or its own number, which is part of `RowsOf`.
* *Enrichment* - `JourneyChronological` for any corpus, however it grows and wherever a batch
  stops. `JourneyInv` says that a batch holds papers of the corpus in memory and that the
  links in the table go forward in time; the rest is about one journey. Every hop but the
  last sees a paper more (`HopGrows`), so `MAX_STOPS` hops are enough, and a call that
  ended below the limit has all that its papers are linked to (`HopsSound`): a
  journey is the same from each of its papers (`SameJourney`). The sort never runs out of
  papers that are ready, because links go forward (`NextIsReady`), so nothing is left over
  for the fallback on years and each link is in its order (`PutNextSound`, `SortedSound`).
* *Enrichment* - `AsIfUninterrupted` for any corpus, harvest and searches. `UninterruptedInv`
  says that the checkpoint is not ahead of the cache (`HarvestInv`); that what a paper has
  comes from its sources (`ColumnsRight`); and of the papers the batch has
  matched how far they are: a paper without a record is still looked for, and no search
  behind names it (`BaseRight`, `PendingRight`). A failed search gives that up, which
  is why such a run settles nothing.

`AsIfUninterrupted` speaks of runs that end, with nothing given up and no paper added since
the match. Of every paper it says that no source has more to say (`Complete`): it has a
Semantic Scholar paper that one of its sources gives, or none that is asked for the papers
left over has any. What it does not say of every paper is *which* record it has: a column is
filled where it is empty and never again, so when the arXiv id leads to another record than
the title, or two searches to different ones, it depends on where runs stopped and when the
paper came in. A paper on which its sources agree (`SourcesAgreeOn`: what the searches have
of its title lies in the years next to its own and is one record, with the arXiv id of the harvest) has
the columns of one undisturbed run. The corpus of `MCLibrary` has papers of both kinds.
That a run need not end is the violation `CarriesOn`.

`BodyDiffProofs` proves `DiffFaithful` for any versions, labels, pictures, thresholds and
caps: the segments of an uncut body diff are the new version word for word and placeholder
for placeholder, are the old one without the inserted ones as long as nothing was moved or
merged, show each word of the old one as often as it stands there in any case, and show
an image as deleted or inserted only if its side has more of its placeholders. That is
not inductive: moving text and merging placeholders look at single segments, and the
merge needs every placeholder to be a segment of its own. `DiffInv` says that
until the merge it is, and that the segments show both versions (`Shows`): the new one
word for word, of the old one each word as often as it is there. After the merge
`MergedWell` says the same with a placeholder counted under the new number of its image.
The order of the old version is a conjunct of its own, which a moving or merging step gives up by
setting `rearranged`.
From there, in the order of the code:

* *Opcodes* - each round of splitting keeps what both sides of the opcodes spell
  (`OpcodesCover`), so the segments of an uncut `_word_diff` spell both texts.
* *A stretch with placeholders* - `Woven` is a version's words with its placeholders between
  them. Word by word, what `PlaceWord` has put out is on each side `Woven` up to the
  position reached, with or without the placeholders that stand right there, depending on
  the flush (`SideOk`); at the end nothing is left over (`MediaAfterEnd`), so the code's
  last two loops, marked as defensive, have nothing to do unless the cap has cut.
* *Greedy pairs* - they are one to one and among the candidates (`GreedyProperties`), so
  `MatchMoved` drops each deleted text once, where an inserted one takes its place.
* *Merging* - the words of the old version are counted by the name their image has in the
  new one. `Taken` pairs a deleted placeholder with an inserted one of its target's name,
  and no two of them with the same (`TakenProperties`), so a merge moves one count from
  deleted to moved (`MergedBefore`). That a pair's placeholders are not shown as both deleted and
  inserted needs the order of `DeletesInOrder`: those that were renumbered take their places
  before those that keep their label can (`OneToSpare`, `DeletedLeft`, `InsertedLeft`).

`VersionAssumption` says what the extraction guarantees: placeholders are paragraphs of their own
in words the text of a paper does not use, and labels of figures, boxes and equations
differ. A label may stand in a version more than once, as two boxes with the same content do.

The library's proofs are by induction over data. The induction theorems of the standard
library take an operator as a parameter, which the provers cannot instantiate; instead
a proof takes the least counterexample (`LeastNatural`) or a smallest one among finite
sets (`SmallestSet`) and shows that it is none. A recursive function unfolds only if there
is one, which `HistoryUnfold`, `PickedUnfold`, `AtUnfold`, `HopsUnfold` and `ArrangedUnfold` show
in the same way, and for functions that go on from the value before, `StepByStep`.
`ListLemmas` has these and what the operators of `Lists` return for lists and sets of any
size: an enumeration is in order and complete, a comprehension keeps the order of what it
keeps, a sum follows its terms, lists put together from others (`FlattenSeq`) follow
the pieces.

What is assumed is named in the modules, and TLC evaluates it in the runs:
`AnalysisConstants`, `SharingConstants`, `IngestConstants`, `StoryConstants`,
`AccountConstants`, `LongOridAssumption` (a long id is neither NULL nor the placeholder of
0004), `FirstPapersKnown`, `SourcesKnown`, `VersionAssumption`, `CapAssumption`, and

* `PipelineConstants`, `ClientConstants`, `RevisionsConstants` - types of the parameters: limits
  are naturals in their order (`MODERATE <= STRONG`), a search returns a paper once and its
  ranks differ, an invented paper is not in the corpus, the requests of the client are
  finitely many, a patch is of tracked fields and its values are not the two marks for
  nothing;
* `ResubmissionConstants` - the corpus is finite, its ids are naturals other than 0, and its
  conferences are the two of `VENUE_ALIASES`;
* `RetrievalConstants` - the searches answer with papers of the corpus; `RRF_K` and
  `CANDIDATE_POOL` satisfy `RRF_K + pool <= 3 * (RRF_K + 1)`, as 60 and 100 do
  (`hybrid_search.py`), and as the comment at `CANDIDATE_POOL` wants them; and `Halves`: what
  the half-lives of two, three and four years leave after five years and more is at most
  421 and for three years 315 thousandths (2 ** -(5/4) is 0.4204, 2 ** -(5/3) is 0.3150).

Only model-checked are the liveness properties `SlotFreed`, `EventuallyDone` and
`AnalysesEnd`, which are out of the prover's reach. Every invariant and action property
that a passing run checks is also the statement of a theorem.

## Not modelled, and why

* `pdf/extract.py`, over two thousand lines of layout heuristics on coordinates and
  fonts; `normalize.py` and `review_extractor.py`, patterns over the text of reviews.
  Numeric or textual code without state: a finite model says nothing about it. The
  modules that use them take any outcome (a file that cannot be read, a note without
  title, reviews with or without points).
* The embedding model, the LLM and the vector index: external. Retrieval and Pipeline
  let them answer anything, or fail.
* Submission intake: size, page and length caps, a sequence of guards on one request.
* The statistics cache (two values read once) and the connection pool (the driver's);
  the effect of an aborted transaction on a shared cursor is in StoryCache.
* Rate limits (a library), ownership (a lookup that answers 404), response shapes,
  middleware, mail, configuration, data classes, legal texts.
* Aggregation by aspect (`clustering.py`), base rates, evaluation and diagnosis: sums
  over one list, run by hand.
* Two batch processes at once: run by hand, one at a time.
* The paging of OpenReview results and the thread pool that fetches the edits of
  several papers: their requests are independent, and Client has what they share. The life
  time of the resumption token of an arXiv harvest: a stopped harvest goes on from its page.
* Crashes of Postgres: commits are taken as durable.

## Plan

Done, in this order: the row store with Analysis and its refinement; Sharing; Ingest;
StoryCache; Accounts; Pipeline, each with proofs; the library, with proofs about Retention,
Client, Timeline, Retrieval, Revisions, Migrations, Enrichment and BodyDiff. What is left:

1. The progress column of a run: a task that lost its row goes on appending to it.
2. The composition of Analysis with Pipeline, so that `RowsCoherent` speaks of the
   report that the nodes made.
