----------------------------- MODULE Migrations -----------------------------
(***************************************************************************)
(* The schema history: the eighteen alembic revisions of                   *)
(* src/alembic/versions, the corpus schema that scripts/init_db.sql loads  *)
(* beside them, and the declarations of src/app/models that the head       *)
(* revision has to agree with.                                             *)
(*                                                                         *)
(* A database is a record: the columns <<table, column, kind>> and the     *)
(* indexes <<name, table, columns, sort>> of the service tables, the names *)
(* of the corpus objects the revisions touch, and as many rows as decide   *)
(* whether a constraint can be built: the accounts in the order of their   *)
(* creation and the analyses in the order of theirs.  A kind that ends in  *)
(* "?" is nullable; "ts" is TIMESTAMP and "tz" is TIMESTAMPTZ.             *)
(***************************************************************************)
EXTENDS Naturals, Sequences

CONSTANTS Orid,        \* OpenReview ids accounts claim
          LongOrid,    \* those of 64 to 100 characters
          Draft,       \* submissions
          MaxAccounts, \* bound: accounts ever created
          MaxRuns      \* bound: analyses ever created

VARIABLES rev, db

migrationVars == <<rev, db>>

Unset == "unset"                 \* NULL in users.openreview_id
Placeholder == "placeholder"     \* 0004, _PLACEHOLDER

ASSUME LongOridAssumption == LongOrid \subseteq Orid \ {Unset, Placeholder}

Of(table, kind, names) == {<<table, name, kind>> : name \in names}

(* The columns of the set that belong to one of the named <<table, column>>. *)
Named(cols, names) == {c \in cols : <<c[1], c[2]>> \in names}
Without(cols, names) == cols \ Named(cols, names)
Retyped(cols, names, to) ==
    Without(cols, names) \cup {<<c[1], c[2], to[c[3]]>> : c \in Named(cols, names)}
Renamed(cols, table, old, new) ==
    Without(cols, {<<table, old>>})
        \cup {<<table, new, c[3]>> : c \in Named(cols, {<<table, old>>})}
NoIndex(idx, names) == {i \in idx : i[1] \notin names}

Zoned == [kind \in {"ts", "ts?"} |-> IF kind = "ts" THEN "tz" ELSE "tz?"]
Naive == [kind \in {"tz", "tz?"} |-> IF kind = "tz" THEN "ts" ELSE "ts?"]

-----------------------------------------------------------------------------
(* The service tables, 0001 to 0007. *)

Up0001(d) == [d EXCEPT
    !.cols = @ \cup Of("users", "key", {"user_id"})
               \cup Of("users", "text", {"email", "password_hash", "nickname"})
               \cup Of("users", "ts", {"created_at", "updated_at"})
               \cup Of("submissions", "key", {"submission_id"})
               \cup Of("submissions", "ref", {"user_id"})
               \cup Of("submissions", "text", {"title", "abstract"})
               \cup Of("submissions", "text?", {"content", "field"})
               \cup Of("submissions", "ts", {"created_at"})
               \cup Of("predictions", "key", {"prediction_id"})
               \cup Of("predictions", "ref", {"submission_id"})
               \cup Of("predictions", "text", {"status", "explanation_source"})
               \cup Of("predictions", "json?", {"report"})
               \cup Of("predictions", "text?", {"confidence_level", "error"})
               \cup Of("predictions", "bool?", {"is_reliable"})
               \cup Of("predictions", "ts", {"created_at"})
               \cup Of("predictions", "ts?", {"completed_at"})
               \cup Of("matches", "key", {"match_id"})
               \cup Of("matches", "ref", {"prediction_id"})
               \cup Of("matches", "int", {"paper_id", "rank"})
               \cup Of("matches", "text", {"match_type"})
               \cup Of("matches", "ts", {"created_at"}),
    !.idx = @ \cup {<<"users_email_key", "users", <<"email">>, "unique">>,
                    <<"submissions_user", "submissions", <<"user_id">>, "plain">>,
                    <<"review_predictions_submission", "predictions",
                      <<"submission_id", "created_at">>, "plain">>,
                    <<"similar_paper_matches_prediction", "matches",
                      <<"prediction_id", "rank">>, "plain">>,
                    <<"similar_paper_matches_paper", "matches", <<"paper_id">>, "plain">>}]

Down0001(d) == [d EXCEPT
    !.cols = {c \in @ : c[1] \notin {"users", "submissions", "predictions", "matches"}},
    !.idx = {i \in @ : i[2] \notin {"users", "submissions", "predictions", "matches"}},
    !.accounts = <<>>, !.runs = <<>>]

Tz0002 == {<<"users", "created_at">>, <<"users", "updated_at">>,
           <<"submissions", "created_at">>, <<"predictions", "created_at">>,
           <<"predictions", "completed_at">>, <<"matches", "created_at">>}
OneActiveIndex ==
    <<"review_predictions_one_active", "predictions", <<"submission_id">>, "unique in progress">>
UserIndex(columns) == <<"submissions_user", "submissions", columns, "plain">>

(* All but the newest analysis in progress of each draft are failed. *)
Newest(runs, i) == \A j \in i + 1 .. Len(runs) :
    runs[j].draft = runs[i].draft => ~runs[j].active
Settled(runs) == [i \in DOMAIN runs |->
    [runs[i] EXCEPT !.active = @ /\ Newest(runs, i)]]

Up0002(d) == [d EXCEPT
    !.cols = Retyped(@, Tz0002, Zoned),
    !.runs = Settled(@),
    !.idx = NoIndex(@, {"submissions_user"})
              \cup {OneActiveIndex, UserIndex(<<"user_id", "created_at">>)}]
Down0002(d) == [d EXCEPT
    !.idx = NoIndex(@, {"submissions_user", "review_predictions_one_active"})
              \cup {UserIndex(<<"user_id">>)},
    !.cols = Retyped(@, Tz0002, Naive)]

Up0003(d) == [d EXCEPT !.cols = @ \cup Of("users", "int", {"token_version"})]
Down0003(d) == [d EXCEPT !.cols = Without(@, {<<"users", "token_version">>})]

GoogleKey == <<"users_google_sub_key", "users", <<"google_sub">>, "unique">>

Up0004(d) == [d EXCEPT
    !.cols = Without(@, {<<"users", "password_hash">>})
               \cup Of("users", "text?", {"google_sub", "password_hash"})
               \cup Of("users", "text", {"openreview_id"}),
    !.idx = @ \cup {GoogleKey},
    !.accounts = [i \in DOMAIN @ |->
        IF @[i].orid = Unset THEN [@[i] EXCEPT !.orid = Placeholder] ELSE @[i]]]
(* Variant: the columns go and the unique key of the Google id stays. *)
Down0004KeepsKey(d) == [d EXCEPT
    !.cols = Without(@, {<<"users", "password_hash">>, <<"users", "openreview_id">>,
                         <<"users", "google_sub">>}),
    !.accounts = [i \in DOMAIN @ |-> [@[i] EXCEPT !.orid = Unset, !.suffix = 0]]]
Down0004(d) == [d EXCEPT
    !.cols = Without(@, {<<"users", "password_hash">>, <<"users", "openreview_id">>,
                         <<"users", "google_sub">>})
               \cup Of("users", "text", {"password_hash"}),
    !.idx = NoIndex(@, {"users_google_sub_key"}),
    !.accounts = [i \in DOMAIN @ |-> [@[i] EXCEPT !.orid = Unset, !.suffix = 0]]]

ProfileKey == <<"onboarding_user_key", "onboarding", <<"user_id">>, "unique">>

Up0005(d) == [d EXCEPT
    !.cols = @ \cup Of("onboarding", "key", {"onboarding_id"})
               \cup Of("onboarding", "ref?", {"user_id"})
               \cup Of("onboarding", "text?", {"user_type", "experience", "stage", "venue"})
               \cup Of("onboarding", "json", {"purposes", "fields", "result_order"})
               \cup Of("onboarding", "ts", {"created_at", "updated_at"}),
    !.idx = @ \cup {ProfileKey}]
Down0005(d) == [d EXCEPT !.cols = {c \in @ : c[1] # "onboarding"},
                         !.idx = {i \in @ : i[2] # "onboarding"}]

(* Every account but the first that claims an id has its own id appended:   *)
(* "_" and the 36 characters of a UUID.                                     *)
SameId(a, b) == a.orid = b.orid /\ a.suffix = b.suffix
FirstClaim(accounts, i) == \A j \in 1 .. i - 1 : ~SameId(accounts[j], accounts[i])
Distinct(accounts) == [i \in DOMAIN accounts |->
    IF FirstClaim(accounts, i) THEN accounts[i]
    ELSE [accounts[i] EXCEPT !.suffix = i]]
OridKey == <<"users_openreview_id_key", "users", <<"openreview_id">>, "unique">>

(* Variant: the ids are not made distinct first. *)
Up0006Bare(d) == [d EXCEPT !.idx = @ \cup {OridKey}]
Up0006(d) == [d EXCEPT !.accounts = Distinct(@), !.idx = @ \cup {OridKey}]
Down0006(d) == [d EXCEPT !.idx = NoIndex(@, {"users_openreview_id_key"})]

Tz0007 == {<<"onboarding", "created_at">>, <<"onboarding", "updated_at">>}
Up0007(d) == [d EXCEPT !.cols = Retyped(@, Tz0007, Zoned)]
Down0007(d) == [d EXCEPT !.cols = Retyped(@, Tz0007, Naive)]

-----------------------------------------------------------------------------
(* The corpus objects, 0008 to 0010 and 0013: every statement is guarded by *)
(* to_regclass, so that a database without a corpus passes through.         *)

Guarded(d, table, add) ==
    [d EXCEPT !.corpus = IF table \in @ THEN @ \cup add ELSE @]
Lost(d, names) == [d EXCEPT !.corpus = @ \ names]

Up0008(d) == Guarded(d, "papers", {"papers.citation_count"})
Down0008(d) == Lost(d, {"papers.citation_count"})
Up0009(d) == Guarded(d, "papers", {"paper_stories"})
Down0009(d) == Lost(d, {"paper_stories"})
Up0010(d) == Guarded(d, "papers", {"papers.citation_percentile"})
Down0010(d) == Lost(d, {"papers.citation_percentile"})

Selected == <<"similar_paper_matches_selected", "matches",
              <<"prediction_id", "llm_rank">>, "selected">>

Up0011(d) == [d EXCEPT
    !.cols = @ \cup Of("submissions", "bytes?", {"pdf_bytes"})
               \cup Of("submissions", "int?", {"page_count"})
               \cup Of("matches", "bool", {"selected"})
               \cup Of("matches", "int?", {"llm_rank"})
               \cup Of("matches", "text?", {"selection_reason"}),
    !.idx = @ \cup {Selected}]
Down0011(d) == [d EXCEPT
    !.idx = NoIndex(@, {"similar_paper_matches_selected"}),
    !.cols = Without(@, {<<"matches", "selection_reason">>, <<"matches", "llm_rank">>,
                         <<"matches", "selected">>, <<"submissions", "page_count">>,
                         <<"submissions", "pdf_bytes">>})]

PaperIndex == <<"similar_paper_matches_paper", "matches", <<"paper_id">>, "plain">>
Dead0012 == {"papers.final_venue", "papers_decision", "reviews.raw_content",
             "reviews.points_extracted", "reviews_pending", "review_points.embedding",
             "authors.s2_author_id", "authors_s2", "citations", "citations_cited"}

Up0012(d) == Lost([d EXCEPT
    !.cols = Without(@, {<<"submissions", "content">>}),
    !.idx = NoIndex(@, {"similar_paper_matches_selected", "similar_paper_matches_paper"})],
    Dead0012)
Down0012(d) == Guarded([d EXCEPT
    !.cols = @ \cup Of("submissions", "text?", {"content"}),
    !.idx = @ \cup {Selected, PaperIndex}], "papers", Dead0012)

Up0013(d) == Guarded(d, "papers", {"paper_body_diffs"})
Down0013(d) == Lost(d, {"paper_body_diffs"})

-----------------------------------------------------------------------------
(* The service tables, 0014 to 0018. *)

Up0014(d) == [d EXCEPT !.cols = @ \cup Of("predictions", "json", {"progress"})]
Down0014(d) == [d EXCEPT !.cols = Without(@, {<<"predictions", "progress">>})]

Up0015(d) == [d EXCEPT !.cols = @ \cup Of("users", "tz?", {"terms_agreed_at"})
                                  \cup Of("users", "text?", {"terms_version", "privacy_version"})]
Down0015(d) == [d EXCEPT !.cols = Without(@,
    {<<"users", "privacy_version">>, <<"users", "terms_version">>, <<"users", "terms_agreed_at">>})]

(* venue_list is filled from venue, locked, and takes its name. *)
Up0016(d) == [d EXCEPT !.cols = Renamed(
    Without(@ \cup Of("onboarding", "text?", {"similarity_focus", "recency_bias"})
              \cup Of("onboarding", "json", {"venue_list"}), {<<"onboarding", "venue">>}),
    "onboarding", "venue_list", "venue")]
Down0016(d) == [d EXCEPT !.cols = Without(Renamed(
    Without(@ \cup Of("onboarding", "text?", {"venue_str"}), {<<"onboarding", "venue">>}),
    "onboarding", "venue_str", "venue"),
    {<<"onboarding", "recency_bias">>, <<"onboarding", "similarity_focus">>})]

Up0017(d) == [d EXCEPT !.cols = Without(@,
    {<<"onboarding", "purposes">>, <<"onboarding", "result_order">>, <<"onboarding", "stage">>})]
Down0017(d) == [d EXCEPT !.cols = @ \cup Of("onboarding", "text?", {"stage"})
                                    \cup Of("onboarding", "json", {"result_order", "purposes"})]

ShareIndexes ==
    {<<"submission_shares_token_key", "shares", <<"token">>, "unique">>,
     <<"submission_shares_one_active", "shares", <<"submission_id">>, "unique not revoked">>}
Up0018(d) == [d EXCEPT
    !.cols = @ \cup Of("shares", "key", {"share_id"}) \cup Of("shares", "ref", {"submission_id"})
               \cup Of("shares", "text", {"token"}) \cup Of("shares", "tz", {"created_at"})
               \cup Of("shares", "tz?", {"revoked_at"}),
    !.idx = @ \cup ShareIndexes]
Down0018(d) == [d EXCEPT !.cols = {c \in @ : c[1] # "shares"},
                         !.idx = {i \in @ : i[2] # "shares"}]

-----------------------------------------------------------------------------
(* The models of src/app/models: what the code of the head revision reads. *)

UserModel ==
    Of("users", "key", {"user_id"}) \cup Of("users", "text", {"email", "nickname", "openreview_id"})
        \cup Of("users", "text?", {"password_hash", "google_sub", "terms_version", "privacy_version"})
        \cup Of("users", "int", {"token_version"}) \cup Of("users", "tz?", {"terms_agreed_at"})
        \cup Of("users", "tz", {"created_at", "updated_at"})
SubmissionModel ==
    Of("submissions", "key", {"submission_id"}) \cup Of("submissions", "ref", {"user_id"})
        \cup Of("submissions", "text", {"title", "abstract"}) \cup Of("submissions", "text?", {"field"})
        \cup Of("submissions", "bytes?", {"pdf_bytes"}) \cup Of("submissions", "int?", {"page_count"})
        \cup Of("submissions", "tz", {"created_at"})
PredictionModel ==
    Of("predictions", "key", {"prediction_id"}) \cup Of("predictions", "ref", {"submission_id"})
        \cup Of("predictions", "text", {"status", "explanation_source"})
        \cup Of("predictions", "text?", {"confidence_level", "error"})
        \cup Of("predictions", "json?", {"report"}) \cup Of("predictions", "json", {"progress"})
        \cup Of("predictions", "bool?", {"is_reliable"})
        \cup Of("predictions", "tz", {"created_at"}) \cup Of("predictions", "tz?", {"completed_at"})
MatchModel ==
    Of("matches", "key", {"match_id"}) \cup Of("matches", "ref", {"prediction_id"})
        \cup Of("matches", "int", {"paper_id", "rank"}) \cup Of("matches", "text", {"match_type"})
        \cup Of("matches", "bool", {"selected"}) \cup Of("matches", "int?", {"llm_rank"})
        \cup Of("matches", "text?", {"selection_reason"}) \cup Of("matches", "tz", {"created_at"})
ProfileModel ==
    Of("onboarding", "key", {"onboarding_id"}) \cup Of("onboarding", "ref?", {"user_id"})
        \cup Of("onboarding", "text?", {"user_type", "experience", "similarity_focus", "recency_bias"})
        \cup Of("onboarding", "json", {"fields", "venue"})
        \cup Of("onboarding", "tz", {"created_at", "updated_at"})
ShareModel ==
    Of("shares", "key", {"share_id"}) \cup Of("shares", "ref", {"submission_id"})
        \cup Of("shares", "text", {"token"}) \cup Of("shares", "tz", {"created_at"})
        \cup Of("shares", "tz?", {"revoked_at"})
ModelColumns == UNION {UserModel, SubmissionModel, PredictionModel, MatchModel,
                       ProfileModel, ShareModel}
ModelIndexes ==
    {<<"users_email_key", "users", <<"email">>, "unique">>, GoogleKey, OridKey, ProfileKey,
     UserIndex(<<"user_id", "created_at">>), OneActiveIndex,
     <<"review_predictions_submission", "predictions", <<"submission_id", "created_at">>, "plain">>,
     <<"similar_paper_matches_prediction", "matches", <<"prediction_id", "rank">>, "plain">>}
        \cup ShareIndexes

(* What init_db.sql creates, and what it created before revision 0008. *)
CorpusBase == {"papers", "authors", "paper_authors", "reviews", "review_points",
               "aspect_base_rates", "venue_stats", "submission_links", "ingest_status"}
FreshCorpus == CorpusBase \cup {"papers.citation_count", "papers.citation_percentile",
                                "paper_stories", "paper_body_diffs"}
OldCorpus == CorpusBase \cup Dead0012

(* env.py: the tables autogenerate must not see, and those it would drop. *)
CORPUS_TABLES == CorpusBase \cup {"paper_stories", "paper_body_diffs"}
AutogenerateDrops(d) ==
    (d.corpus \cap (CORPUS_TABLES \cup {"citations"})) \ CORPUS_TABLES

-----------------------------------------------------------------------------
HeadRev == 18
Empty == [cols |-> {}, idx |-> {}, corpus |-> {}, accounts |-> <<>>, runs |-> <<>>]

UpStep(r, d) ==
    CASE r = 1 -> Up0001(d) [] r = 2 -> Up0002(d) [] r = 3 -> Up0003(d)
      [] r = 4 -> Up0004(d) [] r = 5 -> Up0005(d) [] r = 6 -> Up0006(d)
      [] r = 7 -> Up0007(d) [] r = 8 -> Up0008(d) [] r = 9 -> Up0009(d)
      [] r = 10 -> Up0010(d) [] r = 11 -> Up0011(d) [] r = 12 -> Up0012(d)
      [] r = 13 -> Up0013(d) [] r = 14 -> Up0014(d) [] r = 15 -> Up0015(d)
      [] r = 16 -> Up0016(d) [] r = 17 -> Up0017(d) [] r = 18 -> Up0018(d)
DownStep(r, d) ==
    CASE r = 1 -> Down0001(d) [] r = 2 -> Down0002(d) [] r = 3 -> Down0003(d)
      [] r = 4 -> Down0004(d) [] r = 5 -> Down0005(d) [] r = 6 -> Down0006(d)
      [] r = 7 -> Down0007(d) [] r = 8 -> Down0008(d) [] r = 9 -> Down0009(d)
      [] r = 10 -> Down0010(d) [] r = 11 -> Down0011(d) [] r = 12 -> Down0012(d)
      [] r = 13 -> Down0013(d) [] r = 14 -> Down0014(d) [] r = 15 -> Down0015(d)
      [] r = 16 -> Down0016(d) [] r = 17 -> Down0017(d) [] r = 18 -> Down0018(d)

(* The constraints the columns and indexes put on the rows: openreview_id   *)
(* is VARCHAR(100), too short for a long id and a suffix.                   *)
LengthsFit(accounts) == \A i \in DOMAIN accounts :
    accounts[i].suffix = 0 \/ accounts[i].orid \notin LongOrid
RowsFit(d) ==
    /\ OneActiveIndex \in d.idx => \A i, j \in DOMAIN d.runs :
         d.runs[i].active /\ d.runs[j].active /\ d.runs[i].draft = d.runs[j].draft => i = j
    /\ OridKey \in d.idx => \A i, j \in DOMAIN d.accounts :
         SameId(d.accounts[i], d.accounts[j]) => i = j
    /\ <<"users", "openreview_id", "text">> \in d.cols =>
         (\A i \in DOMAIN d.accounts : d.accounts[i].orid # Unset) /\ LengthsFit(d.accounts)
    /\ <<"users", "password_hash", "text">> \in d.cols =>
         \A i \in DOMAIN d.accounts : d.accounts[i].password

MigrationsInit ==
    /\ rev = 0
    /\ \E corpus \in {{}, FreshCorpus, OldCorpus} : db = [Empty EXCEPT !.corpus = corpus]

(* alembic runs in one transaction: a revision that fails leaves nothing.   *)
Upgrade ==
    /\ rev < HeadRev
    /\ RowsFit(UpStep(rev + 1, db))
    /\ db' = UpStep(rev + 1, db)
    /\ rev' = rev + 1

Downgrade ==
    /\ rev > 0
    /\ RowsFit(DownStep(rev, db))
    /\ db' = DownStep(rev, db)
    /\ rev' = rev - 1

(* init_db.sql on a database whose backend came up without a corpus. *)
LoadCorpus ==
    /\ db.corpus = {}
    /\ db' = [db EXCEPT !.corpus = FreshCorpus]
    /\ UNCHANGED rev

(* Any row the constraints of the current revision admit. *)
Write(new) == RowsFit(new) /\ db' = new /\ UNCHANGED rev

AddAccount ==
    /\ rev > 0
    /\ Len(db.accounts) < MaxAccounts
    /\ \E orid \in IF rev < 4 THEN {Unset} ELSE Orid, password \in BOOLEAN :
         Write([db EXCEPT !.accounts = Append(@,
             [orid |-> orid, suffix |-> 0, password |-> password])])

AddRun ==
    /\ rev > 0
    /\ Len(db.runs) < MaxRuns
    /\ \E draft \in Draft : Write([db EXCEPT !.runs = Append(@, [draft |-> draft, active |-> TRUE])])

EndRun ==
    \E i \in DOMAIN db.runs :
        db.runs[i].active /\ Write([db EXCEPT !.runs[i].active = FALSE])

MigrationsNext == Upgrade \/ Downgrade \/ LoadCorpus \/ AddAccount \/ AddRun \/ EndRun
MigrationsSpec == MigrationsInit /\ [][MigrationsNext]_migrationVars

-----------------------------------------------------------------------------
(* Duplicates and missing values are settled before the constraint over     *)
(* them, so that rows an earlier revision admits never make a later one     *)
(* fail, with one exception: 0006 cannot tell accounts with one long id     *)
(* apart, and the database stays at 0005 as long as there are two.          *)
LongTwins(accounts) == \E i, j \in DOMAIN accounts :
    i # j /\ SameId(accounts[i], accounts[j]) /\ accounts[i].orid \in LongOrid
OnlyLongTwinsStick ==
    (rev < HeadRev /\ ~RowsFit(UpStep(rev + 1, db))) <=> (rev = 5 /\ LongTwins(db.accounts))

(* Whatever the path to the head, with downgrades and a corpus of any age   *)
(* or loaded late, the database is the one the models and init_db.sql       *)
(* declare, and autogenerate would drop none of its tables.                 *)
HeadMatchesModels == rev = HeadRev =>
    /\ db.cols = ModelColumns
    /\ db.idx = ModelIndexes
    /\ db.corpus \in {{}, FreshCorpus}
    /\ AutogenerateDrops(db) = {}

At[r \in 0 .. HeadRev] == IF r = 0 THEN Empty ELSE UpStep(r, At[r - 1])

(* The service schema is a function of the revision: every downgrade undoes *)
(* exactly what its upgrade did, the indexes and retyped columns included.  *)
SchemaIsOfRevision == db.cols = At[rev].cols /\ db.idx = At[rev].idx

(* However the database was brought to its revision, it is the schema of    *)
(* that revision, the head is what the code expects, and an upgrade fails   *)
(* only at the long ids that 0006 cannot make distinct.                     *)
SchemaSound == OnlyLongTwinsStick /\ HeadMatchesModels /\ SchemaIsOfRevision
=============================================================================
