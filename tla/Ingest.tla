--------------------------------- MODULE Ingest ---------------------------------
(***************************************************************************)
(* The batch that fills the corpus, for one venue of the registry:         *)
(* paper_assistant/ingest/run_ingest.py over paper_assistant/db/load.py.   *)
(*                                                                         *)
(* One process at a time runs main().  What outlives it is the database:   *)
(* the papers with their embedding, the reviews, the review points and the *)
(* ingest_status row.  A step ends where one transaction of load.py ends,  *)
(* so that the process can raise or be killed between any two of them; an  *)
(* operator then starts it again.                                          *)
(***************************************************************************)
EXTENDS Naturals, FiniteSets

CONSTANTS
    Note,               \* the submissions OpenReview lists for the venue
    Bare,               \* those without a title or an abstract: not ingested
    Review,             \* the reviews with an id
    reviewsOf,          \* the reviews of each note
    Pointed,            \* the reviews the extractor finds points in
    FLUSH_EVERY,        \* papers per batch
    MaxStops            \* bound: how many runs end in an exception or a kill

ASSUME IngestConstants ==
    /\ IsFiniteSet(Note)
    /\ Bare \subseteq Note
    /\ Pointed \subseteq Review
    /\ reviewsOf \in [Note -> SUBSET Review]
    /\ \A m, n \in Note : m # n => reviewsOf[m] \cap reviewsOf[n] = {}
    /\ FLUSH_EVERY \in Nat \ {0}
    /\ MaxStops \in Nat

VARIABLES
    \* The database.
    embedded,           \* papers rows; load_papers writes the embedding with the row
    loaded,             \* reviews rows
    pointed,            \* the reviews whose review_points are there
    venueStatus,        \* status column of ingest_status, "none" without a row
    processed,          \* its processed column
    \* The process.
    pc,
    todo,               \* notes iter_notes has still to yield
    doneIds,            \* done_ids: what was embedded when the venue was started
    buffer,
    fetched,            \* papers put into the buffer by this run
    unpointed,          \* reviews of the batch whose points are still to be loaded
    \* History and bound.
    torn,               \* papers of the batches that a stop interrupted
    stops

dbVars  == <<embedded, loaded, pointed, venueStatus, processed>>
runVars == <<pc, todo, doneIds, buffer, fetched, unpointed>>
vars    == <<dbVars, runVars, torn, stops>>

Pc == {"down", "starting", "scan", "papers", "points", "checkpoint"}

ReviewsOf(papers) == UNION {reviewsOf[n] : n \in papers}

TypeOK ==
    /\ embedded \subseteq Note
    /\ loaded \subseteq Review
    /\ pointed \subseteq Review
    /\ venueStatus \in {"none", "running", "done", "failed"}
    /\ processed \in Nat
    /\ pc \in Pc
    /\ todo \subseteq Note
    /\ doneIds \subseteq Note
    /\ buffer \subseteq Note
    /\ fetched \in Nat
    /\ unpointed \subseteq Review
    /\ torn \subseteq Note
    /\ stops \in 0..MaxStops

Init ==
    /\ embedded = {} /\ loaded = {} /\ pointed = {}
    /\ venueStatus = "none"
    /\ processed = 0
    /\ pc = "down"
    /\ todo = {} /\ doneIds = {} /\ buffer = {}
    /\ fetched = 0
    /\ unpointed = {}
    /\ torn = {}
    /\ stops = 0

--------------------------------------------------------------------------------
\* Variant: a failed venue counts as finished.
SkippedStatusesWithFailed == {"done", "failed"}

\* is_done: the venues main() passes over.
SkippedStatuses == {"done"}

\* main(): the venue is taken unless its status is done.
Start ==
    /\ pc = "down"
    /\ venueStatus \notin SkippedStatuses
    /\ pc' = "starting"
    /\ UNCHANGED <<dbVars, todo, doneIds, buffer, fetched, unpointed, torn, stops>>

\* ingest_venue up to the loop: count_notes, _existing_ids, set_status running.
Open ==
    /\ pc = "starting"
    /\ doneIds' = embedded
    /\ venueStatus' = "running"
    /\ processed' = Cardinality(embedded)
    /\ todo' = Note
    /\ buffer' = {}
    /\ fetched' = 0
    /\ pc' = "scan"
    /\ UNCHANGED <<embedded, loaded, pointed, unpointed, torn, stops>>

\* Variant: the paper is counted before its title and abstract are looked at.
ScanCountingBare(n) ==
    /\ pc = "scan"
    /\ n \in todo
    /\ todo' = todo \ {n}
    /\ fetched' = IF n \in doneIds THEN fetched ELSE fetched + 1
    /\ buffer' = IF n \in doneIds \cup Bare THEN buffer ELSE buffer \cup {n}
    /\ pc' = IF Cardinality(buffer') >= FLUSH_EVERY THEN "papers" ELSE "scan"
    /\ UNCHANGED <<dbVars, doneIds, unpointed, torn, stops>>

\* Variant: the buffer grows until the loop is over.
ScanNeverFull(n) ==
    /\ pc = "scan"
    /\ n \in todo
    /\ todo' = todo \ {n}
    /\ \/ /\ n \in doneIds \cup Bare
          /\ UNCHANGED <<buffer, fetched>>
       \/ /\ n \notin doneIds \cup Bare
          /\ buffer' = buffer \cup {n}
          /\ fetched' = fetched + 1
    /\ UNCHANGED <<dbVars, pc, doneIds, unpointed, torn, stops>>

\* One turn of the loop.  A note already embedded costs no forum request; one
\* without a title or an abstract is passed over; a full buffer is flushed.
Scan(n) ==
    /\ pc = "scan"
    /\ n \in todo
    /\ todo' = todo \ {n}
    /\ \/ /\ n \in doneIds \cup Bare
          /\ UNCHANGED <<pc, buffer, fetched>>
       \/ /\ n \notin doneIds \cup Bare
          /\ buffer' = buffer \cup {n}
          /\ fetched' = fetched + 1
          /\ pc' = IF Cardinality(buffer') >= FLUSH_EVERY THEN "papers" ELSE "scan"
    /\ UNCHANGED <<dbVars, doneIds, unpointed, torn, stops>>

\* Variant: nothing is flushed after the loop.
ScanEndsUnflushed ==
    /\ pc = "scan"
    /\ todo = {}
    /\ pc' = "checkpoint"
    /\ UNCHANGED <<dbVars, todo, doneIds, buffer, fetched, unpointed, torn, stops>>

\* The loop ends: what the buffer still holds is flushed.
ScanEnds ==
    /\ pc = "scan"
    /\ todo = {}
    /\ pc' = IF buffer = {} THEN "checkpoint" ELSE "papers"
    /\ UNCHANGED <<dbVars, todo, doneIds, buffer, fetched, unpointed, torn, stops>>

--------------------------------------------------------------------------------
(* _flush                                                                  *)

\* Variant: the reviews are not part of the transaction.
FlushPapersOnly ==
    /\ pc = "papers"
    /\ embedded' = embedded \cup buffer
    /\ unpointed' = ReviewsOf(buffer) \cap Pointed
    /\ pc' = "points"
    /\ UNCHANGED <<loaded, pointed, venueStatus, processed, todo, doneIds, buffer,
                   fetched, torn, stops>>

\* load_papers: papers, embeddings and reviews of the batch in one transaction.
FlushPapers ==
    /\ pc = "papers"
    /\ embedded' = embedded \cup buffer
    /\ loaded' = loaded \cup ReviewsOf(buffer)
    /\ unpointed' = ReviewsOf(buffer) \cap Pointed
    /\ pc' = "points"
    /\ UNCHANGED <<pointed, venueStatus, processed, todo, doneIds, buffer, fetched,
                   torn, stops>>

\* load_review_points, a transaction per review.  A review that is not in the table
\* gets none and raises nothing.
FlushPoints(r) ==
    /\ pc = "points"
    /\ r \in unpointed
    /\ pointed' = pointed \cup ({r} \cap loaded)
    /\ unpointed' = unpointed \ {r}
    /\ UNCHANGED <<embedded, loaded, venueStatus, processed, pc, todo, doneIds,
                   buffer, fetched, torn, stops>>

FlushEnds ==
    /\ pc = "points"
    /\ unpointed = {}
    /\ pc' = "checkpoint"
    /\ UNCHANGED <<dbVars, todo, doneIds, buffer, fetched, unpointed, torn, stops>>

\* Variant: the operands are confused.
ProgressSwapped == fetched - Cardinality(doneIds)

\* The progress a run reports, from its own counters.
Progress == Cardinality(doneIds) + fetched

\* set_status after a flush: running within the loop, where the buffer was full, and
\* done after it, where it is short or empty.
Checkpoint ==
    /\ pc = "checkpoint"
    /\ processed' = Progress
    /\ buffer' = {}
    /\ \/ /\ Cardinality(buffer) >= FLUSH_EVERY
          /\ venueStatus' = "running"
          /\ pc' = "scan"
       \/ /\ Cardinality(buffer) < FLUSH_EVERY
          /\ venueStatus' = "done"
          /\ pc' = "down"
    /\ UNCHANGED <<embedded, loaded, pointed, todo, doneIds, fetched, unpointed, torn,
                   stops>>

--------------------------------------------------------------------------------
(* How a run can end early.                                                *)

\* Buffer, counters and pending extractions live in the process only.
Stop ==
    /\ pc # "down"
    /\ stops < MaxStops
    /\ stops' = stops + 1
    /\ pc' = "down"
    /\ torn' = IF unpointed = {} THEN torn ELSE torn \cup buffer
    /\ todo' = {} /\ doneIds' = {} /\ buffer' = {} /\ fetched' = 0 /\ unpointed' = {}
    /\ UNCHANGED <<embedded, loaded, pointed>>

\* Any exception in ingest_venue: main() records failed, with processed at its
\* default, and goes on to the next venue.
Fail ==
    /\ Stop
    /\ venueStatus' = "failed"
    /\ processed' = 0

\* The process is killed, or set_status raises too.
Crash ==
    /\ Stop
    /\ UNCHANGED <<venueStatus, processed>>

--------------------------------------------------------------------------------
RunStep ==
    \/ Start \/ Open \/ ScanEnds \/ FlushPapers \/ FlushEnds \/ Checkpoint
    \/ \E n \in Note : Scan(n)
    \/ \E r \in Review : FlushPoints(r)

Next == RunStep \/ Fail \/ Crash

Spec == Init /\ [][Next]_vars

\* The operator runs the batch again until the venue is done, and a run that is not
\* stopped goes on.
FairSpec == Spec /\ WF_vars(RunStep)

--------------------------------------------------------------------------------
(* The inductive invariant.                                                *)

Eligible == Note \ Bare

\* What a run knows of the table: every eligible note is still to come, in the
\* buffer, or embedded; the flush has put the buffer into the table.
NotesAccountedFor ==
    /\ embedded \cup buffer \subseteq Eligible
    /\ pc \in {"scan", "papers"} => Eligible \subseteq todo \cup buffer \cup embedded
    /\ pc \in {"points", "checkpoint"} =>
          Eligible \subseteq todo \cup embedded /\ buffer \subseteq embedded
    /\ pc \in {"scan", "papers"} => buffer \cap embedded = {}
    /\ pc \notin {"down", "starting"} => todo \cap (embedded \cup buffer) \subseteq doneIds
    /\ doneIds \subseteq embedded

\* The extractions still to be stored are those of the batch in hand.
UnpointedOfBuffer ==
    /\ unpointed \subseteq ReviewsOf(buffer) \cap Pointed
    /\ pc # "points" => unpointed = {}

\* A batch of fewer than FLUSH_EVERY papers is flushed only after the loop.
ShortBatchIsLast ==
    /\ Cardinality(buffer) <= FLUSH_EVERY
    /\ pc = "scan" => Cardinality(buffer) < FLUSH_EVERY
    /\ pc \in {"papers", "points", "checkpoint"} /\ Cardinality(buffer) < FLUSH_EVERY =>
          todo = {}

\* The counters of the process add up to what the table holds or is about to hold.
CountersAddUp ==
    pc \notin {"down", "starting"} => Progress = Cardinality(embedded \cup buffer)

--------------------------------------------------------------------------------
(* Properties.                                                             *)

\* A venue marked done, which is_done keeps every later run from touching, has every
\* paper with a title and an abstract in the table, with its reviews: whichever
\* batches were committed, rolled back or never reached by the runs before.
DoneIsComplete ==
    venueStatus = "done" =>
        /\ embedded = Eligible
        /\ ReviewsOf(Eligible) \subseteq loaded

\* A paper in the table has the points of all its reviews, unless its batch is being
\* loaded or was interrupted between the two kinds of transaction of _flush.
PointsMissingOnlyWhereTorn ==
    ReviewsOf(embedded) \cap Pointed \subseteq pointed \cup unpointed \cup ReviewsOf(torn)

\* An interruption costs the points of one batch at most.
LossIsBounded == Cardinality(torn) <= stops * FLUSH_EVERY

\* The processed column never promises more papers than the table holds, and is exact
\* when the venue is done, although it is counted in the process and not read back.
ProcessedIsHonest ==
    /\ processed <= Cardinality(embedded)
    /\ venueStatus = "done" => processed = Cardinality(embedded)

\* Runs that stop are made good by running again: the venue gets done.
EventuallyDone == <>(venueStatus = "done")

IngestInv ==
    /\ TypeOK
    /\ NotesAccountedFor
    /\ UnpointedOfBuffer
    /\ ShortBatchIsLast
    /\ CountersAddUp
    /\ ReviewsOf(embedded) \subseteq loaded
    /\ DoneIsComplete
    /\ PointsMissingOnlyWhereTorn
    /\ LossIsBounded
    /\ ProcessedIsHonest

\* The header of run_ingest.py: a run that is cut off can be run again and carries on
\* from there, so a venue that is done has all its points.
ResumeLosesNothing ==
    venueStatus = "done" => ReviewsOf(embedded) \cap Pointed \subseteq pointed
================================================================================
