-------------------------------- MODULE Analysis --------------------------------
(***************************************************************************)
(* The analysis of one submission: app/services/analysis.py with the       *)
(* handlers of app/routers/submissions.py that call it.                    *)
(*                                                                         *)
(* Three kinds of thread work on the review_predictions rows, each through *)
(* a session of its own: POST .../analysis (start_analysis), which inserts *)
(* a row and hands it to a background task; GET .../analysis               *)
(* (get_analysis), which clients poll; and the background task             *)
(* (run_analysis).  A step is what happens up to a database round trip     *)
(* whose answer another thread can invalidate: SELECTs and COMMITs are     *)
(* separate steps, because Postgres runs at READ COMMITTED and nothing is  *)
(* locked between them.                                                    *)
(***************************************************************************)
EXTENDS Naturals, FiniteSets, PredictionStore

CONSTANTS
    Poller,             \* the clients that poll GET .../analysis
    None,               \* "no row"
    MaxCrashes          \* bound: how often the server process restarts

ASSUME AnalysisConstants ==
    /\ None \notin Req
    /\ Req \cap Poller = {}
    /\ MaxCrashes \in Nat

VARIABLES
    report,             \* the rows whose report and similar_paper_matches are saved
    error,              \* error column: "none", "stale" or "generic"
    createdAt,          \* created_at: start of the transaction that inserts
    now,                \* the database clock, as far as created_at needs it
    stale,              \* the rows older than STALE_AFTER
    pc,                 \* where each request handler stands
    victim,             \* the row expire_stale has read and is about to fail
    task,               \* where the background task of each row stands
    crashes

vars == <<exists, status, report, error, createdAt, now, stale, pc, victim,
          task, crashes>>

rowVars     == <<exists, status, report, error>>
handlerVars == <<pc, victim, createdAt, now>>

StartPc  == {"idle", "expiring", "lookup", "insert", "reread", "respond",
             "created", "reused", "refused"}
PollPc   == {"idle", "expiring", "answer"}
TaskPc   == {"none", "queued", "loaded", "analyzing", "ended"}
Answered == {"created", "reused", "refused"}

TypeOK ==
    /\ StoreTypeOK
    /\ report \subseteq Req
    /\ error \in [Req -> {"none", "stale", "generic"}]
    /\ createdAt \in [Req -> Nat]
    /\ now \in Nat
    /\ stale \subseteq Req
    /\ pc \in [Req \cup Poller -> StartPc \cup PollPc]
    /\ victim \in [Req \cup Poller -> Req \cup {None}]
    /\ task \in [Req -> TaskPc]
    /\ crashes \in 0..MaxCrashes

Init ==
    /\ StoreInit
    /\ report = {}
    /\ error = [r \in Req |-> "none"]
    /\ createdAt = [r \in Req |-> 0]
    /\ now = 0
    /\ stale = {}
    /\ pc = [h \in Req \cup Poller |-> "idle"]
    /\ victim = [h \in Req \cup Poller |-> None]
    /\ task = [r \in Req |-> "none"]
    /\ crashes = 0

--------------------------------------------------------------------------------
(* Queries of services/analysis.py.                                        *)

\* Variants: pending rows are never expired; the age is not tested.
ExpirableNoPending == {r \in stale : status[r] = "running"}
ExpirableAnyAge == Active

\* active_prediction with the age test of expire_stale: the row to fail.
Expirable == Active \cap stale

Goto(h, to) == pc' = [pc EXCEPT ![h] = to]

--------------------------------------------------------------------------------
(* expire_stale, which both handlers call first.                           *)

\* SELECT of the active row: nothing to do, or a row too old to be alive.
FindStale(h, otherwise) ==
    \/ /\ Expirable = {}
       /\ Goto(h, otherwise)
       /\ UNCHANGED victim
    \/ \E v \in Expirable :
          /\ Goto(h, "expiring")
          /\ victim' = [victim EXCEPT ![h] = v]

\* Variant: a status the column does not know.
ExpiryWritesNewStatus(v) ==
    /\ status' = [status EXCEPT ![v] = "expired"]
    /\ error' = [error EXCEPT ![v] = "stale"]
    /\ UNCHANGED <<exists, report>>

\* What the UPDATE by primary key writes over the row, whatever it holds by now.
ExpiryWrites(v) ==
    /\ status' = [status EXCEPT ![v] = "failed"]
    /\ error' = [error EXCEPT ![v] = "stale"]
    /\ UNCHANGED <<exists, report>>

\* The COMMIT.  A row deleted meanwhile matches nothing: StaleDataError, a 500.
CommitExpiry(h, next, failed) ==
    /\ pc[h] = "expiring"
    /\ victim' = [victim EXCEPT ![h] = None]
    /\ \/ /\ status[victim[h]] = "absent"
          /\ Goto(h, failed)
          /\ UNCHANGED rowVars
       \/ /\ status[victim[h]] # "absent"
          /\ ExpiryWrites(victim[h])
          /\ Goto(h, next)

--------------------------------------------------------------------------------
(* POST /{submission_id}/analysis: start_analysis and start_prediction.    *)

\* created_at is now() of Postgres, the start of the transaction: the first
\* SELECT of the request, or the first one after expire_stale committed.
BeginTransaction(r) ==
    /\ now' = now + 1
    /\ createdAt' = [createdAt EXCEPT ![r] = now + 1]

StartBegin(r) ==
    /\ pc[r] = "idle"
    /\ BeginTransaction(r)
    /\ \/ /\ exists
          /\ FindStale(r, "lookup")
       \/ /\ ~exists                            \* owned_submission: 404
          /\ Goto(r, "refused")
          /\ UNCHANGED victim
    /\ UNCHANGED <<rowVars, stale, task, crashes>>

StartExpire(r) ==
    /\ CommitExpiry(r, "lookup", "refused")
    /\ BeginTransaction(r)
    /\ UNCHANGED <<stale, task, crashes>>

\* active_prediction: a row in progress is handed back as it is.
StartLookup(r) ==
    /\ pc[r] = "lookup"
    /\ Goto(r, IF Active = {} THEN "insert" ELSE "reused")
    /\ UNCHANGED <<rowVars, createdAt, now, victim, stale, task, crashes>>

\* Variant: no partial unique index.
StartInsertUnchecked(r) ==
    /\ pc[r] = "insert"
    /\ exists
    /\ status' = [status EXCEPT ![r] = "pending"]
    /\ Goto(r, "respond")
    /\ UNCHANGED <<exists, report, error, createdAt, now, victim, stale, task, crashes>>

\* INSERT and COMMIT.  The index refuses a second active row, the foreign key a
\* row of a deleted submission: IntegrityError either way.
StartInsert(r) ==
    /\ pc[r] = "insert"
    /\ \/ /\ InsertRow(r)
          /\ Goto(r, "respond")
       \/ /\ ~exists \/ Active # {}
          /\ Goto(r, "reread")
          /\ UNCHANGED <<exists, status>>
    /\ UNCHANGED <<report, error, createdAt, now, victim, stale, task, crashes>>

\* After the rollback the other request's row is looked up; it may have finished
\* by then, and the IntegrityError goes out as a 500.
StartReread(r) ==
    /\ pc[r] = "reread"
    /\ Goto(r, IF Active = {} THEN "refused" ELSE "reused")
    /\ UNCHANGED <<rowVars, createdAt, now, victim, stale, task, crashes>>

\* db.refresh, then background_tasks.add_task and the 202.  refresh raises when
\* the row was deleted after the commit, and no task is registered.
StartRespond(r) ==
    /\ pc[r] = "respond"
    /\ \/ /\ status[r] # "absent"
          /\ task' = [task EXCEPT ![r] = "queued"]
          /\ Goto(r, "created")
       \/ /\ status[r] = "absent"
          /\ Goto(r, "refused")
          /\ UNCHANGED task
    /\ UNCHANGED <<rowVars, createdAt, now, victim, stale, crashes>>

\* Any round trip of the handler can raise (connection lost): a 500.  Between the
\* commit and add_task this leaves a pending row that no task will ever take.
StartAbort(r) ==
    /\ pc[r] \in {"expiring", "lookup", "insert", "reread", "respond"}
    /\ Goto(r, "refused")
    /\ victim' = [victim EXCEPT ![r] = None]
    /\ UNCHANGED <<rowVars, createdAt, now, stale, task, crashes>>

--------------------------------------------------------------------------------
(* GET /{submission_id}/analysis: get_analysis.                            *)

PollBegin(p) ==
    /\ pc[p] = "idle"
    /\ \/ /\ exists
          /\ FindStale(p, "answer")
       \/ /\ ~exists                            \* owned_submission: 404
          /\ UNCHANGED <<pc, victim>>
    /\ UNCHANGED <<rowVars, createdAt, now, stale, task, crashes>>

PollExpire(p) ==
    /\ CommitExpiry(p, "answer", "idle")
    /\ UNCHANGED <<createdAt, now, stale, task, crashes>>

\* latest_prediction and matches_for, or a 404 before the first analysis: reads only.
PollAnswer(p) ==
    /\ pc[p] = "answer"
    /\ Goto(p, "idle")
    /\ UNCHANGED <<rowVars, createdAt, now, victim, stale, task, crashes>>

\* A round trip of the poll raises; the client will ask again.
PollAbort(p) ==
    /\ pc[p] \in {"expiring", "answer"}
    /\ Goto(p, "idle")
    /\ victim' = [victim EXCEPT ![p] = None]
    /\ UNCHANGED <<rowVars, createdAt, now, stale, task, crashes>>

--------------------------------------------------------------------------------
(* run_analysis, the background task of row r.                             *)

EndTask(r) == task' = [task EXCEPT ![r] = "ended"]

\* db.get of the prediction and of its submission.
TaskLoad(r) ==
    /\ task[r] = "queued"
    /\ \/ /\ status[r] # "absent"
          /\ task' = [task EXCEPT ![r] = "loaded"]
       \/ /\ status[r] = "absent"
          /\ EndTask(r)
    /\ UNCHANGED <<rowVars, handlerVars, stale, crashes>>

\* Variant: neither the index nor a deleted row stops the task.
TaskMarkRunningUnchecked(r) ==
    /\ task[r] = "loaded"
    /\ status' = [status EXCEPT ![r] = "running"]
    /\ task' = [task EXCEPT ![r] = "analyzing"]
    /\ UNCHANGED <<exists, report, error, handlerVars, stale, crashes>>

\* status = "running" and COMMIT.  A deleted row (StaleDataError) or another row
\* in progress (IntegrityError) ends the task through the outer except.
TaskMarkRunning(r) ==
    /\ task[r] = "loaded"
    /\ \/ /\ RunRow(r)
          /\ task' = [task EXCEPT ![r] = "analyzing"]
       \/ /\ status[r] = "absent" \/ ~IndexAllows(r)
          /\ EndTask(r)
          /\ UNCHANGED <<exists, status>>
    /\ UNCHANGED <<report, error, handlerVars, stale, crashes>>

\* Variant: the status is committed before the report.
TaskDoneTwoCommits(r) ==
    /\ task[r] = "analyzing"
    /\ status[r] # "absent"
    /\ status' = [status EXCEPT ![r] = "done"]
    /\ EndTask(r)
    /\ UNCHANGED <<exists, report, error, handlerVars, stale, crashes>>

\* analyze() returned: report, matches and status go out in one COMMIT.  error is
\* not reset, and the status the row has by now is not looked at.
TaskDone(r) ==
    /\ task[r] = "analyzing"
    /\ status[r] # "absent"
    /\ status' = [status EXCEPT ![r] = "done"]
    /\ report' = report \cup {r}
    /\ EndTask(r)
    /\ UNCHANGED <<exists, error, handlerVars, stale, crashes>>

\* analyze() raised: _mark_failed with the generic message.
TaskFail(r) ==
    /\ task[r] = "analyzing"
    /\ status[r] # "absent"
    /\ status' = [status EXCEPT ![r] = "failed"]
    /\ error' = [error EXCEPT ![r] = "generic"]
    /\ EndTask(r)
    /\ UNCHANGED <<exists, report, handlerVars, stale, crashes>>

\* An exception that reaches the outer except: the last commit finds the row
\* deleted, or the database cannot be reached.  Rolled back, nothing is written.
TaskAbort(r) ==
    /\ task[r] \in {"queued", "loaded", "analyzing"}
    /\ EndTask(r)
    /\ UNCHANGED <<rowVars, handlerVars, stale, crashes>>

--------------------------------------------------------------------------------
(* The environment.                                                        *)

\* STALE_AFTER passes for a row in progress.  (For other rows it means nothing.)
GrowOld(r) ==
    /\ r \in Active \ stale
    /\ stale' = stale \cup {r}
    /\ UNCHANGED <<rowVars, handlerVars, task, crashes>>

\* DELETE /{submission_id}: the cascade takes rows, reports and matches along.
Delete ==
    /\ DeleteSubmission
    /\ report' = {}
    /\ error' = [r \in Req |-> "none"]
    /\ UNCHANGED <<handlerVars, stale, task, crashes>>

\* The one server process restarts: handlers and BackgroundTasks die, rows stay.
Crash ==
    /\ crashes < MaxCrashes
    /\ crashes' = crashes + 1
    /\ pc' = [h \in Req \cup Poller |->
                IF h \in Req /\ pc[h] \notin Answered \cup {"idle"} THEN "refused"
                ELSE IF h \in Poller THEN "idle" ELSE pc[h]]
    /\ victim' = [h \in Req \cup Poller |-> None]
    /\ task' = [r \in Req |-> IF task[r] = "none" THEN "none" ELSE "ended"]
    /\ UNCHANGED <<rowVars, createdAt, now, stale>>

--------------------------------------------------------------------------------
StartStep(r) ==
    \/ StartBegin(r) \/ StartExpire(r) \/ StartLookup(r) \/ StartInsert(r)
    \/ StartReread(r) \/ StartRespond(r) \/ StartAbort(r)

PollStep(p) == PollBegin(p) \/ PollExpire(p) \/ PollAnswer(p) \/ PollAbort(p)

TaskStep(r) ==
    \/ TaskLoad(r) \/ TaskMarkRunning(r) \/ TaskDone(r) \/ TaskFail(r)
    \/ TaskAbort(r)

Next ==
    \/ \E r \in Req : StartStep(r) \/ TaskStep(r) \/ GrowOld(r)
    \/ \E p \in Poller : PollStep(p)
    \/ Delete
    \/ Crash

Spec == Init /\ [][Next]_vars

\* Time passes, and a client that sees "in progress" asks again; its requests do not
\* all fail at the commit of expire_stale.  Nothing is assumed of the background task:
\* it may hang or die without a trace.
FairSpec ==
    /\ Spec
    /\ \A r \in Req : WF_vars(GrowOld(r))
    /\ \A p \in Poller : WF_vars(PollStep(p)) /\ SF_vars(PollExpire(p))

--------------------------------------------------------------------------------
(* The inductive invariant behind the properties: what a handler or a task *)
(* may rely on when it acts on something it read earlier.                  *)

BeforeInsert == {"idle", "expiring", "lookup", "insert", "reread"}

\* A row appears with its own request's insert, and the request's task is alone in
\* taking it further; only the deletion of the submission makes it disappear.
RowFollowsTask ==
    \A r \in Req :
        /\ pc[r] \in BeforeInsert => status[r] = "absent"
        /\ pc[r] \in BeforeInsert \cup {"respond"} => task[r] = "none"
        /\ task[r] \in {"none", "queued", "loaded"} =>
              status[r] \in {"absent", "pending", "failed"}
        /\ task[r] = "analyzing" => status[r] \in {"absent", "running", "failed"}
        /\ r \in report => task[r] = "ended"
        /\ exists /\ (task[r] # "none" \/ pc[r] = "respond") => status[r] # "absent"

\* The row expire_stale is about to fail was over age when it was read, and stays so.
VictimsAreStale ==
    \A h \in Req \cup Poller : pc[h] = "expiring" => victim[h] \in stale

\* A run within STALE_AFTER still holds the slot it was given.
FreshRunHoldsSlot ==
    \A r \in Req : task[r] = "analyzing" /\ r \notin stale =>
        status[r] \in {"absent", "running"}

--------------------------------------------------------------------------------
(* Properties.                                                             *)

\* What a row says fits together, although expire_stale and the task overwrite
\* each other's columns: a done row has its report and matches, a failed row says
\* why, and a row in progress has no result yet (docstring of get_analysis).
RowsCoherent ==
    \A r \in Req :
        /\ status[r] = "done" => r \in report
        /\ status[r] = "failed" => error[r] # "none"
        /\ status[r] \in IN_PROGRESS => r \notin report

\* Two analyses of the submission run at the same time only when the older one
\* outlived STALE_AFTER: that is all the "no duplicate run" of the index is worth
\* against a task that is slow rather than dead.
NoFreshDuplicateRun ==
    exists => \A q, r \in {t \in Req : task[t] = "analyzing"} \ stale : q = r

\* A finished result is withdrawn only together with its submission, or by an
\* expire_stale that had read the row, already stale, before the task finished it.
DoneWithdrawnOnlyByExpiry ==
    [][\A r \in Done :
          \/ status'[r] = "done"
          \/ ~exists'
          \/ r \in stale /\ \E h \in Req \cup Poller : victim[h] = r /\ victim'[h] = None]_vars

\* Every row in progress gives its slot back in the end, whatever becomes of the
\* server and of the task, as long as a client polls: the submission can always be
\* analysed again.
SlotFreed == <>[](Active = {})

\* The handlers and the task implement the row store that the other modules see: of
\* all their state only the committed columns remain, and every step of a handler, of
\* the task, of time and of the server is a step of the store or none.
Store == INSTANCE PredictionStore WITH Req <- Req, exists <- exists, status <- status
ImplementsStore == Store!StoreSpec

\* The invariant the proofs carry along.
IInv ==
    /\ TypeOK
    /\ OneActive
    /\ RowsCoherent
    /\ RowFollowsTask
    /\ VictimsAreStale
    /\ FreshRunHoldsSlot
================================================================================
