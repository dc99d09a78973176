---------------------------- MODULE PredictionStore ----------------------------
(***************************************************************************)
(* What the review_predictions rows of ONE submission promise to the rest  *)
(* of the program: the status column, and the ways a committed statement   *)
(* may change it.  Analysis.tla (the handlers and the background task) is  *)
(* shown to implement this module; Sharing.tla is built on top of it.      *)
(*                                                                         *)
(* A row is named by the POST /{submission_id}/analysis call that inserts  *)
(* it: start_prediction inserts one row at most, so the name is unique.    *)
(***************************************************************************)
CONSTANT Req            \* the POST .../analysis calls, hence the possible rows

VARIABLES
    exists,             \* the submissions row is there
    status              \* status column of each row, "absent" when there is none

storeVars == <<exists, status>>

\* models/analysis.py: the statuses that occupy the partial unique index.
IN_PROGRESS == {"pending", "running"}

Status == {"absent", "pending", "running", "done", "failed"}

StoreTypeOK ==
    /\ exists \in BOOLEAN
    /\ status \in [Req -> Status]

StoreInit ==
    /\ exists = TRUE
    /\ status = [r \in Req |-> "absent"]

--------------------------------------------------------------------------------
Active == {r \in Req : status[r] \in IN_PROGRESS}
Done   == {r \in Req : status[r] = "done"}
Rows   == {r \in Req : status[r] # "absent"}

\* Postgres refuses a statement that would leave a second row in progress.
IndexAllows(r) == Active \subseteq {r}

\* INSERT of a pending row.  The foreign key needs the submission.
InsertRow(r) ==
    /\ exists
    /\ status[r] = "absent"
    /\ Active = {}
    /\ status' = [status EXCEPT ![r] = "pending"]
    /\ UNCHANGED exists

\* The background task takes the row.  It does not look at the status first, so
\* a row that expire_stale failed meanwhile becomes running as well.
RunRow(r) ==
    /\ status[r] \in {"pending", "failed"}
    /\ IndexAllows(r)
    /\ status' = [status EXCEPT ![r] = "running"]
    /\ UNCHANGED exists

\* The background task records its outcome, again whatever the status is by then.
FinishRow(r) ==
    /\ status[r] \in {"running", "failed"}
    /\ \E s \in {"done", "failed"} : status' = [status EXCEPT ![r] = s]
    /\ UNCHANGED exists

\* expire_stale writes to the row it read as active; the task may have finished
\* the row in between, so a done row can be failed.
ExpireRow(r) ==
    /\ status[r] \in {"pending", "running", "done"}
    /\ status' = [status EXCEPT ![r] = "failed"]
    /\ UNCHANGED exists

\* DELETE of the submission cascades to its rows.
DeleteSubmission ==
    /\ exists
    /\ exists' = FALSE
    /\ status' = [r \in Req |-> "absent"]

StoreNext ==
    \/ \E r \in Req : InsertRow(r) \/ RunRow(r) \/ FinishRow(r) \/ ExpireRow(r)
    \/ DeleteSubmission

StoreSpec == StoreInit /\ [][StoreNext]_storeVars

--------------------------------------------------------------------------------
\* At most one analysis of the submission is in progress, whichever handler or
\* task wrote last (index review_predictions_one_active).
OneActive == \A q, r \in Active : q = r
================================================================================
