----------------------------- MODULE Retention -----------------------------
(* The PDF of one submission: what scripts/purge_expired_pdfs.py takes away *)
(* and what an analysis that runs in another process finds. The analyses    *)
(* are the row store of PredictionStore, with the reading of the deferred   *)
(* column pdf_bytes, which is a SELECT of its own.                          *)
EXTENDS PredictionStore, Naturals

CONSTANT MaxWaits   \* bound on the times that the retention period goes by

VARIABLES
    pdf,        \* pdf_bytes is there
    quiet,      \* upload and newest created_at are past the retention period
    purge,      \* the UPDATE: "idle", or "chosen" when its snapshot selected the row
    task,       \* of each analysis: "none", "due", "read", "blind" or "over"
    waits,
    promised    \* history: analyses begun with the PDF there and outside the UPDATE

retentionVars == <<storeVars, pdf, quiet, purge, task, waits, promised>>

RetentionInit ==
    /\ StoreInit
    /\ pdf = TRUE /\ quiet = FALSE /\ purge = "idle"
    /\ task = [r \in Req |-> "none"]
    /\ waits = 0 /\ promised = {}

(* Variant: the period counts from the upload.                              *)
BeginAnalysisUncounted(r) ==
    /\ InsertRow(r)
    /\ task' = [task EXCEPT ![r] = "due"]
    /\ promised' = IF pdf /\ purge = "idle" THEN promised \cup {r} ELSE promised
    /\ UNCHANGED <<pdf, quiet, purge, waits>>

(* The new row is the latest activity: max(created_at) is young again.      *)
BeginAnalysis(r) ==
    /\ InsertRow(r)
    /\ quiet' = FALSE
    /\ task' = [task EXCEPT ![r] = "due"]
    /\ promised' = IF pdf /\ purge = "idle" THEN promised \cup {r} ELSE promised
    /\ UNCHANGED <<pdf, purge, waits>>

(* Whatever else the handlers and the task do to the rows.                  *)
AnalysisGoesOn ==
    /\ \/ \E r \in Req : RunRow(r) \/ FinishRow(r) \/ ExpireRow(r)
       \/ DeleteSubmission
    /\ UNCHANGED <<pdf, quiet, purge, task, waits, promised>>

(* submission.pdf_bytes in the call of analyze(); without it the selection  *)
(* falls back on the stub.                                                  *)
ReadPdf(r) ==
    /\ exists
    /\ task[r] = "due"
    /\ status[r] \in {"running", "failed"}
    /\ task' = [task EXCEPT ![r] = IF pdf THEN "read" ELSE "blind"]
    /\ UNCHANGED <<storeVars, pdf, quiet, purge, waits, promised>>

(* The period goes by: longer than any task lives, and a restart ends those *)
(* that had not read yet. Rows that nobody polls stay as they are.          *)
PeriodPasses ==
    /\ waits < MaxWaits
    /\ purge = "idle"
    /\ waits' = waits + 1
    /\ quiet' = TRUE
    /\ task' = [r \in Req |-> IF task[r] = "due" THEN "over" ELSE task[r]]
    /\ UNCHANGED <<storeVars, pdf, purge, promised>>

(* The conditions of the UPDATE, as its snapshot sees them.                 *)
Choose ==
    /\ purge = "idle"
    /\ exists /\ pdf /\ quiet
    /\ Active = {}
    /\ purge' = "chosen"
    /\ UNCHANGED <<storeVars, pdf, quiet, task, waits, promised>>

(* An INSERT meanwhile only shares the lock of the key, so it neither waits *)
(* nor makes the UPDATE look again.                                         *)
CommitPurge ==
    /\ purge = "chosen"
    /\ purge' = "idle"
    /\ pdf' = FALSE
    /\ UNCHANGED <<storeVars, quiet, task, waits, promised>>

RetentionNext ==
    \/ \E r \in Req : BeginAnalysis(r) \/ ReadPdf(r)
    \/ AnalysisGoesOn \/ PeriodPasses \/ Choose \/ CommitPurge

RetentionSpec == RetentionInit /\ [][RetentionNext]_retentionVars

-----------------------------------------------------------------------------
(* What a purge can take from an analysis is confined to its one statement: *)
(* an analysis that finds no PDF either began when there was none, or began *)
(* after the UPDATE had chosen the row and before it committed. However     *)
(* slow, expired, retried or overtaken by the retention period an analysis  *)
(* is, one begun before the UPDATE reads its PDF. Those begun inside it do  *)
(* lose theirs, against the docstring of the script.                        *)
PurgeSparesAnalyses == \A r \in promised : task[r] # "blind"
=============================================================================
