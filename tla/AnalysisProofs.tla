----------------------------- MODULE AnalysisProofs -----------------------------
(***************************************************************************)
(* The invariants of Analysis.tla for any number of requests, pollers and  *)
(* restarts.  Each action preserves IInv: one lemma per group of actions,  *)
(* assembled in Inductive.                                                 *)
(***************************************************************************)
EXTENDS Analysis, TLAPS

LEMMA InitIInv == Init => IInv
<1> SUFFICES ASSUME Init PROVE IInv
    OBVIOUS
<1> USE DEF Init, StoreInit
<1>1. TypeOK
    BY AnalysisConstants DEF TypeOK, StoreTypeOK, Status, StartPc, PollPc, TaskPc
<1>2. OneActive /\ RowsCoherent /\ FreshRunHoldsSlot
    BY DEF OneActive, Active, IN_PROGRESS, RowsCoherent, FreshRunHoldsSlot
<1>3. RowFollowsTask /\ VictimsAreStale
    BY DEF RowFollowsTask, VictimsAreStale, BeforeInsert
<1> QED
    BY <1>1, <1>2, <1>3 DEF IInv

\* The steps of POST .../analysis.
LEMMA StartStepIInv ==
    ASSUME IInv, NEW r \in Req, StartStep(r)
    PROVE  IInv'
<1> USE AnalysisConstants
        DEF IInv, TypeOK, StoreTypeOK, Status, StartPc, PollPc, TaskPc, OneActive,
            Active, IN_PROGRESS, RowsCoherent, RowFollowsTask, BeforeInsert,
            VictimsAreStale, FreshRunHoldsSlot, Goto, BeginTransaction, rowVars
<1>1. CASE StartBegin(r)
    BY <1>1 DEF StartBegin, FindStale, Expirable
<1>2. CASE StartExpire(r)
    BY <1>2 DEF StartExpire, CommitExpiry, ExpiryWrites
<1>3. CASE StartLookup(r)
    BY <1>3 DEF StartLookup
<1>4. CASE StartInsert(r)
    BY <1>4 DEF StartInsert, InsertRow
<1>5. CASE StartReread(r)
    BY <1>5 DEF StartReread
<1>6. CASE StartRespond(r)
    BY <1>6 DEF StartRespond
<1>7. CASE StartAbort(r)
    BY <1>7 DEF StartAbort
<1> QED
    BY <1>1, <1>2, <1>3, <1>4, <1>5, <1>6, <1>7 DEF StartStep

\* The steps of GET .../analysis.
LEMMA PollStepIInv ==
    ASSUME IInv, NEW p \in Poller, PollStep(p)
    PROVE  IInv'
<1> USE AnalysisConstants
        DEF IInv, TypeOK, StoreTypeOK, Status, StartPc, PollPc, TaskPc, OneActive,
            Active, IN_PROGRESS, RowsCoherent, RowFollowsTask, BeforeInsert,
            VictimsAreStale, FreshRunHoldsSlot, Goto, rowVars
<1>1. CASE PollBegin(p)
    BY <1>1 DEF PollBegin, FindStale, Expirable
<1>2. CASE PollExpire(p)
    BY <1>2 DEF PollExpire, CommitExpiry, ExpiryWrites
<1>3. CASE PollAnswer(p)
    BY <1>3 DEF PollAnswer
<1>4. CASE PollAbort(p)
    BY <1>4 DEF PollAbort
<1> QED
    BY <1>1, <1>2, <1>3, <1>4 DEF PollStep

\* The steps of the background task.
LEMMA TaskStepIInv ==
    ASSUME IInv, NEW r \in Req, TaskStep(r)
    PROVE  IInv'
<1> USE AnalysisConstants
        DEF IInv, TypeOK, StoreTypeOK, Status, StartPc, PollPc, TaskPc, OneActive,
            Active, IN_PROGRESS, RowsCoherent, RowFollowsTask, BeforeInsert,
            VictimsAreStale, FreshRunHoldsSlot, EndTask, rowVars, handlerVars
<1>1. CASE TaskLoad(r)
    BY <1>1 DEF TaskLoad
<1>2. CASE TaskMarkRunning(r)
    BY <1>2 DEF TaskMarkRunning, RunRow, IndexAllows
<1>3. CASE TaskDone(r)
    BY <1>3 DEF TaskDone
<1>4. CASE TaskFail(r)
    BY <1>4 DEF TaskFail
<1>5. CASE TaskAbort(r)
    BY <1>5 DEF TaskAbort
<1> QED
    BY <1>1, <1>2, <1>3, <1>4, <1>5 DEF TaskStep

\* Time, the deletion of the submission, a restart, and stuttering.
LEMMA EnvironmentIInv ==
    ASSUME IInv, (\E r \in Req : GrowOld(r)) \/ Delete \/ Crash \/ UNCHANGED vars
    PROVE  IInv'
<1> USE AnalysisConstants
        DEF IInv, TypeOK, StoreTypeOK, Status, StartPc, PollPc, TaskPc, OneActive,
            Active, IN_PROGRESS, RowsCoherent, RowFollowsTask, BeforeInsert,
            VictimsAreStale, FreshRunHoldsSlot, rowVars, handlerVars
<1>1. CASE \E r \in Req : GrowOld(r)
    BY <1>1 DEF GrowOld
<1>2. CASE Delete
    BY <1>2 DEF Delete, DeleteSubmission
<1>3. CASE Crash
    BY <1>3 DEF Crash, Answered
<1>4. CASE UNCHANGED vars
    BY <1>4 DEF vars
<1> QED
    BY <1>1, <1>2, <1>3, <1>4

LEMMA Inductive == IInv /\ [Next]_vars => IInv'
    BY StartStepIInv, PollStepIInv, TaskStepIInv, EnvironmentIInv DEF Next

\* Every reachable state satisfies the inductive invariant.
THEOREM Invariance == Spec => []IInv
    BY InitIInv, Inductive, PTL DEF Spec

--------------------------------------------------------------------------------
(* What the invariant gives: the properties TLC checks on small instances. *)

\* Every column and program counter keeps its type, whatever the interleaving.
THEOREM TypeCorrect == Spec => []TypeOK
    BY Invariance, PTL DEF IInv

\* The submission never has two analyses in progress (the partial unique index
\* against start_prediction, run_analysis and expire_stale together).
THEOREM AtMostOneActive == Spec => []OneActive
    BY Invariance, PTL DEF IInv

\* Report, error and status of every row fit together.
THEOREM RowsAlwaysCoherent == Spec => []RowsCoherent
    BY Invariance, PTL DEF IInv

\* Two runs overlap only when one of them outlived STALE_AFTER.  A fresh run holds
\* the slot (FreshRunHoldsSlot), its row is there as long as the submission is
\* (RowFollowsTask), and there is one slot (OneActive).
THEOREM FreshRunsNeverOverlap == Spec => []NoFreshDuplicateRun
<1>1. IInv => NoFreshDuplicateRun
  <2> SUFFICES ASSUME IInv, exists,
                      NEW q \in Req, task[q] = "analyzing", q \notin stale,
                      NEW r \in Req, task[r] = "analyzing", r \notin stale
               PROVE  q = r
      BY DEF NoFreshDuplicateRun
  <2>1. status[q] = "running" /\ status[r] = "running"
      BY DEF IInv, RowFollowsTask, FreshRunHoldsSlot
  <2> QED
      BY <2>1 DEF IInv, OneActive, Active, IN_PROGRESS
<1> QED
    BY <1>1, Invariance, PTL

\* A done row is taken back only by the deletion of the submission, or by an
\* expire_stale that read the row when it was stale and still in progress.
THEOREM DoneWithdrawnOnlyByStaleExpiry == Spec => DoneWithdrawnOnlyByExpiry
<1> DEFINE Withdrawn(r) == r \in stale /\ \E h \in Req \cup Poller :
                               victim[h] = r /\ victim'[h] = None
<1>1. ASSUME IInv, Next, NEW r \in Done
      PROVE  status'[r] = "done" \/ ~exists' \/ Withdrawn(r)
  <2> USE <1>1 DEF Done, IInv, TypeOK, StoreTypeOK, rowVars
  <2>1. r \in Req /\ status[r] = "done" /\ task[r] \notin {"none", "queued", "loaded", "analyzing"}
      BY DEF RowFollowsTask
  <2>2. ASSUME NEW h \in Req \cup Poller, NEW to, NEW other, CommitExpiry(h, to, other)
        PROVE  status'[r] = "done" \/ Withdrawn(r)
      BY <2>1, <2>2 DEF CommitExpiry, ExpiryWrites, VictimsAreStale
  <2>3. ASSUME NEW q \in Req, StartStep(q)
        PROVE  status'[r] = "done" \/ Withdrawn(r)
      BY <2>1, <2>2, <2>3 DEF StartStep, StartBegin, StartExpire, StartLookup,
         StartInsert, InsertRow, StartReread, StartRespond, StartAbort
  <2>4. ASSUME NEW q \in Req, TaskStep(q)
        PROVE  status'[r] = "done"
      BY <2>1, <2>4 DEF TaskStep, TaskLoad, TaskMarkRunning, RunRow, TaskDone,
         TaskFail, TaskAbort
  <2>5. ASSUME NEW p \in Poller, PollStep(p)
        PROVE  status'[r] = "done" \/ Withdrawn(r)
      BY <2>1, <2>2, <2>5 DEF PollStep, PollBegin, PollExpire, PollAnswer, PollAbort
  <2>6. CASE Delete \/ Crash \/ \E q \in Req : GrowOld(q)
      BY <2>1, <2>6 DEF Delete, DeleteSubmission, Crash, GrowOld
  <2> QED
      BY <2>3, <2>4, <2>5, <2>6 DEF Next
<1>2. IInv /\ [Next]_vars =>
          [\A r \in Done :
              \/ status'[r] = "done"
              \/ ~exists'
              \/ r \in stale /\ \E h \in Req \cup Poller :
                     victim[h] = r /\ victim'[h] = None]_vars
    BY <1>1
<1> QED
    BY <1>2, Invariance, PTL DEF Spec, DoneWithdrawnOnlyByExpiry

\* The threads implement the row store.  A step of theirs is an insert, a run, a
\* finish, an expiry or the deletion of the store, or changes neither variable:
\* StartInsert and TaskMarkRunning contain the store's actions, the others map as
\* RowFollowsTask says where each row can stand.
THEOREM ImplementsRowStore == Spec => ImplementsStore
<1>1. Init => StoreInit
    BY DEF Init
<1>2. ASSUME IInv, Next
      PROVE  StoreNext \/ UNCHANGED storeVars
  <2> USE <1>2 DEF IInv, TypeOK, StoreTypeOK, Status, rowVars, storeVars
  <2>1. ASSUME NEW h \in Req \cup Poller, NEW to, NEW other, CommitExpiry(h, to, other)
        PROVE  (\E v \in Req : ExpireRow(v)) \/ UNCHANGED storeVars
    <3>1. victim[h] \in Req
        BY <2>1 DEF CommitExpiry, VictimsAreStale
    <3>2. CASE status[victim[h]] \in {"absent", "failed"}
        BY <2>1, <3>1, <3>2 DEF CommitExpiry, ExpiryWrites
    <3>3. CASE status[victim[h]] \notin {"absent", "failed"}
      <4>1. ExpireRow(victim[h])
          BY <2>1, <3>1, <3>3 DEF CommitExpiry, ExpiryWrites, ExpireRow
      <4> QED
          BY <3>1, <4>1
    <3> QED
        BY <3>2, <3>3
  <2>2. ASSUME NEW r \in Req, StartStep(r)
        PROVE  StoreNext \/ UNCHANGED storeVars
      BY <2>1, <2>2 DEF StartStep, StartBegin, StartExpire, StartLookup, StartInsert,
         StartReread, StartRespond, StartAbort, StoreNext
  <2>3. ASSUME NEW r \in Req, TaskStep(r)
        PROVE  StoreNext \/ UNCHANGED storeVars
    <3>1. CASE TaskDone(r) \/ TaskFail(r)
      <4>1. status[r] \in {"running", "failed"}
          BY <3>1 DEF TaskDone, TaskFail, RowFollowsTask
      <4>2. FinishRow(r)
          BY <3>1, <4>1 DEF TaskDone, TaskFail, FinishRow
      <4> QED
          BY <4>2 DEF StoreNext
    <3>2. CASE TaskLoad(r) \/ TaskMarkRunning(r) \/ TaskAbort(r)
        BY <3>2 DEF TaskLoad, TaskMarkRunning, TaskAbort, StoreNext
    <3> QED
        BY <2>3, <3>1, <3>2 DEF TaskStep
  <2>4. ASSUME NEW p \in Poller, PollStep(p)
        PROVE  StoreNext \/ UNCHANGED storeVars
      BY <2>1, <2>4 DEF PollStep, PollBegin, PollExpire, PollAnswer,
         PollAbort, StoreNext
  <2>5. CASE Delete \/ Crash \/ \E r \in Req : GrowOld(r)
      BY <2>5 DEF Delete, Crash, GrowOld, StoreNext
  <2> QED
      BY <2>2, <2>3, <2>4, <2>5 DEF Next
<1>3. IInv /\ [Next]_vars => [StoreNext]_storeVars
    BY <1>2 DEF vars, storeVars
<1>4. StoreInit => Store!StoreInit
    BY DEF StoreInit, Store!StoreInit
<1>5. [StoreNext]_storeVars => [Store!StoreNext]_(Store!storeVars)
    BY DEF StoreNext, InsertRow, RunRow, FinishRow, ExpireRow, DeleteSubmission,
       IndexAllows, Active, IN_PROGRESS, storeVars,
       Store!StoreNext, Store!InsertRow, Store!RunRow, Store!FinishRow, Store!ExpireRow,
       Store!DeleteSubmission, Store!IndexAllows, Store!Active, Store!IN_PROGRESS,
       Store!storeVars
<1> QED
    BY <1>1, <1>3, <1>4, <1>5, Invariance, PTL DEF Spec, Store!StoreSpec, ImplementsStore
================================================================================
