----------------------------- MODULE SharingProofs -----------------------------
(***************************************************************************)
(* The invariants of Sharing.tla for any number of calls and of analyses.  *)
(***************************************************************************)
EXTENDS Sharing, TLAPS

--------------------------------------------------------------------------------
(* The inductive invariant.                                                *)

BeforeInsert == {"idle", "check", "insert"}

\* The index submission_shares_one_active, and the foreign key.
OneLive ==
    /\ \A i, j \in Live : i = j
    /\ ~exists => Live = {}

\* A link appears with its own call's insert, so a name that a DELETE has seen is
\* never given away again; whoever returns, stamps or shuts a link has read it.
LinkFollowsCall ==
    /\ \A i \in Issuer : pc[i] \in BeforeInsert => link[i] = "absent"
    /\ \A i \in Issuer : pc[i] \in {"refresh", "returned"} => target[i] \in Issuer
    /\ \A k \in Revoker : pc[k] = "stamp" => target[k] \in Issuer /\ shutBy[k] = {target[k]}
    /\ \A k \in Revoker : pc[k] = "idle" => shutBy[k] = {}
    /\ \A k \in Revoker : \A i \in shutBy[k] : pc[i] \notin BeforeInsert

\* What an answered DELETE found live is live no more.
ShutIsNotLive == Shut \cap Live = {}

\* A call that is past the check, and a link that is live, have a finished analysis
\* behind them, as long as none was taken back.
ResultBehindLink ==
    /\ LinkHasResult
    /\ \A i \in Issuer : pc[i] = "insert" /\ exists /\ ~withdrawn => Done # {}

\* A viewer who came after the DELETE was turned away.
LateViewersRefused == \A v \in openedShut : pc[v] = "refused"

IInv ==
    /\ TypeOK
    /\ OneLive
    /\ LinkFollowsCall
    /\ ShutIsNotLive
    /\ ResultBehindLink
    /\ LateViewersRefused

LEMMA InitIInv == Init => IInv
<1> SUFFICES ASSUME Init PROVE IInv
    OBVIOUS
<1> USE DEF Init, StoreInit
<1>1. TypeOK
    BY DEF TypeOK, StoreTypeOK, Status, Pc, Call
<1>2. Live = {} /\ Shut = {}
    BY DEF Live, Shut, Call
<1>3. LinkFollowsCall
    BY DEF LinkFollowsCall, BeforeInsert, Call
<1> QED
    BY <1>1, <1>2, <1>3 DEF IInv, OneLive, ShutIsNotLive, ResultBehindLink,
        LinkHasResult, LateViewersRefused, Call

\* The steps of POST .../share.
LEMMA IssueStepIInv ==
    ASSUME IInv, NEW i \in Issuer, IssueStep(i)
    PROVE  IInv'
<1> USE SharingConstants DEF IInv, Goto, Aim, Call
<1>1. CASE IssueBegin(i)
    <2> USE <1>1 DEF IssueBegin, Refuse404, storeVars
    <2>1. TypeOK'
        BY DEF TypeOK, StoreTypeOK, Pc, Live
    <2>2. LinkFollowsCall'
        BY DEF LinkFollowsCall, BeforeInsert, Live, TypeOK
    <2>3. OneLive' /\ ShutIsNotLive' /\ LateViewersRefused'
        BY DEF OneLive, ShutIsNotLive, LateViewersRefused, Live, Shut, TypeOK
    <2>4. ResultBehindLink'
        BY DEF ResultBehindLink, LinkHasResult, Live, Done, TypeOK
    <2> QED
        BY <2>1, <2>2, <2>3, <2>4
<1>2. CASE IssueCheck(i)
    <2> USE <1>2 DEF IssueCheck, storeVars
    <2>1. TypeOK'
        BY DEF TypeOK, StoreTypeOK, Pc
    <2>2. LinkFollowsCall'
        BY DEF LinkFollowsCall, BeforeInsert, TypeOK
    <2>3. OneLive' /\ ShutIsNotLive' /\ LateViewersRefused'
        BY DEF OneLive, ShutIsNotLive, LateViewersRefused, Live, Shut, TypeOK
    <2>4. ResultBehindLink'
        BY DEF ResultBehindLink, LinkHasResult, Live, Done, TypeOK
    <2> QED
        BY <2>1, <2>2, <2>3, <2>4
<1>3. CASE IssueInsert(i)
    <2> USE <1>3 DEF IssueInsert, storeVars
    <2>1. TypeOK'
        BY DEF TypeOK, StoreTypeOK, Pc
    <2>2. LinkFollowsCall'
        BY DEF LinkFollowsCall, BeforeInsert, TypeOK
    <2>3. OneLive'
        BY DEF OneLive, Live, TypeOK
    <2>4. ShutIsNotLive'
        BY DEF ShutIsNotLive, LinkFollowsCall, BeforeInsert, Live, Shut, TypeOK
    <2>5. LateViewersRefused'
        BY DEF LateViewersRefused, TypeOK
    <2>6. ResultBehindLink'
        BY DEF ResultBehindLink, LinkHasResult, Live, Done, TypeOK
    <2> QED
        BY <2>1, <2>2, <2>3, <2>4, <2>5, <2>6
<1>4. CASE IssueReread(i)
    <2> USE <1>4 DEF IssueReread, storeVars
    <2>1. TypeOK'
        BY DEF TypeOK, StoreTypeOK, Pc, Live
    <2>2. LinkFollowsCall'
        BY DEF LinkFollowsCall, BeforeInsert, Live, TypeOK
    <2>3. OneLive' /\ ShutIsNotLive' /\ LateViewersRefused'
        BY DEF OneLive, ShutIsNotLive, LateViewersRefused, Live, Shut, TypeOK
    <2>4. ResultBehindLink'
        BY DEF ResultBehindLink, LinkHasResult, Live, Done, TypeOK
    <2> QED
        BY <2>1, <2>2, <2>3, <2>4
<1>5. CASE IssueRefresh(i)
    <2> USE <1>5 DEF IssueRefresh, storeVars
    <2>1. TypeOK'
        BY DEF TypeOK, StoreTypeOK, Pc
    <2>2. LinkFollowsCall'
        BY DEF LinkFollowsCall, BeforeInsert, TypeOK
    <2>3. OneLive' /\ ShutIsNotLive' /\ LateViewersRefused'
        BY DEF OneLive, ShutIsNotLive, LateViewersRefused, Live, Shut, TypeOK
    <2>4. ResultBehindLink'
        BY DEF ResultBehindLink, LinkHasResult, Live, Done, TypeOK
    <2> QED
        BY <2>1, <2>2, <2>3, <2>4
<1> QED
    BY <1>1, <1>2, <1>3, <1>4, <1>5 DEF IssueStep


\* The steps of DELETE .../share.  The stamp makes its target revoked, and the target
\* is all that was live when the call began.
LEMMA RevokeStepIInv ==
    ASSUME IInv, NEW k \in Revoker, RevokeBegin(k) \/ RevokeCommit(k)
    PROVE  IInv'
<1> USE SharingConstants DEF IInv, Goto, Aim, Call
<1>1. CASE RevokeBegin(k)
    <2> USE <1>1 DEF RevokeBegin, Refuse404, storeVars
    <2>1. TypeOK'
        BY DEF TypeOK, StoreTypeOK, Pc, Live
    <2>2. LinkFollowsCall'
        BY DEF LinkFollowsCall, OneLive, BeforeInsert, Live, TypeOK
    <2>3. OneLive' /\ LateViewersRefused'
        BY DEF OneLive, LateViewersRefused, Live, TypeOK
    <2>4. ShutIsNotLive'
        BY DEF ShutIsNotLive, OneLive, Live, Shut, TypeOK
    <2>5. ResultBehindLink'
        BY DEF ResultBehindLink, LinkHasResult, Live, Done, TypeOK
    <2> QED
        BY <2>1, <2>2, <2>3, <2>4, <2>5
<1>2. CASE RevokeCommit(k)
    <2> USE <1>2 DEF RevokeCommit, storeVars
    <2>1. TypeOK'
        BY DEF TypeOK, StoreTypeOK, Pc
    <2>2. LinkFollowsCall'
        BY DEF LinkFollowsCall, BeforeInsert, TypeOK
    <2>3. OneLive' /\ LateViewersRefused'
        BY DEF OneLive, LateViewersRefused, Live, TypeOK
    <2>4. ShutIsNotLive'
        BY DEF ShutIsNotLive, LinkFollowsCall, Live, Shut, TypeOK
    <2>5. ResultBehindLink'
        BY DEF ResultBehindLink, LinkHasResult, Live, Done, TypeOK
    <2> QED
        BY <2>1, <2>2, <2>3, <2>4, <2>5
<1> QED
    BY <1>1, <1>2

\* The steps of GET /api/shared/{token}.
LEMMA ViewStepIInv ==
    ASSUME IInv, NEW v \in Viewer, ViewResult(v) \/ \E i \in Issuer : ViewToken(v, i)
    PROVE  IInv'
<1> USE SharingConstants DEF IInv, Goto, Aim, Call
<1>1. CASE ViewResult(v)
    <2> USE <1>1 DEF ViewResult, storeVars
    <2>1. TypeOK'
        BY DEF TypeOK, StoreTypeOK, Pc
    <2>2. LinkFollowsCall'
        BY DEF LinkFollowsCall, BeforeInsert, TypeOK
    <2>3. OneLive' /\ ShutIsNotLive' /\ LateViewersRefused'
        BY DEF OneLive, ShutIsNotLive, LateViewersRefused, Live, Shut, TypeOK
    <2>4. ResultBehindLink'
        BY DEF ResultBehindLink, LinkHasResult, Live, Done, TypeOK
    <2> QED
        BY <2>1, <2>2, <2>3, <2>4
<1>2. ASSUME NEW i \in Issuer, ViewToken(v, i)
      PROVE  IInv'
    <2> USE <1>2 DEF ViewToken, storeVars
    <2>1. TypeOK'
        BY DEF TypeOK, StoreTypeOK, Pc
    <2>2. LinkFollowsCall'
        BY DEF LinkFollowsCall, BeforeInsert, TypeOK
    <2>3. OneLive' /\ ShutIsNotLive'
        BY DEF OneLive, ShutIsNotLive, Live, Shut, TypeOK
    <2>4. LateViewersRefused'
        BY DEF LateViewersRefused, ShutIsNotLive, Live, TypeOK
    <2>5. ResultBehindLink'
        BY DEF ResultBehindLink, LinkHasResult, Live, Done, TypeOK
    <2> QED
        BY <2>1, <2>2, <2>3, <2>4, <2>5
<1> QED
    BY <1>1, <1>2

\* The rows under the links.  A done row stays done unless it is failed, which
\* withdrawn records, or the submission goes, which takes the links too.
LEMMA AnalysisStepIInv ==
    ASSUME IInv, AnalysisStep
    PROVE  IInv'
<1> USE SharingConstants DEF IInv, AnalysisStep
<1>1. \/ exists' = exists /\ link' = link
      \/ exists' = FALSE /\ link' = [i \in Issuer |-> "absent"]
    BY DEF StoreNext, InsertRow, RunRow, FinishRow, ExpireRow, DeleteSubmission,
        TypeOK, StoreTypeOK
<1>2. TypeOK'
    <2>1. exists' \in BOOLEAN /\ status' \in [Req -> Status]
        BY DEF StoreNext, InsertRow, RunRow, FinishRow, ExpireRow, DeleteSubmission,
            TypeOK, StoreTypeOK, Status
    <2> QED
        BY <1>1, <2>1 DEF TypeOK, StoreTypeOK
<1>3. LinkFollowsCall'
    BY <1>1 DEF LinkFollowsCall, BeforeInsert, TypeOK, Call
<1>4. OneLive' /\ ShutIsNotLive' /\ LateViewersRefused'
    BY <1>1 DEF OneLive, ShutIsNotLive, LateViewersRefused, Live, Shut, TypeOK
<1>5. exists' /\ ~withdrawn' => Done \subseteq Done' /\ ~withdrawn /\ exists
    BY DEF StoreNext, InsertRow, RunRow, FinishRow, ExpireRow, DeleteSubmission, Done,
        TypeOK, StoreTypeOK
<1>6. ResultBehindLink'
    BY <1>1, <1>4, <1>5 DEF ResultBehindLink, LinkHasResult, OneLive, Live
<1> QED
    BY <1>2, <1>3, <1>4, <1>6

LEMMA Inductive == IInv /\ [Next]_vars => IInv'
<1>1. ASSUME IInv, UNCHANGED vars
      PROVE  IInv'
    BY <1>1 DEF vars, storeVars, shareVars, IInv, TypeOK, StoreTypeOK, OneLive,
        LinkFollowsCall, ShutIsNotLive, ResultBehindLink, LinkHasResult,
        LateViewersRefused, Live, Shut, Done
<1> QED
    BY <1>1, IssueStepIInv, RevokeStepIInv, ViewStepIInv, AnalysisStepIInv DEF Next

\* Every reachable state satisfies the inductive invariant.
THEOREM Invariance == Spec => []IInv
    BY InitIInv, Inductive, PTL DEF Spec

--------------------------------------------------------------------------------
(* What the invariant gives: the properties TLC checks on small instances. *)

\* Every column, program counter and history variable keeps its type.
THEOREM TypeCorrect == Spec => []TypeOK
    BY Invariance, PTL DEF IInv

\* Of two different links that issue has returned, one has been revoked or deleted
\* since: there is one live link (OneLive), and whoever returned had read a link.
THEOREM IssueAlwaysIdempotent == Spec => []IssueIsIdempotent
<1>1. IInv => IssueIsIdempotent
    BY DEF IInv, OneLive, LinkFollowsCall, IssueIsIdempotent
<1> QED
    BY <1>1, Invariance, PTL

\* A link that was live when DELETE .../share began shows nothing to those who open
\* it after the 204, whatever was issued, revoked, analysed or deleted around it.
THEOREM RevokedLinksStayShut == Spec => []RevokedLinkStaysShut
<1>1. IInv => RevokedLinkStaysShut
    BY DEF IInv, LateViewersRefused, RevokedLinkStaysShut
<1> QED
    BY <1>1, Invariance, PTL

\* A live link has a result behind it unless expire_stale took a finished analysis
\* back: the check of issue still holds when the link is inserted and afterwards.
THEOREM LinksHaveResults == Spec => []LinkHasResult
<1>1. IInv => LinkHasResult
    BY DEF IInv, ResultBehindLink
<1> QED
    BY <1>1, Invariance, PTL
================================================================================
