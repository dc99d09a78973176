-------------------------------- MODULE Sharing --------------------------------
(***************************************************************************)
(* Public links to the result of one submission: app/services/shares.py    *)
(* with its callers in app/routers/submissions.py and shared.py.           *)
(*                                                                         *)
(* The analysis side is the row store of PredictionStore.tla, which the    *)
(* handlers and the task of Analysis.tla implement.  A link (a row of      *)
(* submission_shares with its token) is named by the POST .../share call   *)
(* that inserts it.                                                        *)
(***************************************************************************)
EXTENDS PredictionStore

CONSTANTS
    Issuer,             \* the POST   /{submission_id}/share calls, and the links
    Revoker,            \* the DELETE /{submission_id}/share calls
    Viewer,             \* the GET    /api/shared/{token} calls
    None                \* "no link"

ASSUME SharingConstants ==
    /\ None \notin Issuer
    /\ Issuer \cap Revoker = {} /\ Issuer \cap Viewer = {} /\ Revoker \cap Viewer = {}

VARIABLES
    link,               \* row of each link: absent, live (revoked_at NULL) or revoked
    pc,                 \* where each call stands
    target,             \* the link the call has read, returns or opens
    \* History, read by the properties alone:
    shutBy,             \* the links live when each DELETE call began
    openedShut,         \* the GET calls whose link an answered DELETE had shut before
    withdrawn           \* a done analysis was failed by a late expire_stale

shareVars == <<link, pc, target, shutBy, openedShut, withdrawn>>
vars == <<storeVars, shareVars>>

Call == Issuer \cup Revoker \cup Viewer

Pc == {"idle", "check", "insert", "reread", "refresh", "returned",
       "stamp", "closed", "read", "shown", "refused"}

TypeOK ==
    /\ StoreTypeOK
    /\ link \in [Issuer -> {"absent", "live", "revoked"}]
    /\ pc \in [Call -> Pc]
    /\ target \in [Call -> Issuer \cup {None}]
    /\ shutBy \in [Revoker -> SUBSET Issuer]
    /\ openedShut \subseteq Viewer
    /\ withdrawn \in BOOLEAN

Init ==
    /\ StoreInit
    /\ link = [i \in Issuer |-> "absent"]
    /\ pc = [c \in Call |-> "idle"]
    /\ target = [c \in Call |-> None]
    /\ shutBy = [k \in Revoker |-> {}]
    /\ openedShut = {}
    /\ withdrawn = FALSE

--------------------------------------------------------------------------------
\* active_share: the link whose revoked_at is NULL.
Live == {i \in Issuer : link[i] = "live"}

Goto(c, to) == pc' = [pc EXCEPT ![c] = to]
Aim(c, i) == target' = [target EXCEPT ![c] = i]

\* owned_submission answers 404 when the submission is gone.
Refuse404(c) ==
    /\ ~exists
    /\ Goto(c, "refused")
    /\ UNCHANGED target

--------------------------------------------------------------------------------
(* issue                                                                   *)

IssueBegin(i) ==
    /\ pc[i] = "idle"
    /\ \/ Refuse404(i)
       \/ /\ exists
          /\ \/ \E l \in Live : Aim(i, l) /\ Goto(i, "returned")
             \/ Live = {} /\ Goto(i, "check") /\ UNCHANGED target
    /\ UNCHANGED <<storeVars, link, shutBy, openedShut, withdrawn>>

\* Variant: no 409.
IssueCheckSkipped(i) ==
    /\ pc[i] = "check"
    /\ Goto(i, "insert")
    /\ UNCHANGED <<storeVars, link, target, shutBy, openedShut, withdrawn>>

\* No finished analysis: 409.
IssueCheck(i) ==
    /\ pc[i] = "check"
    /\ Goto(i, IF Done = {} THEN "refused" ELSE "insert")
    /\ UNCHANGED <<storeVars, link, target, shutBy, openedShut, withdrawn>>

\* Variant: no index submission_shares_one_active.
IssueInsertWithoutIndex(i) ==
    /\ pc[i] = "insert"
    /\ exists
    /\ link' = [link EXCEPT ![i] = "live"]
    /\ Aim(i, i)
    /\ Goto(i, "refresh")
    /\ UNCHANGED <<storeVars, shutBy, openedShut, withdrawn>>

\* INSERT and COMMIT; the foreign key and the index submission_shares_one_active
\* turn into IntegrityError.
IssueInsert(i) ==
    /\ pc[i] = "insert"
    /\ \/ /\ exists /\ Live = {}
          /\ link' = [link EXCEPT ![i] = "live"]
          /\ Aim(i, i)
          /\ Goto(i, "refresh")
       \/ /\ ~exists \/ Live # {}
          /\ Goto(i, "reread")
          /\ UNCHANGED <<link, target>>
    /\ UNCHANGED <<storeVars, shutBy, openedShut, withdrawn>>

\* The other call's link is returned, unless it was revoked since: a 500.
IssueReread(i) ==
    /\ pc[i] = "reread"
    /\ \/ \E l \in Live : Aim(i, l) /\ Goto(i, "returned")
       \/ Live = {} /\ Goto(i, "refused") /\ UNCHANGED target
    /\ UNCHANGED <<storeVars, link, shutBy, openedShut, withdrawn>>

\* db.refresh of the new row, which the deletion of the submission may have taken.
IssueRefresh(i) ==
    /\ pc[i] = "refresh"
    /\ Goto(i, IF link[i] = "absent" THEN "refused" ELSE "returned")
    /\ UNCHANGED <<storeVars, link, target, shutBy, openedShut, withdrawn>>

--------------------------------------------------------------------------------
(* revoke                                                                  *)

RevokeBegin(k) ==
    /\ pc[k] = "idle"
    /\ shutBy' = [shutBy EXCEPT ![k] = Live]
    /\ \/ Refuse404(k)
       \/ /\ exists
          /\ \/ \E l \in Live : Aim(k, l) /\ Goto(k, "stamp")
             \/ Live = {} /\ Goto(k, "closed") /\ UNCHANGED target
    /\ UNCHANGED <<storeVars, link, openedShut, withdrawn>>

\* revoked_at is written by primary key; a deleted row raises StaleDataError.
RevokeCommit(k) ==
    /\ pc[k] = "stamp"
    /\ \/ /\ link[target[k]] # "absent"
          /\ link' = [link EXCEPT ![target[k]] = "revoked"]
          /\ Goto(k, "closed")
       \/ /\ link[target[k]] = "absent"
          /\ Goto(k, "refused")
          /\ UNCHANGED link
    /\ UNCHANGED <<storeVars, target, shutBy, openedShut, withdrawn>>

--------------------------------------------------------------------------------
(* resolve                                                                 *)

\* Links whose revocation has been answered with 204.
Shut == UNION {shutBy[k] : k \in {q \in Revoker : pc[q] = "closed"}}

\* Variant: revoked_at is not tested.
ViewTokenAnyRow(v, i) ==
    /\ pc[v] = "idle"
    /\ Aim(v, i)
    /\ Goto(v, IF link[i] # "absent" THEN "read" ELSE "refused")
    /\ openedShut' = IF i \in Shut THEN openedShut \cup {v} ELSE openedShut
    /\ UNCHANGED <<storeVars, link, shutBy, withdrawn>>

\* The token's row: a revoked or deleted one is a 404 like an unknown token.
ViewToken(v, i) ==
    /\ pc[v] = "idle"
    /\ Aim(v, i)
    /\ Goto(v, IF link[i] = "live" THEN "read" ELSE "refused")
    /\ openedShut' = IF i \in Shut THEN openedShut \cup {v} ELSE openedShut
    /\ UNCHANGED <<storeVars, link, shutBy, withdrawn>>

\* The submission and latest_done_prediction; the report goes out.
ViewResult(v) ==
    /\ pc[v] = "read"
    /\ Goto(v, IF exists /\ Done # {} THEN "shown" ELSE "refused")
    /\ UNCHANGED <<storeVars, link, target, shutBy, openedShut, withdrawn>>

--------------------------------------------------------------------------------
\* The rows change under the links; the deletion cascades to both.
AnalysisStep ==
    /\ StoreNext
    /\ link' = IF exists' THEN link ELSE [i \in Issuer |-> "absent"]
    /\ withdrawn' = (withdrawn \/ \E r \in Done : status'[r] = "failed")
    /\ UNCHANGED <<pc, target, shutBy, openedShut>>

IssueStep(i) ==
    \/ IssueBegin(i) \/ IssueCheck(i) \/ IssueInsert(i) \/ IssueReread(i)
    \/ IssueRefresh(i)

Next ==
    \/ \E i \in Issuer : IssueStep(i)
    \/ \E k \in Revoker : RevokeBegin(k) \/ RevokeCommit(k)
    \/ \E v \in Viewer : ViewResult(v) \/ \E i \in Issuer : ViewToken(v, i)
    \/ AnalysisStep

Spec == Init /\ [][Next]_vars

--------------------------------------------------------------------------------
(* Properties.                                                             *)

\* Sharing twice does not kill the link sent first: two calls that returned
\* different links can do so only when one of them has been revoked since.
IssueIsIdempotent ==
    \A i, j \in Issuer :
        (pc[i] = "returned" /\ pc[j] = "returned" /\ target[i] # target[j]) =>
            {target[i], target[j]} \cap Live # {target[i], target[j]}

\* A link that was live when an owner's DELETE began shows nothing to a viewer who
\* opens it after the DELETE was answered (comment in issue: without the index the
\* DELETE would shut one of two live links and report success).
RevokedLinkStaysShut == \A v \in openedShut : pc[v] # "shown"

\* A live link has a result to show, unless a finished analysis was taken back by
\* expire_stale after the link was issued: link and rows live in different tables
\* and the check in issue is not repeated when the link is inserted or opened.
LinkHasResult == Live # {} /\ ~withdrawn => Done # {}
================================================================================
